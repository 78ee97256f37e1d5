--------------------------- MODULE PrivBatchHook ---------------------------
(***************************************************************************)
(* contracts/PrivBatchHook.sol: the commit-reveal batch-swap hook.  Users  *)
(* commit to hashes of swap intents, reveal the intents later, and anybody *)
(* may execute a batch of revealed intents as one net swap.                *)
(*                                                                         *)
(* One action is one transaction that succeeds: the EVM runs transactions  *)
(* one at a time, and one that reverts changes nothing, so a revert is a   *)
(* conjunct that disables the action.  The ERC20 tokens                    *)
(* (lib/SimpleERC20.sol) are the balances below, with the unlimited        *)
(* allowance the clients approve; the swap of the Uniswap PoolManager is   *)
(* external, any fill of at most the net input for any output it holds.    *)
(***************************************************************************)
EXTENDS BatchSettlement, FiniteSets

CONSTANTS
    Pools,            \* PoolIds
    Tokens,           \* ERC20 token addresses
    Currency0,        \* [Pools -> Tokens], the two currencies of a pool key
    Currency1,
    Users,            \* addresses that sign intents or receive output
    Hook,             \* the hook's own address
    PoolManager,      \* the Uniswap v4 singleton
    InitialBalance,   \* token balances before the first transaction
    Intents,          \* the swap intents users may sign
    NoIntent,         \* an empty slot of revealStorage (user = address(0))
    Hashes,           \* commitment hashes
    HashOf,           \* [Intents -> Hashes], keccak256 of an encoded intent
    Provable,         \* hashes with a valid Groth16 proof: Poseidon hashes
    MIN_COMMITMENTS,
    BATCH_INTERVAL,
    StartTime,        \* block.timestamp at deployment
    MaxTime,          \* bound: no block later than this
    MaxCopies,        \* bound: commitments of one hash in one pool
    MaxBatch          \* bound: commitments in one batch

Accounts == Users \cup {Hook, PoolManager}

SwapIntent == [user : Users, tokenIn : Tokens, tokenOut : Tokens,
               amountIn : Nat, minAmountOut : Nat, recipient : Users,
               nonce : Nat, deadline : Nat]

ASSUME ConstantsAssumption ==
    /\ Currency0 \in [Pools -> Tokens] /\ Currency1 \in [Pools -> Tokens]
    /\ \A p \in Pools : Currency0[p] # Currency1[p]   \* a PoolKey is sorted
    /\ Hook \notin Users /\ PoolManager \notin Users /\ Hook # PoolManager
    /\ InitialBalance \in [Accounts -> [Tokens -> Nat]]
    /\ Intents \subseteq SwapIntent /\ NoIntent \notin Intents
    /\ MIN_COMMITMENTS \in Nat \ {0} /\ BATCH_INTERVAL \in Nat \ {0}
    /\ StartTime \in Nat /\ MaxTime \in Nat
    /\ MaxCopies \in Nat /\ MaxBatch \in Nat

(* There are finitely many bytes32, keccak256 has no collisions, and no  *)
(* keccak256 hash is a Poseidon hash for which a proof can be made.      *)
ASSUME HashAssumption ==
    /\ IsFiniteSet(Hashes)
    /\ HashOf \in [Intents -> Hashes]
    /\ \A i, j \in Intents : HashOf[i] = HashOf[j] => i = j
    /\ Provable \subseteq Hashes
    /\ \A i \in Intents : HashOf[i] \notin Provable

VARIABLES
    now,                   \* block.timestamp
    pending,               \* commitments[pool]: unrevealed entries per hash
    revealed,              \* commitments[pool]: revealed entries per hash
    lastBatchTimestamp,    \* batchStates[pool]
    batchNonce,
    usedNonces,            \* the <<pool, user, nonce>> marked used
    revealStorage,         \* commitment hash -> stored intent, of all pools
    verifiedCommitments,   \* hashes verified with a proof, of all pools
    balance,               \* ERC20 balances
    legs                   \* the executed intents, one record for each

ledger == <<pending, revealed, lastBatchTimestamp, batchNonce, usedNonces>>
vars == <<now, ledger, revealStorage, verifiedCommitments, balance, legs>>

Init ==
    /\ now = StartTime
    /\ pending = [p \in Pools |-> [h \in Hashes |-> 0]]
    /\ revealed = [p \in Pools |-> [h \in Hashes |-> 0]]
    /\ lastBatchTimestamp = [p \in Pools |-> 0]
    /\ batchNonce = [p \in Pools |-> 0]
    /\ usedNonces = {}
    /\ revealStorage = [h \in Hashes |-> NoIntent]
    /\ verifiedCommitments = {}
    /\ balance = InitialBalance
    /\ legs = {}

(* Time passes between transactions. *)
Tick ==
    /\ now < MaxTime
    /\ now' = now + 1
    /\ UNCHANGED <<ledger, revealStorage, verifiedCommitments, balance, legs>>

(* ------------------------- commitments and reveals ------------------- *)

(* The entries of a pool with one hash differ only in `revealed', so the *)
(* array is counted, not listed: pushing is one more pending entry.      *)
Room(p, h) == pending[p][h] + revealed[p][h] < MaxCopies

Push(p, h) == pending' = [pending EXCEPT ![p][h] = @ + 1]

SubmitCommitment(p, h) ==
    /\ Room(p, h)
    /\ Push(p, h)
    /\ UNCHANGED <<now, revealed, lastBatchTimestamp, batchNonce, usedNonces,
                   revealStorage, verifiedCommitments, balance, legs>>

(* Pushes only when the pool has no entry of this hash, revealed or not. *)
SubmitCommitmentWithProof(p, h) ==
    /\ h \in Provable
    /\ IF pending[p][h] + revealed[p][h] = 0
       THEN Room(p, h) /\ Push(p, h)
       ELSE UNCHANGED pending
    /\ verifiedCommitments' = verifiedCommitments \cup {h}
    /\ UNCHANGED <<now, revealed, lastBatchTimestamp, batchNonce, usedNonces,
                   revealStorage, balance, legs>>

NonceOf(p, i) == <<p, i.user, i.nonce>>

RevealAllowed(p, i) ==
    /\ now <= i.deadline
    /\ NonceOf(p, i) \notin usedNonces

SubmitReveal(p, i) ==
    /\ RevealAllowed(p, i)
    /\ pending[p][HashOf[i]] > 0
    /\ revealStorage' = [revealStorage EXCEPT ![HashOf[i]] = i]
    /\ UNCHANGED <<now, ledger, verifiedCommitments, balance, legs>>

(* Trusts the proof: neither the intent's hash nor a commitment in this *)
(* pool is looked up.                                                   *)
SubmitRevealForZK(p, h, i) ==
    /\ h \in verifiedCommitments
    /\ RevealAllowed(p, i)
    /\ revealStorage' = [revealStorage EXCEPT ![h] = i]
    /\ UNCHANGED <<now, ledger, verifiedCommitments, balance, legs>>

(* ------------------------------- batches ------------------------------ *)

Batches == UNION {[1..n -> Hashes] : n \in MIN_COMMITMENTS..MaxBatch}

HashesOf(b) == {b[k] : k \in DOMAIN b}

(* The stored intents of the hashes of a batch. *)
Reveals(b) == [k \in DOMAIN b |-> revealStorage[b[k]]]

(* Mutant: one second early. *)
IntervalElapsed_offByOne(p) == now - lastBatchTimestamp[p] >= BATCH_INTERVAL - 1

IntervalElapsed(p) == now - lastBatchTimestamp[p] >= BATCH_INTERVAL

(* Mutant: the deadline was checked when the reveal came in. *)
DeadlinesMet_atReveal(b) == TRUE

DeadlinesMet(b) == \A k \in DOMAIN b : now <= revealStorage[b[k]].deadline

(* Mutant: nonces are compared with storage only, as if marked after the loop. *)
NoncesUnused_storageOnly(p, b) ==
    \A k \in DOMAIN b : NonceOf(p, revealStorage[b[k]]) \notin usedNonces

NoncesUnused(p, b) ==
    /\ \A k \in DOMAIN b : NonceOf(p, revealStorage[b[k]]) \notin usedNonces
    /\ \A j, k \in DOMAIN b :
          j # k => NonceOf(p, revealStorage[b[j]]) # NonceOf(p, revealStorage[b[k]])

(* Mutant: any entry of the hash will do, revealed, or of another pool. *)
CommitmentsPending_anyPool(p, b) ==
    \A k \in DOMAIN b : \E q \in Pools : pending[q][b[k]] > 0

CommitmentsPending(p, b) == \A k \in DOMAIN b : pending[p][b[k]] > 0

(* What _processReveals requires of every intent, the nonces and entries *)
(* used up by the ones before it included.                               *)
ProcessReveals(p, b) ==
    DeadlinesMet(b) /\ NoncesUnused(p, b) /\ CommitmentsPending(p, b)

(* The token movements of a batch: transferFrom of every input, the swap  *)
(* settled and taken by unlockCallback, the distribution.  SimpleERC20     *)
(* reverts a transfer its sender cannot cover, and checked arithmetic a   *)
(* negative remainder.                                                    *)
TakenFrom(is, a, t) ==
    SumIn(is, {k \in DOMAIN is : is[k].user = a /\ is[k].tokenIn = t})

CanPay(is) == \A a \in Users, t \in Tokens : TakenFrom(is, a, t) <= balance[a][t]

HookBalance(p, is, t, paid, out, payouts) ==
    LET c0 == Currency0[p]
        c1 == Currency1[p]
    IN  balance[Hook][t]
          + SumIn(is, {k \in DOMAIN is : is[k].tokenIn = t})
          - (IF t = InputCurrency(is, c0, c1) THEN paid ELSE 0)
          + (IF t = OutputCurrency(is, c0, c1)
             THEN out - SumFunctionOnSet(payouts, DOMAIN is)
             ELSE 0)

Settled(p, is, paid, out, payouts) ==
    LET c0 == Currency0[p]
        c1 == Currency1[p]
        Received(a, t) ==
            IF t = OutputCurrency(is, c0, c1)
            THEN SumFunctionOnSet(payouts, {k \in DOMAIN is : is[k].recipient = a})
            ELSE 0
        PoolBalance(t) ==
            balance[PoolManager][t]
              + (IF t = InputCurrency(is, c0, c1) THEN paid ELSE 0)
              - (IF t = OutputCurrency(is, c0, c1) THEN out ELSE 0)
    IN  [a \in Accounts |-> [t \in Tokens |->
            IF a = Hook THEN HookBalance(p, is, t, paid, out, payouts)
            ELSE IF a = PoolManager THEN PoolBalance(t)
            ELSE balance[a][t] - TakenFrom(is, a, t) + Received(a, t)]]

(* _validateBatchPrivacy, _executeBatchSwap, _validateSlippage and         *)
(* _distributeTokens for a fill `paid' of the net input that yields `out'. *)
Settle(p, is, paid, out) ==
    LET c0 == Currency0[p]
        c1 == Currency1[p]
        payouts == Payouts(is, c0, c1, out)
        after == Settled(p, is, paid, out, payouts)
    IN  /\ CanPay(is)
        /\ ValidSwap(is, c0)
        /\ SlippageOK(is, c0, c1, out)
        /\ payouts \in [DOMAIN is -> Nat]
        /\ after \in [Accounts -> [Tokens -> Nat]]
        /\ balance' = after

(* The BatchExecuted and TokensDistributed events, one leg per intent.   *)
(* `entitled' says that the intent swaps the batch's way and that the    *)
(* swap had an output to divide.                                         *)
LegOf(p, b, is, out, k) ==
    [pool |-> p, batch |-> batchNonce[p], hash |-> b[k], intent |-> is[k],
     received |-> Payouts(is, Currency0[p], Currency1[p], out)[k],
     entitled |-> /\ k \in Eligible(is, Currency0[p], Currency1[p])
                  /\ Distributes(is, Currency0[p], Currency1[p], out),
     at |-> now]

NewLegs(p, b, is, out) == {LegOf(p, b, is, out, k) : k \in DOMAIN is}

(* Mutant: the nonce is never recorded. *)
MarkNonces_forgotten(p, is) == UNCHANGED usedNonces

MarkNonces(p, is) ==
    usedNonces' = usedNonces \cup {NonceOf(p, is[k]) : k \in DOMAIN is}

(* Mutants: stored reveals are kept, or all dropped. *)
DeleteReveals_forgotten(b) == UNCHANGED revealStorage

DeleteReveals_all(b) == revealStorage' = [h \in Hashes |-> NoIntent]

DeleteReveals(b) ==
    revealStorage' = [h \in Hashes |->
                        IF h \in HashesOf(b) THEN NoIntent ELSE revealStorage[h]]

(* `marks' of the pending entries of each hash of the batch become revealed. *)
MarkRevealed(p, b, marks) ==
    /\ pending' = [pending EXCEPT ![p] =
                     [h \in Hashes |-> @[h] - IF h \in HashesOf(b) THEN marks[h] ELSE 0]]
    /\ revealed' = [revealed EXCEPT ![p] =
                     [h \in Hashes |-> @[h] + IF h \in HashesOf(b) THEN marks[h] ELSE 0]]

(* Every fill <<paid, out>> the PoolManager may answer the batch's exact-input swap with: *)
(* all of the net input or, when liquidity runs out, a part of it; the      *)
(* output may round to nothing.                                            *)
Fills(p, is) ==
    LET t == OutputCurrency(is, Currency0[p], Currency1[p])
    IN  {fill \in (0 .. NetInput(is, Currency0[p])) \X (0 .. balance[PoolManager][t]) :
            fill[2] > 0 => fill[1] > 0}

(* What both batch functions do once their own checks have passed. *)
ExecuteBatch(p, b, marks) ==
    LET is == Reveals(b)
    IN  /\ IntervalElapsed(p)
        /\ ProcessReveals(p, b)
        /\ \E fill \in Fills(p, is) :
              /\ Settle(p, is, fill[1], fill[2])
              /\ legs' = legs \cup NewLegs(p, b, is, fill[2])
        /\ MarkRevealed(p, b, marks)
        /\ MarkNonces(p, is)
        /\ lastBatchTimestamp' = [lastBatchTimestamp EXCEPT ![p] = now]
        /\ batchNonce' = [batchNonce EXCEPT ![p] = @ + 1]
        /\ DeleteReveals(b)
        /\ UNCHANGED now

AllStored(b) == \A k \in DOMAIN b : revealStorage[b[k]] # NoIntent

RevealAndBatchExecute(p, b) ==
    /\ AllStored(b)
    /\ \A k \in DOMAIN b : HashOf[revealStorage[b[k]]] = b[k]
    /\ ExecuteBatch(p, b, [h \in Hashes |-> 1])
    /\ UNCHANGED verifiedCommitments

(* The second marking loop of this path consumes one more pending entry of *)
(* each hash of the batch, when there is one.  Mutant: whether there is    *)
(* one or not.                                                             *)
BothMarkingLoops_unconditional(p) == [h \in Hashes |-> 2]

BothMarkingLoops(p) == [h \in Hashes |-> IF pending[p][h] > 1 THEN 2 ELSE 1]

RevealAndBatchExecuteWithProofs(p, b) ==
    /\ HashesOf(b) \subseteq Provable
    /\ AllStored(b)
    /\ ExecuteBatch(p, b, BothMarkingLoops(p))
    /\ verifiedCommitments' = verifiedCommitments \cup HashesOf(b)

Next ==
    \/ Tick
    \/ \E p \in Pools, h \in Hashes : SubmitCommitment(p, h)
    \/ \E p \in Pools, h \in Hashes : SubmitCommitmentWithProof(p, h)
    \/ \E p \in Pools, i \in Intents : SubmitReveal(p, i)
    \/ \E p \in Pools, h \in Hashes, i \in Intents : SubmitRevealForZK(p, h, i)
    \/ \E p \in Pools, b \in Batches : RevealAndBatchExecute(p, b)
    \/ \E p \in Pools, b \in Batches : RevealAndBatchExecuteWithProofs(p, b)

Spec == Init /\ [][Next]_vars

(* ------------------------------ view functions ------------------------ *)

GetPendingCommitmentCount(p) == SumFunctionOnSet(pending[p], Hashes)

Checker(p) ==
    /\ GetPendingCommitmentCount(p) >= MIN_COMMITMENTS
    /\ IntervalElapsed(p)

(* ------------------------------ properties ---------------------------- *)

Leg == [pool : Pools, batch : Nat, hash : Hashes, intent : Intents,
        received : Nat, entitled : BOOLEAN, at : Nat]

(* Every variable of the contract keeps its declared type: counters and    *)
(* balances never go negative, a stored reveal is an intent or empty, and  *)
(* an executed leg names a pool, hash and intent of the deployment.        *)
TypeOK ==
    /\ now \in Nat
    /\ pending \in [Pools -> [Hashes -> Nat]]
    /\ revealed \in [Pools -> [Hashes -> Nat]]
    /\ lastBatchTimestamp \in [Pools -> Nat]
    /\ batchNonce \in [Pools -> Nat]
    /\ usedNonces \subseteq (Pools \X Users \X Nat)
    /\ revealStorage \in [Hashes -> Intents \cup {NoIntent}]
    /\ verifiedCommitments \subseteq Hashes
    /\ balance \in [Accounts -> [Tokens -> Nat]]
    /\ legs \subseteq Leg

(* A (pool, user, nonce) is executed at most once, and usedNonces holds    *)
(* exactly the executed ones: no batch, keccak or ZK, replays an intent,   *)
(* and none burns a nonce without executing it.                            *)
SingleExecution ==
    /\ usedNonces = {NonceOf(l.pool, l.intent) : l \in legs}
    /\ \A l, m \in legs : NonceOf(l.pool, l.intent) = NonceOf(m.pool, m.intent) => l = m

(* The revealed flag records execution: a pool holds a revealed entry of a *)
(* hash exactly when it executed an intent under that hash, and of a       *)
(* keccak hash it holds at most one, however often it was committed and in *)
(* however many batches it was listed.                                     *)
RevealedIffExecuted ==
    /\ \A p \in Pools, h \in Hashes :
          revealed[p][h] > 0 <=> \E l \in legs : l.pool = p /\ l.hash = h
    /\ \A p \in Pools, i \in Intents : revealed[p][HashOf[i]] <= 1

(* What is stored under a keccak hash is that hash's own intent, and a     *)
(* pool still has a commitment to it: submitRevealForZK never writes       *)
(* there, and every execution clears the reveal it used.                   *)
RevealsAreCommitted ==
    \A h \in Hashes \ Provable :
        revealStorage[h] # NoIntent =>
            /\ HashOf[revealStorage[h]] = h
            /\ \E p \in Pools : pending[p][h] > 0

(* A leg of a keccak commitment carries the committed intent. *)
LegSigned(l) == l.hash \notin Provable => l.hash = HashOf[l.intent]

LegInTime(l) == l.at <= l.intent.deadline

(* A leg that swaps the batch's way and shares an output gets its minimum. *)
LegGetsMinimum(l) == l.entitled => l.received >= l.intent.minAmountOut

(* Executed as signed: what a leg executes is the committed intent, before *)
(* its deadline and for at least its minAmountOut, with the floor shares   *)
(* and the last one's remainder as they are paid, not as they were         *)
(* estimated by _validateSlippage.                                         *)
ExecutedAsSigned ==
    \A l \in legs : LegSigned(l) /\ LegInTime(l) /\ LegGetsMinimum(l)

(* Batches of one pool are at least BATCH_INTERVAL apart.                  *)
BatchesSpaced ==
    \A l, m \in legs :
        l.pool = m.pool /\ l.batch < m.batch => m.at - l.at >= BATCH_INTERVAL

(* A batch never spends what earlier batches left with the hook: the input *)
(* it settles with the PoolManager and the output it hands out are covered *)
(* by what this batch's users paid in and what its swap returned.  (Of     *)
(* intents that pay in one of the pool's currencies: the delta loop counts *)
(* any other currency as currency1.)                                       *)
PaysInPoolCurrency(l) == l.intent.tokenIn \in {Currency0[l.pool], Currency1[l.pool]}

HookNeverSubsidises ==
    [][(\A l \in legs' \ legs : PaysInPoolCurrency(l)) =>
          \A t \in Tokens : balance'[Hook][t] >= balance[Hook][t]]_vars

(* A swap output is handed out whole: when a batch has entitled legs, they *)
(* receive together what the PoolManager paid out, without rounding dust.  *)
OutputFullyDistributed ==
    [][LET new == legs' \ legs
       IN  (\E l \in new : l.entitled) =>
              \E t \in Tokens :
                  SumFunctionOnSet([l \in new |-> l.received], new)
                     = balance[PoolManager][t] - balance'[PoolManager][t]]_vars

(* A pool's batch counter moves only when checker() said that it could:    *)
(* what the off-chain monitors wait for is necessary for a batch, on both  *)
(* execution paths.                                                        *)
BatchOnlyWhenChecker ==
    [][\A p \in Pools : batchNonce'[p] # batchNonce[p] => Checker(p)]_vars

(* A stored reveal leaves storage only by being executed in that step.     *)
RevealConsumedByExecution ==
    [][\A h \in Hashes :
          revealStorage[h] # NoIntent /\ revealStorage'[h] = NoIntent =>
              \E l \in legs' \ legs : l.hash = h /\ l.intent = revealStorage[h]]_vars

(* An intent's status in a pool, as the entries of its keccak hash tell it. *)
StatusOf(p, i) ==
    IF revealed[p][HashOf[i]] > 0 THEN "executed"
    ELSE IF pending[p][HashOf[i]] > 0 THEN "committed"
    ELSE "none"

Lifecycle == INSTANCE IntentLifecycle WITH
    status <- [p \in Pools |-> [i \in Intents |-> StatusOf(p, i)]],
    lastBatch <- lastBatchTimestamp

(* The contract implements the life cycle of IntentLifecycle.tla: every    *)
(* transaction is one of its steps or leaves it unchanged.                 *)
ImplementsLifecycle == Lifecycle!Spec

(* PrivBatchHook.sol:531 "Validate slippage for all users before           *)
(* distribution": every leg of a batch with an output gets its minimum.    *)
AllUsersGetMinimum ==
    \A l \in legs :
        (\E m \in legs : m.pool = l.pool /\ m.batch = l.batch /\ m.entitled) =>
            l.received >= l.intent.minAmountOut

(* Whether a commitment of this hash could still be revealed and executed. *)
Executable(p, h) ==
    /\ pending[p][h] > 0
    /\ \/ h \in Provable
       \/ \E i \in Intents : HashOf[i] = h /\ RevealAllowed(p, i)

(* PrivBatchHook.sol:376 "canExec Whether execution can proceed": when     *)
(* checker() says so, enough of the pool's commitments can be executed.    *)
CheckerMeansExecutable ==
    \A p \in Pools : Checker(p) =>
        Cardinality({h \in Hashes : Executable(p, h)}) >= MIN_COMMITMENTS

=============================================================================
