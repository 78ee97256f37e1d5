------------------------ MODULE PrivBatchHookProofs ------------------------
(***************************************************************************)
(* Proofs about PrivBatchHook.tla, for every number of pools, users,       *)
(* intents and hashes and all bounds.                                      *)
(***************************************************************************)
EXTENDS PrivBatchHook, BatchSettlementProofs

USE DEF ledger

(* A batch is a function from positions to hashes. *)
LEMMA BatchType ==
    ASSUME NEW b \in Batches
    PROVE  \E n \in Nat : /\ n >= MIN_COMMITMENTS
                          /\ b \in [1..n -> Hashes]
                          /\ DOMAIN b = 1..n
  BY ConstantsAssumption DEF Batches

(* What a batch of stored reveals looks like when it executes. *)
LEMMA StoredIntents ==
    ASSUME TypeOK, NEW b \in Batches, AllStored(b)
    PROVE  /\ DOMAIN Reveals(b) = DOMAIN b
           /\ \A k \in DOMAIN b : /\ b[k] \in Hashes
                                  /\ Reveals(b)[k] = revealStorage[b[k]]
                                  /\ Reveals(b)[k] \in Intents
                                  /\ Reveals(b)[k] \in SwapIntent
  BY BatchType, ConstantsAssumption DEF TypeOK, AllStored, Reveals

LEMMA RevealsAreBatch ==
    ASSUME TypeOK, NEW b \in Batches, AllStored(b)
    PROVE  IsBatch(Reveals(b))
  <1>1. PICK n \in Nat : b \in [1..n -> Hashes] /\ DOMAIN b = 1..n
    BY BatchType
  <1>2. \A k \in DOMAIN b : Reveals(b)[k].amountIn \in Nat /\ Reveals(b)[k].minAmountOut \in Nat
    BY StoredIntents DEF SwapIntent
  <1> QED  BY <1>1, <1>2, StoredIntents DEF IsBatch

(* The two ways an intent is executed differ in their hash checks and in   *)
(* how many entries they mark.                                             *)
Marks(p, marks) ==
    \A h \in Hashes : pending[p][h] > 0 => marks[h] \in 1..pending[p][h]

LEMMA MarksOfPaths ==
    ASSUME TypeOK, NEW p \in Pools
    PROVE  Marks(p, [h \in Hashes |-> 1]) /\ Marks(p, BothMarkingLoops(p))
  BY DEF TypeOK, Marks, BothMarkingLoops

(* The fields of an executed leg. *)
LEMMA LegFields ==
    ASSUME NEW p, NEW b, NEW is, NEW out, NEW k
    PROVE  /\ LegOf(p, b, is, out, k).pool = p
           /\ LegOf(p, b, is, out, k).batch = batchNonce[p]
           /\ LegOf(p, b, is, out, k).hash = b[k]
           /\ LegOf(p, b, is, out, k).intent = is[k]
           /\ LegOf(p, b, is, out, k).at = now
  BY DEF LegOf

(* A batch that settles adds well-typed legs. *)
LEMMA NewLegsType ==
    ASSUME TypeOK, NEW p \in Pools, NEW b \in Batches, AllStored(b),
           NEW paid, NEW out, Settle(p, Reveals(b), paid, out)
    PROVE  NewLegs(p, b, Reveals(b), out) \subseteq Leg
  <1> DEFINE is == Reveals(b)
  <1>1. Payouts(is, Currency0[p], Currency1[p], out) \in [DOMAIN is -> Nat]
    BY DEF Settle
  <1>2. SUFFICES ASSUME NEW k \in DOMAIN is
                 PROVE  LegOf(p, b, is, out, k) \in Leg
    BY DEF NewLegs
  <1>3. /\ b[k] \in Hashes
        /\ is[k] \in Intents
        /\ Payouts(is, Currency0[p], Currency1[p], out)[k] \in Nat
        /\ batchNonce[p] \in Nat
        /\ now \in Nat
    BY <1>1, <1>2, StoredIntents DEF TypeOK
  <1>4. (/\ k \in Eligible(is, Currency0[p], Currency1[p])
         /\ Distributes(is, Currency0[p], Currency1[p], out)) \in BOOLEAN
    OBVIOUS
  <1> QED  BY <1>3, <1>4 DEF LegOf, Leg

(* The nonces a batch burns are triples of its pool, a user and a number. *)
LEMMA NewNoncesType ==
    ASSUME TypeOK, NEW p \in Pools, NEW b \in Batches, AllStored(b)
    PROVE  {NonceOf(p, Reveals(b)[k]) : k \in DOMAIN Reveals(b)}
              \subseteq (Pools \X Users \X Nat)
  BY StoredIntents DEF NonceOf, SwapIntent

(* A batch moves entries from pending to revealed without going negative. *)
LEMMA MarkRevealedType ==
    ASSUME TypeOK, NEW p \in Pools, NEW b \in Batches, NEW marks,
           Marks(p, marks), CommitmentsPending(p, b), MarkRevealed(p, b, marks)
    PROVE  /\ pending' \in [Pools -> [Hashes -> Nat]]
           /\ revealed' \in [Pools -> [Hashes -> Nat]]
  <1>1. ASSUME NEW h \in Hashes
        PROVE  /\ pending[p][h] - (IF h \in HashesOf(b) THEN marks[h] ELSE 0) \in Nat
               /\ revealed[p][h] + (IF h \in HashesOf(b) THEN marks[h] ELSE 0) \in Nat
    <2>1. pending[p][h] \in Nat /\ revealed[p][h] \in Nat
      BY DEF TypeOK
    <2>2. CASE h \in HashesOf(b)
      <3>1. pending[p][h] > 0
        BY <2>2 DEF HashesOf, CommitmentsPending
      <3>2. marks[h] \in 1..pending[p][h]
        BY <3>1 DEF Marks
      <3> QED  BY <2>1, <2>2, <3>2
    <2>3. CASE h \notin HashesOf(b)
      BY <2>1, <2>3
    <2> QED  BY <2>2, <2>3
  <1> QED  BY <1>1 DEF MarkRevealed, TypeOK

(* A batch keeps the types, whichever path executes it. *)
LEMMA ExecuteBatchType ==
    ASSUME TypeOK, NEW p \in Pools, NEW b \in Batches, NEW marks,
           AllStored(b), Marks(p, marks), ExecuteBatch(p, b, marks),
           verifiedCommitments' \subseteq Hashes
    PROVE  TypeOK'
  <1> DEFINE is == Reveals(b)
  <1>1. PICK fill \in Fills(p, is) :
           /\ Settle(p, is, fill[1], fill[2])
           /\ legs' = legs \cup NewLegs(p, b, is, fill[2])
    BY DEF ExecuteBatch
  <1>2. now' \in Nat
    BY DEF ExecuteBatch, TypeOK
  <1>3. pending' \in [Pools -> [Hashes -> Nat]] /\ revealed' \in [Pools -> [Hashes -> Nat]]
    BY MarkRevealedType DEF ExecuteBatch, ProcessReveals
  <1>4. lastBatchTimestamp' \in [Pools -> Nat] /\ batchNonce' \in [Pools -> Nat]
    BY DEF ExecuteBatch, TypeOK
  <1>5. usedNonces' \subseteq (Pools \X Users \X Nat)
    BY NewNoncesType DEF ExecuteBatch, MarkNonces, TypeOK
  <1>6. revealStorage' \in [Hashes -> Intents \cup {NoIntent}]
    BY DEF ExecuteBatch, DeleteReveals, TypeOK
  <1>7. balance' \in [Accounts -> [Tokens -> Nat]]
    BY <1>1 DEF Settle
  <1>8. legs' \subseteq Leg
    BY <1>1, NewLegsType DEF TypeOK
  <1> QED  BY <1>2, <1>3, <1>4, <1>5, <1>6, <1>7, <1>8 DEF TypeOK

(* Every variable keeps its type, whatever the transactions. *)
THEOREM TypeCorrect == Spec => []TypeOK
  <1>1. Init => TypeOK
    BY ConstantsAssumption DEF Init, TypeOK
  <1>2. TypeOK /\ [Next]_vars => TypeOK'
    <2> SUFFICES ASSUME TypeOK, [Next]_vars PROVE TypeOK'
      OBVIOUS
    <2>1. CASE Tick
      BY <2>1 DEF Tick, TypeOK
    <2>2. ASSUME NEW p \in Pools, NEW h \in Hashes, SubmitCommitment(p, h)
          PROVE  TypeOK'
      BY <2>2 DEF SubmitCommitment, Push, TypeOK
    <2>3. ASSUME NEW p \in Pools, NEW h \in Hashes, SubmitCommitmentWithProof(p, h)
          PROVE  TypeOK'
      <3>1. pending' \in [Pools -> [Hashes -> Nat]]
        BY <2>3 DEF SubmitCommitmentWithProof, Push, TypeOK
      <3>2. verifiedCommitments' \subseteq Hashes
        BY <2>3 DEF SubmitCommitmentWithProof, TypeOK
      <3> QED  BY <2>3, <3>1, <3>2 DEF SubmitCommitmentWithProof, TypeOK
    <2>4. ASSUME NEW p \in Pools, NEW i \in Intents, SubmitReveal(p, i)
          PROVE  TypeOK'
      BY <2>4, HashAssumption DEF SubmitReveal, TypeOK
    <2>5. ASSUME NEW p \in Pools, NEW h \in Hashes, NEW i \in Intents,
                 SubmitRevealForZK(p, h, i)
          PROVE  TypeOK'
      BY <2>5 DEF SubmitRevealForZK, TypeOK
    <2>6. ASSUME NEW p \in Pools, NEW b \in Batches, RevealAndBatchExecute(p, b)
          PROVE  TypeOK'
      <3>1. verifiedCommitments' \subseteq Hashes
        BY <2>6 DEF RevealAndBatchExecute, TypeOK
      <3> QED  BY <2>6, <3>1, ExecuteBatchType, MarksOfPaths DEF RevealAndBatchExecute
    <2>7. ASSUME NEW p \in Pools, NEW b \in Batches, RevealAndBatchExecuteWithProofs(p, b)
          PROVE  TypeOK'
      <3>1. verifiedCommitments' \subseteq Hashes
        BY <2>7, HashAssumption DEF RevealAndBatchExecuteWithProofs, TypeOK
      <3> QED  BY <2>7, <3>1, ExecuteBatchType, MarksOfPaths
               DEF RevealAndBatchExecuteWithProofs
    <2>8. CASE UNCHANGED vars
      BY <2>8 DEF vars, TypeOK
    <2> QED  BY <2>1, <2>2, <2>3, <2>4, <2>5, <2>6, <2>7, <2>8 DEF Next
  <1> QED  BY <1>1, <1>2, PTL DEF Spec

(* ------------------------- the ledger invariant ------------------------ *)

(* The proofs, the counters and the clock agree with what was executed.    *)
LegsRecorded ==
    /\ verifiedCommitments \subseteq Provable
    /\ \A l \in legs : /\ l.batch < batchNonce[l.pool]
                        /\ l.at <= lastBatchTimestamp[l.pool]

(* Inductive: that a keccak hash is marked at most once needs its leg to   *)
(* carry its own intent (ExecutedAsSigned), so that its nonce is used      *)
(* (SingleExecution); that stored keccak reveals are never overwritten     *)
(* needs the verified hashes to be provable ones (LegsRecorded).           *)
IInv ==
    /\ TypeOK
    /\ LegsRecorded
    /\ ExecutedAsSigned
    /\ SingleExecution
    /\ RevealedIffExecuted
    /\ RevealsAreCommitted
    /\ BatchesSpaced

(* What the checks of either path say of the hashes of a batch. *)
Matched(b, marks) ==
    \A k \in DOMAIN b :
        \/ b[k] \in Provable
        \/ HashOf[revealStorage[b[k]]] = b[k] /\ marks[b[k]] = 1

(* A settled leg that shares an output is paid its minimum. *)
LEMMA NewLegGetsMinimum ==
    ASSUME TypeOK, NEW p \in Pools, NEW b \in Batches, AllStored(b),
           NEW paid, NEW out \in Nat, Settle(p, Reveals(b), paid, out),
           NEW k \in DOMAIN Reveals(b)
    PROVE  LegGetsMinimum(LegOf(p, b, Reveals(b), out, k))
  <1> DEFINE is == Reveals(b)
             c0 == Currency0[p]
             c1 == Currency1[p]
             leg == LegOf(p, b, is, out, k)
  <1>1. IsBatch(is) /\ SlippageOK(is, c0, c1, out)
    BY RevealsAreBatch DEF Settle
  <1>2. /\ leg.entitled = (k \in Eligible(is, c0, c1) /\ Distributes(is, c0, c1, out))
        /\ leg.received = Payouts(is, c0, c1, out)[k]
        /\ leg.intent = is[k]
    BY DEF LegOf
  <1>3. ASSUME leg.entitled
        PROVE  leg.received >= leg.intent.minAmountOut
    <2>1. Payouts(is, c0, c1, out)[k] >= is[k].minAmountOut
      BY <1>1, <1>2, <1>3, MinimumIsPaid
    <2> QED  BY <1>2, <2>1
  <1> QED  BY <1>3 DEF LegGetsMinimum

(* The legs after a batch: the old ones and one for each of its positions. *)
IsLeg(l, p, b, k) ==
    /\ l.pool = p /\ l.batch = batchNonce[p] /\ l.at = now
    /\ l.hash = b[k] /\ l.intent = revealStorage[b[k]]
    /\ LegGetsMinimum(l)

LEMMA LegsOfBatch ==
    ASSUME TypeOK, NEW p \in Pools, NEW b \in Batches, NEW marks,
           AllStored(b), ExecuteBatch(p, b, marks)
    PROVE  \E leg : /\ legs' = legs \cup {leg[k] : k \in DOMAIN b}
                    /\ \A k \in DOMAIN b : IsLeg(leg[k], p, b, k)
  <1> DEFINE is == Reveals(b)
  <1>1. PICK fill \in Fills(p, is) :
           /\ Settle(p, is, fill[1], fill[2])
           /\ legs' = legs \cup NewLegs(p, b, is, fill[2])
    BY DEF ExecuteBatch
  <1> DEFINE leg == [k \in DOMAIN b |-> LegOf(p, b, is, fill[2], k)]
  <1>2. legs' = legs \cup {leg[k] : k \in DOMAIN b}
    BY <1>1, StoredIntents DEF NewLegs
  <1>3. ASSUME NEW k \in DOMAIN b
        PROVE  IsLeg(leg[k], p, b, k)
    <2>1. fill[2] \in Nat
      BY DEF Fills
    <2>2. LegGetsMinimum(leg[k])
      BY <1>1, <2>1, StoredIntents, NewLegGetsMinimum
    <2> QED  BY <2>2, StoredIntents, LegFields DEF IsLeg
  <1> HIDE DEF leg
  <1> QED  BY <1>2, <1>3

(* What a batch does to the entries of one hash. *)
LEMMA EntriesAfterBatch ==
    ASSUME TypeOK, NEW p \in Pools, NEW b \in Batches, NEW marks,
           ExecuteBatch(p, b, marks), NEW q \in Pools, NEW h \in Hashes
    PROVE  /\ q = p /\ h \in HashesOf(b) =>
                 revealed'[q][h] = revealed[q][h] + marks[h]
           /\ ~(q = p /\ h \in HashesOf(b)) =>
                 pending'[q][h] = pending[q][h] /\ revealed'[q][h] = revealed[q][h]
  <1>1. /\ pending \in [Pools -> [Hashes -> Nat]]
        /\ revealed \in [Pools -> [Hashes -> Nat]]
        /\ MarkRevealed(p, b, marks)
    BY DEF TypeOK, ExecuteBatch
  <1> QED  BY <1>1 DEF MarkRevealed

(* A batch keeps the record of nonces exact and free of repetitions. *)
LEMMA SingleExecutionKept ==
    ASSUME TypeOK, SingleExecution, NEW p \in Pools, NEW b \in Batches, NEW marks,
           AllStored(b), ExecuteBatch(p, b, marks)
    PROVE  SingleExecution'
  <1>1. PICK leg : /\ legs' = legs \cup {leg[k] : k \in DOMAIN b}
                   /\ \A k \in DOMAIN b : IsLeg(leg[k], p, b, k)
    BY LegsOfBatch
  <1>2. \A k \in DOMAIN b :
           NonceOf(leg[k].pool, leg[k].intent) = NonceOf(p, revealStorage[b[k]])
    BY <1>1 DEF IsLeg
  <1>3. usedNonces' = usedNonces \cup {NonceOf(p, revealStorage[b[k]]) : k \in DOMAIN b}
    BY StoredIntents DEF ExecuteBatch, MarkNonces
  <1>4. /\ \A k \in DOMAIN b : NonceOf(p, revealStorage[b[k]]) \notin usedNonces
        /\ \A j, k \in DOMAIN b :
              j # k => NonceOf(p, revealStorage[b[j]]) # NonceOf(p, revealStorage[b[k]])
    BY DEF ExecuteBatch, ProcessReveals, NoncesUnused
  <1> DEFINE nonce(l) == NonceOf(l.pool, l.intent)
  <1>5. /\ usedNonces = {nonce(l) : l \in legs}
        /\ \A l, m \in legs : nonce(l) = nonce(m) => l = m
    BY DEF SingleExecution
  <1>6. \A k \in DOMAIN b : /\ nonce(leg[k]) \notin {nonce(l) : l \in legs}
                            /\ \A j \in DOMAIN b : nonce(leg[j]) = nonce(leg[k]) => j = k
    BY <1>2, <1>4, <1>5
  <1>7. usedNonces' = {nonce(l) : l \in legs'}
    BY <1>1, <1>2, <1>3, <1>5
  <1>8. \A l, m \in legs' : nonce(l) = nonce(m) => l = m
    <2> HIDE DEF nonce
    <2> QED  BY <1>1, <1>5, <1>6
  <1>9. /\ usedNonces' = {NonceOf(l.pool, l.intent) : l \in legs'}
        /\ \A l, m \in legs' : NonceOf(l.pool, l.intent) = NonceOf(m.pool, m.intent) => l = m
    BY <1>7, <1>8
  <1> QED  BY <1>9 DEF SingleExecution, NonceOf

(* A keccak intent whose hash was executed in a pool has used its nonce    *)
(* there.                                                                  *)
LEMMA ExecutedMeansNonceUsed ==
    ASSUME IInv, NEW p \in Pools, NEW i \in Intents, revealed[p][HashOf[i]] > 0
    PROVE  NonceOf(p, i) \in usedNonces
  <1>1. HashOf[i] \in Hashes /\ HashOf[i] \notin Provable
    BY HashAssumption
  <1>2. PICK l \in legs : l.pool = p /\ l.hash = HashOf[i]
    BY <1>1 DEF IInv, RevealedIffExecuted
  <1>3. l.intent \in Intents
    BY DEF IInv, TypeOK, Leg
  <1>4. l.intent = i
    BY <1>1, <1>2, <1>3, HashAssumption DEF IInv, ExecutedAsSigned, LegSigned
  <1> QED  BY <1>2, <1>4 DEF IInv, SingleExecution

(* The keccak hashes of a batch have not been executed before. *)
LEMMA BatchHashesFresh ==
    ASSUME IInv, NEW p \in Pools, NEW b \in Batches, NEW marks, AllStored(b),
           Matched(b, marks), ExecuteBatch(p, b, marks),
           NEW i \in Intents, HashOf[i] \in HashesOf(b)
    PROVE  revealed[p][HashOf[i]] = 0 /\ marks[HashOf[i]] = 1
  <1>0. TypeOK
    BY DEF IInv
  <1>1. PICK k \in DOMAIN b : b[k] = HashOf[i]
    BY DEF HashesOf
  <1>2. HashOf[revealStorage[b[k]]] = b[k] /\ marks[b[k]] = 1
    BY <1>1, HashAssumption DEF Matched
  <1>3. revealStorage[b[k]] = i
    BY <1>0, <1>1, <1>2, StoredIntents, HashAssumption
  <1>4. NonceOf(p, i) \notin usedNonces
    BY <1>3 DEF ExecuteBatch, ProcessReveals, NoncesUnused
  <1>5. revealed[p][HashOf[i]] \in Nat
    BY <1>0, HashAssumption DEF TypeOK
  <1> QED  BY <1>1, <1>2, <1>4, <1>5, ExecutedMeansNonceUsed

(* A batch marks exactly the hashes it executes. *)
LEMMA RevealedIffExecutedKept ==
    ASSUME IInv, NEW p \in Pools, NEW b \in Batches, NEW marks, AllStored(b),
           Marks(p, marks), Matched(b, marks), ExecuteBatch(p, b, marks)
    PROVE  RevealedIffExecuted'
  <1>0. TypeOK
    BY DEF IInv
  <1>1. PICK leg : /\ legs' = legs \cup {leg[k] : k \in DOMAIN b}
                   /\ \A k \in DOMAIN b : IsLeg(leg[k], p, b, k)
    BY <1>0, LegsOfBatch
  <1>2. ASSUME NEW q \in Pools, NEW h \in Hashes
        PROVE  revealed'[q][h] > 0 <=> \E l \in legs' : l.pool = q /\ l.hash = h
    <2>1. revealed[q][h] > 0 <=> \E l \in legs : l.pool = q /\ l.hash = h
      BY DEF IInv, RevealedIffExecuted
    <2>2. CASE q = p /\ h \in HashesOf(b)
      <3>1. PICK k \in DOMAIN b : b[k] = h
        BY <2>2 DEF HashesOf
      <3>2. leg[k] \in legs' /\ leg[k].pool = q /\ leg[k].hash = h
        BY <1>1, <2>2, <3>1 DEF IsLeg
      <3>3. pending[p][h] > 0
        BY <3>1 DEF ExecuteBatch, ProcessReveals, CommitmentsPending
      <3>4. marks[h] \in 1..pending[p][h] /\ pending[p][h] \in Nat /\ revealed[p][h] \in Nat
        BY <1>0, <3>3 DEF Marks, TypeOK
      <3>5. revealed'[q][h] = revealed[p][h] + marks[h]
        BY <1>0, <2>2, EntriesAfterBatch
      <3> QED  BY <3>2, <3>4, <3>5
    <2>3. CASE ~(q = p /\ h \in HashesOf(b))
      <3>1. revealed'[q][h] = revealed[q][h]
        BY <1>0, <2>3, EntriesAfterBatch
      <3>2. \A k \in DOMAIN b : ~(leg[k].pool = q /\ leg[k].hash = h)
        BY <1>1, <2>3 DEF IsLeg, HashesOf
      <3> QED  BY <1>1, <2>1, <3>1, <3>2
    <2> QED  BY <2>2, <2>3
  <1>3. ASSUME NEW q \in Pools, NEW i \in Intents
        PROVE  revealed'[q][HashOf[i]] <= 1
    <2>1. HashOf[i] \in Hashes
      BY HashAssumption
    <2>2. CASE q = p /\ HashOf[i] \in HashesOf(b)
      BY <1>0, <2>1, <2>2, BatchHashesFresh, EntriesAfterBatch
    <2>3. CASE ~(q = p /\ HashOf[i] \in HashesOf(b))
      BY <1>0, <2>1, <2>3, EntriesAfterBatch DEF IInv, RevealedIffExecuted
    <2> QED  BY <2>2, <2>3
  <1> QED  BY <1>2, <1>3 DEF RevealedIffExecuted

(* A batch clears the reveals it uses and leaves the others committed. *)
LEMMA RevealsAreCommittedKept ==
    ASSUME IInv, NEW p \in Pools, NEW b \in Batches, NEW marks,
           ExecuteBatch(p, b, marks)
    PROVE  RevealsAreCommitted'
  <1>0. TypeOK
    BY DEF IInv
  <1> SUFFICES ASSUME NEW h \in Hashes \ Provable, revealStorage'[h] # NoIntent
               PROVE  /\ HashOf[revealStorage'[h]] = h
                      /\ \E q \in Pools : pending'[q][h] > 0
    BY DEF RevealsAreCommitted
  <1>1. h \notin HashesOf(b) /\ revealStorage'[h] = revealStorage[h]
    BY DEF ExecuteBatch, DeleteReveals
  <1>2. /\ HashOf[revealStorage[h]] = h
        /\ \E q \in Pools : pending[q][h] > 0
    BY <1>1 DEF IInv, RevealsAreCommitted
  <1>3. \A q \in Pools : pending'[q][h] = pending[q][h]
    BY <1>0, <1>1, EntriesAfterBatch
  <1> QED  BY <1>1, <1>2, <1>3

(* A batch comes an interval after the last one of its pool, and records   *)
(* its legs as the newest.                                                 *)
LEMMA SpacingKept ==
    ASSUME IInv, NEW p \in Pools, NEW b \in Batches, NEW marks, AllStored(b),
           Matched(b, marks), ExecuteBatch(p, b, marks),
           verifiedCommitments' \subseteq Provable
    PROVE  LegsRecorded' /\ ExecutedAsSigned' /\ BatchesSpaced'
  <1>0. TypeOK
    BY DEF IInv
  <1>1. PICK leg : /\ legs' = legs \cup {leg[k] : k \in DOMAIN b}
                   /\ \A k \in DOMAIN b : IsLeg(leg[k], p, b, k)
    BY <1>0, LegsOfBatch
  <1>2. /\ lastBatchTimestamp' = [lastBatchTimestamp EXCEPT ![p] = now]
        /\ batchNonce' = [batchNonce EXCEPT ![p] = @ + 1]
        /\ now - lastBatchTimestamp[p] >= BATCH_INTERVAL
    BY DEF ExecuteBatch, IntervalElapsed
  <1>3. /\ now \in Nat /\ BATCH_INTERVAL \in Nat
        /\ lastBatchTimestamp \in [Pools -> Nat]
        /\ batchNonce \in [Pools -> Nat]
    BY <1>0, ConstantsAssumption DEF TypeOK
  <1>4. \A l \in legs : /\ l.pool \in Pools /\ l.at \in Nat /\ l.batch \in Nat
                        /\ l.batch < batchNonce[l.pool]
                        /\ l.at <= lastBatchTimestamp[l.pool]
    BY <1>0 DEF IInv, TypeOK, Leg, LegsRecorded
  <1>5. \A k \in DOMAIN b : /\ leg[k].pool = p /\ leg[k].at = now
                            /\ leg[k].batch = batchNonce[p]
    BY <1>1 DEF IsLeg
  <1>6. LegsRecorded'
    <2>1. \A l \in legs : /\ l.batch < batchNonce'[l.pool]
                          /\ l.at <= lastBatchTimestamp'[l.pool]
      BY <1>2, <1>3, <1>4
    <2>2. \A k \in DOMAIN b : /\ leg[k].batch < batchNonce'[leg[k].pool]
                              /\ leg[k].at <= lastBatchTimestamp'[leg[k].pool]
      BY <1>2, <1>3, <1>5
    <2> QED  BY <1>1, <2>1, <2>2 DEF LegsRecorded
  <1>7. ExecutedAsSigned'
    <2>1. ASSUME NEW k \in DOMAIN b
          PROVE  LegSigned(leg[k]) /\ LegInTime(leg[k]) /\ LegGetsMinimum(leg[k])
      <3>1. /\ leg[k].hash = b[k] /\ leg[k].at = now
            /\ leg[k].intent = revealStorage[b[k]]
            /\ LegGetsMinimum(leg[k])
        BY <1>1 DEF IsLeg
      <3>2. now <= revealStorage[b[k]].deadline
        BY DEF ExecuteBatch, ProcessReveals, DeadlinesMet
      <3> QED  BY <3>1, <3>2 DEF LegSigned, LegInTime, Matched
    <2> QED  BY <1>1, <2>1 DEF IInv, ExecutedAsSigned, LegSigned, LegInTime, LegGetsMinimum
  <1>8. BatchesSpaced'
    <2> SUFFICES ASSUME NEW l \in legs', NEW m \in legs', l.pool = m.pool, l.batch < m.batch
                 PROVE  m.at - l.at >= BATCH_INTERVAL
      BY DEF BatchesSpaced
    <2>1. CASE l \in legs /\ m \in legs
      BY <2>1 DEF IInv, BatchesSpaced
    <2>2. CASE l \in legs /\ m \notin legs
      BY <1>1, <1>2, <1>3, <1>4, <1>5, <2>2
    <2>3. CASE l \notin legs
      BY <1>1, <1>3, <1>4, <1>5, <2>3
    <2> QED  BY <2>1, <2>2, <2>3
  <1> QED  BY <1>6, <1>7, <1>8

(* Steps that execute nothing keep what is said of the executed legs. *)
LEMMA QuietStep ==
    ASSUME IInv, TypeOK', verifiedCommitments' \subseteq Provable,
           UNCHANGED <<legs, usedNonces, revealed, batchNonce, lastBatchTimestamp>>,
           RevealsAreCommitted'
    PROVE  IInv'
  <1>1. LegsRecorded' /\ ExecutedAsSigned'
    BY DEF IInv, LegsRecorded, ExecutedAsSigned, LegSigned, LegInTime, LegGetsMinimum
  <1>2. SingleExecution' /\ RevealedIffExecuted' /\ BatchesSpaced'
    BY DEF IInv, SingleExecution, RevealedIffExecuted, BatchesSpaced, NonceOf
  <1> QED  BY <1>1, <1>2 DEF IInv

(* Pushing a commitment leaves every stored reveal committed. *)
LEMMA PushKeepsCommitted ==
    ASSUME IInv, UNCHANGED revealStorage,
           \A q \in Pools, g \in Hashes : pending'[q][g] >= pending[q][g],
           TypeOK'
    PROVE  RevealsAreCommitted'
  <1> SUFFICES ASSUME NEW h \in Hashes \ Provable, revealStorage[h] # NoIntent
               PROVE  /\ HashOf[revealStorage[h]] = h
                      /\ \E q \in Pools : pending'[q][h] > 0
    BY DEF RevealsAreCommitted
  <1>1. PICK q \in Pools : pending[q][h] > 0
    BY DEF IInv, RevealsAreCommitted
  <1>2. pending[q][h] \in Nat /\ pending'[q][h] \in Nat
    BY DEF IInv, TypeOK
  <1> QED  BY <1>1, <1>2 DEF IInv, RevealsAreCommitted

(* A batch keeps the invariant, whichever path executes it. *)
LEMMA BatchKeepsInvariant ==
    ASSUME IInv, TypeOK', NEW p \in Pools, NEW b \in Batches, NEW marks,
           AllStored(b), Marks(p, marks), Matched(b, marks),
           ExecuteBatch(p, b, marks), verifiedCommitments' \subseteq Provable
    PROVE  IInv'
  <1>1. SingleExecution'
    BY SingleExecutionKept DEF IInv
  <1>2. RevealedIffExecuted'
    BY RevealedIffExecutedKept
  <1>3. RevealsAreCommitted'
    BY RevealsAreCommittedKept
  <1>4. LegsRecorded' /\ ExecutedAsSigned' /\ BatchesSpaced'
    BY SpacingKept
  <1> QED  BY <1>1, <1>2, <1>3, <1>4 DEF IInv

LEMMA IInvInit == Init => IInv
  <1> SUFFICES ASSUME Init PROVE IInv
    OBVIOUS
  <1>1. TypeOK
    BY ConstantsAssumption DEF Init, TypeOK
  <1>2. LegsRecorded /\ ExecutedAsSigned /\ SingleExecution /\ BatchesSpaced
    BY DEF Init, LegsRecorded, ExecutedAsSigned, SingleExecution, BatchesSpaced
  <1>3. RevealedIffExecuted /\ RevealsAreCommitted
    BY HashAssumption DEF Init, RevealedIffExecuted, RevealsAreCommitted
  <1> QED  BY <1>1, <1>2, <1>3 DEF IInv

LEMMA IInvNext == IInv /\ TypeOK' /\ [Next]_vars => IInv'
  <1> SUFFICES ASSUME IInv, TypeOK', [Next]_vars PROVE IInv'
    OBVIOUS
  <1>0. TypeOK /\ verifiedCommitments \subseteq Provable
    BY DEF IInv, LegsRecorded
  <1>1. CASE Tick
    <2>1. RevealsAreCommitted'
      BY <1>1 DEF Tick, IInv, RevealsAreCommitted
    <2> QED  BY <1>0, <1>1, <2>1, QuietStep DEF Tick
  <1>2. ASSUME NEW p \in Pools, NEW h \in Hashes, SubmitCommitment(p, h)
        PROVE  IInv'
    <2>1. \A q \in Pools, g \in Hashes : pending'[q][g] >= pending[q][g]
      BY <1>0, <1>2 DEF SubmitCommitment, Push, TypeOK
    <2>2. RevealsAreCommitted'
      BY <1>2, <2>1, PushKeepsCommitted DEF SubmitCommitment
    <2> QED  BY <1>0, <1>2, <2>2, QuietStep DEF SubmitCommitment
  <1>3. ASSUME NEW p \in Pools, NEW h \in Hashes, SubmitCommitmentWithProof(p, h)
        PROVE  IInv'
    <2>1. \A q \in Pools, g \in Hashes : pending'[q][g] >= pending[q][g]
      <3>1. CASE UNCHANGED pending
        BY <1>0, <3>1 DEF TypeOK
      <3>2. CASE Push(p, h)
        BY <1>0, <3>2 DEF Push, TypeOK
      <3> QED  BY <1>3, <3>1, <3>2 DEF SubmitCommitmentWithProof
    <2>2. RevealsAreCommitted'
      BY <1>3, <2>1, PushKeepsCommitted DEF SubmitCommitmentWithProof
    <2>3. verifiedCommitments' \subseteq Provable
      BY <1>0, <1>3 DEF SubmitCommitmentWithProof
    <2> QED  BY <1>3, <2>2, <2>3, QuietStep DEF SubmitCommitmentWithProof
  <1>4. ASSUME NEW p \in Pools, NEW i \in Intents, SubmitReveal(p, i)
        PROVE  IInv'
    <2>1. RevealsAreCommitted'
      BY <1>0, <1>4, HashAssumption DEF SubmitReveal, IInv, TypeOK, RevealsAreCommitted
    <2> QED  BY <1>0, <1>4, <2>1, QuietStep DEF SubmitReveal
  <1>5. ASSUME NEW p \in Pools, NEW h \in Hashes, NEW i \in Intents,
               SubmitRevealForZK(p, h, i)
        PROVE  IInv'
    <2>1. h \in Provable
      BY <1>0, <1>5 DEF SubmitRevealForZK
    <2>2. \A g \in Hashes \ Provable : revealStorage'[g] = revealStorage[g]
      BY <1>0, <1>5, <2>1 DEF SubmitRevealForZK, TypeOK
    <2>3. RevealsAreCommitted'
      BY <1>5, <2>2 DEF SubmitRevealForZK, IInv, RevealsAreCommitted
    <2> QED  BY <1>0, <1>5, <2>3, QuietStep DEF SubmitRevealForZK
  <1>6. ASSUME NEW p \in Pools, NEW b \in Batches, RevealAndBatchExecute(p, b)
        PROVE  IInv'
    <2> DEFINE marks == [h \in Hashes |-> 1]
    <2>1. AllStored(b) /\ ExecuteBatch(p, b, marks)
      BY <1>6 DEF RevealAndBatchExecute
    <2>2. Matched(b, marks)
      BY <1>0, <1>6, <2>1, StoredIntents DEF RevealAndBatchExecute, Matched
    <2>3. verifiedCommitments' \subseteq Provable
      BY <1>0, <1>6 DEF RevealAndBatchExecute
    <2>4. Marks(p, marks)
      BY <1>0, MarksOfPaths
    <2> HIDE DEF marks
    <2> QED  BY <2>1, <2>2, <2>3, <2>4, BatchKeepsInvariant
  <1>7. ASSUME NEW p \in Pools, NEW b \in Batches, RevealAndBatchExecuteWithProofs(p, b)
        PROVE  IInv'
    <2> DEFINE marks == BothMarkingLoops(p)
    <2>1. AllStored(b) /\ ExecuteBatch(p, b, marks)
      BY <1>7 DEF RevealAndBatchExecuteWithProofs
    <2>2. Matched(b, marks)
      BY <1>7 DEF RevealAndBatchExecuteWithProofs, Matched, HashesOf
    <2>3. verifiedCommitments' \subseteq Provable
      BY <1>0, <1>7 DEF RevealAndBatchExecuteWithProofs
    <2>4. Marks(p, marks)
      BY <1>0, MarksOfPaths
    <2> HIDE DEF marks
    <2> QED  BY <2>1, <2>2, <2>3, <2>4, BatchKeepsInvariant
  <1>8. CASE UNCHANGED vars
    <2>1. RevealsAreCommitted'
      BY <1>8 DEF vars, IInv, RevealsAreCommitted
    <2> QED  BY <1>0, <1>8, <2>1, QuietStep DEF vars
  <1> QED  BY <1>1, <1>2, <1>3, <1>4, <1>5, <1>6, <1>7, <1>8 DEF Next

LEMMA InvariantHolds == Spec => []IInv
  <1>1. Spec => []TypeOK
    BY TypeCorrect
  <1> QED  BY <1>1, IInvInit, IInvNext, PTL DEF Spec

(* No (pool, user, nonce) is executed twice, and the used nonces are        *)
(* exactly the executed ones, on both execution paths.                     *)
THEOREM NoDoubleExecution == Spec => []SingleExecution
  <1>1. IInv => SingleExecution
    BY DEF IInv
  <1> QED  BY <1>1, InvariantHolds, PTL

(* What a leg executes is the committed intent, in time, and for at least   *)
(* its minimum when it shares an output.                                   *)
THEOREM IntentsExecutedAsSigned == Spec => []ExecutedAsSigned
  <1>1. IInv => ExecutedAsSigned
    BY DEF IInv
  <1> QED  BY <1>1, InvariantHolds, PTL

(* A commitment is flagged revealed exactly when its hash was executed in   *)
(* its pool, and a keccak commitment at most once.                         *)
THEOREM RevealedIsExecuted == Spec => []RevealedIffExecuted
  <1>1. IInv => RevealedIffExecuted
    BY DEF IInv
  <1> QED  BY <1>1, InvariantHolds, PTL

(* What is stored under a keccak hash is its own intent, still committed.   *)
THEOREM StoredRevealsCommitted == Spec => []RevealsAreCommitted
  <1>1. IInv => RevealsAreCommitted
    BY DEF IInv
  <1> QED  BY <1>1, InvariantHolds, PTL

(* Batches of a pool keep their distance.                                   *)
THEOREM BatchesKeepInterval == Spec => []BatchesSpaced
  <1>1. IInv => BatchesSpaced
    BY DEF IInv
  <1> QED  BY <1>1, InvariantHolds, PTL

(* ------------------------------ the money ------------------------------ *)

(* Whatever a step other than a batch does, it executes nothing and moves  *)
(* no token; a batch is of one of the two paths.                           *)
LEMMA StepKinds ==
    ASSUME [Next]_vars
    PROVE  \/ UNCHANGED <<legs, balance, batchNonce>>
           \/ \E p \in Pools, b \in Batches : \E marks :
                 AllStored(b) /\ ExecuteBatch(p, b, marks)
  BY DEF Next, vars, Tick, SubmitCommitment, SubmitCommitmentWithProof, SubmitReveal,
         SubmitRevealForZK, RevealAndBatchExecute, RevealAndBatchExecuteWithProofs

(* The legs a batch adds are new, one for each of its positions: their     *)
(* nonces were unused and are distinct.                                    *)
LEMMA LegsAreNew ==
    ASSUME IInv, NEW p \in Pools, NEW b \in Batches, AllStored(b), ProcessReveals(p, b),
           NEW out, legs' = legs \cup NewLegs(p, b, Reveals(b), out)
    PROVE  /\ legs' \ legs = NewLegs(p, b, Reveals(b), out)
           /\ \A j, k \in DOMAIN b :
                 LegOf(p, b, Reveals(b), out, j) = LegOf(p, b, Reveals(b), out, k) => j = k
  <1> DEFINE is == Reveals(b)
             leg(k) == LegOf(p, b, is, out, k)
             nonce(l) == NonceOf(l.pool, l.intent)
  <1>1. DOMAIN is = DOMAIN b /\ \A k \in DOMAIN b : is[k] = revealStorage[b[k]]
    BY StoredIntents DEF IInv
  <1>2. \A k \in DOMAIN b : nonce(leg(k)) = NonceOf(p, revealStorage[b[k]])
    BY <1>1, LegFields
  <1>3. /\ \A k \in DOMAIN b : NonceOf(p, revealStorage[b[k]]) \notin usedNonces
        /\ \A j, k \in DOMAIN b :
              j # k => NonceOf(p, revealStorage[b[j]]) # NonceOf(p, revealStorage[b[k]])
    BY DEF ProcessReveals, NoncesUnused
  <1>4. \A l \in legs : nonce(l) \in usedNonces
    BY DEF IInv, SingleExecution
  <1>5. NewLegs(p, b, is, out) = {leg(k) : k \in DOMAIN b}
    BY <1>1 DEF NewLegs
  <1> HIDE DEF leg, nonce
  <1>6. \A k \in DOMAIN b : leg(k) \notin legs
    BY <1>2, <1>3, <1>4
  <1>7. \A j, k \in DOMAIN b : leg(j) = leg(k) => j = k
    BY <1>2, <1>3
  <1>8. legs' \ legs = NewLegs(p, b, is, out)
    BY <1>5, <1>6
  <1> QED  BY <1>7, <1>8 DEF leg

(* What settling a batch does to the hook's balance. *)
LEMMA HookCovered ==
    ASSUME TypeOK, NEW p \in Pools, NEW is, IsBatch(is), NEW t \in Tokens,
           PoolCurrencies(is, Currency0[p], Currency1[p]),
           NEW fill \in Fills(p, is), Settle(p, is, fill[1], fill[2])
    PROVE  balance'[Hook][t] >= balance[Hook][t]
  <1> DEFINE c0 == Currency0[p]
             c1 == Currency1[p]
             in == InputCurrency(is, c0, c1)
             out == OutputCurrency(is, c0, c1)
             paidIn == SumIn(is, {k \in DOMAIN is : is[k].tokenIn = t})
             handedOut == SumFunctionOnSet(Payouts(is, c0, c1, fill[2]), DOMAIN is)
  <1>1. /\ fill[1] \in Nat /\ fill[1] <= NetInput(is, c0) /\ fill[2] \in Nat
        /\ NetInput(is, c0) \in Nat
        /\ NetInput(is, c0) <= SumIn(is, PayIn(is, c0, c1))
    <2>1. c0 # c1 /\ ValidSwap(is, c0)
      BY ConstantsAssumption DEF Settle
    <2> QED  BY <2>1, InputIsCovered DEF Fills
  <1>2. paidIn \in Nat
    BY SumInNat
  <1>3. handedOut \in Nat /\ handedOut <= fill[2]
    BY <1>1, OutputIsPaid
  <1>4. t = in => fill[1] <= paidIn
    <2> SUFFICES ASSUME t = in PROVE fill[1] <= paidIn
      OBVIOUS
    <2>1. paidIn = SumIn(is, PayIn(is, c0, c1))
      BY Zenon DEF PayIn
    <2> QED  BY <1>1, <1>2, <2>1
  <1>5. balance'[Hook][t] =
           balance[Hook][t] + paidIn - (IF t = in THEN fill[1] ELSE 0)
             + (IF t = out THEN fill[2] - handedOut ELSE 0)
    <2>1. Hook \in Accounts
      BY DEF Accounts
    <2>2. balance' = Settled(p, is, fill[1], fill[2], Payouts(is, c0, c1, fill[2]))
      BY DEF Settle
    <2>3. balance'[Hook][t] = HookBalance(p, is, t, fill[1], fill[2], Payouts(is, c0, c1, fill[2]))
      BY <2>1, <2>2 DEF Settled
    <2> QED  BY <2>3 DEF HookBalance
  <1>6. balance[Hook][t] \in Nat
    BY DEF TypeOK, Accounts
  <1> HIDE DEF in, out, paidIn, handedOut
  <1> QED  BY <1>1, <1>2, <1>3, <1>4, <1>5, <1>6

(* A batch of users who pay in the pool's currencies costs the hook nothing: *)
(* the net input is within what they paid in, and the payouts within what  *)
(* the swap returned.                                                      *)
THEOREM HookIsNeverOutOfPocket == Spec => HookNeverSubsidises
  <1>1. ASSUME IInv, [Next]_vars, NEW t \in Tokens,
               \A l \in legs' \ legs : PaysInPoolCurrency(l)
        PROVE  balance'[Hook][t] >= balance[Hook][t]
    <2>0. TypeOK
      BY <1>1 DEF IInv
    <2>1. CASE UNCHANGED balance
      <3>1. balance[Hook][t] \in Nat
        BY <2>0 DEF TypeOK, Accounts
      <3> QED  BY <2>1, <3>1
    <2>2. ASSUME NEW p \in Pools, NEW b \in Batches, NEW marks,
                 AllStored(b), ExecuteBatch(p, b, marks)
          PROVE  balance'[Hook][t] >= balance[Hook][t]
      <3> DEFINE is == Reveals(b)
      <3>1. PICK fill \in Fills(p, is) :
               /\ Settle(p, is, fill[1], fill[2])
               /\ legs' = legs \cup NewLegs(p, b, is, fill[2])
        BY <2>2 DEF ExecuteBatch
      <3>2. legs' \ legs = NewLegs(p, b, is, fill[2])
        BY <1>1, <2>2, <3>1, LegsAreNew DEF ExecuteBatch
      <3>3. PoolCurrencies(is, Currency0[p], Currency1[p])
        <4> SUFFICES ASSUME NEW k \in DOMAIN is
                     PROVE  is[k].tokenIn \in {Currency0[p], Currency1[p]}
          BY DEF PoolCurrencies
        <4>1. LegOf(p, b, is, fill[2], k) \in legs' \ legs
          BY <3>2 DEF NewLegs
        <4> QED  BY <1>1, <4>1, LegFields DEF PaysInPoolCurrency
      <3>4. IsBatch(is)
        BY <2>0, <2>2, RevealsAreBatch
      <3> HIDE DEF is
      <3> QED  BY <2>0, <3>1, <3>3, <3>4, HookCovered
    <2> QED  BY <1>1, <2>1, <2>2, StepKinds
  <1>2. IInv /\ [Next]_vars =>
           [(\A l \in legs' \ legs : PaysInPoolCurrency(l)) =>
               \A t \in Tokens : balance'[Hook][t] >= balance[Hook][t]]_vars
    BY <1>1
  <1> QED  BY <1>2, InvariantHolds, PTL DEF Spec, HookNeverSubsidises

(* What the new legs receive adds up to what the settlement pays.          *)
LEMMA NewLegsReceive ==
    ASSUME IInv, NEW p \in Pools, NEW b \in Batches, AllStored(b), ProcessReveals(p, b),
           NEW out \in Nat, legs' = legs \cup NewLegs(p, b, Reveals(b), out)
    PROVE  SumFunctionOnSet([l \in legs' \ legs |-> l.received], legs' \ legs) =
              SumFunctionOnSet(Payouts(Reveals(b), Currency0[p], Currency1[p], out),
                               DOMAIN Reveals(b))
  <1> DEFINE is == Reveals(b)
             D == DOMAIN is
             leg == [k \in D |-> LegOf(p, b, is, out, k)]
             new == legs' \ legs
             received == [l \in new |-> l.received]
             payouts == Payouts(is, Currency0[p], Currency1[p], out)
             receivedAt == [k \in D |-> received[leg[k]]]
  <1>1. IsBatch(is) /\ D = DOMAIN b
    BY RevealsAreBatch, StoredIntents DEF IInv
  <1>2. /\ new = {leg[k] : k \in D}
        /\ \A j, k \in D : leg[j] = leg[k] => j = k
    BY <1>1, LegsAreNew DEF NewLegs
  <1>3. \A k \in D : /\ received[leg[k]] = payouts[k]
                     /\ payouts[k] \in Int
    <2> SUFFICES ASSUME NEW k \in D
                 PROVE  received[leg[k]] = payouts[k] /\ payouts[k] \in Int
      OBVIOUS
    <2>1. leg[k] \in new
      BY <1>2
    <2>2. received[leg[k]] = leg[k].received
      BY <2>1
    <2>3. leg[k].received = payouts[k]
      BY DEF LegOf
    <2>4. payouts[k] = Payout(is, Currency0[p], Currency1[p], out, k)
      BY DEF Payouts
    <2>5. payouts[k] \in Int
      BY <1>1, <2>4, PayoutNat
    <2> QED  BY <2>2, <2>3, <2>5
  <1>4. IsFiniteSet(D)
    BY <1>1, BatchPositions
  <1> HIDE DEF D, leg, received, payouts, new
  <1>5. SumFunctionOnSet(received, {leg[k] : k \in D}) = SumFunctionOnSet(receivedAt, D)
    BY <1>2, <1>3, <1>4, SumRenamed
  <1>6. SumFunctionOnSet(receivedAt, D) = SumFunctionOnSet(payouts, D)
    <2>1. IntOn(receivedAt, D) /\ \A k \in D : receivedAt[k] = payouts[k]
      BY <1>3 DEF IntOn
    <2> HIDE DEF receivedAt
    <2> QED  BY <1>4, <2>1, SumCongruence
  <1>7. SumFunctionOnSet(received, new) = SumFunctionOnSet(payouts, D)
    BY <1>2, <1>5, <1>6, Zenon
  <1> QED  BY <1>7 DEF received, new, payouts, D

(* A swap output is handed out whole, without rounding dust.               *)
THEOREM OutputIsFullyDistributed == Spec => OutputFullyDistributed
  <1> DEFINE new == legs' \ legs
             Distributed ==
               (\E l \in new : l.entitled) =>
                  \E t \in Tokens :
                      SumFunctionOnSet([l \in new |-> l.received], new)
                         = balance[PoolManager][t] - balance'[PoolManager][t]
  <1>1. ASSUME IInv, [Next]_vars
        PROVE  Distributed
    <2>0. TypeOK
      BY <1>1 DEF IInv
    <2>1. CASE UNCHANGED legs
      BY <2>1
    <2>2. ASSUME NEW p \in Pools, NEW b \in Batches, NEW marks,
                 AllStored(b), ExecuteBatch(p, b, marks),
                 NEW l \in new, l.entitled
          PROVE  \E t \in Tokens :
                      SumFunctionOnSet([m \in new |-> m.received], new)
                         = balance[PoolManager][t] - balance'[PoolManager][t]
      <3> DEFINE is == Reveals(b)
                 c0 == Currency0[p]
                 c1 == Currency1[p]
                 t == OutputCurrency(is, c0, c1)
                 total == SumFunctionOnSet([m \in new |-> m.received], new)
      <3>1. PICK fill \in Fills(p, is) :
               /\ Settle(p, is, fill[1], fill[2])
               /\ legs' = legs \cup NewLegs(p, b, is, fill[2])
        BY <2>2 DEF ExecuteBatch
      <3>2. fill[1] \in Nat /\ fill[2] \in Nat
        BY DEF Fills
      <3>3. IsBatch(is) /\ ProcessReveals(p, b)
        BY <2>0, <2>2, RevealsAreBatch DEF ExecuteBatch
      <3>4. new = NewLegs(p, b, is, fill[2])
        BY <1>1, <2>2, <3>1, <3>3, LegsAreNew
      <3>5. Distributes(is, c0, c1, fill[2])
        BY <2>2, <3>4 DEF NewLegs, LegOf
      <3>6. total = SumFunctionOnSet(Payouts(is, c0, c1, fill[2]), DOMAIN is)
        BY <1>1, <2>2, <3>1, <3>2, <3>3, NewLegsReceive
      <3>7. SumFunctionOnSet(Payouts(is, c0, c1, fill[2]), DOMAIN is) = fill[2]
        BY <3>2, <3>3, <3>5, OutputIsPaid
      <3>8. t \in Tokens /\ t # InputCurrency(is, c0, c1)
        BY ConstantsAssumption DEF OutputCurrency, InputCurrency
      <3>9. balance'[PoolManager][t] = balance[PoolManager][t] - fill[2]
        <4>1. PoolManager \in Accounts /\ PoolManager # Hook
          BY ConstantsAssumption DEF Accounts
        <4>2. balance' = Settled(p, is, fill[1], fill[2], Payouts(is, c0, c1, fill[2]))
          BY <3>1 DEF Settle
        <4>3. balance[PoolManager][t] \in Nat
          BY <2>0, <3>8, <4>1 DEF TypeOK
        <4>4. balance'[PoolManager][t] = balance[PoolManager][t] + 0 - fill[2]
          BY <3>8, <4>1, <4>2 DEF Settled
        <4> QED  BY <3>2, <4>3, <4>4
      <3>10. balance[PoolManager][t] \in Nat
        BY <2>0, <3>8 DEF TypeOK, Accounts
      <3> HIDE DEF t, total
      <3>11. total = balance[PoolManager][t] - balance'[PoolManager][t]
        BY <3>2, <3>6, <3>7, <3>9, <3>10
      <3> QED  BY <3>8, <3>11 DEF total
    <2> QED  BY <1>1, <2>1, <2>2, StepKinds
  <1>2. IInv /\ [Next]_vars => [Distributed]_vars
    BY <1>1
  <1> QED  BY <1>2, InvariantHolds, PTL DEF Spec, OutputFullyDistributed

(* A batch of a pool has enough pending commitments: its hashes are         *)
(* distinct, for their stored intents have distinct nonces, and each has a *)
(* pending entry.                                                          *)
LEMMA BatchHasCommitments ==
    ASSUME TypeOK, NEW p \in Pools, NEW b \in Batches, AllStored(b), ProcessReveals(p, b)
    PROVE  GetPendingCommitmentCount(p) >= MIN_COMMITMENTS
  <1>1. PICK n \in Nat : n >= MIN_COMMITMENTS /\ b \in [1..n -> Hashes] /\ DOMAIN b = 1..n
    BY BatchType
  <1> DEFINE D == 1..n
             entries == [k \in D |-> pending[p][b[k]]]
  <1>2. IsFiniteSet(D) /\ Cardinality(D) = n
    BY FS_Interval
  <1>3. \A j, k \in D : b[j] = b[k] => j = k
    BY <1>1 DEF ProcessReveals, NoncesUnused
  <1>4. \A k \in D : b[k] \in Hashes /\ pending[p][b[k]] \in Nat /\ pending[p][b[k]] > 0
    BY <1>1 DEF ProcessReveals, CommitmentsPending, TypeOK
  <1>5. NatOn(entries, D) /\ \A k \in D : entries[k] > 0
    BY <1>4 DEF NatOn
  <1>6. SumFunctionOnSet(pending[p], {b[k] : k \in D}) = SumFunctionOnSet(entries, D)
    BY <1>2, <1>3, <1>4, SumRenamed
  <1> HIDE DEF entries
  <1>7. Cardinality(D) <= SumFunctionOnSet(entries, D)
    BY <1>2, <1>5, SumCounts
  <1>8. /\ IsFiniteSet(Hashes) /\ NatOn(pending[p], Hashes)
        /\ {b[k] : k \in D} \in SUBSET Hashes
    BY <1>4, HashAssumption DEF TypeOK, NatOn
  <1>9. /\ SumFunctionOnSet(pending[p], {b[k] : k \in D}) <= SumFunctionOnSet(pending[p], Hashes)
        /\ SumFunctionOnSet(pending[p], Hashes) \in Nat
    BY <1>8, SumOfPart, SumNat
  <1>10. SumFunctionOnSet(entries, D) \in Nat /\ MIN_COMMITMENTS \in Nat
    BY <1>2, <1>5, SumNat, ConstantsAssumption
  <1> QED  BY <1>1, <1>2, <1>6, <1>7, <1>9, <1>10 DEF GetPendingCommitmentCount

(* A pool's batch counter moves only when checker() said that it could.    *)
THEOREM BatchNeedsChecker == Spec => BatchOnlyWhenChecker
  <1>1. ASSUME IInv, [Next]_vars, NEW q \in Pools, batchNonce'[q] # batchNonce[q]
        PROVE  Checker(q)
    <2>0. TypeOK
      BY <1>1 DEF IInv
    <2>1. ASSUME NEW p \in Pools, NEW b \in Batches, NEW marks,
                 AllStored(b), ExecuteBatch(p, b, marks)
          PROVE  Checker(q)
      <3>1. q = p
        BY <1>1, <2>0, <2>1 DEF ExecuteBatch, TypeOK
      <3>2. IntervalElapsed(q) /\ ProcessReveals(q, b)
        BY <2>1, <3>1 DEF ExecuteBatch
      <3> QED  BY <2>0, <2>1, <3>2, BatchHasCommitments DEF Checker
    <2> QED  BY <1>1, <2>1, StepKinds
  <1>2. IInv /\ [Next]_vars =>
           [\A p \in Pools : batchNonce'[p] # batchNonce[p] => Checker(p)]_vars
    BY <1>1
  <1> QED  BY <1>2, InvariantHolds, PTL DEF Spec, BatchOnlyWhenChecker
=============================================================================
