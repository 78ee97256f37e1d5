-------------------------- MODULE BatchCoordinator --------------------------
(***************************************************************************)
(* agents/coordination/BatchCoordinator.ts: agents signal per pool that    *)
(* they are ready for a batch; a quorum starts a countdown, and its expiry *)
(* (or everybody being ready) hands the resolved batch parameters to the   *)
(* onBatchReady callbacks.                                                 *)
(*                                                                         *)
(* An action is one turn of the JavaScript event loop: a method call, a    *)
(* timer, or the part of fireBatchReady after one awaited callback, so     *)
(* that everything else may happen while a callback is awaited.  Times are *)
(* relative: the age of a signal, the time left of a countdown, in ticks.  *)
(***************************************************************************)
EXTENDS Integers, FiniteSets, FiniteSetsExt

CONSTANTS
    Pools, Agents,
    QUORUM,             \* config.quorum
    MIN_TOTAL,          \* config.minTotalCommitments
    COUNTDOWN,          \* config.countdownMs
    STALE,              \* config.staleSignalMs
    Strategy,           \* config.conflictResolution.strategy
    DEFAULT_SLIPPAGE,   \* config.defaultSlippageBps
    Commitments,        \* the pendingCommitments an agent may signal
    Slippages,          \* the preferredSlippageBps it may signal
    NoPreference,       \* preferredSlippageBps undefined
    NoSignal,           \* no entry in the signals map
    NoBatch,
    MaxCallbacks,       \* bound: callbacks registered at a time
    MaxFirings          \* bound: firings of a pool awaited at a time

ASSUME CoordinatorAssumption ==
    /\ IsFiniteSet(Agents)
    /\ QUORUM \in Nat \ {0} /\ MIN_TOTAL \in Nat
    /\ COUNTDOWN \in Nat /\ STALE \in Nat
    /\ DEFAULT_SLIPPAGE \in Nat /\ Slippages \subseteq Nat /\ Commitments \subseteq Nat
    /\ Strategy \in {"median", "mean", "min", "max"}
    /\ MaxCallbacks \in Nat /\ MaxFirings \in Nat

VARIABLES
    registered,   \* registeredAgents
    signals,      \* the signals map of each pool
    countdown,    \* ticks left of countdownTimer of each pool, or Idle
    callbacks,    \* how many callbacks are registered
    firing,       \* firing[p][k]: fireBatchReady(p) calls that await callback k
    batch         \* what this turn handed to the callbacks, if it fired

vars == <<registered, signals, countdown, callbacks, firing, batch>>

Idle == -1

NoSignals == [a \in Agents |-> NoSignal]

Init ==
    /\ registered = {}
    /\ signals = [p \in Pools |-> NoSignals]
    /\ countdown = [p \in Pools |-> Idle]
    /\ callbacks = 0
    /\ firing = [p \in Pools |-> [k \in 1..MaxCallbacks |-> 0]]
    /\ batch = NoBatch

(* ------------------------- reading the signals ------------------------ *)

ReadyAgents(sigs) == {a \in Agents : sigs[a] # NoSignal}

TotalCommitments(sigs) ==
    SumFunctionOnSet([a \in ReadyAgents(sigs) |-> sigs[a].commitments], ReadyAgents(sigs))

QuorumMet(sigs) == Cardinality(ReadyAgents(sigs)) >= QUORUM

CommitmentsEnough(sigs) == TotalCommitments(sigs) >= MIN_TOTAL

ReadyToFire(sigs) == QuorumMet(sigs) /\ CommitmentsEnough(sigs)

Stale(signal) == signal # NoSignal /\ signal.age > STALE

PruneStaleSignals(sigs) ==
    [a \in Agents |-> IF Stale(sigs[a]) THEN NoSignal ELSE sigs[a]]

(* -------------------------------- voting ------------------------------- *)

Voters(sigs) == {a \in ReadyAgents(sigs) : sigs[a].slippage # NoPreference}

(* The k-th smallest vote, counting from 1. *)
KthSmallest(sigs, k) ==
    CHOOSE v \in {sigs[a].slippage : a \in Voters(sigs)} :
        /\ Cardinality({a \in Voters(sigs) : sigs[a].slippage < v}) < k
        /\ Cardinality({a \in Voters(sigs) : sigs[a].slippage <= v}) >= k

(* Math.round(s / d). *)
RoundDiv(s, d) == (2 * s + d) \div (2 * d)

(* Mutant: mid, which counts from 0, is used to count from 1. *)
Median_offByOne(sigs) ==
    LET n == Cardinality(Voters(sigs))
    IN  KthSmallest(sigs, IF n = 1 THEN 1 ELSE n \div 2)

Median(sigs) ==
    LET n == Cardinality(Voters(sigs))
        mid == n \div 2
    IN  IF n % 2 = 0
        THEN RoundDiv(KthSmallest(sigs, mid) + KthSmallest(sigs, mid + 1), 2)
        ELSE KthSmallest(sigs, mid + 1)

ResolveConflict(sigs) ==
    LET n == Cardinality(Voters(sigs))
    IN  CASE Strategy = "median" -> Median(sigs)
          [] Strategy = "mean" ->
                RoundDiv(SumFunctionOnSet([a \in Voters(sigs) |-> sigs[a].slippage],
                                          Voters(sigs)), n)
          [] Strategy = "min" -> KthSmallest(sigs, 1)
          [] Strategy = "max" -> KthSmallest(sigs, n)

ResolvedSlippage(sigs) ==
    IF Voters(sigs) = {} THEN DEFAULT_SLIPPAGE ELSE ResolveConflict(sigs)

(* The parameters of a batch, with the signals they are resolved from:     *)
(* participatingAgents and totalCommitments are read off those.            *)
BatchParameters(p, sigs) ==
    [pool |-> p, signals |-> sigs, slippageBps |-> ResolvedSlippage(sigs)]

(* ------------------------------- firing -------------------------------- *)

Firings(p) == SumFunctionOnSet(firing[p], 1..MaxCallbacks)

(* fireBatchReady up to its first await: without callbacks it runs to its  *)
(* end and resets the pool.                                                *)
Fire(p, sigs) ==
    /\ batch' = BatchParameters(p, sigs)
    /\ countdown' = [countdown EXCEPT ![p] = Idle]
    /\ IF callbacks = 0
       THEN signals' = [signals EXCEPT ![p] = NoSignals] /\ UNCHANGED firing
       ELSE /\ Firings(p) < MaxFirings
            /\ firing' = [firing EXCEPT ![p][1] = @ + 1]
            /\ signals' = [signals EXCEPT ![p] = sigs]

(* Mutant: every signal restarts the countdown. *)
StartCountdown_again(p) == countdown' = [countdown EXCEPT ![p] = COUNTDOWN]

StartCountdown(p) ==
    countdown' = IF countdown[p] = Idle
                 THEN [countdown EXCEPT ![p] = COUNTDOWN]
                 ELSE countdown

AllReady(sigs) == Cardinality(ReadyAgents(sigs)) >= Cardinality(registered)

EvaluatePool(p, sigs) ==
    \/ /\ ~ReadyToFire(sigs)
       /\ signals' = [signals EXCEPT ![p] = sigs]
       /\ batch' = NoBatch
       /\ UNCHANGED <<countdown, firing>>
    \/ /\ ReadyToFire(sigs) /\ AllReady(sigs)
       /\ Fire(p, sigs)
    \/ /\ ReadyToFire(sigs) /\ ~AllReady(sigs)
       /\ signals' = [signals EXCEPT ![p] = sigs]
       /\ StartCountdown(p)
       /\ batch' = NoBatch
       /\ UNCHANGED firing

(* ------------------------------ operations ----------------------------- *)

RegisterAgent(a) ==
    /\ registered' = registered \cup {a}
    /\ batch' = NoBatch
    /\ UNCHANGED <<signals, countdown, callbacks, firing>>

(* Mutant: the agent's signals stay. *)
RemoveSignals_forgotten(a) == UNCHANGED signals

RemoveSignals(a) == signals' = [p \in Pools |-> [signals[p] EXCEPT ![a] = NoSignal]]

UnregisterAgent(a) ==
    /\ registered' = registered \ {a}
    /\ RemoveSignals(a)
    /\ batch' = NoBatch
    /\ UNCHANGED <<countdown, callbacks, firing>>

(* signal is what signalReady stores, NoSignal for one with ready = false. *)
SignalReady(a, p, signal) ==
    /\ a \in registered
    /\ EvaluatePool(p, PruneStaleSignals([signals[p] EXCEPT ![a] = signal]))
    /\ UNCHANGED <<registered, callbacks>>

(* Mutant: a withdrawal always cancels the countdown. *)
CancelCountdown_always(p, sigs) == countdown' = [countdown EXCEPT ![p] = Idle]

CancelCountdown(p, sigs) ==
    countdown' = IF QuorumMet(sigs) THEN countdown ELSE [countdown EXCEPT ![p] = Idle]

WithdrawReady(a, p) ==
    LET sigs == [signals[p] EXCEPT ![a] = NoSignal]
    IN  /\ signals' = [signals EXCEPT ![p] = sigs]
        /\ CancelCountdown(p, sigs)
        /\ batch' = NoBatch
        /\ UNCHANGED <<registered, callbacks, firing>>

OnBatchReady ==
    /\ callbacks < MaxCallbacks
    /\ callbacks' = callbacks + 1
    /\ batch' = NoBatch
    /\ UNCHANGED <<registered, signals, countdown, firing>>

(* The timer's callback: neither the quorum nor the commitments are looked *)
(* at again, and stale signals are not pruned.                             *)
CountdownExpires(p) ==
    /\ countdown[p] = 0
    /\ Fire(p, signals[p])
    /\ UNCHANGED <<registered, callbacks>>

Reset(ps) ==
    /\ signals' = [p \in Pools |-> IF p \in ps THEN NoSignals ELSE signals[p]]
    /\ countdown' = [p \in Pools |-> IF p \in ps THEN Idle ELSE countdown[p]]

ResetPool(p) ==
    Reset({p}) /\ batch' = NoBatch /\ UNCHANGED <<registered, callbacks, firing>>

ResetAll ==
    Reset(Pools) /\ batch' = NoBatch /\ UNCHANGED <<registered, callbacks, firing>>

(* Callback k of a firing settles: the loop goes on to the next one that   *)
(* is registered by now, or ends and resets the pool.                      *)
CallbackSettles(p, k) ==
    /\ firing[p][k] > 0
    /\ IF k < callbacks
       THEN /\ firing' = [firing EXCEPT ![p][k] = @ - 1, ![p][k + 1] = @ + 1]
            /\ UNCHANGED <<signals, countdown>>
       ELSE /\ firing' = [firing EXCEPT ![p][k] = @ - 1]
            /\ Reset({p})
    /\ batch' = NoBatch
    /\ UNCHANGED <<registered, callbacks>>

(* Registrations and firings in progress survive it. *)
Destroy ==
    /\ Reset(Pools)
    /\ callbacks' = 0
    /\ batch' = NoBatch
    /\ UNCHANGED <<registered, firing>>

Older(signal) ==
    IF signal = NoSignal \/ Stale(signal) THEN signal ELSE [signal EXCEPT !.age = @ + 1]

Tick ==
    /\ signals' = [p \in Pools |-> [a \in Agents |-> Older(signals[p][a])]]
    /\ countdown' = [p \in Pools |-> IF countdown[p] > 0 THEN countdown[p] - 1 ELSE countdown[p]]
    /\ batch' = NoBatch
    /\ UNCHANGED <<registered, callbacks, firing>>

NewSignals ==
    [commitments : Commitments, slippage : Slippages \cup {NoPreference}, age : {0}]
        \cup {NoSignal}

Next ==
    \/ Tick
    \/ \E a \in Agents : RegisterAgent(a) \/ UnregisterAgent(a)
    \/ \E a \in Agents, p \in Pools :
          WithdrawReady(a, p) \/ \E signal \in NewSignals : SignalReady(a, p, signal)
    \/ OnBatchReady
    \/ \E p \in Pools : CountdownExpires(p) \/ ResetPool(p)
    \/ \E p \in Pools, k \in 1..MaxCallbacks : CallbackSettles(p, k)
    \/ ResetAll
    \/ Destroy

(* Time passes, the event loop runs a timer that is due, and the callbacks *)
(* settle.                                                                 *)
Fairness ==
    /\ WF_vars(Tick)
    /\ \A p \in Pools : WF_vars(CountdownExpires(p))
    /\ \A p \in Pools, k \in 1..MaxCallbacks : WF_vars(CallbackSettles(p, k))

Spec == Init /\ [][Next]_vars /\ Fairness

(* ------------------------------ properties ----------------------------- *)

Signal == [commitments : Commitments, slippage : Slippages \cup {NoPreference},
           age : 0..STALE + 1]

(* Signals, countdowns and the counts of awaited callbacks keep their      *)
(* types, and only a registered agent has a signal.                        *)
TypeOK ==
    /\ registered \subseteq Agents
    /\ signals \in [Pools -> [Agents -> Signal \cup {NoSignal}]]
    /\ \A p \in Pools : ReadyAgents(signals[p]) \subseteq registered
    /\ countdown \in [Pools -> {Idle} \cup (0..COUNTDOWN)]
    /\ callbacks \in 0..MaxCallbacks
    /\ firing \in [Pools -> [1..MaxCallbacks -> Nat]]
    /\ batch # NoBatch =>
          /\ batch.pool \in Pools
          /\ batch.signals \in [Agents -> Signal \cup {NoSignal}]
          /\ batch.slippageBps \in Nat

(* No wake-up is lost: a pool with a quorum and enough commitments either  *)
(* has a countdown running or is being fired, whatever was signalled,      *)
(* withdrawn, pruned, unregistered or reset, and in whatever order.        *)
QuorumIsHandled ==
    \A p \in Pools :
        ReadyToFire(signals[p]) => countdown[p] # Idle \/ Firings(p) > 0

(* A batch that does not wait for its countdown has every registered agent *)
(* in it, and no other: the shortcut of evaluatePool compares two counts.  *)
EarlyBatchIsUnanimous ==
    [][batch' # NoBatch /\ countdown[batch'.pool] # 0 =>
          ReadyAgents(batch'.signals) = registered']_vars

(* "Resolved via voting": no majority of the agents with a preference      *)
(* wants a higher slippage than the resolved one, and none a lower.        *)
MedianIsCentral ==
    Strategy = "median" /\ batch # NoBatch /\ Voters(batch.signals) # {} =>
        LET n == Cardinality(Voters(batch.signals))
            Above == {a \in Voters(batch.signals) : batch.signals[a].slippage > batch.slippageBps}
            Below == {a \in Voters(batch.signals) : batch.signals[a].slippage < batch.slippageBps}
        IN  2 * Cardinality(Above) <= n /\ 2 * Cardinality(Below) <= n

(* A pool does not stay ready: it gets a batch, or loses its quorum.       *)
QuorumLeadsToBatch ==
    \A p \in Pools :
        ReadyToFire(signals[p]) ~>
            (~ReadyToFire(signals[p]) \/ (batch # NoBatch /\ batch.pool = p))

(* BatchCoordinator.ts:6 "The batch only fires when enough agents are      *)
(* ready".                                                                 *)
BatchHasQuorum == batch # NoBatch => QuorumMet(batch.signals)

=============================================================================
