----------------------- MODULE BatchCoordinatorProofs -----------------------
(***************************************************************************)
(* Proofs about BatchCoordinator.tla, for any agents, pools, thresholds    *)
(* and numbers of overlapping firings.                                     *)
(***************************************************************************)
EXTENDS BatchCoordinator, SumTheorems

SignalMaps == [Agents -> Signal \cup {NoSignal}]

(* A signals map of registered agents only. *)
Registered(sigs, rs) == sigs \in SignalMaps /\ ReadyAgents(sigs) \subseteq rs

(* The inductive invariant: every pool's map is one. *)
SignalsRegistered ==
    /\ registered \subseteq Agents
    /\ DOMAIN signals = Pools
    /\ signals = [p \in Pools |-> signals[p]]
    /\ \A p \in Pools : Registered(signals[p], registered)

LEMMA NoSignalsRegistered == \A rs : Registered(NoSignals, rs)
  BY DEF Registered, NoSignals, SignalMaps, ReadyAgents

LEMMA PrunedRegistered ==
    ASSUME NEW rs, NEW sigs, Registered(sigs, rs)
    PROVE  Registered(PruneStaleSignals(sigs), rs)
  BY DEF Registered, PruneStaleSignals, SignalMaps, ReadyAgents

(* Setting a registered agent's entry, or clearing anybody's. *)
LEMMA UpdatedRegistered ==
    ASSUME NEW rs, NEW sigs, Registered(sigs, rs), NEW a \in Agents,
           NEW signal \in Signal \cup {NoSignal}, a \in rs \/ signal = NoSignal
    PROVE  Registered([sigs EXCEPT ![a] = signal], rs)
  BY DEF Registered, SignalMaps, ReadyAgents

LEMMA NewSignalsType == NewSignals \subseteq Signal \cup {NoSignal}
  BY CoordinatorAssumption DEF NewSignals, Signal

(* Ageing keeps a signal a signal, and the absence of one too. *)
LEMMA OlderType ==
    ASSUME NEW signal \in Signal \cup {NoSignal}
    PROVE  /\ Older(signal) \in Signal \cup {NoSignal}
           /\ signal = NoSignal => Older(signal) = NoSignal
  <1>1. CASE signal = NoSignal \/ Stale(signal)
    BY <1>1 DEF Older
  <1>2. CASE ~(signal = NoSignal \/ Stale(signal))
    <2>1. signal \in Signal /\ signal.age \in 0..STALE + 1 /\ ~(signal.age > STALE)
      BY <1>2 DEF Stale, Signal
    <2>2. signal.age + 1 \in 0..STALE + 1
      BY <2>1, CoordinatorAssumption
    <2> QED  BY <1>2, <2>1, <2>2 DEF Older, Signal
  <1> QED  BY <1>1, <1>2

(* What a firing or an evaluation leaves in the signals maps. *)
LEMMA FireSignals ==
    ASSUME SignalsRegistered, NEW p \in Pools, NEW sigs, Registered(sigs, registered),
           Fire(p, sigs), registered' = registered
    PROVE  SignalsRegistered'
  BY NoSignalsRegistered DEF Fire, SignalsRegistered

LEMMA EvaluateSignals ==
    ASSUME SignalsRegistered, NEW p \in Pools, NEW sigs, Registered(sigs, registered),
           EvaluatePool(p, sigs), registered' = registered
    PROVE  SignalsRegistered'
  BY FireSignals DEF EvaluatePool, SignalsRegistered

LEMMA ResetSignals ==
    ASSUME SignalsRegistered, NEW ps, Reset(ps), registered' = registered
    PROVE  SignalsRegistered'
  BY NoSignalsRegistered DEF Reset, SignalsRegistered

LEMMA SignalsInvariant == Spec => []SignalsRegistered
  <1>1. Init => SignalsRegistered
    BY NoSignalsRegistered DEF Init, SignalsRegistered
  <1>2. SignalsRegistered /\ [Next]_vars => SignalsRegistered'
    <2> SUFFICES ASSUME SignalsRegistered, [Next]_vars PROVE SignalsRegistered'
      OBVIOUS
    <2>1. CASE Tick
      <3>1. \A p \in Pools : Registered([a \in Agents |-> Older(signals[p][a])], registered)
        BY OlderType DEF SignalsRegistered, Registered, SignalMaps, ReadyAgents
      <3> QED  BY <2>1, <3>1 DEF Tick, SignalsRegistered
    <2>2. ASSUME NEW a \in Agents, RegisterAgent(a) PROVE SignalsRegistered'
      BY <2>2 DEF RegisterAgent, SignalsRegistered, Registered
    <2>3. ASSUME NEW a \in Agents, UnregisterAgent(a) PROVE SignalsRegistered'
      <3>1. \A p \in Pools : Registered([signals[p] EXCEPT ![a] = NoSignal], registered \ {a})
        BY DEF SignalsRegistered, Registered, SignalMaps, ReadyAgents
      <3> QED  BY <2>3, <3>1 DEF UnregisterAgent, RemoveSignals, SignalsRegistered
    <2>4. ASSUME NEW a \in Agents, NEW p \in Pools, WithdrawReady(a, p)
          PROVE  SignalsRegistered'
      <3>1. Registered([signals[p] EXCEPT ![a] = NoSignal], registered)
        BY UpdatedRegistered DEF SignalsRegistered
      <3> QED  BY <2>4, <3>1 DEF WithdrawReady, SignalsRegistered
    <2>5. ASSUME NEW a \in Agents, NEW p \in Pools, NEW signal \in NewSignals,
                 SignalReady(a, p, signal)
          PROVE  SignalsRegistered'
      <3>1. Registered([signals[p] EXCEPT ![a] = signal], registered)
        BY <2>5, UpdatedRegistered, NewSignalsType DEF SignalsRegistered, SignalReady
      <3> QED  BY <2>5, <3>1, PrunedRegistered, EvaluateSignals DEF SignalReady
    <2>6. CASE OnBatchReady
      BY <2>6 DEF OnBatchReady, SignalsRegistered
    <2>7. ASSUME NEW p \in Pools, CountdownExpires(p) PROVE SignalsRegistered'
      BY <2>7, FireSignals DEF CountdownExpires, SignalsRegistered
    <2>8. ASSUME NEW p \in Pools, ResetPool(p) PROVE SignalsRegistered'
      BY <2>8, ResetSignals DEF ResetPool
    <2>9. ASSUME NEW p \in Pools, NEW k \in 1..MaxCallbacks, CallbackSettles(p, k)
          PROVE  SignalsRegistered'
      <3>1. CASE UNCHANGED signals
        BY <2>9, <3>1 DEF CallbackSettles, SignalsRegistered
      <3>2. CASE Reset({p})
        BY <2>9, <3>2, ResetSignals DEF CallbackSettles
      <3> QED  BY <2>9, <3>1, <3>2 DEF CallbackSettles
    <2>10. CASE ResetAll \/ Destroy
      BY <2>10, ResetSignals DEF ResetAll, Destroy
    <2>11. CASE UNCHANGED vars
      BY <2>11 DEF vars, SignalsRegistered
    <2> QED
      BY <2>1, <2>2, <2>3, <2>4, <2>5, <2>6, <2>7, <2>8, <2>9, <2>10, <2>11 DEF Next
  <1> QED  BY <1>1, <1>2, PTL DEF Spec

(* As many ready agents as registered ones are the registered ones. *)
LEMMA AllReadyAreRegistered ==
    ASSUME SignalsRegistered, NEW sigs, Registered(sigs, registered), AllReady(sigs)
    PROVE  ReadyAgents(sigs) = registered
  <1>1. IsFiniteSet(registered)
    BY CoordinatorAssumption, FS_Subset DEF SignalsRegistered
  <1>2. ReadyAgents(sigs) \subseteq registered
    BY DEF Registered
  <1>3. /\ Cardinality(ReadyAgents(sigs)) \in Nat
        /\ Cardinality(registered) \in Nat
        /\ Cardinality(ReadyAgents(sigs)) <= Cardinality(registered)
    BY <1>1, <1>2, FS_Subset, FS_CardinalityType
  <1>4. Cardinality(ReadyAgents(sigs)) = Cardinality(registered)
    BY <1>3 DEF AllReady
  <1> QED  BY <1>1, <1>2, <1>4, FS_Subset

(* A batch that fires before its countdown is due has every registered     *)
(* agent in it and no other, although evaluatePool only compares counts.   *)
THEOREM EarlyBatchesUnanimous == Spec => EarlyBatchIsUnanimous
  <1>1. ASSUME SignalsRegistered, [Next]_vars, ~UNCHANGED vars,
               batch' # NoBatch, countdown[batch'.pool] # 0
        PROVE  ReadyAgents(batch'.signals) = registered'
    <2>1. ASSUME NEW a \in Agents, NEW p \in Pools, NEW signal \in NewSignals,
                 SignalReady(a, p, signal)
          PROVE  ReadyAgents(batch'.signals) = registered'
      <3> DEFINE sigs == PruneStaleSignals([signals[p] EXCEPT ![a] = signal])
      <3>1. Registered(sigs, registered)
        BY <1>1, <2>1, UpdatedRegistered, PrunedRegistered, NewSignalsType
        DEF SignalsRegistered, SignalReady
      <3>2. AllReady(sigs) /\ Fire(p, sigs) /\ registered' = registered
        BY <1>1, <2>1 DEF SignalReady, EvaluatePool
      <3>3. batch'.signals = sigs
        BY <3>2 DEF Fire, BatchParameters
      <3> QED  BY <1>1, <3>1, <3>2, <3>3, AllReadyAreRegistered
    <2>2. ASSUME NEW p \in Pools, CountdownExpires(p) PROVE FALSE
      <3>1. batch'.pool = p
        BY <2>2 DEF CountdownExpires, Fire, BatchParameters
      <3> QED  BY <1>1, <2>2, <3>1 DEF CountdownExpires
    <2> QED
      BY <1>1, <2>1, <2>2
      DEF Next, Tick, RegisterAgent, UnregisterAgent, WithdrawReady, OnBatchReady,
          ResetPool, CallbackSettles, ResetAll, Destroy
  <1>2. SignalsRegistered /\ [Next]_vars =>
           [batch' # NoBatch /\ countdown[batch'.pool] # 0 =>
               ReadyAgents(batch'.signals) = registered']_vars
    BY <1>1
  <1> QED  BY <1>2, SignalsInvariant, PTL DEF Spec, EarlyBatchIsUnanimous

(* ---------------------- the resolved slippage -------------------------- *)

Votes(sigs) == [a \in Voters(sigs) |-> sigs[a].slippage]

UpTo(sigs, v) == {a \in Voters(sigs) : sigs[a].slippage <= v}

Beneath(sigs, v) == {a \in Voters(sigs) : sigs[a].slippage < v}

LEMMA VotersFinite ==
    ASSUME NEW sigs \in SignalMaps
    PROVE  /\ IsFiniteSet(Voters(sigs)) /\ Cardinality(Voters(sigs)) \in Nat
           /\ \A a \in Voters(sigs) : sigs[a].slippage \in Nat
           /\ NatOn(Votes(sigs), Voters(sigs))
  <1>1. Voters(sigs) \in SUBSET Agents
    BY DEF Voters, ReadyAgents
  <1>2. IsFiniteSet(Voters(sigs)) /\ Cardinality(Voters(sigs)) \in Nat
    BY <1>1, CoordinatorAssumption, SubsetCount
  <1>3. \A a \in Voters(sigs) : sigs[a].slippage \in Nat
    BY CoordinatorAssumption DEF Voters, ReadyAgents, SignalMaps, Signal
  <1> QED  BY <1>2, <1>3 DEF NatOn, Votes

LEMMA VoteCounts ==
    ASSUME NEW sigs \in SignalMaps, NEW T \in SUBSET Voters(sigs)
    PROVE  /\ IsFiniteSet(T) /\ Cardinality(T) \in Nat
           /\ Cardinality(T) <= Cardinality(Voters(sigs))
           /\ Cardinality(Voters(sigs) \ T) = Cardinality(Voters(sigs)) - Cardinality(T)
  <1>1. IsFiniteSet(Voters(sigs))
    BY VotersFinite
  <1>2. IsFiniteSet(T) /\ Cardinality(T) \in Nat /\ Cardinality(T) <= Cardinality(Voters(sigs))
    BY <1>1, SubsetCount
  <1>3. Cardinality(Voters(sigs) \ T) =
           Cardinality(Voters(sigs)) - Cardinality(Voters(sigs) \cap T)
    BY <1>1, FS_Difference
  <1>4. Voters(sigs) \cap T = T
    OBVIOUS
  <1> QED  BY <1>2, <1>3, <1>4

(* The k-th smallest vote exists, for every k up to the number of votes:    *)
(* the least value with k votes up to it.                                  *)
LEMMA KthSmallestVote ==
    ASSUME NEW sigs \in SignalMaps, NEW k \in 1..Cardinality(Voters(sigs))
    PROVE  /\ KthSmallest(sigs, k) \in Nat
           /\ Cardinality(Beneath(sigs, KthSmallest(sigs, k))) < k
           /\ Cardinality(UpTo(sigs, KthSmallest(sigs, k))) >= k
  <1> DEFINE V == Voters(sigs)
             n == Cardinality(V)
             reached == {v \in Nat : Cardinality(UpTo(sigs, v)) >= k}
             total == SumFunctionOnSet(Votes(sigs), V)
  <1>1. /\ IsFiniteSet(V) /\ n \in Nat /\ k \in Nat /\ 1 <= k /\ k <= n
        /\ \A a \in V : sigs[a].slippage \in Nat
    BY VotersFinite
  <1>2. total \in reached
    <2>1. total \in Nat /\ \A a \in V : sigs[a].slippage <= total
      BY VotersFinite, SumNat, SumAtLeastMember DEF Votes
    <2>2. UpTo(sigs, total) = V
      BY <2>1 DEF UpTo
    <2> QED  BY <1>1, <2>1, <2>2
  <1>3. PICK v \in reached : \A m \in reached : v <= m
    BY <1>2, LeastNatural
  <1>4. /\ UpTo(sigs, v) \in SUBSET V /\ Beneath(sigs, v) \in SUBSET V
        /\ Cardinality(UpTo(sigs, v)) \in Nat /\ Cardinality(Beneath(sigs, v)) \in Nat
    BY VoteCounts DEF UpTo, Beneath
  <1>5. Cardinality(Beneath(sigs, v)) < k
    <2>1. CASE v = 0
      <3>1. Beneath(sigs, v) = {}
        BY <1>1, <2>1 DEF Beneath
      <3> QED  BY <1>1, <3>1, FS_EmptySet
    <2>2. CASE v # 0
      <3>1. v - 1 \in Nat /\ v - 1 \notin reached
        BY <1>3, <2>2
      <3>2. Beneath(sigs, v) = UpTo(sigs, v - 1)
        BY <1>1, <1>3 DEF Beneath, UpTo
      <3> QED  BY <1>1, <1>4, <3>1, <3>2
    <2> QED  BY <2>1, <2>2
  <1>6. v \in {sigs[a].slippage : a \in V}
    <2> SUFFICES ASSUME v \notin {sigs[a].slippage : a \in V} PROVE FALSE
      OBVIOUS
    <2>1. \A a \in V : sigs[a].slippage <= v <=> sigs[a].slippage < v
      BY <1>1, <1>3
    <2>2. UpTo(sigs, v) = Beneath(sigs, v)
      BY <2>1 DEF UpTo, Beneath
    <2> QED  BY <1>1, <1>3, <1>4, <1>5, <2>2
  <1>7. \E w \in {sigs[a].slippage : a \in V} :
           Cardinality(Beneath(sigs, w)) < k /\ Cardinality(UpTo(sigs, w)) >= k
    BY <1>3, <1>5, <1>6
  <1>8. KthSmallest(sigs, k) =
           CHOOSE w \in {sigs[a].slippage : a \in V} :
               Cardinality(Beneath(sigs, w)) < k /\ Cardinality(UpTo(sigs, w)) >= k
    BY DEF KthSmallest, Beneath, UpTo
  <1>9. /\ KthSmallest(sigs, k) \in {sigs[a].slippage : a \in V}
        /\ Cardinality(Beneath(sigs, KthSmallest(sigs, k))) < k
        /\ Cardinality(UpTo(sigs, KthSmallest(sigs, k))) >= k
    BY <1>7, <1>8
  <1> QED  BY <1>1, <1>9

LEMMA RoundDivNat ==
    ASSUME NEW s \in Nat, NEW d \in Nat, d > 0
    PROVE  RoundDiv(s, d) \in Nat
  <1>1. 2 * s + d \in Nat /\ 2 * d \in Nat /\ 2 * d > 0
    OBVIOUS
  <1>2. \A x, y \in Nat : y > 0 => x \div y \in Nat
    OBVIOUS
  <1> QED  BY <1>1, <1>2 DEF RoundDiv

(* The rounded mean of two naturals lies between them. *)
LEMMA MiddleOfTwo ==
    ASSUME NEW a \in Nat, NEW b \in Nat, a <= b
    PROVE  RoundDiv(a + b, 2) \in Nat /\ a <= RoundDiv(a + b, 2) /\ RoundDiv(a + b, 2) <= b
  BY DEF RoundDiv

(* The median parts the votes: at most half lie below it, at most half     *)
(* above.                                                                  *)
Above(sigs, v) == {a \in Voters(sigs) : sigs[a].slippage > v}

LEMMA AboveIsRest ==
    ASSUME NEW sigs \in SignalMaps, NEW v \in Nat
    PROVE  /\ Cardinality(Above(sigs, v)) \in Nat
           /\ Cardinality(Above(sigs, v)) =
                 Cardinality(Voters(sigs)) - Cardinality(UpTo(sigs, v))
  <1>1. UpTo(sigs, v) \in SUBSET Voters(sigs) /\ Above(sigs, v) \in SUBSET Voters(sigs)
    BY DEF UpTo, Above
  <1>2. Above(sigs, v) = Voters(sigs) \ UpTo(sigs, v)
    BY VotersFinite DEF Above, UpTo
  <1> QED  BY <1>1, <1>2, VoteCounts

LEMMA MedianParts ==
    ASSUME NEW sigs \in SignalMaps, Voters(sigs) # {}
    PROVE  /\ Median(sigs) \in Nat
           /\ 2 * Cardinality(Above(sigs, Median(sigs))) <= Cardinality(Voters(sigs))
           /\ 2 * Cardinality(Beneath(sigs, Median(sigs))) <= Cardinality(Voters(sigs))
  <1> DEFINE n == Cardinality(Voters(sigs))
             mid == n \div 2
             lower == KthSmallest(sigs, mid)
             upper == KthSmallest(sigs, mid + 1)
             v == Median(sigs)
             up(w) == Cardinality(UpTo(sigs, w))
             below(w) == Cardinality(Beneath(sigs, w))
             over(w) == Cardinality(Above(sigs, w))
  <1>1. n \in Nat /\ n > 0
    BY VotersFinite, SubsetCount
  <1>2. mid \in Nat /\ (n % 2 = 0 => n = 2 * mid /\ mid >= 1) /\ (n % 2 # 0 => n = 2 * mid + 1)
    BY <1>1
  <1> HIDE DEF mid, n
  <1>3. upper \in Nat /\ below(upper) < mid + 1 /\ up(upper) >= mid + 1
    <2>1. mid + 1 \in 1..n
      BY <1>1, <1>2
    <2> QED  BY <2>1, KthSmallestVote DEF n
  <1>4. \A w \in Nat : /\ up(w) \in Nat /\ below(w) \in Nat /\ over(w) \in Nat
                       /\ over(w) = n - up(w)
    <2>1. \A w : UpTo(sigs, w) \in SUBSET Voters(sigs) /\ Beneath(sigs, w) \in SUBSET Voters(sigs)
      BY DEF UpTo, Beneath
    <2> QED  BY <2>1, VoteCounts, AboveIsRest DEF n
  <1>5. CASE n % 2 # 0
    <2>1. v = upper
      BY <1>5 DEF Median, n, mid
    <2> HIDE DEF v, upper
    <2>2. 2 * over(v) <= n /\ 2 * below(v) <= n
      BY <1>1, <1>2, <1>3, <1>4, <1>5, <2>1
    <2> QED  BY <1>3, <2>1, <2>2 DEF v, n
  <1>6. CASE n % 2 = 0
    <2>1. v = RoundDiv(lower + upper, 2)
      BY <1>6 DEF Median, n, mid
    <2>2. lower \in Nat /\ below(lower) < mid /\ up(lower) >= mid
      <3>1. mid \in 1..n
        BY <1>1, <1>2, <1>6
      <3> QED  BY <3>1, KthSmallestVote DEF n
    <2> HIDE DEF lower, upper
    <2>3. lower <= upper
      <3> SUFFICES ASSUME upper < lower PROVE FALSE
        BY <1>3, <2>2
      <3>1. UpTo(sigs, upper) \subseteq Beneath(sigs, lower)
        BY <1>3, <2>2, VotersFinite DEF UpTo, Beneath
      <3>2. IsFiniteSet(Beneath(sigs, lower))
        BY VoteCounts DEF Beneath
      <3>3. up(upper) <= below(lower)
        BY <3>1, <3>2, SubsetCount
      <3> QED  BY <1>2, <1>3, <1>4, <2>2, <3>3
    <2> HIDE DEF v
    <2>4. v \in Nat /\ lower <= v /\ v <= upper
      BY <1>3, <2>1, <2>2, <2>3, MiddleOfTwo
    <2>5. /\ Beneath(sigs, v) \subseteq Beneath(sigs, upper)
          /\ Above(sigs, v) \subseteq Above(sigs, lower)
      BY <1>3, <2>2, <2>4, VotersFinite DEF Beneath, Above
    <2>6. IsFiniteSet(Beneath(sigs, upper)) /\ IsFiniteSet(Above(sigs, lower))
      BY VoteCounts DEF Beneath, Above
    <2>7. below(v) <= below(upper) /\ over(v) <= over(lower)
      BY <2>5, <2>6, SubsetCount
    <2>8. 2 * over(v) <= n /\ 2 * below(v) <= n
      BY <1>1, <1>2, <1>3, <1>4, <1>6, <2>2, <2>4, <2>7
    <2> QED  BY <2>4, <2>8 DEF v, n
  <1> QED  BY <1>5, <1>6

LEMMA ResolvedNat ==
    ASSUME NEW sigs \in SignalMaps
    PROVE  ResolvedSlippage(sigs) \in Nat
  <1>1. CASE Voters(sigs) = {}
    BY <1>1, CoordinatorAssumption DEF ResolvedSlippage
  <1>2. CASE Voters(sigs) # {}
    <2> DEFINE n == Cardinality(Voters(sigs))
               total == SumFunctionOnSet([a \in Voters(sigs) |-> sigs[a].slippage], Voters(sigs))
    <2>1. n \in Nat /\ n > 0
      BY <1>2, VotersFinite, SubsetCount
    <2>2. total \in Nat
      BY VotersFinite, SumNat DEF Votes
    <2>3. RoundDiv(total, n) \in Nat /\ Median(sigs) \in Nat
      BY <1>2, <2>1, <2>2, RoundDivNat, MedianParts
    <2>4. KthSmallest(sigs, 1) \in Nat /\ KthSmallest(sigs, n) \in Nat
      <3>1. 1 \in 1..n /\ n \in 1..n
        BY <2>1
      <3> QED  BY <3>1, KthSmallestVote
    <2> QED  BY <1>2, <2>3, <2>4, CoordinatorAssumption DEF ResolvedSlippage, ResolveConflict
  <1> QED  BY <1>1, <1>2

(* --------------------------- the invariant ----------------------------- *)

(* What was handed to the callbacks is what resolveConflicts made of the   *)
(* signals it carries.                                                     *)
BatchResolved ==
    \/ batch = NoBatch
    \/ \E p \in Pools, sigs \in SignalMaps : batch = BatchParameters(p, sigs)

TimersTyped ==
    /\ countdown \in [Pools -> {Idle} \cup (0..COUNTDOWN)]
    /\ callbacks \in 0..MaxCallbacks
    /\ firing \in [Pools -> [1..MaxCallbacks -> Nat]]

(* Inductive: a signals map of registered agents keeps the firing and the  *)
(* votes typed, and a pool that becomes ready is handled in the same turn. *)
IInv ==
    /\ SignalsRegistered
    /\ TimersTyped
    /\ BatchResolved
    /\ QuorumIsHandled

LEMMA ResolvedBatch ==
    ASSUME NEW p \in Pools, NEW rs, NEW sigs, Registered(sigs, rs),
           batch' = BatchParameters(p, sigs)
    PROVE  BatchResolved'
  BY DEF BatchResolved, Registered, BatchParameters

(* A sum of numbers of awaited callbacks is positive as soon as one is.    *)
LEMMA SomeFiring ==
    ASSUME NEW f \in [1..MaxCallbacks -> Nat], NEW k \in 1..MaxCallbacks, f[k] > 0
    PROVE  SumFunctionOnSet(f, 1..MaxCallbacks) > 0
  <1>1. IsFiniteSet(1..MaxCallbacks) /\ NatOn(f, 1..MaxCallbacks)
    <2>1. 1 \in Int /\ MaxCallbacks \in Int
      BY CoordinatorAssumption
    <2>2. IsFiniteSet(1..MaxCallbacks)
      BY <2>1, FS_Interval
    <2> QED  BY <2>2 DEF NatOn
  <1>2. f[k] <= SumFunctionOnSet(f, 1..MaxCallbacks)
    BY <1>1, SumAtLeastMember
  <1>3. SumFunctionOnSet(f, 1..MaxCallbacks) \in Nat
    BY <1>1, SumNat
  <1> QED  BY <1>2, <1>3

LEMMA NoSignalsNotReady == ~ReadyToFire(NoSignals)
  <1>1. ReadyAgents(NoSignals) = {}
    BY DEF ReadyAgents, NoSignals
  <1>2. Cardinality(ReadyAgents(NoSignals)) = 0
    BY <1>1, FS_EmptySet
  <1> QED  BY <1>2, CoordinatorAssumption DEF ReadyToFire, QuorumMet

(* Fewer signals with the same commitments are no readier. *)
LEMMA FewerSignals ==
    ASSUME NEW rs \in SUBSET Agents, NEW sigs, Registered(sigs, rs),
           NEW fewer, Registered(fewer, rs),
           ReadyAgents(fewer) \subseteq ReadyAgents(sigs),
           \A a \in ReadyAgents(fewer) : fewer[a].commitments = sigs[a].commitments,
           ReadyToFire(fewer)
    PROVE  ReadyToFire(sigs)
  <1> DEFINE A == ReadyAgents(sigs)
             B == ReadyAgents(fewer)
             f == [a \in A |-> sigs[a].commitments]
             g == [a \in B |-> fewer[a].commitments]
  <1>1. A \in SUBSET Agents /\ B \in SUBSET A /\ IsFiniteSet(A) /\ IsFiniteSet(B)
    <2>1. A \in SUBSET Agents /\ B \in SUBSET A
      BY DEF ReadyAgents
    <2>2. IsFiniteSet(A)
      BY <2>1, CoordinatorAssumption, SubsetCount
    <2> QED  BY <2>1, <2>2, SubsetCount
  <1>2. Cardinality(B) <= Cardinality(A) /\ Cardinality(A) \in Nat /\ Cardinality(B) \in Nat
    BY <1>1, SubsetCount
  <1>3. NatOn(f, A)
    BY CoordinatorAssumption DEF Registered, SignalMaps, Signal, ReadyAgents, NatOn
  <1>4. \A a \in B : g[a] = f[a]
    BY <1>1
  <1> HIDE DEF A, B, f, g
  <1>5. IntOn(g, B)
    BY <1>1, <1>3, <1>4 DEF IntOn, NatOn
  <1>6. SumFunctionOnSet(g, B) = SumFunctionOnSet(f, B)
    BY <1>1, <1>4, <1>5, SumCongruence
  <1>7. SumFunctionOnSet(f, B) <= SumFunctionOnSet(f, A)
    BY <1>1, <1>3, SumOfPart
  <1>8. SumFunctionOnSet(f, A) \in Nat /\ SumFunctionOnSet(f, B) \in Nat
    <2>1. NatOn(f, B)
      BY <1>1, <1>3 DEF NatOn
    <2> QED  BY <1>1, <1>3, <2>1, SumNat
  <1>9. /\ TotalCommitments(sigs) = SumFunctionOnSet(f, A)
        /\ TotalCommitments(fewer) = SumFunctionOnSet(g, B)
    BY DEF TotalCommitments, A, B, f, g
  <1>10. /\ Cardinality(B) >= QUORUM /\ TotalCommitments(fewer) >= MIN_TOTAL
         /\ QUORUM \in Nat /\ MIN_TOTAL \in Nat
    BY CoordinatorAssumption DEF ReadyToFire, QuorumMet, CommitmentsEnough, B
  <1> QED  BY <1>2, <1>6, <1>7, <1>8, <1>9, <1>10
           DEF ReadyToFire, QuorumMet, CommitmentsEnough, A

(* Clearing an agent's entry, or ageing the entries, leaves fewer signals. *)
LEMMA ClearedNotReadier ==
    ASSUME NEW rs \in SUBSET Agents, NEW sigs, Registered(sigs, rs), NEW a \in Agents,
           ReadyToFire([sigs EXCEPT ![a] = NoSignal])
    PROVE  ReadyToFire(sigs)
  <1> DEFINE fewer == [sigs EXCEPT ![a] = NoSignal]
  <1>1. Registered(fewer, rs)
    BY UpdatedRegistered
  <1>2. /\ ReadyAgents(fewer) \subseteq ReadyAgents(sigs)
        /\ \A c \in ReadyAgents(fewer) : fewer[c].commitments = sigs[c].commitments
    BY DEF Registered, SignalMaps, ReadyAgents
  <1> HIDE DEF fewer
  <1>3. ReadyToFire(fewer)
    BY DEF fewer
  <1> QED  BY <1>1, <1>2, <1>3, FewerSignals

LEMMA OlderNotReadier ==
    ASSUME NEW rs \in SUBSET Agents, NEW sigs, Registered(sigs, rs),
           ReadyToFire([a \in Agents |-> Older(sigs[a])])
    PROVE  ReadyToFire(sigs)
  <1> DEFINE older == [a \in Agents |-> Older(sigs[a])]
  <1>1. Registered(older, rs)
    BY OlderType DEF Registered, SignalMaps, ReadyAgents
  <1>2. ReadyAgents(older) \subseteq ReadyAgents(sigs)
    BY OlderType DEF Registered, SignalMaps, ReadyAgents
  <1>3. \A c \in ReadyAgents(older) : older[c].commitments = sigs[c].commitments
    <2> SUFFICES ASSUME NEW c \in ReadyAgents(older)
                 PROVE  older[c].commitments = sigs[c].commitments
      OBVIOUS
    <2>1. c \in Agents /\ older[c] = Older(sigs[c]) /\ sigs[c] \in Signal
      BY <1>2 DEF ReadyAgents, Registered, SignalMaps
    <2>2. Older(sigs[c]).commitments = sigs[c].commitments
      BY <2>1 DEF Older, Signal
    <2> QED  BY <2>1, <2>2
  <1> HIDE DEF older
  <1>4. ReadyToFire(older)
    BY DEF older
  <1> QED  BY <1>1, <1>2, <1>3, <1>4, FewerSignals

Handled(q) == ReadyToFire(signals[q]) => countdown[q] # Idle \/ Firings(q) > 0

(* A pool is no readier than it was, and kept its countdown and firings.   *)
LEMMA StillHandled ==
    ASSUME NEW q \in Pools, Handled(q), firing'[q] = firing[q],
           ReadyToFire(signals'[q]) =>
              ReadyToFire(signals[q]) /\ (countdown[q] # Idle => countdown'[q] # Idle)
    PROVE  Handled(q)'
  BY DEF Handled, Firings

LEMMA FireHandled ==
    ASSUME IInv, NEW p \in Pools, NEW sigs, Registered(sigs, registered),
           Fire(p, sigs), UNCHANGED <<registered, callbacks>>
    PROVE  TimersTyped' /\ BatchResolved' /\ QuorumIsHandled'
  <1>1. BatchResolved'
    BY ResolvedBatch DEF Fire
  <1>2. /\ countdown' = [countdown EXCEPT ![p] = Idle]
        /\ callbacks \in 0..MaxCallbacks /\ MaxCallbacks \in Nat
        /\ firing \in [Pools -> [1..MaxCallbacks -> Nat]]
        /\ DOMAIN signals = Pools
    BY CoordinatorAssumption DEF Fire, IInv, TimersTyped, SignalsRegistered
  <1>3. ASSUME NEW q \in Pools
        PROVE  Handled(q)
    BY DEF IInv, QuorumIsHandled, Handled
  <1>4. CASE callbacks = 0
    <2>1. firing' = firing /\ signals' = [signals EXCEPT ![p] = NoSignals]
      BY <1>4 DEF Fire
    <2>2. ASSUME NEW q \in Pools PROVE Handled(q)'
      <3>1. CASE q = p
        BY <1>2, <2>1, <3>1, NoSignalsNotReady DEF Handled
      <3>2. CASE q # p
        <4>1. signals'[q] = signals[q] /\ countdown'[q] = countdown[q] /\ firing'[q] = firing[q]
          BY <1>2, <2>1, <3>2 DEF IInv, TimersTyped
        <4> QED  BY <1>3, <4>1, StillHandled
      <3> QED  BY <3>1, <3>2
    <2>3. TimersTyped'
      BY <1>2, <2>1 DEF IInv, TimersTyped
    <2> QED  BY <1>1, <2>2, <2>3 DEF QuorumIsHandled, Handled
  <1>5. CASE callbacks # 0
    <2>1. /\ firing' = [firing EXCEPT ![p][1] = @ + 1]
          /\ signals' = [signals EXCEPT ![p] = sigs]
          /\ 1 \in 1..MaxCallbacks
      BY <1>2, <1>5 DEF Fire
    <2>2. /\ firing' \in [Pools -> [1..MaxCallbacks -> Nat]]
          /\ firing'[p][1] > 0
      BY <1>2, <2>1
    <2>3. ASSUME NEW q \in Pools PROVE Handled(q)'
      <3>1. CASE q = p
        BY <2>1, <2>2, <3>1, SomeFiring DEF Handled, Firings
      <3>2. CASE q # p
        <4>1. signals'[q] = signals[q] /\ countdown'[q] = countdown[q] /\ firing'[q] = firing[q]
          BY <1>2, <2>1, <3>2 DEF IInv, TimersTyped
        <4> QED  BY <1>3, <4>1, StillHandled
      <3> QED  BY <3>1, <3>2
    <2>4. TimersTyped'
      BY <1>2, <2>2 DEF IInv, TimersTyped
    <2> QED  BY <1>1, <2>3, <2>4 DEF QuorumIsHandled, Handled
  <1> QED  BY <1>4, <1>5

(* A pool that is ready after an evaluation has fired or counts down. *)
LEMMA EvaluateHandled ==
    ASSUME IInv, NEW p \in Pools, NEW sigs, Registered(sigs, registered),
           EvaluatePool(p, sigs), UNCHANGED <<registered, callbacks>>
    PROVE  TimersTyped' /\ BatchResolved' /\ QuorumIsHandled'
  <1>1. CASE Fire(p, sigs)
    BY <1>1, FireHandled
  <1>2. CASE ~Fire(p, sigs)
    <2>1. /\ signals' = [signals EXCEPT ![p] = sigs]
          /\ batch' = NoBatch /\ firing' = firing
          /\ \/ ~ReadyToFire(sigs) /\ countdown' = countdown
             \/ StartCountdown(p)
      BY <1>2 DEF EvaluatePool
    <2>2. TimersTyped'
      <3>1. COUNTDOWN \in 0..COUNTDOWN
        BY CoordinatorAssumption
      <3>2. countdown' \in [Pools -> {Idle} \cup (0..COUNTDOWN)]
        BY <2>1, <3>1 DEF IInv, TimersTyped, StartCountdown
      <3> QED  BY <2>1, <3>2 DEF IInv, TimersTyped
    <2>3. ASSUME NEW q \in Pools PROVE Handled(q)'
      <3>1. CASE q = p /\ ~ReadyToFire(sigs)
        BY <2>1, <3>1 DEF Handled, IInv, SignalsRegistered
      <3>2. CASE q = p /\ StartCountdown(p)
        <4>1. countdown'[p] # Idle
          BY <3>2, CoordinatorAssumption DEF StartCountdown, IInv, TimersTyped, Idle
        <4> QED  BY <3>2, <4>1 DEF Handled
      <3>3. CASE q # p
        <4>1. signals'[q] = signals[q] /\ countdown'[q] = countdown[q] /\ firing'[q] = firing[q]
          BY <2>1, <3>3 DEF IInv, SignalsRegistered, TimersTyped, StartCountdown
        <4>2. Handled(q)
          BY DEF IInv, QuorumIsHandled, Handled
        <4> QED  BY <4>1, <4>2, StillHandled
      <3> QED  BY <2>1, <3>1, <3>2, <3>3
    <2> QED  BY <2>1, <2>2, <2>3 DEF BatchResolved, QuorumIsHandled, Handled
  <1> QED  BY <1>1, <1>2

LEMMA ResetHandled ==
    ASSUME IInv, NEW ps, Reset(ps), batch' = NoBatch,
           \A q \in Pools : q \notin ps => firing'[q] = firing[q]
    PROVE  /\ countdown' \in [Pools -> {Idle} \cup (0..COUNTDOWN)]
           /\ BatchResolved' /\ QuorumIsHandled'
  <1>1. ASSUME NEW q \in Pools PROVE Handled(q)'
    <2>1. CASE q \in ps
      BY <2>1, NoSignalsNotReady DEF Reset, Handled
    <2>2. CASE q \notin ps
      <3>1. signals'[q] = signals[q] /\ countdown'[q] = countdown[q]
        BY <2>2 DEF Reset
      <3>2. Handled(q)
        BY DEF IInv, QuorumIsHandled, Handled
      <3> QED  BY <2>2, <3>1, <3>2, StillHandled
    <2> QED  BY <2>1, <2>2
  <1>2. countdown' \in [Pools -> {Idle} \cup (0..COUNTDOWN)]
    BY DEF Reset, IInv, TimersTyped
  <1> QED  BY <1>1, <1>2 DEF BatchResolved, QuorumIsHandled, Handled

(* The calls that only add to what the coordinator knows, or take away.    *)
LEMMA QuietHandled ==
    ASSUME IInv, UNCHANGED <<callbacks, firing>>, batch' = NoBatch,
           countdown' \in [Pools -> {Idle} \cup (0..COUNTDOWN)],
           \A q \in Pools :
              ReadyToFire(signals'[q]) =>
                 ReadyToFire(signals[q]) /\ (countdown[q] # Idle => countdown'[q] # Idle)
    PROVE  TimersTyped' /\ BatchResolved' /\ QuorumIsHandled'
  <1>1. ASSUME NEW q \in Pools PROVE Handled(q)'
    <2>1. Handled(q)
      BY DEF IInv, QuorumIsHandled, Handled
    <2> QED  BY <2>1, StillHandled
  <1> QED  BY <1>1 DEF IInv, TimersTyped, BatchResolved, QuorumIsHandled, Handled

LEMMA CallbackHandled ==
    ASSUME IInv, NEW p \in Pools, NEW k \in 1..MaxCallbacks, CallbackSettles(p, k)
    PROVE  TimersTyped' /\ BatchResolved' /\ QuorumIsHandled'
  <1>1. /\ firing \in [Pools -> [1..MaxCallbacks -> Nat]]
        /\ callbacks \in 0..MaxCallbacks /\ callbacks' = callbacks
        /\ firing[p][k] > 0 /\ batch' = NoBatch
        /\ MaxCallbacks \in Nat
    BY CoordinatorAssumption DEF IInv, TimersTyped, CallbackSettles
  <1>2. CASE k < callbacks
    <2>1. /\ firing' = [firing EXCEPT ![p][k] = @ - 1, ![p][k + 1] = @ + 1]
          /\ signals' = signals /\ countdown' = countdown
          /\ k + 1 \in 1..MaxCallbacks
      BY <1>1, <1>2 DEF CallbackSettles
    <2>2. firing' \in [Pools -> [1..MaxCallbacks -> Nat]] /\ firing'[p][k + 1] > 0
      <3> DEFINE oneLess == [firing[p] EXCEPT ![k] = @ - 1]
                 onward == [oneLess EXCEPT ![k + 1] = @ + 1]
      <3>1. oneLess \in [1..MaxCallbacks -> Nat]
        BY <1>1
      <3>2. onward \in [1..MaxCallbacks -> Nat] /\ onward[k + 1] > 0
        <4> HIDE DEF oneLess
        <4> QED  BY <2>1, <3>1
      <3>3. firing' = [firing EXCEPT ![p] = onward]
        BY <1>1, <2>1
      <3> HIDE DEF onward
      <3> QED  BY <1>1, <3>2, <3>3
    <2>3. ASSUME NEW q \in Pools PROVE Handled(q)'
      <3>1. CASE q = p
        BY <2>1, <2>2, <3>1, SomeFiring DEF Handled, Firings
      <3>2. CASE q # p
        <4>1. firing'[q] = firing[q]
          BY <1>1, <2>1, <3>2
        <4>2. Handled(q)
          BY DEF IInv, QuorumIsHandled, Handled
        <4> QED  BY <2>1, <4>1, <4>2, StillHandled
      <3> QED  BY <3>1, <3>2
    <2> QED  BY <1>1, <2>1, <2>2, <2>3
             DEF IInv, TimersTyped, BatchResolved, QuorumIsHandled, Handled
  <1>3. CASE ~(k < callbacks)
    <2>1. firing' = [firing EXCEPT ![p][k] = @ - 1] /\ Reset({p})
      BY <1>3 DEF CallbackSettles
    <2>2. /\ firing' \in [Pools -> [1..MaxCallbacks -> Nat]]
          /\ \A q \in Pools : q \notin {p} => firing'[q] = firing[q]
      BY <1>1, <2>1
    <2> QED  BY <1>1, <2>1, <2>2, ResetHandled DEF TimersTyped
  <1> QED  BY <1>2, <1>3

LEMMA IInvInit == Init => IInv
  <1> SUFFICES ASSUME Init PROVE IInv
    OBVIOUS
  <1>1. SignalsRegistered
    BY NoSignalsRegistered DEF Init, SignalsRegistered
  <1>2. TimersTyped /\ BatchResolved
    BY CoordinatorAssumption DEF Init, TimersTyped, BatchResolved
  <1>3. QuorumIsHandled
    BY NoSignalsNotReady DEF Init, QuorumIsHandled
  <1> QED  BY <1>1, <1>2, <1>3 DEF IInv

LEMMA IInvNext == IInv /\ SignalsRegistered' /\ [Next]_vars => IInv'
  <1> SUFFICES ASSUME IInv, SignalsRegistered', [Next]_vars
               PROVE  TimersTyped' /\ BatchResolved' /\ QuorumIsHandled'
    BY DEF IInv
  <1>0. /\ SignalsRegistered /\ registered \in SUBSET Agents
        /\ countdown \in [Pools -> {Idle} \cup (0..COUNTDOWN)]
        /\ \A q \in Pools : Registered(signals[q], registered)
    BY DEF IInv, SignalsRegistered, TimersTyped
  <1>1. CASE Tick
    <2>1. ASSUME NEW q \in Pools, ReadyToFire(signals'[q])
          PROVE  ReadyToFire(signals[q])
      <3>1. signals'[q] = [a \in Agents |-> Older(signals[q][a])]
        BY <1>1 DEF Tick
      <3>2. ReadyToFire([a \in Agents |-> Older(signals[q][a])])
        BY <2>1, <3>1
      <3> QED  BY <1>0, <3>2, OlderNotReadier
    <2>2. countdown' = [q \in Pools |-> IF countdown[q] > 0 THEN countdown[q] - 1 ELSE countdown[q]]
      BY <1>1 DEF Tick
    <2>3. \A q \in Pools : /\ countdown'[q] \in {Idle} \cup (0..COUNTDOWN)
                           /\ countdown[q] # Idle => countdown'[q] # Idle
      BY <1>0, <2>2, CoordinatorAssumption DEF Idle
    <2>4. countdown' \in [Pools -> {Idle} \cup (0..COUNTDOWN)]
      BY <2>2, <2>3
    <2> QED  BY <1>1, <2>1, <2>3, <2>4, QuietHandled DEF Tick
  <1>2. ASSUME NEW a \in Agents, RegisterAgent(a)
        PROVE  TimersTyped' /\ BatchResolved' /\ QuorumIsHandled'
    BY <1>0, <1>2, QuietHandled DEF RegisterAgent
  <1>3. ASSUME NEW a \in Agents, UnregisterAgent(a)
        PROVE  TimersTyped' /\ BatchResolved' /\ QuorumIsHandled'
    <2>1. ASSUME NEW q \in Pools, ReadyToFire(signals'[q])
          PROVE  ReadyToFire(signals[q])
      <3>1. signals'[q] = [signals[q] EXCEPT ![a] = NoSignal]
        BY <1>3 DEF UnregisterAgent, RemoveSignals
      <3>2. ReadyToFire([signals[q] EXCEPT ![a] = NoSignal])
        BY <2>1, <3>1
      <3> QED  BY <1>0, <3>2, ClearedNotReadier
    <2> QED  BY <1>0, <1>3, <2>1, QuietHandled DEF UnregisterAgent
  <1>4. ASSUME NEW a \in Agents, NEW p \in Pools, WithdrawReady(a, p)
        PROVE  TimersTyped' /\ BatchResolved' /\ QuorumIsHandled'
    <2> DEFINE sigs == [signals[p] EXCEPT ![a] = NoSignal]
    <2>1. /\ signals' = [signals EXCEPT ![p] = sigs] /\ CancelCountdown(p, sigs)
          /\ signals'[p] = sigs
      BY <1>0, <1>4 DEF WithdrawReady, SignalsRegistered
    <2>2. countdown' \in [Pools -> {Idle} \cup (0..COUNTDOWN)]
      BY <1>0, <2>1 DEF CancelCountdown
    <2>3. ASSUME NEW q \in Pools, ReadyToFire(signals'[q])
          PROVE  ReadyToFire(signals[q]) /\ countdown'[q] = countdown[q]
      <3>1. CASE q = p
        <4>1. ReadyToFire(sigs)
          BY <2>1, <2>3, <3>1
        <4>2. ReadyToFire(signals[p])
          BY <1>0, <4>1, ClearedNotReadier
        <4> QED  BY <2>1, <3>1, <4>1, <4>2 DEF ReadyToFire, CancelCountdown
      <3>2. CASE q # p
        BY <1>0, <2>1, <2>3, <3>2 DEF CancelCountdown, SignalsRegistered
      <3> QED  BY <3>1, <3>2
    <2> QED  BY <1>4, <2>2, <2>3, QuietHandled DEF WithdrawReady
  <1>5. ASSUME NEW a \in Agents, NEW p \in Pools, NEW signal \in NewSignals,
               SignalReady(a, p, signal)
        PROVE  TimersTyped' /\ BatchResolved' /\ QuorumIsHandled'
    <2>1. Registered(PruneStaleSignals([signals[p] EXCEPT ![a] = signal]), registered)
      BY <1>0, <1>5, UpdatedRegistered, PrunedRegistered, NewSignalsType DEF SignalReady
    <2> QED  BY <1>5, <2>1, EvaluateHandled DEF SignalReady
  <1>6. CASE OnBatchReady
    <2>1. QuorumIsHandled'
      BY <1>6 DEF OnBatchReady, IInv, QuorumIsHandled, Firings
    <2> QED  BY <1>6, <2>1, CoordinatorAssumption
             DEF OnBatchReady, IInv, TimersTyped, BatchResolved
  <1>7. ASSUME NEW p \in Pools, CountdownExpires(p)
        PROVE  TimersTyped' /\ BatchResolved' /\ QuorumIsHandled'
    BY <1>0, <1>7, FireHandled DEF CountdownExpires
  <1>8. ASSUME NEW p \in Pools, ResetPool(p)
        PROVE  TimersTyped' /\ BatchResolved' /\ QuorumIsHandled'
    BY <1>8, ResetHandled DEF ResetPool, IInv, TimersTyped
  <1>9. ASSUME NEW p \in Pools, NEW k \in 1..MaxCallbacks, CallbackSettles(p, k)
        PROVE  TimersTyped' /\ BatchResolved' /\ QuorumIsHandled'
    BY <1>9, CallbackHandled
  <1>10. CASE ResetAll
    BY <1>10, ResetHandled DEF ResetAll, IInv, TimersTyped
  <1>11. CASE Destroy
    <2>1. callbacks' \in 0..MaxCallbacks
      BY <1>11, CoordinatorAssumption DEF Destroy
    <2> QED  BY <1>11, <2>1, ResetHandled DEF Destroy, IInv, TimersTyped
  <1>12. CASE UNCHANGED vars
    BY <1>12 DEF vars, IInv, TimersTyped, BatchResolved, QuorumIsHandled, Firings
  <1> QED
    BY <1>1, <1>2, <1>3, <1>4, <1>5, <1>6, <1>7, <1>8, <1>9, <1>10, <1>11, <1>12 DEF Next

LEMMA InvariantHolds == Spec => []IInv
  <1>1. Spec => []SignalsRegistered
    BY SignalsInvariant
  <1> QED  BY <1>1, IInvInit, IInvNext, PTL DEF Spec

(* Every variable of the coordinator keeps its type, and the parameters it *)
(* hands out are numbers under each of the four strategies.                *)
THEOREM CoordinatorTypes == Spec => []TypeOK
  <1>1. IInv => TypeOK
    <2> SUFFICES ASSUME IInv PROVE TypeOK
      OBVIOUS
    <2>1. /\ registered \subseteq Agents
          /\ signals \in [Pools -> SignalMaps]
          /\ \A p \in Pools : ReadyAgents(signals[p]) \subseteq registered
      <3>1. \A p \in Pools : signals[p] \in SignalMaps
        BY DEF IInv, SignalsRegistered, Registered
      <3> QED  BY <3>1 DEF IInv, SignalsRegistered, Registered
    <2>2. ASSUME batch # NoBatch
          PROVE  /\ batch.pool \in Pools
                 /\ batch.signals \in SignalMaps
                 /\ batch.slippageBps \in Nat
      <3>1. PICK p \in Pools, sigs \in SignalMaps : batch = BatchParameters(p, sigs)
        BY <2>2 DEF IInv, BatchResolved
      <3> QED  BY <3>1, ResolvedNat DEF BatchParameters
    <2> QED  BY <2>1, <2>2 DEF TypeOK, IInv, TimersTyped, SignalMaps
  <1> QED  BY <1>1, InvariantHolds, PTL

(* No wake-up is lost: a pool with a quorum and enough commitments has a    *)
(* countdown or a firing in progress, in every state of every interleaving. *)
THEOREM QuorumAlwaysHandled == Spec => []QuorumIsHandled
  <1>1. IInv => QuorumIsHandled
    BY DEF IInv
  <1> QED  BY <1>1, InvariantHolds, PTL

(* The slippage resolved by the median has no majority above or below it.   *)
THEOREM MedianAlwaysCentral == Spec => []MedianIsCentral
  <1>1. IInv => MedianIsCentral
    <2> SUFFICES ASSUME IInv, Strategy = "median", batch # NoBatch,
                        Voters(batch.signals) # {}
                 PROVE  /\ 2 * Cardinality(Above(batch.signals, batch.slippageBps))
                              <= Cardinality(Voters(batch.signals))
                        /\ 2 * Cardinality(Beneath(batch.signals, batch.slippageBps))
                              <= Cardinality(Voters(batch.signals))
      BY DEF MedianIsCentral, Above, Beneath
    <2>1. PICK p \in Pools, sigs \in SignalMaps : batch = BatchParameters(p, sigs)
      BY DEF IInv, BatchResolved
    <2>2. batch.signals = sigs /\ batch.slippageBps = ResolvedSlippage(sigs)
      BY <2>1 DEF BatchParameters
    <2>3. ResolvedSlippage(sigs) = Median(sigs)
      BY <2>2 DEF ResolvedSlippage, ResolveConflict
    <2> QED  BY <2>2, <2>3, MedianParts
  <1> QED  BY <1>1, InvariantHolds, PTL

=============================================================================
