------------------------- MODULE AgentSystemProofs -------------------------
(***************************************************************************)
(* What holds of the other components of an agent process, whatever the    *)
(* pools, messages, prices, payments and settings: PoolMonitor,            *)
(* MeanReversion and Strategies, TokenDistributionHandler, AgentConfig and *)
(* AgentMessageBus.                                                        *)
(***************************************************************************)
EXTENDS AgentSystem, AgentManagerProofs, SumTheorems, SequenceTheorems

(* ---------------------------- The pool monitor ------------------------- *)

Counts == [MonitorPools -> Nat]
Caches == [MonitorPools -> {"none", "node", "fallback"}]
BoundedRetries == \A p \in MonitorPools : retryCounter[p] <= MaxPollRetries

LEMMA TypesOfMonitor ==
  MonitorTypeOK <=> /\ monitored \subseteq MonitorPools /\ cache \in Caches
                    /\ monitorRunning \in BOOLEAN
                    /\ timers \in Counts /\ listeners \in Counts /\ retryCounter \in Counts
                    /\ polls \in Counts /\ eventPolls \in Counts
                    /\ failing \in Counts /\ retryTimers \in Counts
                    /\ BoundedRetries
  BY Zenon DEF MonitorTypeOK, Counts, Caches, BoundedRetries

LEMMA OneMoreCounts ==
  ASSUME NEW f \in Counts, NEW p \in MonitorPools PROVE [f EXCEPT ![p] = @ + 1] \in Counts
  BY SMT DEF Counts

LEMMA OneLessCounts ==
  ASSUME NEW f \in Counts, NEW p \in MonitorPools, f[p] > 0 PROVE [f EXCEPT ![p] = @ - 1] \in Counts
  BY SMT DEF Counts

LEMMA ZeroCounts ==
  ASSUME NEW f \in Counts, NEW p \in MonitorPools PROVE [f EXCEPT ![p] = 0] \in Counts
  BY SMT DEF Counts

(* ------------------------ Timers and listeners ------------------------- *)

(* What is stopped loses its timer and its listeners.                      *)
LEMMA StoppedPools ==
  ASSUME MonitorTypeOK, PolledIffMonitored, NEW S, S \subseteq monitored, StopMonitoringPools(S),
         NEW q \in MonitorPools
  PROVE  /\ q \in S => timers'[q] = 0 /\ listeners'[q] = 0
         /\ q \notin S => timers'[q] = timers[q] /\ listeners'[q] = listeners[q]
<1>1. timers'[q] = (IF q \in S /\ timers[q] > 0 THEN timers[q] - 1 ELSE timers[q])
  BY DEF StopMonitoringPools
<1>2. listeners'[q] = (IF q \in S THEN 0 ELSE listeners[q])
  BY DEF StopMonitoringPools
<1>3. timers[q] \in {0, 1}
  BY DEF PolledIffMonitored
<1>4. q \in S => timers'[q] = 0
  BY <1>1, <1>3, SMT
<1> QED  BY <1>1, <1>2, <1>4, Zenon

(* What is started gets one timer, and listeners if they are enabled.      *)
LEMMA StartedPools ==
  ASSUME NEW S, StartMonitoringPools(S), NEW q \in MonitorPools, timers[q] = 0, listeners[q] = 0
  PROVE  /\ q \in S => timers'[q] = 1 /\ listeners'[q] = (IF EnableEventListeners THEN 1 ELSE 0)
         /\ q \notin S => timers'[q] = 0 /\ listeners'[q] = 0
  BY MonitorAssumption DEF StartMonitoringPools

LEMMA OthersKeepTimer ==
  ASSUME NEW S, StartMonitoringPools(S), NEW q \in MonitorPools, q \notin S
  PROVE  timers'[q] = timers[q] /\ listeners'[q] = listeners[q]
  BY DEF StartMonitoringPools

(* Removing a pool stops it, whether the monitor runs or not.              *)
LEMMA RemovalKeepsPolled ==
  ASSUME MonitorTypeOK, PolledIffMonitored, NEW p, RemovedPool(p), monitorRunning' = monitorRunning
  PROVE  PolledIffMonitored'
<1> SUFFICES ASSUME NEW q \in MonitorPools
             PROVE  LET n == IF monitorRunning /\ q \in monitored' THEN 1 ELSE 0
                    IN  timers'[q] = n /\ listeners'[q] = (IF EnableEventListeners THEN n ELSE 0)
  BY Zenon DEF PolledIffMonitored
<1>1. /\ q \in monitored \cap {p} => timers'[q] = 0 /\ listeners'[q] = 0
      /\ q \notin monitored \cap {p} => timers'[q] = timers[q] /\ listeners'[q] = listeners[q]
  BY StoppedPools DEF RemovedPool
<1>2. monitored' = monitored \ {p}
  BY DEF RemovedPool
<1>3. LET n == IF monitorRunning /\ q \in monitored THEN 1 ELSE 0
      IN  timers[q] = n /\ listeners[q] = (IF EnableEventListeners THEN n ELSE 0)
  BY Zenon DEF PolledIffMonitored
<1>4. CASE q \in monitored \cap {p}
  BY <1>1, <1>2, <1>4
<1>5. CASE q \notin monitored \cap {p}
  <2>1. q \in monitored' <=> q \in monitored
    BY <1>2, <1>5
  <2> QED  BY <1>1, <1>3, <1>5, <2>1, Zenon
<1> QED  BY <1>4, <1>5

LEMMA PolledStep == MonitorTypeOK /\ PolledIffMonitored /\ [MonitorNext]_monitorVars => PolledIffMonitored'
<1> SUFFICES ASSUME MonitorTypeOK, PolledIffMonitored, [MonitorNext]_monitorVars PROVE PolledIffMonitored'
  OBVIOUS
<1>k. ASSUME UNCHANGED <<monitored, monitorRunning, timers, listeners>> PROVE PolledIffMonitored'
  <2>1. monitored' = monitored /\ monitorRunning' = monitorRunning /\ timers' = timers /\ listeners' = listeners
    BY <1>k
  <2> QED  BY <2>1, Zenon DEF PolledIffMonitored
<1>d. ASSUME NEW q \in MonitorPools, ~(monitorRunning /\ q \in monitored)
      PROVE  timers[q] = 0 /\ listeners[q] = 0
  <2>1. timers[q] = 0 /\ listeners[q] = (IF EnableEventListeners THEN 0 ELSE 0)
    BY <1>d, Zenon DEF PolledIffMonitored
  <2> QED  BY <2>1
<1>1. CASE StartPoolMonitor
  <2>0. monitorRunning' /\ monitored' = monitored
    BY <1>1 DEF StartPoolMonitor
  <2> SUFFICES ASSUME NEW q \in MonitorPools
               PROVE  LET n == IF q \in monitored THEN 1 ELSE 0
                      IN  timers'[q] = n /\ listeners'[q] = (IF EnableEventListeners THEN n ELSE 0)
    BY <2>0, Zenon DEF PolledIffMonitored
  <2>1. timers[q] = 0 /\ listeners[q] = 0 /\ StartMonitoringPools(monitored)
    BY <1>1, <1>d DEF StartPoolMonitor
  <2> QED  BY <2>1, StartedPools
<1>2. CASE StopPoolMonitor
  <2> SUFFICES ASSUME NEW q \in MonitorPools
               PROVE  timers'[q] = 0 /\ listeners'[q] = 0
    BY <1>2 DEF StopPoolMonitor, PolledIffMonitored
  <2>1. StopMonitoringPools(monitored)
    BY <1>2 DEF StopPoolMonitor
  <2> QED  BY <1>d, <2>1, StoppedPools
<1>4. ASSUME NEW p \in MonitorPools, AddPool(p) PROVE PolledIffMonitored'
  <2>0. /\ p \notin monitored /\ monitored' = monitored \cup {p} /\ monitorRunning' = monitorRunning
        /\ IF monitorRunning THEN StartMonitoringPools({p}) ELSE UNCHANGED <<timers, listeners>>
    BY <1>4 DEF AddPool
  <2>1. CASE ~monitorRunning
    BY <2>0, <2>1, Zenon DEF PolledIffMonitored
  <2>2. CASE monitorRunning
    <3> SUFFICES ASSUME NEW q \in MonitorPools
                 PROVE  LET n == IF q \in monitored' THEN 1 ELSE 0
                        IN  timers'[q] = n /\ listeners'[q] = (IF EnableEventListeners THEN n ELSE 0)
      BY <2>0, <2>2 DEF PolledIffMonitored
    <3>1. CASE q = p
      BY <1>d, <2>0, <2>2, <3>1, StartedPools
    <3>2. CASE q # p
      <4>1. timers'[q] = timers[q] /\ listeners'[q] = listeners[q]
        BY <2>0, <2>2, <3>2, OthersKeepTimer
      <4>2. q \in monitored' <=> q \in monitored
        BY <2>0, <3>2
      <4> QED  BY <2>2, <4>1, <4>2, Zenon DEF PolledIffMonitored
    <3> QED  BY <3>1, <3>2
  <2> QED  BY <2>1, <2>2
<1>5. ASSUME NEW p \in MonitorPools, RemovePool(p) PROVE PolledIffMonitored'
  BY <1>5, RemovalKeepsPolled DEF RemovePool
<1>6. ASSUME NEW p \in MonitorPools, HandleError(p) PROVE PolledIffMonitored'
  BY <1>6, <1>k, RemovalKeepsPolled DEF HandleError
<1>7. ASSUME NEW p \in MonitorPools,
             \/ PollTick(p) \/ PoolEvent(p) \/ PollAnswered(p) \/ EventPollAnswered(p)
             \/ RetryPoll(p) \/ TriggerPoll(p) \/ CacheExpires(p)
      PROVE  PolledIffMonitored'
  BY <1>7, <1>k DEF PollTick, PoolEvent, PollAnswered, EventPollAnswered, RetryPoll, TriggerPoll,
                    CacheExpires, poolVars
<1>8. CASE UNCHANGED monitorVars
  BY <1>8, <1>k DEF monitorVars, poolVars
<1> QED  BY <1>1, <1>2, <1>4, <1>5, <1>6, <1>7, <1>8 DEF MonitorNext

(* ------------------------ Types of the monitor ------------------------- *)

LEMMA StoppedCounts ==
  ASSUME MonitorTypeOK, NEW S, StopMonitoringPools(S)
  PROVE  timers' \in Counts /\ listeners' \in Counts
  BY TypesOfMonitor, SMT DEF StopMonitoringPools, Counts

LEMMA StartedCounts ==
  ASSUME MonitorTypeOK, NEW S, StartMonitoringPools(S)
  PROVE  timers' \in Counts /\ listeners' \in Counts /\ polls' \in Counts
  BY TypesOfMonitor, SMT DEF StartMonitoringPools, Counts

LEMMA CounterReset ==
  ASSUME MonitorTypeOK, NEW p \in MonitorPools, retryCounter' = [retryCounter EXCEPT ![p] = 0]
  PROVE  retryCounter' \in Counts /\ BoundedRetries'
<1>1. retryCounter \in Counts /\ BoundedRetries
  BY TypesOfMonitor
<1> QED  BY <1>1, MonitorAssumption, SMT DEF Counts, BoundedRetries

(* What a poll or a trigger fetches is cached with where it came from.     *)
LEMMA FetchedCaches == ASSUME cache \in Caches, NEW p \in MonitorPools, Fetch(p) PROVE cache' \in Caches
  BY DEF Fetch, Caches

LEMMA MonitorTypeStep == MonitorTypeOK /\ [MonitorNext]_monitorVars => MonitorTypeOK'
<1> SUFFICES ASSUME MonitorTypeOK, [MonitorNext]_monitorVars PROVE MonitorTypeOK'
  OBVIOUS
<1>t. /\ monitored \subseteq MonitorPools /\ cache \in Caches
      /\ monitorRunning \in BOOLEAN
      /\ timers \in Counts /\ listeners \in Counts /\ retryCounter \in Counts
      /\ polls \in Counts /\ eventPolls \in Counts /\ failing \in Counts /\ retryTimers \in Counts
      /\ BoundedRetries
  BY TypesOfMonitor
<1>u. /\ monitored' \subseteq MonitorPools /\ cache' \in Caches
      /\ monitorRunning' \in BOOLEAN
      /\ timers' \in Counts /\ listeners' \in Counts /\ retryCounter' \in Counts
      /\ polls' \in Counts /\ eventPolls' \in Counts /\ failing' \in Counts /\ retryTimers' \in Counts
      /\ BoundedRetries'
      => MonitorTypeOK'
  BY Zenon DEF MonitorTypeOK, Counts, Caches, BoundedRetries
<1>b. UNCHANGED retryCounter => BoundedRetries'
  BY <1>t DEF BoundedRetries
<1> USE DEF poolVars, pollVars
<1>1. CASE StartPoolMonitor
  BY <1>1, <1>t, <1>u, <1>b, StartedCounts DEF StartPoolMonitor
<1>2. CASE StopPoolMonitor
  BY <1>2, <1>t, <1>u, <1>b, StoppedCounts DEF StopPoolMonitor
<1>4. ASSUME NEW p \in MonitorPools, AddPool(p) PROVE MonitorTypeOK'
  <2>1. timers' \in Counts /\ listeners' \in Counts /\ polls' \in Counts
    BY <1>4, <1>t, StartedCounts DEF AddPool
  <2>2. retryCounter' \in Counts /\ BoundedRetries'
    BY <1>4, CounterReset DEF AddPool
  <2> QED  BY <1>4, <1>t, <1>u, <2>1, <2>2 DEF AddPool
<1>5. ASSUME NEW p \in MonitorPools, RemovedPool(p)
      PROVE  /\ timers' \in Counts /\ listeners' \in Counts /\ retryCounter' \in Counts /\ BoundedRetries'
             /\ monitored' \subseteq MonitorPools
  <2>1. retryCounter' = [retryCounter EXCEPT ![p] = 0] \/ retryCounter' = retryCounter
    BY <1>5, <1>t DEF RemovedPool, Counts
  <2>2. retryCounter' \in Counts /\ BoundedRetries'
    BY <1>t, <1>b, <2>1, CounterReset
  <2> QED  BY <1>5, <1>t, <2>2, StoppedCounts DEF RemovedPool
<1>6. ASSUME NEW p \in MonitorPools, RemovePool(p) PROVE MonitorTypeOK'
  BY <1>5, <1>6, <1>t, <1>u DEF RemovePool
<1>7. ASSUME NEW p \in MonitorPools, HandleError(p) PROVE MonitorTypeOK'
  <2>1. failing' \in Counts
    BY <1>7, <1>t, OneLessCounts DEF HandleError
  <2>2. CASE RetriesExhausted(p)
    BY <1>5, <1>7, <1>t, <1>u, <2>1, <2>2 DEF HandleError
  <2>3. CASE ~RetriesExhausted(p)
    <3>1. /\ retryCounter' = [retryCounter EXCEPT ![p] = @ + 1]
          /\ retryTimers' = [retryTimers EXCEPT ![p] = @ + 1]
          /\ UNCHANGED <<monitored, timers, listeners, monitorRunning, polls, eventPolls, cache>>
      BY <1>7, <2>3 DEF HandleError
    <3>2. retryCounter' \in Counts /\ retryTimers' \in Counts
      BY <1>t, <3>1, OneMoreCounts
    <3>3. BoundedRetries'
      BY <1>t, <2>3, <3>1, MonitorAssumption, SMT DEF RetriesExhausted, BoundedRetries, Counts
    <3> QED  BY <1>t, <1>u, <2>1, <3>1, <3>2, <3>3
  <2> QED  BY <2>2, <2>3
<1>8. ASSUME NEW p \in MonitorPools, PollTick(p) PROVE MonitorTypeOK'
  BY <1>8, <1>t, <1>u, <1>b, OneMoreCounts DEF PollTick
<1>9. ASSUME NEW p \in MonitorPools, PoolEvent(p) PROVE MonitorTypeOK'
  BY <1>9, <1>t, <1>u, <1>b, OneMoreCounts DEF PoolEvent
<1>10. ASSUME NEW p \in MonitorPools, PollAnswered(p) PROVE MonitorTypeOK'
  <2>1. polls' \in Counts /\ failing' \in Counts /\ cache' \in Caches
    BY <1>10, <1>t, OneLessCounts, OneMoreCounts, FetchedCaches DEF PollAnswered
  <2>2. retryCounter' \in Counts /\ BoundedRetries'
    BY <1>10, CounterReset DEF PollAnswered
  <2> QED  BY <1>10, <1>t, <1>u, <2>1, <2>2 DEF PollAnswered
<1>11. ASSUME NEW p \in MonitorPools, EventPollAnswered(p) PROVE MonitorTypeOK'
  <2>1. eventPolls' \in Counts /\ cache' \in Caches
    BY <1>11, <1>t, OneLessCounts, FetchedCaches DEF EventPollAnswered
  <2>2. retryCounter' \in Counts /\ BoundedRetries'
    BY <1>11, CounterReset DEF EventPollAnswered
  <2> QED  BY <1>11, <1>t, <1>u, <2>1, <2>2 DEF EventPollAnswered
<1>12. ASSUME NEW p \in MonitorPools, RetryPoll(p) PROVE MonitorTypeOK'
  <2>1. polls' \in Counts
    BY <1>12, <1>t, SMT DEF RetryPoll, Counts
  <2>2. retryTimers' \in Counts
    BY <1>12, <1>t, OneLessCounts DEF RetryPoll
  <2> QED  BY <1>12, <1>t, <1>u, <1>b, <2>1, <2>2 DEF RetryPoll
<1>13. ASSUME NEW p \in MonitorPools, TriggerPoll(p) \/ CacheExpires(p) PROVE MonitorTypeOK'
  <2>1. cache' \in Caches
    BY <1>13, <1>t, FetchedCaches DEF TriggerPoll, CacheExpires, Caches
  <2> QED  BY <1>13, <1>t, <1>u, <1>b, <2>1 DEF TriggerPoll, CacheExpires
<1>14. CASE UNCHANGED monitorVars
  BY <1>14, <1>t, <1>u, <1>b DEF monitorVars
<1> QED  BY <1>1, <1>2, <1>4, <1>6, <1>7, <1>8, <1>9, <1>10, <1>11, <1>12, <1>13, <1>14 DEF MonitorNext

(* ------------------------ The monitor as a whole ----------------------- *)

LEMMA MonitorStarts == MonitorInit => MonitorTypeOK /\ PolledIffMonitored
<1> SUFFICES ASSUME MonitorInit PROVE MonitorTypeOK /\ PolledIffMonitored
  OBVIOUS
<1>1. NoneOf \in Counts
  BY SMT DEF NoneOf, Counts
<1>2. \A p \in MonitorPools : NoneOf[p] = 0
  BY DEF NoneOf
<1>3. BoundedRetries
  <2>1. 0 <= MaxPollRetries
    BY MonitorAssumption, SMT
  <2>2. retryCounter = NoneOf
    BY DEF MonitorInit
  <2> QED  BY <1>2, <2>1, <2>2, Zenon DEF BoundedRetries
<1>4. MonitorTypeOK
  <2>1. /\ monitored = {} /\ monitorRunning = FALSE
        /\ timers \in Counts /\ listeners \in Counts /\ retryCounter \in Counts
        /\ polls \in Counts /\ eventPolls \in Counts /\ failing \in Counts /\ retryTimers \in Counts
    BY <1>1, Zenon DEF MonitorInit
  <2>2. {} \subseteq MonitorPools /\ cache \in Caches
    BY DEF MonitorInit, Caches
  <2> QED  BY <1>3, <2>1, <2>2, TypesOfMonitor, Zenon
<1>5. PolledIffMonitored
  <2>1. monitorRunning = FALSE /\ \A p \in MonitorPools : timers[p] = 0 /\ listeners[p] = 0
    BY <1>2, Zenon DEF MonitorInit
  <2> QED  BY <2>1 DEF PolledIffMonitored
<1> QED  BY <1>4, <1>5

LEMMA MonitorGoesOn ==
  MonitorTypeOK /\ PolledIffMonitored /\ [MonitorNext]_monitorVars => (MonitorTypeOK /\ PolledIffMonitored)'
  BY PolledStep, MonitorTypeStep

(* Every variable keeps its type, and no pool is retried more than         *)
(* maxRetries times between two fetches (handleError).                     *)
THEOREM MonitorTypeCorrect == MonitorSpec => []MonitorTypeOK
  BY MonitorStarts, MonitorGoesOn, PTL DEF MonitorSpec

(* Whatever the order of additions, removals, starts, stops and failures,  *)
(* a pool has one interval timer and one set of listeners while a running  *)
(* monitor has it, and none otherwise (startMonitoringPool,                *)
(* stopMonitoringPool).                                                    *)
THEOREM PolledWhileMonitored == MonitorSpec => []PolledIffMonitored
  BY MonitorStarts, MonitorGoesOn, PTL DEF MonitorSpec

(* -------------------------- Mean reversion ----------------------------- *)

(* The z-score of the mean-reversion strategy is bounded for every         *)
(* smoothing factor K / D and every sequence of prices.  With d and v for  *)
(* the deviation and the variance of the next price p before its update,   *)
(* the update gives                                                        *)
(*    Deviation' = (D - K) * d                                             *)
(*    Variance'  = D * (D - K) * v + K * (D - K) * d * d                   *)
(* so that the bound holds because the variance was not negative.          *)
VarianceOK == Variance >= 0

ReversionInv == EMATypeOK /\ VarianceOK /\ ZScoreBounded

LEMMA SquareIsNatural == \A x \in Int : x * x >= 0
  BY SMT

LEMMA ProductIsNatural == \A x, y \in Int : (x >= 0 /\ y >= 0) => x * y >= 0
  BY SMT

(* The deviation after an update, with k = K and q = D - K. *)
LEMMA NextDeviation ==
  ASSUME NEW p \in Int, NEW k \in Int, NEW q \in Int, NEW M \in Int, NEW A \in Int
  PROVE  p * ((k + q) * M) - (p * k * M + A * q) = q * (p * M - A)
  BY SMT

(* The variance after an update. *)
LEMMA NextVariance ==
  ASSUME NEW p \in Int, NEW k \in Int, NEW q \in Int, NEW M \in Int, NEW A \in Int, NEW B \in Int
  PROVE  (p * p * k * M + B * q) * ((k + q) * M) - (p * k * M + A * q) * (p * k * M + A * q)
            = (k + q) * q * (B * M - A * A) + k * q * ((p * M - A) * (p * M - A))
  BY SMT

(* What the bound needs: v was not negative. *)
LEMMA UpdateIsBounded ==
  ASSUME NEW k \in Nat, NEW q \in Nat, NEW d \in Int, NEW v \in Int, v >= 0,
         NEW e \in Int, e = q * d,
         NEW w \in Int, w = (k + q) * q * v + k * q * (d * d)
  PROVE  w >= 0 /\ k * e * e <= q * w
<1> DEFINE a == (k + q) * q
           s == k * q
           z == d * d
<1>1. a \in Int /\ s \in Int /\ z \in Int /\ a >= 0 /\ s >= 0 /\ z >= 0
  BY SquareIsNatural, ProductIsNatural, SMT
<1>2. a * v \in Int /\ s * z \in Int /\ a * v >= 0 /\ s * z >= 0
  <2> HIDE DEF a, s, z
  <2> QED  BY <1>1, ProductIsNatural, SMT
<1>3. w >= 0
  <2>1. w = a * v + s * z
    OBVIOUS
  <2> HIDE DEF a, s, z
  <2> QED  BY <2>1, <1>2, SMT
<1>4. q * (a * v) >= 0
  <2> HIDE DEF a
  <2> QED  BY <1>2, ProductIsNatural, SMT
<1>5. q * w = q * (a * v) + k * e * e
  BY SMT
<1> QED
  <2>1. k * e * e \in Int /\ q * (a * v) \in Int
    BY <1>1, <1>2, SMT
  <2> HIDE DEF a
  <2> QED  BY <1>3, <1>4, <1>5, <2>1, SMT

LEMMA ReversionInvInit == ReversionInit => ReversionInv
  BY EMAAssumption, SMT DEF ReversionInit, EMAInit, ReversionInv, EMATypeOK, VarianceOK, ZScoreBounded, Deviation, Variance

(* One observation that updates the averages. *)
LEMMA ReversionInvUpdate ==
  ASSUME ReversionInv, NEW p \in Prices, UpdateEMA(p), price' = p, dataPoints' = dataPoints + 1
  PROVE  ReversionInv'
<1> DEFINE q == D - K
<1>1. /\ K \in Nat /\ D \in Nat /\ q \in Nat /\ D = K + q /\ p \in Nat
      /\ emaM \in Nat \ {0} /\ emaA \in Nat /\ emaB \in Nat /\ dataPoints \in Nat
  BY EMAAssumption, SMT DEF ReversionInv, EMATypeOK
<1>2. CASE dataPoints = 0
  <2>1. emaM' = 1 /\ emaA' = p /\ emaB' = p * p
    BY <1>2 DEF UpdateEMA, FirstPrice
  <2>2. p * p \in Nat
    BY <1>1, SMT
  <2>3. Deviation' = 0 /\ Variance' = 0
    BY <1>1, <2>1, <2>2, SMT DEF Deviation, Variance
  <2> QED  BY <1>1, <2>1, <2>2, <2>3, SMT DEF ReversionInv, EMATypeOK, VarianceOK, ZScoreBounded
<1>3. CASE dataPoints # 0
  <2> DEFINE d == p * emaM - emaA
             v == Variance
  <2>1. /\ emaM' = (K + q) * emaM
        /\ emaA' = p * K * emaM + emaA * q
        /\ emaB' = p * p * K * emaM + emaB * q
    BY <1>1, <1>3 DEF UpdateEMA, NextPrice
  <2>2. emaM' \in Nat \ {0}
    BY <1>1, <2>1, EMAAssumption, SMT
  <2>3. emaA' \in Nat /\ emaB' \in Nat
    <3>1. p * K * emaM \in Nat /\ emaA * q \in Nat /\ p * p * K * emaM \in Nat /\ emaB * q \in Nat
      BY <1>1, SMT
    <3> QED  BY <2>1, <3>1, SMT
  <2>4. Deviation' = q * d
    BY <1>1, <2>1, NextDeviation DEF Deviation
  <2>5. Variance' = (K + q) * q * v + K * q * (d * d)
    BY <1>1, <2>1, NextVariance DEF Variance
  <2>6. v \in Int /\ v >= 0 /\ d \in Int
    BY <1>1, SMT DEF ReversionInv, VarianceOK, Variance
  <2>7. Deviation' \in Int /\ Variance' \in Int
    BY <1>1, <2>2, <2>3, SMT DEF Deviation, Variance
  <2>8. Variance' >= 0 /\ K * Deviation' * Deviation' <= q * Variance'
    <3> HIDE DEF q, d, v
    <3> QED  BY <1>1, <2>4, <2>5, <2>6, <2>7, UpdateIsBounded
  <2> QED  BY <1>1, <2>2, <2>3, <2>8, SMT DEF ReversionInv, EMATypeOK, VarianceOK, ZScoreBounded
<1> QED  BY <1>2, <1>3

LEMMA ReversionInvStep == ReversionInv /\ [ReversionNext]_reversionVars => ReversionInv'
<1> SUFFICES ASSUME ReversionInv, [ReversionNext]_reversionVars PROVE ReversionInv'
  OBVIOUS
<1> USE DEF ReversionInv, EMATypeOK, VarianceOK, ZScoreBounded, Deviation, Variance
<1>1. CASE UNCHANGED emaVars
  BY <1>1 DEF emaVars
<1>2. ASSUME NEW p \in Prices, NEW confirmed \in BOOLEAN, Observe(p, confirmed)
      PROVE  ReversionInv'
  <2>1. CASE UNCHANGED emaVars
    BY <1>1, <2>1
  <2>2. CASE dataPoints' = dataPoints + 1 /\ price' = p /\ UpdateEMA(p)
    BY <2>2, ReversionInvUpdate
  <2> QED  BY <1>2, <2>1, <2>2 DEF Observe
<1>3. CASE ResetPool
  BY <1>3, EMAAssumption, SMT DEF ResetPool
<1> QED  BY <1>1, <1>2, <1>3 DEF ReversionNext, CooldownOver, reversionVars

(* The averages stay a fraction with a positive denominator and a variance *)
(* that is not negative, and the z-score is bounded, for every smoothing   *)
(* factor and whatever the prices (updateEMA, calculateStatistics).        *)
THEOREM ZScoreIsBounded == ReversionSpec => [](EMATypeOK /\ ZScoreBounded)
<1>1. ReversionInv => EMATypeOK /\ ZScoreBounded
  BY DEF ReversionInv
<1> QED  BY ReversionInvInit, ReversionInvStep, <1>1, PTL DEF ReversionSpec

(* The price is neither beyond the strategy's "extreme" threshold of 3.5   *)
(* standard deviations nor beyond the 5 of a regime change.                *)
NeverExtreme == ~Beyond(Deviation, Variance, 7) /\ ~RegimeChange(Deviation, Variance)

(* With the default period of 20 that part of shouldTrade is unreachable.  *)
THEOREM DefaultsNeverExtreme ==
  ASSUME K = 2, D = 21
  PROVE  ReversionSpec => []NeverExtreme
<1>1. ReversionInv => NeverExtreme
  <2> SUFFICES ASSUME ReversionInv PROVE NeverExtreme
    OBVIOUS
  <2> DEFINE d == Deviation
             v == Variance
             z == d * d
  <2>1. d \in Int /\ v \in Int
    BY SMT DEF ReversionInv, EMATypeOK, Deviation, Variance
  <2>2. z \in Int /\ 2 * d * d = 2 * z /\ 4 * d * d = 4 * z
    BY <2>1, SMT
  <2>3. 2 * z <= 19 * v /\ v >= 0
    BY <2>2 DEF ReversionInv, ZScoreBounded, VarianceOK
  <2>4. (v > 0 /\ 4 * z >= 7 * 7 * v) => FALSE
    <3> HIDE DEF d, v, z
    <3> QED  BY <2>1, <2>2, <2>3, SMT
  <2>5. (v > 0 /\ z > 25 * v) => FALSE
    <3> HIDE DEF d, v, z
    <3> QED  BY <2>1, <2>2, <2>3, SMT
  <2> QED  BY <2>2, <2>4, <2>5 DEF NeverExtreme, Beyond, RegimeChange
<1> QED  BY ReversionInvInit, ReversionInvStep, <1>1, PTL DEF ReversionSpec

(* --------------------------- Configuration ----------------------------- *)

LEMMA MergedField ==
  ASSUME NEW target \in [Fields -> Value], NEW layer, DOMAIN layer \subseteq Fields
  PROVE  DeepMerge(target, layer) = [f \in Fields |-> IF f \in DOMAIN layer THEN layer[f] ELSE target[f]]
  BY DEF DeepMerge

(* A layer that says of each of its fields where it is from and what it is. *)
LayerFrom(where, layer) ==
  /\ DOMAIN layer \subseteq Fields
  /\ \A f \in DOMAIN layer : layer[f].from = where /\ layer[f] \in Value /\ layer[f].is \in KindsOf(f)

LEMMA LayerIsFrom ==
  ASSUME NEW where \in {"default", "file", "env", "runner"}, NEW layer, DOMAIN layer \subseteq Fields,
         \A f \in DOMAIN layer : layer[f] \in KindsOf(f)
  PROVE  LayerFrom(where, From(where, layer)) /\ DOMAIN From(where, layer) = DOMAIN layer
<1>1. \A f \in Fields : KindsOf(f) \subseteq Kinds
  BY DEF KindsOf, NumberKinds, Kinds
<1> QED  BY <1>1 DEF LayerFrom, From, Value

(* What a merge of such a layer keeps of the configuration.                *)
ConfigOK(c) == c \in [Fields -> Value] /\ \A f \in Numbers : c[f].is \in NumberKinds

LEMMA MergeKeepsTypes ==
  ASSUME NEW c, ConfigOK(c), NEW where, NEW layer, LayerFrom(where, layer)
  PROVE  /\ ConfigOK(DeepMerge(c, layer))
         /\ \A f \in Fields : DeepMerge(c, layer)[f] = (IF f \in DOMAIN layer THEN layer[f] ELSE c[f])
<1> DEFINE d == DeepMerge(c, layer)
<1>1. d = [f \in Fields |-> IF f \in DOMAIN layer THEN layer[f] ELSE c[f]]
  BY MergedField DEF ConfigOK, LayerFrom
<1> HIDE DEF d
<1>2. \A f \in Fields : d[f] = (IF f \in DOMAIN layer THEN layer[f] ELSE c[f])
  BY <1>1
<1>3. d \in [Fields -> Value]
  BY <1>1 DEF ConfigOK, LayerFrom
<1>4. \A f \in Numbers : f \in Fields /\ KindsOf(f) = NumberKinds
  BY DEF Fields, KindsOf
<1>5. \A f \in Numbers : d[f].is \in NumberKinds
  BY <1>2, <1>4 DEF ConfigOK, LayerFrom
<1> QED  BY <1>2, <1>3, <1>5 DEF ConfigOK, d

(* Where main has got to, and what is known by then.                       *)
HookFrom == config["hookAddress"].from
ConfigInv ==
  /\ boot \in {"file", "env", "overrides", "validate", "live", "exit"}
  /\ ConfigOK(config) /\ warned \in BOOLEAN
  /\ HookFrom \in {"default", "file", "env"}
  /\ HookFrom = "default" => config["hookAddress"].is = "empty"
  /\ boot \in {"file", "env"} => envLayer = <<>> /\ HookFrom # "env"
  /\ boot \in {"overrides", "validate", "live"} => (HookFrom = "env" <=> "hookAddress" \in DOMAIN envLayer)
  /\ (boot \in {"validate", "live"} /\ config["pools"].is = "good") => "hookAddress" \in DOMAIN envLayer
  /\ boot = "live" => warned = Warns(config)
  /\ boot = "live" => Valid(config) /\ \A f \in Numbers : limits.manager[f] = OrDefault(config[f].is)

LEMMA ConfigStarts == ConfigInit => ConfigInv
<1> SUFFICES ASSUME ConfigInit PROVE ConfigInv
  OBVIOUS
<1> DEFINE plain == [f \in Fields |-> IF f \in {"hookAddress", "pools", "strategyConfig"} THEN "empty" ELSE "good"]
<1>1. DOMAIN plain \subseteq Fields /\ \A f \in DOMAIN plain : plain[f] \in KindsOf(f)
  BY DEF KindsOf, Numbers, NumberKinds, Kinds
<1>2. config = From("default", plain)
  BY DEF ConfigInit, Defaults
<1>3. \A f \in Fields : plain[f] = (IF f \in {"hookAddress", "pools", "strategyConfig"} THEN "empty" ELSE "good")
  OBVIOUS
<1>d. DOMAIN plain = Fields
  OBVIOUS
<1> HIDE DEF plain
<1>4. LayerFrom("default", config) /\ DOMAIN config = Fields
  BY <1>1, <1>2, <1>d, LayerIsFrom
<1>5. config = [f \in Fields |-> config[f]]
  BY <1>2, <1>d DEF From
<1>6. ConfigOK(config)
  <2>1. config \in [Fields -> Value]
    BY <1>4, <1>5 DEF LayerFrom
  <2>2. \A f \in Numbers : f \in Fields /\ KindsOf(f) = NumberKinds
    BY DEF Fields, KindsOf
  <2> QED  BY <1>4, <2>1, <2>2 DEF ConfigOK, LayerFrom
<1>7. HookFrom = "default" /\ config["hookAddress"].is = "empty"
  <2>1. "hookAddress" \in Fields
    BY DEF Fields
  <2> QED  BY <1>2, <1>3, <1>d, <2>1 DEF From, HookFrom
<1>8. warned \in BOOLEAN
  BY DEF ConfigInit
<1> QED  BY <1>6, <1>7, <1>8 DEF ConfigInv, ConfigInit

LEMMA ConfigStep == ConfigInv /\ [ConfigNext]_configVars => ConfigInv'
<1> SUFFICES ASSUME ConfigInv, [ConfigNext]_configVars PROVE ConfigInv'
  OBVIOUS
<1>0. /\ "hookAddress" \in Fields /\ "pools" \in Fields /\ "hookAddress" # "pools" /\ "hookAddress" # "strategyConfig"
      /\ "pools" \notin Numbers /\ "hookAddress" \notin Numbers /\ "strategyConfig" \notin Numbers
      /\ "strategyConfig" \in Fields
  BY DEF Fields, Numbers
<1>w. warned' \in BOOLEAN
  <2>1. Validate => warned' \in BOOLEAN
    BY DEF Validate, Warns
  <2> QED  BY <2>1 DEF ConfigInv, ConfigNext, NoFile, BrokenFile, MergeFile, MergeEnv, MergeOverrides, configVars
<1>1. CASE NoFile \/ BrokenFile
  BY <1>1, <1>w DEF NoFile, BrokenFile, ConfigInv, HookFrom
<1>2. ASSUME NEW layer \in FileLayers, MergeFile(layer) PROVE ConfigInv'
  <2>1. LayerFrom("file", From("file", layer)) /\ DOMAIN From("file", layer) = DOMAIN layer
    BY LayersAssumption, LayerIsFrom
  <2>2. ConfigOK(config)
    BY DEF ConfigInv
  <2>3. /\ ConfigOK(config')
        /\ config'["hookAddress"] = (IF "hookAddress" \in DOMAIN layer THEN From("file", layer)["hookAddress"]
                                                                       ELSE config["hookAddress"])
    BY <1>0, <1>2, <2>1, <2>2, MergeKeepsTypes DEF MergeFile
  <2>4. "hookAddress" \in DOMAIN layer => config'["hookAddress"].from = "file"
    BY <2>1, <2>3 DEF LayerFrom
  <2>5. boot = "file" /\ boot' = "env" /\ envLayer' = envLayer
    BY <1>2 DEF MergeFile
  <2> QED  BY <1>w, <2>3, <2>4, <2>5 DEF ConfigInv, HookFrom
<1>3. ASSUME NEW layer \in EnvLayers, MergeEnv(layer) PROVE ConfigInv'
  <2> DEFINE env == IF "strategyName" \in DOMAIN layer
                    THEN DeepMerge(layer, [f \in {"strategyConfig"} |-> "empty"])
                    ELSE layer
  <2>1. LoadConfigFromEnv(layer) = From("env", env)
    BY DEF LoadConfigFromEnv
  <2>2. DOMAIN layer \subseteq Fields /\ \A f \in DOMAIN layer : layer[f] \in KindsOf(f)
    BY LayersAssumption
  <2>3. DOMAIN env \subseteq Fields /\ (\A f \in DOMAIN env : env[f] \in KindsOf(f))
        /\ ("hookAddress" \in DOMAIN env <=> "hookAddress" \in DOMAIN layer)
    <3>1. CASE "strategyName" \in DOMAIN layer
      <4>1. env = [f \in DOMAIN layer \cup {"strategyConfig"} |-> IF f = "strategyConfig" THEN "empty" ELSE layer[f]]
        BY <3>1 DEF DeepMerge
      <4>2. "empty" \in KindsOf("strategyConfig")
        BY <1>0 DEF KindsOf, Kinds
      <4> HIDE DEF env
      <4> QED  BY <1>0, <2>2, <4>1, <4>2
    <3>2. CASE "strategyName" \notin DOMAIN layer
      BY <2>2, <3>2
    <3> QED  BY <3>1, <3>2
  <2> HIDE DEF env
  <2>4. LayerFrom("env", From("env", env)) /\ DOMAIN From("env", env) = DOMAIN env
    BY <2>3, LayerIsFrom
  <2>5. ConfigOK(config)
    BY DEF ConfigInv
  <2>6. /\ ConfigOK(config')
        /\ config'["hookAddress"] = (IF "hookAddress" \in DOMAIN env THEN From("env", env)["hookAddress"]
                                                                     ELSE config["hookAddress"])
    BY <1>0, <1>3, <2>1, <2>4, <2>5, MergeKeepsTypes DEF MergeEnv
  <2>7. "hookAddress" \in DOMAIN env => config'["hookAddress"].from = "env"
    BY <2>4, <2>6 DEF LayerFrom
  <2>8. boot = "env" /\ boot' = "overrides" /\ envLayer' = layer
    BY <1>3 DEF MergeEnv
  <2> QED  BY <1>w, <2>3, <2>6, <2>7, <2>8 DEF ConfigInv, HookFrom
<1>4. ASSUME NEW tokensSet \in BOOLEAN, MergeOverrides(tokensSet) PROVE ConfigInv'
  <2> DEFINE found == tokensSet /\ "hookAddress" \in DOMAIN envLayer
             kind == IF ~found THEN "empty"
                     ELSE IF envLayer["hookAddress"] = "good" THEN "good" ELSE "malformed"
             runner == [f \in {"pools"} |-> kind]
  <2>1. boot = "overrides" /\ boot' = "validate" /\ envLayer' = envLayer
        /\ config' = DeepMerge(config, From("runner", runner))
    BY <1>4 DEF MergeOverrides
  <2>2. /\ DOMAIN runner = {"pools"} /\ runner["pools"] \in {"empty", "good", "malformed"}
        /\ runner["pools"] = "good" => "hookAddress" \in DOMAIN envLayer
    OBVIOUS
  <2> HIDE DEF runner
  <2>3. KindsOf("pools") = Kinds /\ {"empty", "good", "malformed"} \subseteq Kinds
    BY <1>0 DEF KindsOf, Kinds
  <2>4. LayerFrom("runner", From("runner", runner)) /\ DOMAIN From("runner", runner) = {"pools"}
    BY <1>0, <2>2, <2>3, LayerIsFrom
  <2>5. ConfigOK(config)
    BY DEF ConfigInv
  <2>6. /\ ConfigOK(config')
        /\ config'["hookAddress"] = config["hookAddress"]
        /\ config'["pools"] = From("runner", runner)["pools"]
    BY <1>0, <2>1, <2>4, <2>5, MergeKeepsTypes
  <2>7. config'["pools"].is = runner["pools"]
    BY <2>2, <2>6 DEF From
  <2> QED  BY <1>w, <2>1, <2>2, <2>6, <2>7 DEF ConfigInv, HookFrom
<1>5. CASE Validate
  <2>1. UNCHANGED <<config, fileLayer, envLayer>> /\ boot = "validate"
    BY <1>5 DEF Validate
  <2>2. CASE Valid(config)
    <3>1. boot' = "live" /\ \A f \in Numbers : limits'.manager[f] = OrDefault(config[f].is)
      BY <1>5, <2>2 DEF Validate
    <3>2. warned' = Warns(config')
      BY <1>5, <2>1 DEF Validate
    <3> QED  BY <1>w, <2>1, <2>2, <3>1, <3>2 DEF ConfigInv, HookFrom, Valid
  <2>3. CASE ~Valid(config)
    <3>1. boot' = "exit"
      BY <1>5, <2>3 DEF Validate
    <3> QED  BY <1>w, <2>1, <3>1 DEF ConfigInv, HookFrom
  <2> QED  BY <2>2, <2>3
<1>6. CASE UNCHANGED configVars
  BY <1>6, <1>w DEF configVars, ConfigInv, HookFrom, Valid, Warns
<1> QED  BY <1>1, <1>2, <1>3, <1>4, <1>5, <1>6 DEF ConfigNext

(* A NaN that the validation lets pass is not what the manager is given;   *)
(* nor is a negative number, where the validation tests for one.           *)
LEMMA LimitsOfManager ==
  ASSUME ConfigOK(config), Valid(config), NEW f \in Numbers
  PROVE  OrDefault(config[f].is) \in (IF f = "pollInterval" THEN {"good", "negative"} ELSE {"good"})
<1>1. config[f].is \in {"good", "zero", "negative", "NaN"}
  BY DEF ConfigOK, NumberKinds
<1>2. f # "pollInterval" => config[f].is # "negative"
  BY DEF Valid, Numbers
<1> QED  BY <1>1, <1>2 DEF OrDefault

LEMMA ConfigInvIsEnough == ConfigInv => ConfigTypeOK /\ LiveIsConfigured
<1> SUFFICES ASSUME ConfigInv PROVE ConfigTypeOK /\ LiveIsConfigured
  OBVIOUS
<1>1. ConfigTypeOK
  BY DEF ConfigInv, ConfigOK, ConfigTypeOK
<1>2. ASSUME boot = "live"
      PROVE  /\ HookFrom = (IF "hookAddress" \in DOMAIN envLayer THEN "env" ELSE "file")
             /\ config["pools"].is = "good" => HookFrom = "env"
             /\ limits.manager["batchInterval"] = "good" /\ limits.manager["maxRetries"] = "good"
             /\ \/ limits.manager["pollInterval"] = "good"
                \/ limits.manager["pollInterval"] = "negative" /\ warned
  <2>1. Valid(config) /\ ConfigOK(config) /\ \A f \in Numbers : limits.manager[f] = OrDefault(config[f].is)
    BY <1>2 DEF ConfigInv
  <2>2. /\ limits.manager["batchInterval"] = "good" /\ limits.manager["maxRetries"] = "good"
        /\ limits.manager["pollInterval"] \in {"good", "negative"}
    <3>1. \A f \in Numbers :
             limits.manager[f] \in (IF f = "pollInterval" THEN {"good", "negative"} ELSE {"good"})
      BY <2>1, LimitsOfManager
    <3> QED  BY <3>1 DEF Numbers
  <2>3. HookFrom # "default"
    BY <2>1 DEF ConfigInv, Valid
  <2>4. limits.manager["pollInterval"] = "negative" => warned
    <3>1. limits.manager["pollInterval"] = OrDefault(config["pollInterval"].is) /\ warned = Warns(config)
      BY <1>2, <2>1 DEF Numbers, ConfigInv
    <3> QED  BY <3>1 DEF OrDefault, Warns
  <2> QED  BY <1>2, <2>2, <2>3, <2>4 DEF ConfigInv
<1> QED  BY <1>1, <1>2 DEF LiveIsConfigured, HookFrom

(* Whatever the layers, an agent that goes live has the hook address of    *)
(* the highest layer that gives one, pools only of the environment's hook, *)
(* and a manager whose batch interval and retries are positive numbers.    *)
(* Its poll interval is a number that may be negative, of which the        *)
(* validation has warned then (main, validateAgentConfig, the constructor  *)
(* of AgentManager).                                                       *)
THEOREM LiveAgentIsConfigured == ConfigSpec => [](ConfigTypeOK /\ LiveIsConfigured)
  BY ConfigStarts, ConfigStep, ConfigInvIsEnough, PTL DEF ConfigSpec

(* ---------------------------- Strategies ------------------------------- *)

(* (Bounds are written as inequalities, which the provers prefer.)         *)
Between(x, lo, hi) == x \in Int /\ lo <= x /\ x <= hi

LEMMA MagnitudeIsNatural == ASSUME NEW x \in Int PROVE Magnitude(x) \in Nat
  BY SMT DEF Magnitude

(* A quotient is below what the dividend is below that many times.         *)
LEMMA QuotientBelow ==
  ASSUME NEW x \in Int, NEW y \in Int, y > 0, NEW n \in Int, x < n * y
  PROVE  x \div y \in Int /\ x \div y < n
<1> DEFINE q == x \div y
<1>1. q \in Int /\ q * y <= x
  BY SMT
<1> HIDE DEF q
<1>2. SUFFICES ASSUME q >= n PROVE FALSE
  BY <1>1, SMT DEF q
<1>3. q - n \in Int /\ q - n >= 0
  BY <1>1, <1>2, SMT
<1>4. (q - n) * y >= 0
  BY <1>3, ProductIsNatural, SMT
<1>5. q * y >= n * y
  BY <1>1, <1>4, SMT
<1>6. n * y \in Int /\ q * y \in Int
  BY <1>1, SMT
<1> QED  BY <1>1, <1>5, <1>6, SMT

LEMMA PercentOf ==
  ASSUME NEW x \in Nat, NEW k \in Nat, k > 0, x <= 100 * k
  PROVE  x \div k \in 0..100
<1>1. x \div k \in Nat
  BY SMT
<1>2. x < 101 * k
  BY SMT
<1>3. x \div k < 101
  BY <1>2, QuotientBelow, SMT
<1> QED  BY <1>1, <1>3, SMT

(* --------- Halves are balanced: what the fetcher's data can say -------- *)

LEMMA FetchedSidesBalanced ==
  ASSUME NEW total \in Nat, total >= 1000
  PROVE  ~Imbalanced(FetchedSides(total))
<1> DEFINE x == total \div 2
           sides == FetchedSides(total)
<1>1. x \in Nat /\ x >= 500 /\ total - x \in {x, x + 1}
  BY SMT
<1>2. sides[1] = x /\ sides[2] = total - x
  BY DEF FetchedSides
<1> HIDE DEF x, sides
<1>3. Least(sides[1], sides[2]) = x
  BY <1>1, <1>2, SMT DEF Least
<1>4. Most(sides[1], sides[2]) \in {x, x + 1}
  BY <1>1, <1>2, SMT DEF Most
<1>5. PICK y \in {x, x + 1} : Most(sides[1], sides[2]) = y
  BY <1>4
<1>6. ImbalanceRatio(sides) = (y * 1000) \div x
  BY <1>1, <1>3, <1>5, SMT DEF ImbalanceRatio
<1>7. y * 1000 \in Int /\ y * 1000 < 1500 * x
  BY <1>1, <1>5, SMT
<1>8. (y * 1000) \div x < 1500 /\ (y * 1000) \div x \in Int
  BY <1>1, <1>7, QuotientBelow, SMT
<1> QED  BY <1>6, <1>8, SMT DEF Imbalanced, sides

LEMMA BalancedSignal ==
  ASSUME NEW sides, ~Imbalanced(sides), NEW volume, NEW total
  PROVE  /\ LiquidityDirection(sides) = "ZERO_FOR_ONE"
         /\ LiquidityConfidence(sides, volume, total) \in {0, 3000, 3750, 5250}
<1>1. ImbalanceSignal(sides) = 0
  BY DEF ImbalanceSignal
<1>2. WithVolume(0, HighVolume(volume, total)) \in {0, 3750}
  BY SMT DEF WithVolume
<1>3. ASSUME NEW s \in {0, 3750}, NEW sudden \in BOOLEAN PROVE WithChange(s, sudden) \in {0, 3000, 3750, 5250}
  BY SMT DEF WithChange, Least
<1>4. SuddenChange(total) \in BOOLEAN
  BY DEF SuddenChange
<1> QED  BY <1>1, <1>2, <1>3, <1>4 DEF LiquidityConfidence, LiquidityDirection

(* ------------------------ Decisions of each strategy ------------------- *)

Sound(d) ==
  /\ d.trade \in BOOLEAN
  /\ d.trade => d.direction \in {"ZERO_FOR_ONE", "ONE_FOR_ZERO"} /\ d.confidence \in 0..100

LEMMA NoTradeIsSound == Sound(NoTrade) /\ NoTrade.trade = FALSE
  BY DEF Sound, NoTrade

LEMMA TradedIsSound ==
  ASSUME NEW who, NEW direction \in {"ZERO_FOR_ONE", "ONE_FOR_ZERO"}, NEW amountIn, NEW p, NEW bps,
         NEW percent \in 0..100
  PROVE  /\ Sound(Traded(who, direction, amountIn, p, bps, percent))
         /\ Traded(who, direction, amountIn, p, bps, percent).strategy = who
         /\ Traded(who, direction, amountIn, p, bps, percent).direction = direction
         /\ Traded(who, direction, amountIn, p, bps, percent).confidence = percent
  BY DEF Sound, Traded

LEMMA ReversionSound ==
  ASSUME NEW d, NEW v, NEW p, NEW confirmed \in BOOLEAN
  PROVE  /\ Sound(ReversionDecision(d, v, p, confirmed))
         /\ ReversionDecision(d, v, p, confirmed).trade
               => ReversionDecision(d, v, p, confirmed).strategy = "mean-reversion"
<1> DEFINE direction == IF d > 0 THEN "ZERO_FOR_ONE" ELSE "ONE_FOR_ZERO"
           confidence == ReversionConfidence(d, v, confirmed)
<1>1. BaseConfidence(d, v) \in {0, 40, 65, 90}
  BY DEF BaseConfidence
<1>2. ASSUME NEW b \in {0, 40, 65, 90} PROVE Least((b * 12) \div 10, 100) \in 0..100 /\ (b * 7) \div 10 \in 0..100
  BY SMT DEF Least
<1>3. confidence \in 0..100
  BY <1>1, <1>2 DEF ReversionConfidence
<1>4. direction \in {"ZERO_FOR_ONE", "ONE_FOR_ZERO"}
  OBVIOUS
<1>5. \/ ReversionDecision(d, v, p, confirmed) = NoTrade
      \/ ReversionDecision(d, v, p, confirmed)
            = Traded("mean-reversion", direction, ScaledAmount(confidence), p, SlippageBps, confidence)
  BY DEF ReversionDecision
<1> HIDE DEF direction, confidence
<1> QED  BY <1>3, <1>4, <1>5, NoTradeIsSound, TradedIsSound

LEMMA MomentumSound ==
  ASSUME NEW h \in Int, NEW d \in Int, NEW p, NEW confirmed \in BOOLEAN
  PROVE  Sound(MomentumDecision(h, d, p, confirmed))
<1> DEFINE c == MomentumConfidence(h, d)
           percent == MomentumPercent(h, d, confirmed)
<1>1. Between(c, 600, 6000)
  <2>1. Magnitude(h) \in Int /\ Magnitude(d) \in Int
    BY MagnitudeIsNatural
  <2>2. Least(Magnitude(h), 150) \in Int /\ Least(Magnitude(d), 600) \in Int
    BY <2>1, SMT DEF Least
  <2> DEFINE signals == 24 * Least(Magnitude(h), 150) + 4 * Least(Magnitude(d), 600)
             bonus == IF Sign(h) = Sign(d) THEN 900 ELSE -900
  <2>3. signals + bonus \in Int
    <3>1. signals \in Int
      BY <2>2, SMT
    <3> HIDE DEF signals
    <3> QED  BY <3>1, SMT
  <2>4. c = Most(600, Least(signals + bonus, 6000))
    BY DEF MomentumConfidence
  <2> HIDE DEF c, signals, bonus
  <2> QED  BY <2>3, <2>4, SMT DEF Between, Most, Least
<1>2. percent \in 0..100
  <2> HIDE DEF c
  <2>1. Between(Least(12 * c, 60000), 0, 60000) /\ Between(7 * c, 0, 60000)
    BY <1>1, SMT DEF Least, Between
  <2>2. ASSUME NEW x, Between(x, 0, 60000) PROVE x \div 600 \in 0..100
    BY <2>2, SMT DEF Between
  <2> QED  BY <2>1, <2>2 DEF MomentumPercent, c
<1>3. MomentumDirection(h, d) \in {"ZERO_FOR_ONE", "ONE_FOR_ZERO"}
  BY DEF MomentumDirection
<1>4. \/ MomentumDecision(h, d, p, confirmed) = NoTrade
      \/ MomentumDecision(h, d, p, confirmed)
            = Traded("momentum", MomentumDirection(h, d), ScaledAmount(percent), p, SlippageBps, percent)
  BY DEF MomentumDecision
<1> HIDE DEF percent
<1> QED  BY <1>2, <1>3, <1>4, NoTradeIsSound, TradedIsSound

(* Without price changes there is no momentum.                             *)
LEMMA MomentumSilent == \A p, confirmed : MomentumDecision(0, 0, p, confirmed) = NoTrade
<1>1. Magnitude(CompositeMomentum(0, 0)) < MomentumThreshold
  BY SMT DEF Magnitude, CompositeMomentum, MomentumThreshold
<1> QED  BY <1>1 DEF MomentumDecision

LEMMA SidesAreNatural ==
  ASSUME NEW total \in Nat, NEW from, NEW sides \in Sides(total, from)
  PROVE  sides[1] \in Nat /\ sides[2] \in Nat
<1>1. ASSUME NEW x \in {total \div 2, total \div 4, (3 * total) \div 4} PROVE x \in Nat /\ total - x \in Nat
  BY SMT
<1>2. \E x \in {total \div 2, total \div 4, (3 * total) \div 4} : sides = <<x, total - x>>
  BY DEF Sides, FetchedSides
<1> QED  BY <1>1, <1>2

LEMMA LiquidityConfidenceRange ==
  ASSUME NEW sides, sides[1] \in Nat, sides[2] \in Nat, NEW volume, NEW total
  PROVE  Between(LiquidityConfidence(sides, volume, total), 0, 15000)
<1> DEFINE ratio == ImbalanceRatio(sides)
<1>1. ratio \in Int
  <2> DEFINE low == Least(sides[1], sides[2])
             high == Most(sides[1], sides[2])
  <2>1. low \in Nat /\ high \in Nat
    BY SMT DEF Least, Most
  <2> HIDE DEF low, high
  <2>2. low = 0 \/ (high * 1000) \div low \in Int
    BY <2>1, SMT
  <2> QED  BY <2>2 DEF ImbalanceRatio, low, high
<1>2. Between(ImbalanceSignal(sides), 0, 15000)
  <2> HIDE DEF ratio
  <2>1. ASSUME ratio >= 1500 PROVE Between(4500 + 4 * Least(ratio - 1500, 1500), 0, 15000)
    BY <1>1, <2>1, SMT DEF Least, Between
  <2>2. Between(0, 0, 15000)
    BY SMT DEF Between
  <2> QED  BY <2>1, <2>2 DEF ImbalanceSignal, Imbalanced, ratio
<1>3. ASSUME NEW s, Between(s, 0, 15000), NEW on \in BOOLEAN
      PROVE  Between(WithVolume(s, on), 0, 15000) /\ Between(WithChange(s, on), 0, 15000)
  <2>1. Between(WithVolume(s, on), 0, 15000)
    BY <1>3, SMT DEF WithVolume, Least, Between
  <2>2. Between(WithChange(s, on), 0, 15000)
    BY <1>3, SMT DEF WithChange, Least, Between
  <2> QED  BY <2>1, <2>2
<1>4. HighVolume(volume, total) \in BOOLEAN /\ SuddenChange(total) \in BOOLEAN
  BY DEF HighVolume, SuddenChange
<1> QED  BY <1>2, <1>3, <1>4 DEF LiquidityConfidence

LEMMA LiquiditySound ==
  ASSUME NEW total \in Nat, NEW from, NEW sides \in Sides(total, from), NEW volume, NEW p
  PROVE  /\ Sound(LiquidityDecision(sides, volume, total, p))
         /\ (from = "fetcher" /\ total >= 1000 /\ LiquidityDecision(sides, volume, total, p).trade)
               => /\ LiquidityDecision(sides, volume, total, p).strategy = "liquidity"
                  /\ LiquidityDecision(sides, volume, total, p).confidence = 35
                  /\ LiquidityDecision(sides, volume, total, p).direction = "ZERO_FOR_ONE"
<1> DEFINE c == LiquidityConfidence(sides, volume, total)
           percent == c \div 150
           amount == ClampedAmount((((total * 100) \div 10000) * percent) \div 100)
           traded == Traded("liquidity", LiquidityDirection(sides), amount, p, SlippageBps, percent)
<1>1. Between(c, 0, 15000)
  BY SidesAreNatural, LiquidityConfidenceRange
<1>2. percent \in 0..100
  <2> HIDE DEF c
  <2> QED  BY <1>1, SMT DEF Between
<1>3. LiquidityDirection(sides) \in {"ZERO_FOR_ONE", "ONE_FOR_ZERO"}
  BY DEF LiquidityDirection
<1>4. LiquidityDecision(sides, volume, total, p) = (IF c < 4500 THEN NoTrade ELSE traded)
  BY DEF LiquidityDecision
<1> HIDE DEF amount
<1>5. /\ Sound(traded) /\ traded.strategy = "liquidity" /\ traded.confidence = percent
      /\ traded.direction = LiquidityDirection(sides)
  <2> HIDE DEF percent
  <2> QED  BY <1>2, <1>3, TradedIsSound
<1>6. ASSUME from = "fetcher", total >= 1000, ~(c < 4500)
      PROVE  percent = 35 /\ LiquidityDirection(sides) = "ZERO_FOR_ONE"
  <2>1. ~Imbalanced(sides)
    BY <1>6, FetchedSidesBalanced DEF Sides
  <2>2. c \in {0, 3000, 3750, 5250} /\ LiquidityDirection(sides) = "ZERO_FOR_ONE"
    BY <2>1, BalancedSignal
  <2>3. c = 5250
    BY <1>6, <2>2
  <2> HIDE DEF c
  <2>4. percent = 35
    BY <2>3, SMT
  <2> QED  BY <2>2, <2>4
<1> HIDE DEF traded, c, percent
<1> QED  BY <1>4, <1>5, <1>6, NoTradeIsSound

LEMMA ArbitrageSound ==
  ASSUME NEW r \in [price : Nat, confidence : Nat], NEW p \in Nat, Opportunity(r, p)
  PROVE  Sound(ArbitrageDecision(r, p)) /\ ArbitrageDecision(r, p).strategy = "arbitrage"
<1> DEFINE direction == IF r.price > p THEN "ONE_FOR_ZERO" ELSE "ZERO_FOR_ONE"
           c == ArbitrageConfidence(r, p)
<1>1. p > 0 /\ r.price \in Nat /\ r.confidence \in Nat
  BY DEF Opportunity
<1>2. Spread(r, p) \in Nat
  BY <1>1, MagnitudeIsNatural, SMT DEF Spread
<1>3. Between(c, 1000, 10000)
  <2> DEFINE x == 20000 * Spread(r, p) * r.confidence
  <2>1. x \in Nat
    <3>1. Spread(r, p) * r.confidence \in Nat
      BY <1>1, <1>2, SMT
    <3> QED  BY <1>1, <1>2, <3>1, SMT
  <2> HIDE DEF x
  <2> DEFINE y == x \div (3 * p)
  <2>2. y \in Int
    BY <1>1, <2>1, SMT
  <2>3. c = Most(1000, Least(y, 10000))
    BY DEF ArbitrageConfidence, x
  <2> HIDE DEF c, y
  <2> QED  BY <2>2, <2>3, SMT DEF Between, Most, Least
<1>4. c \div 100 \in 0..100
  <2> HIDE DEF c
  <2> QED  BY <1>3, SMT DEF Between
<1>5. ArbitrageDecision(r, p)
         = Traded("arbitrage", direction, ScaledAmount(ArbitragePercent(r, p)), p, 30, c \div 100)
  BY DEF ArbitrageDecision
<1>6. direction \in {"ZERO_FOR_ONE", "ONE_FOR_ZERO"}
  OBVIOUS
<1> HIDE DEF direction, c
<1> QED  BY <1>4, <1>5, <1>6, TradedIsSound

(* -------------------- What is decided, state by state ------------------ *)

Decisions ==
  /\ coolingDown \in BOOLEAN /\ Sound(decision)
  /\ source \in {"fetcher", "other"} /\ referencePrices \subseteq References
  /\ FetchedDataSignals

StrategiesInv == ReversionInv /\ Decisions /\ Len(previousLiquidity) <= 1

(* A poll that decides nothing.                                            *)
LEMMA WaitsIsSound ==
  ASSUME Decisions, Waits, source' \in {"fetcher", "other"}, referencePrices' \subseteq References
  PROVE  Decisions'
<1>1. decision' = NoTrade /\ coolingDown' \in BOOLEAN
  BY DEF Decisions, Waits
<1>2. Sound(decision') /\ decision'.trade = FALSE
  BY <1>1, NoTradeIsSound
<1>3. FetchedDataSignals'
  BY <1>2 DEF FetchedDataSignals
<1>4. Sound(decision)'
  BY <1>2 DEF Sound
<1> QED  BY <1>1, <1>3, <1>4 DEF Decisions

LEMMA DecidesIsSound ==
  ASSUME NEW d, Decides(d), Sound(d), source' \in {"fetcher", "other"}, referencePrices' \subseteq References,
         (d.trade /\ source' = "fetcher") =>
            /\ d.strategy # "momentum"
            /\ d.strategy = "liquidity" => d.confidence = 35 /\ d.direction = "ZERO_FOR_ONE"
  PROVE  Decisions'
<1>1. decision' = d /\ coolingDown' = d.trade
  BY DEF Decides
<1>2. coolingDown' \in BOOLEAN
  BY <1>1 DEF Sound
<1>3. FetchedDataSignals'
  BY <1>1 DEF FetchedDataSignals
<1>4. Sound(decision)'
  BY <1>1 DEF Sound
<1> QED  BY <1>2, <1>3, <1>4 DEF Decisions

LEMMA ReversionDecides ==
  ASSUME Decisions, ReversionNext, UNCHANGED <<source, referencePrices>>
  PROVE  Decisions'
<1>1. source' \in {"fetcher", "other"} /\ referencePrices' \subseteq References
  BY DEF Decisions
<1>2. ASSUME NEW p \in Prices, NEW confirmed \in BOOLEAN, Observe(p, confirmed) PROVE Decisions'
  <2> DEFINE d == ReversionDecision(p * emaM' - emaA', emaB' * emaM' - emaA' * emaA', p, confirmed)
  <2>1. Sound(d) /\ (d.trade => d.strategy = "mean-reversion")
    BY ReversionSound
  <2>2. Waits \/ Decides(NoTrade) \/ Decides(d)
    BY <1>2, Zenon DEF Observe
  <2> HIDE DEF d
  <2>3. CASE Waits
    BY <1>1, <2>3, WaitsIsSound
  <2>4. CASE Decides(NoTrade)
    BY <1>1, <2>4, NoTradeIsSound, DecidesIsSound
  <2>5. CASE Decides(d)
    BY <1>1, <2>1, <2>5, DecidesIsSound
  <2> QED  BY <2>2, <2>3, <2>4, <2>5
<1>3. ASSUME coolingDown' = FALSE, UNCHANGED decision PROVE Decisions'
  BY <1>1, <1>3 DEF Decisions, Sound, FetchedDataSignals
<1> QED  BY <1>2, <1>3 DEF ReversionNext, ResetPool, CooldownOver

LEMMA MomentumDecides ==
  ASSUME Decisions, NEW from \in {"fetcher", "other"}, NEW h \in Changes, NEW d \in Changes, NEW p, NEW a, NEW n,
         Momentum(from, h, d, p, a, n)
  PROVE  Decisions'
<1> DEFINE confirmed == TrendConfirmed(a, n)
           m == MomentumDecision(h, d, p, confirmed)
<1>1. source' = from /\ referencePrices' \subseteq References
  BY DEF Momentum, Decisions
<1>2. h \in Int /\ d \in Int /\ confirmed \in BOOLEAN
  BY MarketAssumption DEF TrendConfirmed
<1>3. Sound(m)
  BY <1>2, MomentumSound
<1>4. ASSUME from = "fetcher" PROVE m.trade = FALSE
  <2>1. h = 0 /\ d = 0
    BY <1>4 DEF Momentum, FetchedChange
  <2> QED  BY <2>1, MomentumSilent, NoTradeIsSound
<1>5. Waits \/ Decides(m)
  BY DEF Momentum
<1> HIDE DEF m
<1>6. CASE Waits
  BY <1>1, <1>6, WaitsIsSound
<1>7. CASE Decides(m)
  BY <1>1, <1>3, <1>4, <1>7, DecidesIsSound
<1> QED  BY <1>5, <1>6, <1>7

LEMMA LiquidityDecides ==
  ASSUME Decisions, NEW from \in {"fetcher", "other"}, NEW total \in Liquidities, NEW sides, NEW volume, NEW p,
         Liquidity(from, total, sides, volume, p)
  PROVE  Decisions'
<1> DEFINE m == LiquidityDecision(sides, volume, total, p)
<1>1. source' = from /\ referencePrices' \subseteq References /\ sides \in Sides(total, from)
  BY DEF Liquidity, Decisions
<1>2. total \in Nat
  BY MarketAssumption
<1>3. /\ Sound(m)
      /\ (from = "fetcher" /\ total >= 1000 /\ m.trade)
            => m.strategy = "liquidity" /\ m.confidence = 35 /\ m.direction = "ZERO_FOR_ONE"
  BY <1>1, <1>2, LiquiditySound
<1>4. Waits \/ (total >= 1000 /\ Decides(m))
  BY <1>2, SMT DEF Liquidity
<1> HIDE DEF m
<1>5. CASE Waits
  BY <1>1, <1>5, WaitsIsSound
<1>6. CASE total >= 1000 /\ Decides(m)
  BY <1>1, <1>3, <1>6, DecidesIsSound
<1> QED  BY <1>4, <1>5, <1>6

LEMMA ArbitrageDecides ==
  ASSUME Decisions, NEW from \in {"fetcher", "other"}, NEW p \in MarketPrices, Arbitrage(from, p)
  PROVE  Decisions'
<1>1. source' = from /\ referencePrices' \subseteq References
  BY DEF Arbitrage, Decisions
<1>2. CASE Waits
  BY <1>1, <1>2, WaitsIsSound
<1>3. ASSUME NEW r \in referencePrices, Opportunity(r, p), Decides(ArbitrageDecision(r, p)) PROVE Decisions'
  <2>1. r \in [price : Nat, confidence : Nat] /\ p \in Nat
    BY MarketAssumption DEF Decisions
  <2>2. Sound(ArbitrageDecision(r, p)) /\ ArbitrageDecision(r, p).strategy = "arbitrage"
    BY <1>3, <2>1, ArbitrageSound
  <2>3. "arbitrage" # "momentum" /\ "arbitrage" # "liquidity"
    OBVIOUS
  <2> QED  BY <1>1, <1>3, <2>2, <2>3, DecidesIsSound
<1> QED  BY <1>2, <1>3 DEF Arbitrage

LEMMA StrategiesStart == StrategiesInit => StrategiesInv
<1> SUFFICES ASSUME StrategiesInit PROVE StrategiesInv
  OBVIOUS
<1>1. ReversionInv
  BY ReversionInvInit DEF StrategiesInit
<1>2. decision = NoTrade /\ coolingDown = FALSE /\ source = "fetcher" /\ referencePrices = {}
  BY DEF StrategiesInit, ReversionInit
<1>3. Sound(decision) /\ FetchedDataSignals
  BY <1>2, NoTradeIsSound DEF FetchedDataSignals
<1>4. Len(previousLiquidity) <= 1
  BY DEF StrategiesInit
<1> QED  BY <1>1, <1>2, <1>3, <1>4 DEF StrategiesInv, Decisions

LEMMA StrategiesStep == StrategiesInv /\ [StrategiesNext]_strategyVars => StrategiesInv'
<1> SUFFICES ASSUME StrategiesInv, [StrategiesNext]_strategyVars PROVE StrategiesInv'
  OBVIOUS
<1>0. ReversionInv /\ Decisions /\ Len(previousLiquidity) <= 1
  BY DEF StrategiesInv
<1>k. UNCHANGED emaVars => ReversionInv'
  BY <1>0 DEF emaVars, ReversionInv, EMATypeOK, VarianceOK, ZScoreBounded, Deviation, Variance
<1>1. ASSUME ReversionNext, UNCHANGED <<source, previousLiquidity, referencePrices>> PROVE StrategiesInv'
  <2>1. ReversionInv'
    BY <1>0, <1>1, ReversionInvStep
  <2>2. Decisions'
    BY <1>0, <1>1, ReversionDecides
  <2> QED  BY <1>0, <1>1, <2>1, <2>2 DEF StrategiesInv
<1>2. ASSUME NEW from \in {"fetcher", "other"}, NEW p \in MarketPrices,
             NEW h \in Changes, NEW d \in Changes, NEW a, NEW n, Momentum(from, h, d, p, a, n)
      PROVE  StrategiesInv'
  <2>1. Decisions'
    BY <1>0, <1>2, MomentumDecides
  <2> QED  BY <1>0, <1>2, <1>k, <2>1 DEF Momentum, StrategiesInv
<1>3. ASSUME NEW from \in {"fetcher", "other"}, NEW p \in MarketPrices, NEW total \in Liquidities,
             NEW volume \in Volumes, NEW sides, Liquidity(from, total, sides, volume, p)
      PROVE  StrategiesInv'
  <2>1. Decisions'
    BY <1>0, <1>3, LiquidityDecides
  <2>2. Len(previousLiquidity') <= 1
    BY <1>0, <1>3 DEF Liquidity
  <2> QED  BY <1>0, <1>3, <1>k, <2>1, <2>2 DEF Liquidity, StrategiesInv
<1>4. ASSUME NEW from \in {"fetcher", "other"}, NEW p \in MarketPrices, Arbitrage(from, p)
      PROVE  StrategiesInv'
  <2>1. Decisions'
    BY <1>0, <1>4, ArbitrageDecides
  <2> QED  BY <1>0, <1>4, <1>k, <2>1 DEF Arbitrage, StrategiesInv
<1>5. ASSUME referencePrices' \subseteq References, UNCHANGED <<reversionVars, source, previousLiquidity>>
      PROVE  StrategiesInv'
  <2>1. Decisions'
    BY <1>0, <1>5 DEF Decisions, FetchedDataSignals, Sound, reversionVars
  <2> QED  BY <1>0, <1>5, <1>k, <2>1 DEF reversionVars, StrategiesInv
<1>6. ASSUME NEW refs \in SUBSET References, UpdateReferencePrices(refs) PROVE StrategiesInv'
  BY <1>5, <1>6 DEF UpdateReferencePrices
<1>7. ASSUME NEW r \in referencePrices, ReferenceGetsStale(r) PROVE StrategiesInv'
  BY <1>0, <1>5, <1>7 DEF ReferenceGetsStale, Decisions
<1>8. CASE UNCHANGED strategyVars
  BY <1>0, <1>5, <1>8 DEF strategyVars, Decisions
<1> QED  BY <1>1, <1>2, <1>3, <1>4, <1>6, <1>7, <1>8 DEF StrategiesNext

LEMMA StrategiesInvIsEnough == StrategiesInv => StrategiesTypeOK /\ FetchedDataSignals
  BY DEF StrategiesInv, Decisions, Sound, ReversionInv, StrategiesTypeOK, DecisionTypeOK

(* On the data that fetchMarketData gives, whatever the prices, volumes    *)
(* and liquidities: no momentum, and the liquidity strategy has one signal *)
(* (fetchMarketData, shouldTrade).                                         *)
THEOREM FetchedDataIsSilent == StrategiesSpec => [](StrategiesTypeOK /\ FetchedDataSignals)
  BY StrategiesStart, StrategiesStep, StrategiesInvIsEnough, PTL DEF StrategiesSpec

(* ----------------------- Payments that are heard ----------------------- *)

Record == [event : 1..Len(emitted), via : {"event", "query"}]
HeardSoFar ==
  \A i \in 1..Len(distributions) : distributions[i].via = "event" => distributions[i].event <= heard
OneListener == hookListeners = (IF isListening THEN 1 ELSE 0)

HandlerInv == HandlerTypeOK /\ OneListener /\ HeardSoFar /\ HeardOnceInOrder

LEMMA HandlerStarts == HandlerInit => HandlerInv
<1> SUFFICES ASSUME HandlerInit PROVE HandlerInv
  OBVIOUS
<1>1. DOMAIN agentBalances = {} /\ DOMAIN walletToAgent = {}
  BY DEF HandlerInit
<1>2. agentBalances \in [DOMAIN agentBalances -> [wallet : Wallets, credits : Nat]]
  BY DEF HandlerInit
<1>3. Len(emitted) = 0 /\ Len(distributions) = 0 /\ emitted \in Seq(Wallets) /\ query \in Seq(1..Len(emitted))
      /\ distributions \in Seq(Record)
  BY DEF HandlerInit
<1>4. HandlerTypeOK
  <2>1. isListening \in BOOLEAN /\ hookListeners \in Nat /\ heard \in 0..Len(emitted)
    <3>1. isListening \in BOOLEAN
      BY DEF HandlerInit
    <3>2. hookListeners \in Nat /\ heard \in 0..Len(emitted)
      BY <1>3, SMT DEF HandlerInit
    <3> QED  BY <3>1, <3>2
  <2>2. DOMAIN agentBalances \subseteq Holders /\ DOMAIN walletToAgent \subseteq Wallets
    BY <1>1
  <2> QED  BY <1>2, <1>3, <2>1, <2>2, Zenon DEF HandlerTypeOK, Record
<1> QED  BY <1>3, <1>4 DEF HandlerInit, HandlerInv, OneListener, HeardSoFar, HeardOnceInOrder

(* What only concerns the agents' side keeps the rest.                     *)
Balances == [DOMAIN agentBalances -> [wallet : Wallets, credits : Nat]]

LEMMA AgentsKeepHeard ==
  ASSUME HandlerInv, UNCHANGED <<isListening, hookListeners, emitted, heard, query, distributions>>,
         DOMAIN agentBalances' \subseteq Holders, agentBalances' \in Balances',
         DOMAIN walletToAgent' \subseteq Wallets
  PROVE  HandlerInv'
  BY DEF HandlerInv, HandlerTypeOK, OneListener, HeardSoFar, HeardOnceInOrder, Balances

LEMMA RegisterKeeps ==
  ASSUME HandlerInv, NEW a \in Holders, NEW w \in Wallets, RegisterHolder(a, w) PROVE HandlerInv'
<1>0. DOMAIN agentBalances \subseteq Holders /\ agentBalances \in Balances /\ DOMAIN walletToAgent \subseteq Wallets
  BY DEF HandlerInv, HandlerTypeOK, Balances
<1>1. DOMAIN walletToAgent' \subseteq Wallets
  BY <1>0 DEF RegisterHolder
<1>2. DOMAIN agentBalances' \subseteq Holders /\ agentBalances' \in Balances'
  <2>1. CASE a \in DOMAIN agentBalances
    BY <1>0, <2>1 DEF RegisterHolder, Balances
  <2>2. CASE a \notin DOMAIN agentBalances
    <3>1. agentBalances' = [x \in DOMAIN agentBalances \cup {a} |->
                               IF x = a THEN [wallet |-> w, credits |-> 0] ELSE agentBalances[x]]
      BY <2>2 DEF RegisterHolder
    <3> QED  BY <1>0, <3>1 DEF Balances
  <2> QED  BY <2>1, <2>2
<1> QED  BY <1>1, <1>2, AgentsKeepHeard DEF RegisterHolder

LEMMA UnregisterKeeps ==
  ASSUME HandlerInv, NEW a \in Holders, UnregisterHolder(a) PROVE HandlerInv'
<1>0. DOMAIN agentBalances \subseteq Holders /\ agentBalances \in Balances /\ DOMAIN walletToAgent \subseteq Wallets
  BY DEF HandlerInv, HandlerTypeOK, Balances
<1>1. DOMAIN walletToAgent' \subseteq Wallets
  BY <1>0 DEF UnregisterHolder, Restrict
<1>2. DOMAIN agentBalances' \subseteq Holders /\ agentBalances' \in Balances'
  BY <1>0 DEF UnregisterHolder, Restrict, Balances
<1> QED  BY <1>1, <1>2, AgentsKeepHeard DEF UnregisterHolder

LEMMA ListeningKeeps == ASSUME HandlerInv, StartListening \/ StopListening PROVE HandlerInv'
<1>0. HandlerTypeOK /\ OneListener /\ HeardSoFar /\ HeardOnceInOrder /\ Len(emitted) \in Nat
      /\ heard \in 0..Len(emitted) /\ hookListeners \in Nat /\ distributions \in Seq(Record)
  BY DEF HandlerInv, HandlerTypeOK, Record
<1>1. UNCHANGED <<agentBalances, walletToAgent, emitted, query, distributions>>
  BY DEF StartListening, StopListening
<1>2. isListening' \in BOOLEAN /\ hookListeners' \in Nat /\ OneListener'
  <2>1. CASE StartListening
    <3>1. hookListeners = 0 /\ isListening' = TRUE /\ hookListeners' = hookListeners + 1
      BY <1>0, <2>1 DEF StartListening, OneListener, AddListener
    <3>2. hookListeners' = 1
      BY <3>1
    <3> QED  BY <3>1, <3>2 DEF OneListener
  <2>2. CASE StopListening
    BY <2>2 DEF StopListening, OneListener
  <2> QED  BY <2>1, <2>2
<1>3. heard' \in 0..Len(emitted) /\ heard' >= heard
  BY <1>0, SMT DEF StartListening, StopListening, AddListener
<1>4. HandlerTypeOK'
  BY <1>0, <1>1, <1>2, <1>3 DEF HandlerTypeOK
<1>5. HeardSoFar'
  <2> SUFFICES ASSUME NEW i \in 1..Len(distributions), distributions[i].via = "event"
               PROVE  distributions[i].event <= heard'
    BY <1>1 DEF HeardSoFar
  <2>r. distributions[i] \in Record
    BY <1>0, ElementOfSeq
  <2>1. distributions[i].event \in Int /\ distributions[i].event <= heard
    BY <1>0, <2>r DEF HeardSoFar, Record
  <2> QED  BY <1>0, <1>3, <2>1, SMT
<1>6. HeardOnceInOrder'
  BY <1>0, <1>1 DEF HeardOnceInOrder
<1> QED  BY <1>2, <1>4, <1>5, <1>6 DEF HandlerInv

(* A record is appended: heard for the first time, or queried.             *)
LEMMA RecordAdded ==
  ASSUME HandlerInv, NEW r \in Record, distributions' = Append(distributions, r), UNCHANGED emitted,
         heard' \in Nat, heard' >= heard,
         r.via = "event" => r.event = heard' /\ heard < heard'
  PROVE  distributions' \in Seq(Record) /\ HeardSoFar' /\ HeardOnceInOrder'
<1>0. distributions \in Seq(Record) /\ heard \in Nat /\ HeardSoFar /\ HeardOnceInOrder
  BY DEF HandlerInv, HandlerTypeOK, Record
<1>1. /\ distributions' \in Seq(Record) /\ Len(distributions') = Len(distributions) + 1
      /\ Len(distributions) \in Nat
      /\ \A i \in 1..Len(distributions) : distributions'[i] = distributions[i]
      /\ distributions'[Len(distributions) + 1] = r
  BY <1>0, AppendProperties, LenProperties
<1>2. \A i \in 1..Len(distributions') : i \in 1..Len(distributions) \/ i = Len(distributions) + 1
  BY <1>1, SMT
<1>3. ASSUME NEW i \in 1..Len(distributions) PROVE distributions[i].event \in Int
  <2>1. distributions[i] \in Record
    BY <1>0, ElementOfSeq
  <2> QED  BY <2>1 DEF Record
<1>r. r.event \in Int
  BY DEF Record
<1>4. HeardSoFar'
  <2> SUFFICES ASSUME NEW i \in 1..Len(distributions'), distributions'[i].via = "event"
               PROVE  distributions'[i].event <= heard'
    BY DEF HeardSoFar
  <2>1. CASE i \in 1..Len(distributions)
    <3>1. distributions[i].event <= heard
      BY <1>0, <1>1, <2>1 DEF HeardSoFar
    <3> QED  BY <1>0, <1>1, <1>3, <2>1, <3>1
  <2>2. CASE i = Len(distributions) + 1
    BY <1>1, <1>r, <2>2
  <2> QED  BY <1>2, <2>1, <2>2
<1>5. HeardOnceInOrder'
  <2> SUFFICES ASSUME NEW i \in 1..Len(distributions'), NEW j \in 1..Len(distributions'), i < j,
                      distributions'[i].via = "event", distributions'[j].via = "event"
               PROVE  distributions'[i].event < distributions'[j].event
    BY DEF HeardOnceInOrder
  <2>1. i \in 1..Len(distributions)
    BY <1>1, <1>2, SMT
  <2>2. distributions'[i] = distributions[i] /\ distributions[i].event \in Int
    BY <1>1, <1>3, <2>1
  <2>3. CASE j \in 1..Len(distributions)
    <3>1. distributions'[j] = distributions[j]
      BY <1>1, <2>3
    <3> QED  BY <1>0, <2>1, <2>2, <2>3, <3>1 DEF HeardOnceInOrder
  <2>4. CASE j = Len(distributions) + 1
    <3>1. distributions'[j] = r
      BY <1>1, <2>4
    <3>2. distributions[i].event <= heard
      BY <1>0, <2>1, <2>2 DEF HeardSoFar
    <3>3. r.event = heard' /\ heard < heard'
      BY <3>1
    <3> QED  BY <1>0, <2>2, <3>1, <3>2, <3>3, SMT
  <2> QED  BY <1>2, <2>3, <2>4
<1> QED  BY <1>1, <1>4, <1>5

LEMMA HearKeeps == ASSUME HandlerInv, HearPayment PROVE HandlerInv'
<1>0. /\ HandlerTypeOK /\ OneListener /\ agentBalances \in Balances /\ DOMAIN agentBalances \subseteq Holders
      /\ distributions \in Seq(Record) /\ Len(emitted) \in Nat /\ heard \in 0..Len(emitted)
  BY DEF HandlerInv, HandlerTypeOK, Balances, Record
<1>1. hookListeners = 1
  BY <1>0, SMT DEF HearPayment, OneListener
<1>2. heard' = heard + 1 /\ heard' \in 1..Len(emitted)
  BY <1>0, SMT DEF HearPayment
<1> DEFINE r == Recorded(heard + 1, "event")
<1>3. r.event = heard' /\ r.via = "event" /\ r \in Record
  BY <1>2 DEF Recorded, Record
<1>4. distributions' = Append(distributions, r)
  <2>1. distributions' = distributions \o [i \in 1..1 |-> r]
    BY <1>1 DEF HearPayment
  <2>2. [i \in 1..1 |-> r] = <<r>>
    <3> HIDE DEF r
    <3> QED  OBVIOUS
  <2> HIDE DEF r
  <2> QED  BY <1>0, <1>3, <2>1, <2>2, AppendIsConcat
<1> HIDE DEF r
<1>5. distributions' \in Seq(Record) /\ HeardSoFar' /\ HeardOnceInOrder'
  <2>1. emitted' = emitted
    BY DEF HearPayment
  <2>2. heard' \in Nat /\ heard' >= heard /\ heard < heard'
    BY <1>0, <1>2, SMT
  <2> QED  BY <1>3, <1>4, <2>1, <2>2, RecordAdded
<1>6. agentBalances' \in Balances' /\ DOMAIN agentBalances' = DOMAIN agentBalances
  <2>1. CASE agentBalances' = agentBalances
    BY <1>0, <2>1 DEF Balances
  <2>2. ASSUME NEW a \in DOMAIN agentBalances, agentBalances' = [agentBalances EXCEPT ![a].credits = @ + hookListeners]
        PROVE  agentBalances' \in Balances' /\ DOMAIN agentBalances' = DOMAIN agentBalances
    BY <1>0, <1>1, <2>2 DEF Balances
  <2> QED  BY <2>1, <2>2 DEF HearPayment, Credited
<1>7. HandlerTypeOK'
  <2>1. UNCHANGED <<walletToAgent, isListening, hookListeners, emitted, query>>
    BY DEF HearPayment
  <2>2. DOMAIN agentBalances' \subseteq Holders
    BY <1>0, <1>6
  <2>3. heard' \in 0..Len(emitted)
    BY <1>0, <1>2, SMT
  <2> QED  BY <1>0, <1>5, <1>6, <2>1, <2>2, <2>3, Zenon DEF HandlerTypeOK, Balances, Record
<1>8. OneListener'
  BY <1>0 DEF HearPayment, OneListener
<1> QED  BY <1>5, <1>7, <1>8 DEF HandlerInv

LEMMA PayKeeps == ASSUME HandlerInv, NEW w \in Wallets, Pay(w) PROVE HandlerInv'
<1>0. HandlerTypeOK /\ emitted \in Seq(Wallets) /\ query \in Seq(1..Len(emitted)) /\ distributions \in Seq(Record)
      /\ heard \in 0..Len(emitted)
  BY DEF HandlerInv, HandlerTypeOK, Record
<1>1. emitted' \in Seq(Wallets) /\ Len(emitted') = Len(emitted) + 1 /\ Len(emitted) \in Nat
  BY <1>0, AppendProperties, LenProperties DEF Pay
<1>2. 1..Len(emitted) \subseteq 1..Len(emitted') /\ heard \in 0..Len(emitted')
  BY <1>0, <1>1, SMT
<1>3. Record \subseteq Record'
  BY <1>2, Zenon DEF Record
<1>4. query \in Seq(1..Len(emitted')) /\ distributions \in Seq(Record')
  BY <1>0, <1>2, <1>3, SeqMonotonic
<1>5. UNCHANGED <<agentBalances, walletToAgent, isListening, hookListeners, heard, query, distributions>>
  BY DEF Pay
<1>6. HandlerTypeOK'
  BY <1>0, <1>1, <1>2, <1>4, <1>5, Zenon DEF HandlerTypeOK, Record
<1> QED  BY <1>5, <1>6 DEF HandlerInv, OneListener, HeardSoFar, HeardOnceInOrder

(* A query only reads what the chain has.                                  *)
LEMMA QueryKeeps ==
  ASSUME HandlerInv, (\E from \in 0..Len(emitted) : FetchPast(from)) \/ RecordPast \/ FetchPastFails
  PROVE  HandlerInv'
<1>0. HandlerTypeOK /\ OneListener /\ HeardSoFar /\ HeardOnceInOrder /\ Len(emitted) \in Nat
      /\ query \in Seq(1..Len(emitted)) /\ distributions \in Seq(Record) /\ heard \in Nat
  BY LenProperties DEF HandlerInv, HandlerTypeOK, Record
<1>1. UNCHANGED <<agentBalances, walletToAgent, isListening, hookListeners, emitted, heard>>
  BY DEF FetchPast, RecordPast, FetchPastFails
<1>2. ASSUME query' \in Seq(1..Len(emitted)), distributions' \in Seq(Record), HeardSoFar', HeardOnceInOrder'
      PROVE  HandlerInv'
  <2>1. HandlerTypeOK'
    BY <1>0, <1>1, <1>2, Zenon DEF HandlerTypeOK, Record
  <2>2. OneListener'
    BY <1>0, <1>1 DEF OneListener
  <2> QED  BY <1>2, <2>1, <2>2 DEF HandlerInv
<1>3. ASSUME UNCHANGED distributions PROVE distributions' \in Seq(Record) /\ HeardSoFar' /\ HeardOnceInOrder'
  BY <1>0, <1>1, <1>3 DEF HeardSoFar, HeardOnceInOrder
<1>4. ASSUME NEW from \in 0..Len(emitted), FetchPast(from) PROVE HandlerInv'
  <2>1. Len(emitted) - from \in Nat /\ \A i \in 1..(Len(emitted) - from) : from + i \in 1..Len(emitted)
    BY <1>0, SMT
  <2>2. query' \in Seq(1..Len(emitted))
    BY <1>4, <2>1 DEF FetchPast
  <2> QED  BY <1>2, <1>3, <1>4, <2>2 DEF FetchPast
<1>5. CASE RecordPast
  <2> DEFINE r == Recorded(Head(query), "query")
  <2>1. Head(query) \in 1..Len(emitted) /\ Tail(query) \in Seq(1..Len(emitted))
    BY <1>0, <1>5, HeadTailProperties DEF RecordPast
  <2>2. r \in Record /\ r.via = "query"
    BY <2>1 DEF Recorded, Record
  <2>3. distributions' = Append(distributions, r) /\ query' = Tail(query)
    BY <1>5 DEF RecordPast
  <2> HIDE DEF r
  <2>4. distributions' \in Seq(Record) /\ HeardSoFar' /\ HeardOnceInOrder'
    <3>1. heard' \in Nat /\ heard' >= heard /\ "query" # "event" /\ emitted' = emitted
      BY <1>0, <1>1
    <3> QED  BY <2>2, <2>3, <3>1, RecordAdded
  <2> QED  BY <1>2, <2>1, <2>3, <2>4
<1>6. CASE FetchPastFails
  <2>1. query' = <<>> /\ UNCHANGED distributions
    BY <1>6 DEF FetchPastFails
  <2>2. query' \in Seq(1..Len(emitted))
    BY <2>1, EmptySeq
  <2> QED  BY <1>2, <1>3, <2>1, <2>2
<1> QED  BY <1>4, <1>5, <1>6

LEMMA HandlerStep == HandlerInv /\ [HandlerNext]_handlerVars => HandlerInv'
<1> SUFFICES ASSUME HandlerInv, [HandlerNext]_handlerVars PROVE HandlerInv'
  OBVIOUS
<1>1. CASE UNCHANGED handlerVars
  BY <1>1 DEF handlerVars, HandlerInv, HandlerTypeOK, OneListener, HeardSoFar, HeardOnceInOrder
<1> QED
  BY <1>1, RegisterKeeps, UnregisterKeeps, ListeningKeeps, PayKeeps, HearKeeps, QueryKeeps DEF HandlerNext

(* However listening is started and stopped and whatever is queried, a     *)
(* payment is heard once at most, in the order in which the batches paid   *)
(* (startListening, stopListening, handleDistributionEvent).               *)
THEOREM PaymentsHeardInOrder == HandlerSpec => [](HandlerTypeOK /\ HeardOnceInOrder)
<1>1. HandlerInv => HandlerTypeOK /\ HeardOnceInOrder
  BY DEF HandlerInv
<1> QED  BY HandlerStarts, HandlerStep, <1>1, PTL DEF HandlerSpec

(* --------------------------- The message bus --------------------------- *)

(* What Filtered(s, T) has kept of the first n elements.                   *)
KeptBy(g, s, T, n) ==
  g = [i \in 0..n |-> IF i = 0 THEN <<>>
                      ELSE IF s[i] \in T THEN Append(g[i - 1], s[i]) ELSE g[i - 1]]

LEMMA FilteredIs ==
  ASSUME NEW s, NEW T
  PROVE  Filtered(s, T) = (CHOOSE g : KeptBy(g, s, T, Len(s)))[Len(s)]
  BY DEF Filtered, KeptBy

LEMMA KeptExists ==
  ASSUME NEW S, NEW s \in Seq(S), NEW T, NEW n \in 0..Len(s)
  PROVE  \E g : KeptBy(g, s, T, n)
<1> DEFINE Bad == {k \in 0..Len(s) : ~\E g : KeptBy(g, s, T, k)}
<1>1. SUFFICES ASSUME Bad # {} PROVE FALSE
  OBVIOUS
<1>2. Bad \subseteq Nat
  OBVIOUS
<1>3. PICK k \in Bad : \A j \in Bad : k <= j
  <2> HIDE DEF Bad
  <2> QED  BY <1>1, <1>2, LeastNatural
<1>4. k \in 0..Len(s) /\ ~\E g : KeptBy(g, s, T, k)
  OBVIOUS
<1>5. CASE k = 0
  <2>1. KeptBy([i \in 0..0 |-> <<>>], s, T, 0)
    BY SMT DEF KeptBy
  <2> QED  BY <1>4, <1>5, <2>1
<1>6. CASE k # 0
  <2>1. Len(s) \in Nat /\ k - 1 \in 0..Len(s) /\ k - 1 < k
    BY <1>4, <1>6, LenProperties, SMT
  <2>2. k - 1 \notin Bad
    BY <1>3, <2>1, <1>4, SMT
  <2>3. PICK g : KeptBy(g, s, T, k - 1)
    BY <2>1, <2>2
  <2> DEFINE h == [i \in 0..k |-> IF i = k THEN (IF s[k] \in T THEN Append(g[k - 1], s[k]) ELSE g[k - 1]) ELSE g[i]]
  <2>4. ASSUME NEW i \in 0..(k - 1)
        PROVE  h[i] = g[i] /\ g[i] = (IF i = 0 THEN <<>> ELSE IF s[i] \in T THEN Append(g[i - 1], s[i]) ELSE g[i - 1])
    <3>1. i \in 0..k /\ i # k
      BY <1>4, <1>6, SMT
    <3>2. h[i] = g[i]
      BY <3>1
    <3> HIDE DEF h
    <3> QED  BY <2>3, <3>2 DEF KeptBy
  <2>5. h[k] = (IF s[k] \in T THEN Append(h[k - 1], s[k]) ELSE h[k - 1])
    BY <1>4, <1>6, <2>1, <2>4
  <2>6. \A i \in 0..k : h[i] = (IF i = 0 THEN <<>> ELSE IF s[i] \in T THEN Append(h[i - 1], s[i]) ELSE h[i - 1])
    <3> HIDE DEF h
    <3> SUFFICES ASSUME NEW i \in 0..k PROVE h[i] = (IF i = 0 THEN <<>> ELSE IF s[i] \in T THEN Append(h[i - 1], s[i]) ELSE h[i - 1])
      OBVIOUS
    <3>1. CASE i = k
      BY <2>5, <3>1, <1>6
    <3>2. CASE i = 0
      BY <1>4, <1>6, <2>1, <2>4, <3>2
    <3>3. CASE i # 0 /\ i # k
      <4>1. i \in 0..(k - 1) /\ i - 1 \in 0..(k - 1)
        BY <1>4, <3>3, SMT
      <4> QED  BY <2>4, <4>1
    <3> QED  BY <3>1, <3>2, <3>3
  <2>7. h = [i \in 0..k |-> h[i]]
    OBVIOUS
  <2> HIDE DEF h
  <2>8. KeptBy(h, s, T, k)
    BY <2>6, <2>7 DEF KeptBy
  <2> QED  BY <1>4, <2>8
<1> QED  BY <1>5, <1>6

(* What is kept of a sequence is a sequence of the same elements.          *)
LEMMA FilteredType ==
  ASSUME NEW S, NEW s \in Seq(S), NEW T
  PROVE  Filtered(s, T) \in Seq(S)
<1> DEFINE n == Len(s)
           g == CHOOSE f : KeptBy(f, s, T, n)
<1>1. n \in Nat /\ n \in 0..n
  BY LenProperties, SMT
<1>2. KeptBy(g, s, T, n)
  BY <1>1, KeptExists
<1>3. \A i \in 0..n : g[i] = (IF i = 0 THEN <<>> ELSE IF s[i] \in T THEN Append(g[i - 1], s[i]) ELSE g[i - 1])
  <2> HIDE DEF g, n
  <2> QED  BY <1>2 DEF KeptBy
<1>4. Filtered(s, T) = g[n]
  BY FilteredIs
<1> HIDE DEF g
<1> DEFINE Bad == {k \in 0..n : g[k] \notin Seq(S)}
<1>5. SUFFICES ASSUME Bad # {} PROVE FALSE
  BY <1>1, <1>4
<1>6. PICK k \in Bad : \A j \in Bad : k <= j
  <2>1. Bad \subseteq Nat
    OBVIOUS
  <2> HIDE DEF Bad
  <2> QED  BY <1>5, <2>1, LeastNatural
<1>7. k \in 0..n /\ g[k] \notin Seq(S)
  OBVIOUS
<1>8. k # 0
  BY <1>3, <1>7, EmptySeq
<1>9. k - 1 \in 0..n /\ k - 1 < k /\ k \in 1..n
  BY <1>1, <1>7, <1>8, SMT
<1>10. g[k - 1] \in Seq(S)
  BY <1>6, <1>7, <1>9, SMT
<1>11. s[k] \in S
  BY <1>9, ElementOfSeq
<1>12. g[k] \in {g[k - 1], Append(g[k - 1], s[k])}
  BY <1>3, <1>7, <1>8
<1>13. Append(g[k - 1], s[k]) \in Seq(S)
  BY <1>10, <1>11, AppendProperties
<1> QED  BY <1>7, <1>10, <1>12, <1>13

(* ------------------------- What a topic keeps -------------------------- *)

LEMMA LatestKept ==
  ASSUME NEW S, NEW q \in Seq(S), q # <<>>, NEW n \in Nat \ {0}
  PROVE  /\ LastOf(q, n) \in Seq(S)
         /\ Len(LastOf(q, n)) <= n /\ Len(LastOf(q, n)) \in 1..Len(q)
         /\ \A i \in 1..Len(LastOf(q, n)) :
               LastOf(q, n)[i] = q[i + (Len(q) - Len(LastOf(q, n)))]
<1>0. Len(q) \in Nat \ {0}
  BY EmptySeq
<1>1. CASE Len(q) > n
  <2> DEFINE m == Len(q) - n + 1
             r == SubSeq(q, m, Len(q))
  <2>1. LastOf(q, n) = r
    BY <1>1 DEF LastOf
  <2>2. m \in Int /\ m >= 1 /\ m <= Len(q) /\ Len(q) - m + 1 = n
    BY <1>0, <1>1, SMT
  <2>3. \A i \in m..Len(q) : q[i] \in S
    <3> SUFFICES ASSUME NEW i \in m..Len(q) PROVE q[i] \in S
      OBVIOUS
    <3>1. i \in 1..Len(q)
      BY <1>0, <2>2, SMT
    <3> QED  BY <3>1, ElementOfSeq
  <2> HIDE DEF m
  <2>4. r \in Seq(S) /\ Len(r) = n /\ \A i \in 1..n : r[i] = q[m + i - 1]
    BY <1>0, <2>2, <2>3, SubSeqProperties
  <2>5. \A i \in 1..n : m + i - 1 = i + (Len(q) - n)
    BY <1>0, <2>2, SMT
  <2> HIDE DEF r
  <2>6. Len(r) \in 1..Len(q) /\ Len(r) <= n
    BY <1>0, <1>1, <2>4, SMT
  <2> QED  BY <2>1, <2>4, <2>5, <2>6
<1>2. CASE ~(Len(q) > n)
  <2>1. LastOf(q, n) = q
    BY <1>2 DEF LastOf
  <2>2. \A i \in 1..Len(q) : i + (Len(q) - Len(q)) = i
    BY <1>0, SMT
  <2> QED  BY <1>0, <1>2, <2>1, <2>2, SMT
<1> QED  BY <1>1, <1>2

(* Messages whose numbers go up, none beyond n.                            *)
UpTo(q, n) ==
  /\ \A i \in 1..Len(q) : q[i].id <= n
  /\ \A i, j \in 1..Len(q) : i < j => q[i].id < q[j].id

LEMMA PublishedLast ==
  ASSUME NEW q \in Seq(Message), NEW n \in Nat, UpTo(q, n), NEW m \in Message, m.id = n + 1, NEW k \in Nat \ {0}
  PROVE  /\ LastOf(Append(q, m), k) \in Seq(Message) /\ UpTo(LastOf(Append(q, m), k), n + 1)
         /\ Len(LastOf(Append(q, m), k)) <= k
         /\ LastOf(Append(q, m), k) # <<>> /\ Last(LastOf(Append(q, m), k)).id = n + 1
<1> DEFINE a == Append(q, m)
           r == LastOf(a, k)
           gone == Len(a) - Len(r)
<1>1. /\ a \in Seq(Message) /\ a # <<>> /\ Len(a) = Len(q) + 1 /\ Len(q) \in Nat
      /\ \A i \in 1..Len(q) : a[i] = q[i]
      /\ a[Len(q) + 1] = m
  BY AppendProperties, LenProperties
<1> HIDE DEF a
<1>2. r \in Seq(Message) /\ Len(r) <= k /\ Len(r) \in 1..Len(a) /\ \A i \in 1..Len(r) : r[i] = a[i + gone]
  BY <1>1, LatestKept
<1>3. \A i \in 1..Len(a) : i \in 1..Len(q) \/ i = Len(q) + 1
  BY <1>1, SMT
<1>4. ASSUME NEW i \in 1..Len(q) PROVE q[i].id \in Int
  <2>1. q[i] \in Message
    BY ElementOfSeq
  <2> QED  BY <2>1 DEF Message
<1>5. ASSUME NEW i \in 1..Len(a) PROVE a[i].id \in Int /\ a[i].id <= n + 1
  <2>1. CASE i \in 1..Len(q)
    <3>1. q[i].id <= n /\ q[i].id \in Int
      BY <1>4, <2>1 DEF UpTo
    <3> QED  BY <1>1, <2>1, <3>1
  <2>2. CASE i = Len(q) + 1
    BY <1>1, <2>2
  <2> QED  BY <1>3, <2>1, <2>2
<1>6. ASSUME NEW i \in 1..Len(a), NEW j \in 1..Len(a), i < j PROVE a[i].id < a[j].id
  <2>1. i \in 1..Len(q)
    BY <1>1, <1>6, SMT
  <2>2. CASE j \in 1..Len(q)
    BY <1>1, <1>6, <2>1, <2>2 DEF UpTo
  <2>3. CASE j = Len(q) + 1
    <3>1. q[i].id <= n /\ q[i].id \in Int
      BY <1>4, <2>1 DEF UpTo
    <3> QED  BY <1>1, <2>1, <2>3, <3>1
  <2> QED  BY <1>3, <2>2, <2>3
<1>7. gone \in Nat /\ gone + Len(r) = Len(a) /\ Len(r) \in Nat /\ Len(r) >= 1
  BY <1>1, <1>2, SMT
<1> HIDE DEF gone
<1>8. \A i \in 1..Len(r) : i + gone \in 1..Len(a)
  BY <1>1, <1>7, SMT
<1> HIDE DEF r
<1>9. UpTo(r, n + 1)
  <2>1. ASSUME NEW i \in 1..Len(r) PROVE r[i].id <= n + 1
    BY <1>2, <1>5, <1>8
  <2>2. ASSUME NEW i \in 1..Len(r), NEW j \in 1..Len(r), i < j PROVE r[i].id < r[j].id
    <3>1. i + gone < j + gone
      BY <1>7, <2>2, SMT
    <3> QED  BY <1>2, <1>6, <1>8, <3>1
  <2> QED  BY <2>1, <2>2 DEF UpTo
<1>10. r # <<>> /\ Last(r).id = n + 1
  <2>1. Len(r) \in 1..Len(r) /\ Len(r) + gone = Len(q) + 1
    BY <1>1, <1>7, SMT
  <2>2. r[Len(r)] = m
    BY <1>1, <1>2, <2>1
  <2>3. r # <<>>
    BY <1>2, <1>7, EmptySeq
  <2> QED  BY <2>2, <2>3 DEF Last
<1> QED  BY <1>2, <1>9, <1>10 DEF r, a

(* ----------------------- The publish calls ----------------------------- *)

(* Between what a call has done and what it has still to do nothing is     *)
(* lost, and only the innermost may be between two handlers.               *)
CallOK(f) == f \in Call /\ f.called \o f.toCall = f.due
CallsOK(d) ==
  /\ d \in Seq(Call)
  /\ \A i \in 1..Len(d) : d[i].called \o d[i].toCall = d[i].due
  /\ \A i \in 1..Len(d) : i < Len(d) => d[i].inHandler

LEMMA OneLess ==
  ASSUME NEW n \in Nat \ {0}
  PROVE  (IF 1 <= n - 1 THEN n - 1 ELSE 0) = n - 1
  BY SMT

LEMMA FrontOfCalls ==
  ASSUME NEW d, CallsOK(d), d # <<>>
  PROVE  /\ Front(d) \in Seq(Call) /\ Len(Front(d)) = Len(d) - 1 /\ Len(d) \in Nat \ {0}
         /\ \A i \in 1..(Len(d) - 1) : Front(d)[i] = d[i]
         /\ CallOK(Last(d)) /\ CallsOK(Front(d))
<1>0. d \in Seq(Call) /\ Len(d) \in Nat \ {0}
  BY EmptySeq DEF CallsOK
<1>1. \A i \in 1..(Len(d) - 1) : i \in 1..Len(d) /\ i < Len(d)
  BY <1>0, SMT
<1>2. ASSUME NEW i \in 1..(Len(d) - 1) PROVE d[i] \in Call
  BY <1>0, <1>1, ElementOfSeq
<1>3. Front(d) \in Seq(Call) /\ Len(Front(d)) = Len(d) - 1 /\ \A i \in 1..(Len(d) - 1) : Front(d)[i] = d[i]
  <2>1. Len(d) - 1 \in Int /\ 1 \in Int /\ Len(d) - 1 - 1 + 1 = Len(d) - 1
    BY <1>0, SMT
  <2>2. /\ SubSeq(d, 1, Len(d) - 1) \in Seq(Call)
        /\ Len(SubSeq(d, 1, Len(d) - 1)) = (IF 1 <= Len(d) - 1 THEN Len(d) - 1 - 1 + 1 ELSE 0)
        /\ \A i \in 1..(Len(d) - 1 - 1 + 1) : SubSeq(d, 1, Len(d) - 1)[i] = d[1 + i - 1]
    BY <1>2, <2>1, SubSeqProperties
  <2>3. \A i \in 1..(Len(d) - 1) : 1 + i - 1 = i
    BY SMT
  <2>4. (IF 1 <= Len(d) - 1 THEN Len(d) - 1 ELSE 0) = Len(d) - 1
    BY <1>0, OneLess
  <2> QED  BY <2>1, <2>2, <2>3, <2>4 DEF Front
<1>4. CallOK(Last(d))
  <2>1. Len(d) \in 1..Len(d)
    BY <1>0, SMT
  <2> QED  BY <1>0, <2>1, ElementOfSeq DEF Last, CallOK, CallsOK
<1>5. CallsOK(Front(d))
  BY <1>1, <1>3 DEF CallsOK
<1> QED  BY <1>0, <1>3, <1>4, <1>5

LEMMA CallAdded ==
  ASSUME NEW d, CallsOK(d), NEW f, CallOK(f), \A i \in 1..Len(d) : d[i].inHandler
  PROVE  CallsOK(Append(d, f)) /\ Len(Append(d, f)) = Len(d) + 1
<1> DEFINE e == Append(d, f)
<1>1. /\ e \in Seq(Call) /\ Len(e) = Len(d) + 1 /\ Len(d) \in Nat
      /\ \A i \in 1..Len(d) : e[i] = d[i]
      /\ e[Len(d) + 1] = f
  BY AppendProperties, LenProperties DEF CallsOK, CallOK
<1> HIDE DEF e
<1>2. \A i \in 1..Len(e) : i \in 1..Len(d) \/ i = Len(d) + 1
  BY <1>1, SMT
<1>3. ASSUME NEW i \in 1..Len(e) PROVE e[i].called \o e[i].toCall = e[i].due
  BY <1>1, <1>2 DEF CallsOK, CallOK
<1>4. ASSUME NEW i \in 1..Len(e), i < Len(e) PROVE e[i].inHandler
  <2>1. i \in 1..Len(d)
    BY <1>1, <1>4, SMT
  <2> QED  BY <1>1, <2>1
<1> QED  BY <1>1, <1>3, <1>4 DEF CallsOK, e

LEMMA AppendAny ==
  ASSUME NEW S, NEW q \in Seq(S), NEW x
  PROVE  Len(Append(q, x)) = Len(q) + 1
<1>1. q \in Seq(S \cup {x})
  <2>1. Len(q) \in Nat /\ q = [i \in 1..Len(q) |-> q[i]] /\ \A i \in 1..Len(q) : q[i] \in S
    BY LenProperties, ElementOfSeq
  <2> QED  BY <2>1, IsASeq
<1> QED  BY <1>1, AppendProperties

(* Calling the next handler moves it from one side to the other.           *)
LEMMA NextHandler ==
  ASSUME NEW S, NEW c \in Seq(S), NEW t \in Seq(S), t # <<>>
  PROVE  /\ Append(c, Head(t)) \in Seq(S) /\ Tail(t) \in Seq(S)
         /\ Append(c, Head(t)) \o Tail(t) = c \o t
<1> DEFINE a == Append(c, Head(t))
           u == Tail(t)
<1>1. Head(t) \in S /\ u \in Seq(S) /\ Len(u) = Len(t) - 1 /\ (\A i \in 1..Len(u) : u[i] = t[i + 1]) /\ Head(t) = t[1]
  BY HeadTailProperties
<1>2. a \in Seq(S) /\ Len(a) = Len(c) + 1 /\ (\A i \in 1..Len(c) : a[i] = c[i]) /\ a[Len(c) + 1] = t[1]
  BY <1>1, AppendProperties
<1>3. Len(c) \in Nat /\ Len(t) \in Nat \ {0}
  BY LenProperties, EmptySeq
<1> HIDE DEF a, u
<1>4. /\ a \o u \in Seq(S) /\ Len(a \o u) = Len(a) + Len(u)
      /\ \A i \in 1..Len(a) + Len(u) : (a \o u)[i] = IF i <= Len(a) THEN a[i] ELSE u[i - Len(a)]
  BY <1>1, <1>2, ConcatProperties
<1>5. /\ c \o t \in Seq(S) /\ Len(c \o t) = Len(c) + Len(t)
      /\ \A i \in 1..Len(c) + Len(t) : (c \o t)[i] = IF i <= Len(c) THEN c[i] ELSE t[i - Len(c)]
  BY ConcatProperties
<1>6. Len(a) + Len(u) = Len(c) + Len(t)
  BY <1>1, <1>2, <1>3, SMT
<1>7. ASSUME NEW i \in 1..Len(c) + Len(t) PROVE (a \o u)[i] = (c \o t)[i]
  <2>1. CASE i <= Len(c)
    <3>1. i \in 1..Len(c) /\ i <= Len(a)
      BY <1>2, <1>3, <2>1, SMT
    <3> QED  BY <1>2, <1>4, <1>5, <1>6, <2>1, <3>1
  <2>2. CASE i = Len(c) + 1
    <3>1. i <= Len(a) /\ ~(i <= Len(c)) /\ i - Len(c) = 1
      BY <1>2, <1>3, <2>2, SMT
    <3> QED  BY <1>2, <1>4, <1>5, <1>6, <2>2, <3>1
  <2>3. CASE i > Len(c) + 1
    <3>1. ~(i <= Len(a)) /\ ~(i <= Len(c)) /\ i - Len(a) \in 1..Len(u) /\ (i - Len(a)) + 1 = i - Len(c)
      BY <1>1, <1>2, <1>3, <1>6, <2>3, SMT
    <3>2. (a \o u)[i] = t[(i - Len(a)) + 1]
      BY <1>1, <1>4, <1>6, <3>1
    <3> QED  BY <1>5, <3>1, <3>2
  <2>4. i <= Len(c) \/ i = Len(c) + 1 \/ i > Len(c) + 1
    BY <1>3, SMT
  <2> QED  BY <2>1, <2>2, <2>3, <2>4
<1>8. a \o u = c \o t
  BY <1>4, <1>5, <1>6, <1>7, SeqEqual
<1> QED  BY <1>1, <1>2, <1>8 DEF a, u

(* ------------------------------ The bus -------------------------------- *)

HistoryOK ==
  /\ \A t \in Topics : UpTo(history[t], messageCounter)
  /\ messageCounter > 0 =>
        \E t \in Topics : history[t] # <<>> /\ Last(history[t]).id = messageCounter

BusInv == BusTypeOK /\ HistoryOK /\ CallsOK(delivering)

LEMMA BusStarts == BusInit => BusInv
<1> SUFFICES ASSUME BusInit PROVE BusInv
  OBVIOUS
<1>1. subscriptions \in Seq(Subscription) /\ messageCounter \in 0..MaxMessages
  BY BusAssumption, EmptySeq, SMT DEF BusInit
<1>2. history \in [Topics -> Seq(Message)] /\ \A t \in Topics : Len(history[t]) = 0
  BY EmptySeq DEF BusInit
<1>3. \A t \in Topics : Len(history[t]) <= MaxHistory /\ UpTo(history[t], messageCounter)
  BY <1>2, BusAssumption, SMT DEF UpTo
<1>4. DOMAIN sharedState = {}
  BY DEF BusInit
<1>5. delivering \in Seq(Call) /\ Len(delivering) = 0
  BY EmptySeq DEF BusInit
<1>6. CallsOK(delivering)
  BY <1>5, SMT DEF CallsOK
<1>7. HistoryOK
  BY <1>3, SMT DEF HistoryOK, BusInit
<1> QED  BY <1>1, <1>2, <1>3, <1>4, <1>6, <1>7 DEF BusInv, BusTypeOK, CallsOK

(* What other code calls, it calls while every publish call is in a        *)
(* handler.                                                                *)
LEMMA AllInHandler ==
  ASSUME CallsOK(delivering), MayCall
  PROVE  \A i \in 1..Len(delivering) : delivering[i].inHandler
<1> SUFFICES ASSUME NEW i \in 1..Len(delivering) PROVE delivering[i].inHandler
  OBVIOUS
<1>1. delivering \in Seq(Call) /\ Len(delivering) \in Nat
  BY LenProperties DEF CallsOK
<1>2. delivering # <<>>
  BY <1>1, EmptySeq, SMT
<1>3. Last(delivering).inHandler
  BY <1>2 DEF MayCall
<1>4. i < Len(delivering) \/ i = Len(delivering)
  BY <1>1, SMT
<1> QED  BY <1>3, <1>4 DEF CallsOK, Last

LEMMA PublishKeeps ==
  ASSUME BusInv, NEW from \in BusAgents, NEW t \in Topics, NEW p \in BusPools \cup {NoPool}, Publish(from, t, p)
  PROVE  BusInv'
<1> DEFINE m == [id |-> messageCounter + 1, from |-> from, topic |-> t, pool |-> p]
           f == [message |-> m, toCall |-> MatchingSubs(m), called |-> <<>>,
                 due |-> MatchingSubs(m), inHandler |-> FALSE]
<1>1. messageCounter \in Nat /\ messageCounter + 1 \in 1..MaxMessages /\ messageCounter + 1 \in 0..MaxMessages
  BY BusAssumption, SMT DEF Publish, BusInv, BusTypeOK
<1>2. m \in Message /\ m.id = messageCounter + 1 /\ m.topic = t
  BY <1>1 DEF Message
<1>3. /\ MayCall /\ messageCounter' = m.id /\ delivering' = Append(delivering, f)
      /\ history' = [history EXCEPT ![t] = LastOf(Append(@, m), MaxHistory)]
      /\ UNCHANGED <<subscriptions, sharedState>>
  BY DEF Publish, AddToHistory
<1>4. MatchingSubs(m) \in Seq(Subscription)
  <2> HIDE DEF m
  <2>1. subscriptions \in Seq(Subscription)
    BY DEF BusInv, BusTypeOK
  <2> DEFINE T == {s \in Subscription : Matches(s, m)}
  <2>2. MatchingSubs(m) = Filtered(subscriptions, T)
    BY DEF MatchingSubs
  <2> HIDE DEF T
  <2> QED  BY <2>1, <2>2, FilteredType
<1>5. CallOK(f)
  <2> HIDE DEF m
  <2>1. <<>> \in Seq(Subscription) /\ <<>> \o MatchingSubs(m) = MatchingSubs(m)
    BY <1>4, EmptySeq, ConcatEmptySeq
  <2> QED  BY <1>2, <1>4, <2>1 DEF CallOK, Call
<1>6. CallsOK(delivering')
  <2> HIDE DEF f
  <2> QED  BY <1>3, <1>5, AllInHandler, CallAdded DEF BusInv
<1> HIDE DEF m, f
<1>7. history \in [Topics -> Seq(Message)] /\ UpTo(history[t], messageCounter)
  BY DEF BusInv, BusTypeOK, HistoryOK
<1>8. /\ history'[t] \in Seq(Message) /\ UpTo(history'[t], messageCounter + 1)
      /\ Len(history'[t]) <= MaxHistory
      /\ history'[t] # <<>> /\ Last(history'[t]).id = messageCounter + 1
  <2>1. history'[t] = LastOf(Append(history[t], m), MaxHistory)
    BY <1>3, <1>7
  <2>2. history[t] \in Seq(Message) /\ UpTo(history[t], messageCounter) /\ MaxHistory \in Nat \ {0}
    BY <1>7, BusAssumption
  <2> DEFINE r == LastOf(Append(history[t], m), MaxHistory)
  <2>3. /\ r \in Seq(Message) /\ UpTo(r, messageCounter + 1)
        /\ Len(r) <= MaxHistory /\ r # <<>> /\ Last(r).id = messageCounter + 1
    BY <1>1, <1>2, <2>2, PublishedLast
  <2> HIDE DEF r
  <2> QED  BY <2>1, <2>3 DEF r
<1>9. ASSUME NEW u \in Topics, u # t
      PROVE  /\ history'[u] = history[u] /\ history'[u] \in Seq(Message)
             /\ Len(history'[u]) <= MaxHistory /\ UpTo(history'[u], messageCounter + 1)
  <2>1. history'[u] = history[u]
    BY <1>3, <1>7, <1>9
  <2>2. history[u] \in Seq(Message) /\ Len(history[u]) <= MaxHistory /\ UpTo(history[u], messageCounter)
    BY DEF BusInv, BusTypeOK, HistoryOK
  <2>3. UpTo(history[u], messageCounter + 1)
    <3>1. ASSUME NEW i \in 1..Len(history[u]) PROVE history[u][i].id <= messageCounter + 1
      <4>1. history[u][i] \in Message
        BY <2>2, ElementOfSeq
      <4>2. history[u][i].id \in Int /\ history[u][i].id <= messageCounter
        BY <2>2, <4>1 DEF UpTo, Message
      <4> QED  BY <1>1, <4>2, SMT
    <3> QED  BY <2>2, <3>1 DEF UpTo
  <2> QED  BY <2>1, <2>2, <2>3
<1>10. history' \in [Topics -> Seq(Message)]
  <2>1. history' = [u \in Topics |-> history'[u]]
    BY <1>3, <1>7
  <2>2. \A u \in Topics : history'[u] \in Seq(Message)
    BY <1>8, <1>9
  <2> QED  BY <2>1, <2>2
<1>11. \A u \in Topics : Len(history'[u]) <= MaxHistory /\ UpTo(history'[u], messageCounter + 1)
  BY <1>8, <1>9
<1>12. messageCounter' = messageCounter + 1
  BY <1>2, <1>3
<1>13. HistoryOK'
  BY <1>8, <1>11, <1>12 DEF HistoryOK
<1>14. BusTypeOK'
  BY <1>1, <1>3, <1>6, <1>10, <1>11, <1>12 DEF BusTypeOK, BusInv, CallsOK
<1> QED  BY <1>6, <1>13, <1>14 DEF BusInv

(* A step of the deliveries leaves the rest of the bus alone.              *)
LEMMA DeliveryKeeps ==
  ASSUME BusInv, UNCHANGED <<subscriptions, history, messageCounter, sharedState>>, CallsOK(delivering')
  PROVE  BusInv'
<1>1. HistoryOK'
  BY DEF BusInv, HistoryOK
<1> QED  BY <1>1 DEF BusInv, BusTypeOK, CallsOK

LEMMA CallsBelowInHandler ==
  ASSUME NEW d, CallsOK(d), d # <<>>
  PROVE  \A i \in 1..Len(Front(d)) : Front(d)[i].inHandler
<1>1. Len(d) \in Nat \ {0} /\ Len(Front(d)) = Len(d) - 1 /\ \A i \in 1..(Len(d) - 1) : Front(d)[i] = d[i]
  BY FrontOfCalls
<1>2. \A i \in 1..(Len(d) - 1) : i \in 1..Len(d) /\ i < Len(d)
  BY <1>1, SMT
<1> QED  BY <1>1, <1>2 DEF CallsOK

LEMMA DeliverKeeps ==
  ASSUME BusInv, Deliver
  PROVE  BusInv'
<1> DEFINE f == Last(delivering)
           h == [f EXCEPT !.toCall = Tail(@), !.called = Append(@, Head(f.toCall)), !.inHandler = TRUE]
<1>1. /\ delivering # <<>> /\ CallsOK(delivering) /\ CallOK(f)
      /\ UNCHANGED <<subscriptions, history, messageCounter, sharedState>>
  BY FrontOfCalls DEF Deliver, BusInv
<1>2. CASE f.toCall = <<>>
  <2>1. delivering' = Front(delivering)
    BY <1>2 DEF Deliver, Proceed
  <2> HIDE DEF f
  <2> QED  BY <1>1, <2>1, FrontOfCalls, DeliveryKeeps
<1>3. CASE f.toCall # <<>>
  <2>1. delivering' = Append(Front(delivering), h)
    BY <1>3 DEF Deliver, Proceed
  <2> HIDE DEF f
  <2>2. f \in Call /\ f.called \in Seq(Subscription) /\ f.toCall \in Seq(Subscription) /\ f.called \o f.toCall = f.due
    BY <1>1 DEF CallOK, Call
  <2>3. /\ Append(f.called, Head(f.toCall)) \in Seq(Subscription) /\ Tail(f.toCall) \in Seq(Subscription)
        /\ Append(f.called, Head(f.toCall)) \o Tail(f.toCall) = f.due
    BY <1>3, <2>2, NextHandler
  <2>4. /\ h.called = Append(f.called, Head(f.toCall)) /\ h.toCall = Tail(f.toCall) /\ h.due = f.due
        /\ h \in Call
    BY <2>2, <2>3 DEF Call
  <2> HIDE DEF h
  <2>5. CallOK(h)
    BY <2>3, <2>4 DEF CallOK
  <2>6. CallsOK(Front(delivering)) /\ \A i \in 1..Len(Front(delivering)) : Front(delivering)[i].inHandler
    BY <1>1, FrontOfCalls, CallsBelowInHandler
  <2> QED  BY <1>1, <2>1, <2>5, <2>6, CallAdded, DeliveryKeeps
<1> QED  BY <1>2, <1>3

LEMMA ThrowKeeps ==
  ASSUME BusInv, HandlerThrows
  PROVE  BusInv'
<1>1. delivering # <<>> /\ CallsOK(delivering) /\ delivering' = Front(delivering)
  BY DEF HandlerThrows, BusInv
<1>2. CallsOK(delivering')
  BY <1>1, FrontOfCalls
<1> QED  BY <1>2, DeliveryKeeps DEF HandlerThrows

(* Whoever calls the bus leaves the deliveries alone, publish apart.       *)
LEMMA CallerKeeps ==
  ASSUME BusInv, subscriptions' \in Seq(Subscription),
         UNCHANGED <<history, messageCounter, sharedState, delivering>>
  PROVE  BusInv'
<1>1. HistoryOK'
  BY DEF BusInv, HistoryOK
<1> QED  BY <1>1 DEF BusInv, BusTypeOK, CallsOK

LEMMA WithoutOne ==
  ASSUME NEW S, NEW q \in Seq(S), NEW i \in 1..Len(q)
  PROVE  RemoveAt(q, i) \in Seq(S)
<1>1. Len(q) \in Nat /\ i \in Int /\ i >= 1 /\ i <= Len(q) /\ 1 \in Int /\ i - 1 \in Int /\ i + 1 \in Int
  BY LenProperties, SMT
<1>2. (\A k \in 1..(i - 1) : k \in 1..Len(q)) /\ (\A k \in (i + 1)..Len(q) : k \in 1..Len(q))
  BY <1>1, SMT
<1>3. (\A k \in 1..(i - 1) : q[k] \in S) /\ (\A k \in (i + 1)..Len(q) : q[k] \in S)
  BY <1>2, ElementOfSeq
<1>4. SubSeq(q, 1, i - 1) \in Seq(S)
  BY <1>1, <1>3, SubSeqProperties
<1>5. SubSeq(q, i + 1, Len(q)) \in Seq(S)
  BY <1>1, <1>3, SubSeqProperties
<1> QED  BY <1>4, <1>5, ConcatProperties DEF RemoveAt

LEMMA StateKeeps ==
  ASSUME BusInv, UNCHANGED <<subscriptions, history, messageCounter, delivering>>,
         DOMAIN sharedState' \subseteq StateKeys, \A k \in DOMAIN sharedState' : sharedState'[k] \in BusAgents
  PROVE  BusInv'
<1>1. HistoryOK'
  BY DEF BusInv, HistoryOK
<1> QED  BY <1>1 DEF BusInv, BusTypeOK, CallsOK

LEMMA ClearKeeps ==
  ASSUME BusInv, Clear
  PROVE  BusInv'
<1>1. subscriptions' \in Seq(Subscription) /\ messageCounter' \in 0..MaxMessages
  BY BusAssumption, EmptySeq, SMT DEF Clear
<1>2. history' \in [Topics -> Seq(Message)] /\ \A t \in Topics : Len(history'[t]) = 0
  BY EmptySeq DEF Clear
<1>3. \A t \in Topics : Len(history'[t]) <= MaxHistory /\ UpTo(history'[t], messageCounter')
  BY <1>2, BusAssumption, SMT DEF UpTo
<1>4. DOMAIN sharedState' = {}
  BY DEF Clear
<1>5. HistoryOK'
  BY <1>3, SMT DEF HistoryOK, Clear
<1>6. delivering' = delivering
  BY DEF Clear
<1> QED  BY <1>1, <1>2, <1>3, <1>4, <1>5, <1>6 DEF BusInv, BusTypeOK, CallsOK

LEMMA BusStep == BusInv /\ [BusNext]_busVars => BusInv'
<1> SUFFICES ASSUME BusInv, [BusNext]_busVars PROVE BusInv'
  OBVIOUS
<1>1. subscriptions \in Seq(Subscription)
  BY DEF BusInv, BusTypeOK
<1>2. ASSUME NEW s \in Subscription, Subscribe(s) PROVE BusInv'
  <2>1. subscriptions' \in Seq(Subscription)
    BY <1>1, <1>2, AppendProperties DEF Subscribe
  <2> QED  BY <1>2, <2>1, CallerKeeps DEF Subscribe
<1>3. ASSUME NEW i \in 1..Len(subscriptions), Unsubscribe(i) PROVE BusInv'
  <2>1. subscriptions' \in Seq(Subscription)
    BY <1>1, <1>3, WithoutOne DEF Unsubscribe
  <2> QED  BY <1>3, <2>1, CallerKeeps DEF Unsubscribe
<1>4. ASSUME NEW a \in BusAgents, UnsubscribeAll(a) PROVE BusInv'
  <2> DEFINE T == {s \in Subscription : s.agent # a}
  <2>1. subscriptions' = Filtered(subscriptions, T)
    BY <1>4 DEF UnsubscribeAll
  <2> HIDE DEF T
  <2>2. subscriptions' \in Seq(Subscription)
    BY <1>1, <2>1, FilteredType
  <2> QED  BY <1>4, <2>2, CallerKeeps DEF UnsubscribeAll
<1>5. ASSUME NEW k \in StateKeys, NEW a \in BusAgents, SetState(k, a) PROVE BusInv'
  <2>1. DOMAIN sharedState' \subseteq StateKeys /\ \A x \in DOMAIN sharedState' : sharedState'[x] \in BusAgents
    BY <1>5 DEF SetState, BusInv, BusTypeOK
  <2> QED  BY <1>5, <2>1, StateKeeps DEF SetState
<1>6. ASSUME NEW k \in DOMAIN sharedState, DeleteState(k) PROVE BusInv'
  <2>1. DOMAIN sharedState' \subseteq StateKeys /\ \A x \in DOMAIN sharedState' : sharedState'[x] \in BusAgents
    BY <1>6 DEF DeleteState, BusInv, BusTypeOK
  <2> QED  BY <1>6, <2>1, StateKeeps DEF DeleteState
<1>7. CASE UNCHANGED busVars
  <2>1. UNCHANGED <<subscriptions, history, messageCounter, sharedState>> /\ delivering' = delivering
    BY <1>7 DEF busVars
  <2>2. CallsOK(delivering')
    BY <2>1 DEF BusInv
  <2> QED  BY <2>1, <2>2, DeliveryKeeps
<1> QED  BY <1>2, <1>3, <1>4, <1>5, <1>6, <1>7, PublishKeeps, DeliverKeeps, ThrowKeeps, ClearKeeps DEF BusNext

LEMMA HistoryFollows == BusInv => HistoryInOrder
  BY DEF BusInv, HistoryOK, UpTo, HistoryInOrder

(* The only end of a delivery in Deliver is that of a call that has        *)
(* nobody left to call.                                                    *)
LEMMA AllWereCalled == BusInv /\ [BusNext]_busVars => [NobodySkipped]_busVars
<1> SUFFICES ASSUME BusInv, Deliver, Len(delivering') < Len(delivering)
             PROVE  Last(delivering).called = Last(delivering).due
  BY DEF NobodySkipped
<1> DEFINE f == Last(delivering)
<1>1. delivering # <<>> /\ CallsOK(delivering)
  BY DEF Deliver, BusInv
<1>2. CallOK(f) /\ Len(delivering) \in Nat \ {0} /\ Len(Front(delivering)) = Len(delivering) - 1
  BY <1>1, FrontOfCalls
<1>3. CASE f.toCall = <<>>
  <2> HIDE DEF f
  <2>1. f.called \in Seq(Subscription) /\ f.called \o f.toCall = f.due
    BY <1>2 DEF CallOK, Call
  <2> QED  BY <1>3, <2>1, ConcatEmptySeq DEF f
<1>4. CASE f.toCall # <<>>
  <2> DEFINE h == [f EXCEPT !.toCall = Tail(@), !.called = Append(@, Head(f.toCall)), !.inHandler = TRUE]
  <2>1. delivering' = Append(Front(delivering), h)
    BY <1>4 DEF Deliver, Proceed
  <2> HIDE DEF h
  <2>2. Front(delivering) \in Seq(Call)
    BY <1>1, FrontOfCalls
  <2>3. Len(delivering') = Len(Front(delivering)) + 1
    BY <2>1, <2>2, AppendAny
  <2> QED  BY <1>2, <2>3, SMT
<1> QED  BY <1>3, <1>4

(* The types of the bus hold throughout: in particular only the innermost  *)
(* publish call can be between two handlers (publish).                     *)
THEOREM BusTypes == BusSpec => []BusTypeOK
<1>1. BusInv => BusTypeOK
  BY DEF BusInv
<1> QED  BY BusStarts, BusStep, <1>1, PTL DEF BusSpec

(* However publish calls nest and whatever handlers do to the              *)
(* subscriptions meanwhile, whoever matched is called once and in order,   *)
(* and a topic keeps its messages in order, the latest among them          *)
(* (publish, addToHistory).                                                *)
THEOREM BusKeepsItsWord == BusSpec => BusDelivers
  BY BusStarts, BusStep, HistoryFollows, AllWereCalled, PTL DEF BusSpec, BusDelivers

(* ----------------------- All of them together -------------------------- *)

(* A component that shares nothing takes its own steps or rests.           *)
LEMMA ActsOrRests ==
  ASSUME [SystemNext]_allVars
  PROVE  /\ [BusNext]_busVars /\ [MonitorNext]_monitorVars /\ [StrategiesNext]_strategyVars
         /\ [HandlerNext]_handlerVars /\ [ConfigNext]_configVars
<1>1. CASE Beside("manager") /\ ManagedNext
  BY <1>1 DEF Beside
<1>2. CASE Beside("supervision") /\ SupervisionNext
  BY <1>2 DEF Beside
<1>3. CASE Beside("bus") /\ BusNext
  BY <1>3 DEF Beside
<1>4. CASE Beside("monitor") /\ MonitorNext
  BY <1>4 DEF Beside
<1>5. CASE Beside("strategies") /\ StrategiesNext
  BY <1>5 DEF Beside
<1>6. CASE Beside("handler") /\ HandlerNext
  BY <1>6 DEF Beside
<1>7. CASE Beside("config") /\ ConfigNext
  BY <1>7 DEF Beside
<1>8. CASE UNCHANGED allVars
  BY <1>8 DEF allVars
<1> QED  BY <1>1, <1>2, <1>3, <1>4, <1>5, <1>6, <1>7, <1>8 DEF SystemNext

(* So the whole implements each of these components, and what is proved of *)
(* a component holds of the whole.                                         *)
THEOREM SystemRunsComponents ==
  SystemSpec => BusSpec /\ MonitorSpec /\ StrategiesSpec /\ HandlerSpec /\ ConfigSpec
<1>1. SystemInit => BusInit /\ MonitorInit /\ StrategiesInit /\ HandlerInit /\ ConfigInit
  BY DEF SystemInit
<1>2. [SystemNext]_allVars =>
         /\ [BusNext]_busVars /\ [MonitorNext]_monitorVars /\ [StrategiesNext]_strategyVars
         /\ [HandlerNext]_handlerVars /\ [ConfigNext]_configVars
  BY ActsOrRests
<1> QED  BY <1>1, <1>2, PTL DEF SystemSpec, BusSpec, MonitorSpec, StrategiesSpec, HandlerSpec, ConfigSpec

(* The two managers share the status of the agent.  What either does to it *)
(* is an operation of the agent, so StatusInv holds with both; what a      *)
(* start leaves in TradingAgent is known only where starts go through it.  *)
ManagersInv ==
  /\ focus \in Components /\ StatusInv /\ ManagerTypeOK /\ TradeTypeOK /\ NonceUsedOnce
  /\ focus = "manager" => NonceInv
  /\ SupervisionTypeOK /\ RestartRoom

LEMMA ManagersStart == SystemInit => ManagersInv
<1> SUFFICES ASSUME SystemInit PROVE ManagersInv
  OBVIOUS
<1>1. focus \in Components /\ ManagerInit /\ SupervisionInit
  BY DEF SystemInit
<1>2. NonceInv /\ ManagerTypeOK /\ SupervisionInv
  BY <1>1, NonceStarts, ManagerStarts, SupervisionInvInit
<1> QED  BY <1>1, <1>2 DEF ManagersInv, NonceInv, TradeInv, SupervisionInv

LEMMA ManagersGoOn == ManagersInv /\ [SystemNext]_allVars => ManagersInv'
<1> SUFFICES ASSUME ManagersInv, [SystemNext]_allVars PROVE ManagersInv'
  OBVIOUS
<1>0. /\ focus \in Components /\ StatusInv /\ ManagerTypeOK /\ TradeTypeOK /\ NonceUsedOnce
      /\ (focus = "manager" => NonceInv) /\ SupervisionTypeOK /\ RestartRoom
  BY DEF ManagersInv
<1>t. UNCHANGED tradeVars => TradeTypeOK' /\ NonceUsedOnce'
  BY <1>0 DEF tradeVars, TradeTypeOK, NonceUsedOnce, InSubmission, HashOfMonitor, AgentPoolOf
<1>c. UNCHANGED <<tradeVars, managerVars>> => ManagerTypeOK'
  <2>1. managing \in BOOLEAN /\ collecting \in BOOLEAN
    BY <1>0, TypesOfManager
  <2> QED  BY <1>0, <2>1, RestKeepsManager DEF tradeVars, managerVars
<1>s. UNCHANGED <<managerSide, lifecycleSide, registered, phase>> => SupervisionTypeOK' /\ RestartRoom'
  BY <1>0 DEF managerSide, lifecycleSide, SupervisionTypeOK, RestartRoom, InFlight
<1>n. UNCHANGED statusVars => StatusInv'
  BY <1>0, StatusStep DEF AgentOperation
<1>1. CASE Beside("manager") /\ ManagedNext
  <2>1. /\ focus = "manager" /\ focus' = focus /\ ManagedNext
        /\ UNCHANGED <<managerSide, lifecycleSide, registered, phase>>
    BY <1>1 DEF Beside
  <2>2. StatusInv' /\ ManagerTypeOK' /\ NonceInv'
    BY <1>0, <2>1, ManagedStatus, ManagerStep, NonceStep
  <2> QED  BY <1>0, <1>s, <2>1, <2>2 DEF ManagersInv, NonceInv, TradeInv
<1>2. CASE Beside("supervision") /\ SupervisionNext
  <2>1. /\ focus = "supervision" /\ focus' = focus /\ SupervisionNext
        /\ UNCHANGED <<tradeVars, managerVars>>
    BY <1>2 DEF Beside
  <2>2. StatusInv' /\ SupervisionTypeOK' /\ RestartRoom'
    BY <1>0, <2>1, OperationStep, StatusStep, TypeStep, RoomStep
  <2> QED  BY <1>0, <1>t, <1>c, <2>1, <2>2 DEF ManagersInv
<1>3. ASSUME focus' = focus, focus # "manager",
             UNCHANGED <<tradeVars, managerVars, managerSide, lifecycleSide, registered, phase, statusVars>>
      PROVE  ManagersInv'
  BY <1>0, <1>t, <1>c, <1>s, <1>n, <1>3 DEF ManagersInv
<1>4. ASSUME NEW part, part \notin {"manager", "supervision"}, Beside(part) PROVE ManagersInv'
  BY <1>3, <1>4 DEF Beside
<1>5. CASE UNCHANGED allVars
  <2>1. UNCHANGED <<focus, tradeVars, managerVars, managerSide, lifecycleSide, registered, phase, statusVars>>
    BY <1>5 DEF allVars, managedVars, agentVars, supervisionVars
  <2>2. focus = "manager" => NonceInv'
    BY <1>0, <1>5, NonceStep DEF allVars
  <2> QED  BY <1>0, <1>t, <1>c, <1>s, <1>n, <2>1, <2>2 DEF ManagersInv
<1> QED  BY <1>1, <1>2, <1>4, <1>5 DEF SystemNext

(* Every variable of every component has its type, whichever is running.   *)
THEOREM AgentsTypeCorrect == SystemSpec => []AgentsTypeOK
<1>1. ManagersInv => focus \in Components /\ StatusTypeOK /\ TradeTypeOK /\ ManagerTypeOK /\ SupervisionTypeOK
  BY DEF ManagersInv, StatusInv
<1>2. SystemSpec => []ManagersInv
  BY ManagersStart, ManagersGoOn, PTL DEF SystemSpec
<1>3. (/\ StatusTypeOK /\ TradeTypeOK /\ ManagerTypeOK /\ SupervisionTypeOK /\ focus \in Components
       /\ BusTypeOK /\ MonitorTypeOK /\ StrategiesTypeOK /\ HandlerTypeOK /\ ConfigTypeOK) => AgentsTypeOK
  BY DEF AgentsTypeOK
<1> QED  BY <1>1, <1>2, <1>3, SystemRunsComponents, BusTypes, MonitorTypeCorrect, FetchedDataIsSilent,
            PaymentsHeardInOrder, LiveAgentIsConfigured, PTL

(* All the safety properties of the agents' side hold when its components  *)
(* run side by side.                                                       *)
THEOREM AgentsAreSafe ==
  SystemSpec => /\ [](OneTimerIffRunning /\ NonceUsedOnce /\ ExcessRestartsBounded /\ PolledIffMonitored)
                /\ [](HeardOnceInOrder /\ ZScoreBounded /\ FetchedDataSignals /\ LiveIsConfigured)
                /\ BusDelivers
<1>1. ManagersInv => OneTimerIffRunning /\ NonceUsedOnce /\ ExcessRestartsBounded
  BY RoomBounds DEF ManagersInv, StatusInv
<1>2. SystemSpec => []ManagersInv
  BY ManagersStart, ManagersGoOn, PTL DEF SystemSpec
<1>3. StrategiesSpec => []ZScoreBounded
  <2>1. StrategiesInv => ZScoreBounded
    BY DEF StrategiesInv, ReversionInv
  <2> QED  BY <2>1, StrategiesStart, StrategiesStep, PTL DEF StrategiesSpec
<1> QED  BY <1>1, <1>2, <1>3, SystemRunsComponents, PolledWhileMonitored, PaymentsHeardInOrder,
            FetchedDataIsSilent, LiveAgentIsConfigured, BusKeepsItsWord, PTL
=============================================================================
