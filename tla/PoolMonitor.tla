---------------------------- MODULE PoolMonitor ----------------------------
(***************************************************************************)
(* utils/poolMonitor.ts over the cache of utils/marketData.ts: pools that  *)
(* are polled by an interval timer and by chain events, with retries after *)
(* failures.  A poll awaits the market data; polls of a pool overlap, and  *)
(* they, the retry timers and the listeners outlive the call that removes  *)
(* the pool or stops the monitor unless it ends them.                      *)
(*                                                                         *)
(* fetchMarketData catches what each of its reads throws and falls back to *)
(* a price and a liquidity of 0, so a poll never fails for the node: a     *)
(* pool whose node is gone is polled at a price of 0 for as long as it is  *)
(* monitored.  A poll fails only if the user's callback onMarketDataUpdate *)
(* throws, and as the retry counter is reset before the call, a callback   *)
(* that throws every time is retried as long.  The other callbacks are     *)
(* taken not to throw.                                                     *)
(***************************************************************************)
EXTENDS Naturals

CONSTANTS
    MonitorPools,
    MaxPollRetries,         \* maxRetries
    EnableEventListeners,
    MaxPolls                \* bound: polls, failures not handled yet and retry
                            \* timers of a pool; of the polls that events
                            \* start, one at a time

ASSUME MonitorAssumption == MaxPollRetries \in Nat /\ EnableEventListeners \in BOOLEAN

VARIABLES
    monitored,          \* keys of the pools map
    monitorRunning,     \* isRunning
    timers,             \* interval timers of each pool that are alive
    listeners,          \* listeners of each pool that are registered
    retryCounter,
    polls,              \* polls in flight whose failure is retried
    eventPolls,         \* polls in flight that an event started
    failing,            \* polls that have failed, before handleError
    retryTimers,
    cache               \* what is cached within its TTL, by where it came from

pollVars == <<retryCounter, polls, eventPolls, failing, retryTimers>>
poolVars == <<monitored, monitorRunning, timers, listeners>>
monitorVars == <<poolVars, pollVars, cache>>

NoneOf == [p \in MonitorPools |-> 0]

MonitorInit ==
    /\ monitored = {} /\ monitorRunning = FALSE
    /\ timers = NoneOf /\ listeners = NoneOf /\ retryCounter = NoneOf
    /\ polls = NoneOf /\ eventPolls = NoneOf /\ failing = NoneOf /\ retryTimers = NoneOf
    /\ cache = [p \in MonitorPools |-> "none"]

Room(p) == polls[p] + failing[p] + retryTimers[p] < MaxPolls

(* stopMonitoringPool only clears what the maps name; so does its call in  *)
(* startMonitoringPool before it starts polling and listening again.       *)
StopMonitoringPools(S) ==
    /\ timers' = [p \in MonitorPools |-> IF p \in S /\ timers[p] > 0 THEN timers[p] - 1 ELSE timers[p]]
    /\ listeners' = [p \in MonitorPools |-> IF p \in S THEN 0 ELSE listeners[p]]

StartMonitoringPools(S) ==
    /\ timers' = [p \in MonitorPools |-> IF p \in S /\ timers[p] = 0 THEN 1 ELSE timers[p]]
    /\ listeners' = [p \in MonitorPools |-> IF p \in S /\ EnableEventListeners THEN 1 ELSE listeners[p]]
    /\ \A p \in S : Room(p)
    /\ polls' = [p \in MonitorPools |-> IF p \in S THEN polls[p] + 1 ELSE polls[p]]

AddPool(p) ==
    /\ p \notin monitored
    /\ monitored' = monitored \cup {p}
    /\ retryCounter' = [retryCounter EXCEPT ![p] = 0]
    /\ IF monitorRunning THEN StartMonitoringPools({p}) ELSE UNCHANGED <<timers, listeners, polls>>
    /\ UNCHANGED <<monitorRunning, eventPolls, failing, retryTimers, cache>>

(* Mutant: the pool's timer and listeners are left. *)
RemovedPool_timerLeft(p) ==
    /\ monitored' = monitored \ {p}
    /\ retryCounter' = [retryCounter EXCEPT ![p] = IF p \in monitored THEN 0 ELSE @]
    /\ UNCHANGED <<timers, listeners>>

(* A pool that is not monitored is left alone. *)
RemovedPool(p) ==
    /\ StopMonitoringPools(monitored \cap {p})
    /\ monitored' = monitored \ {p}
    /\ retryCounter' = [retryCounter EXCEPT ![p] = IF p \in monitored THEN 0 ELSE @]

RemovePool(p) ==
    /\ p \in monitored /\ RemovedPool(p)
    /\ UNCHANGED <<monitorRunning, polls, eventPolls, failing, retryTimers, cache>>

StartPoolMonitor ==
    /\ ~monitorRunning /\ monitorRunning' = TRUE
    /\ StartMonitoringPools(monitored)
    /\ UNCHANGED <<monitored, retryCounter, eventPolls, failing, retryTimers, cache>>

StopPoolMonitor ==
    /\ monitorRunning /\ monitorRunning' = FALSE
    /\ StopMonitoringPools(monitored)
    /\ UNCHANGED <<monitored, pollVars, cache>>

PollTick(p) ==
    /\ timers[p] > 0 /\ Room(p)
    /\ polls' = [polls EXCEPT ![p] = @ + 1]
    /\ UNCHANGED <<poolVars, retryCounter, eventPolls, failing, retryTimers, cache>>

(* A Swap or ModifyLiquidity event; a removed pool is not polled.          *)
PoolEvent(p) ==
    /\ listeners[p] > 0 /\ p \in monitored /\ eventPolls[p] = 0
    /\ eventPolls' = [eventPolls EXCEPT ![p] = @ + 1]
    /\ UNCHANGED <<poolVars, retryCounter, polls, failing, retryTimers, cache>>

(* fetchMarketData answers from the cache, from the node, or, if a read    *)
(* fails, with its fall-back values, which are cached like any others.     *)
Fetch(p) ==
    IF cache[p] = "none"
    THEN \E from \in {"node", "fallback"} : cache' = [cache EXCEPT ![p] = from]
    ELSE UNCHANGED cache

(* The counter is reset, even for a pool that has been removed, and then   *)
(* the callback is called, which may throw.                                *)
PollAnswered(p) ==
    /\ polls[p] > 0 /\ polls' = [polls EXCEPT ![p] = @ - 1]
    /\ Fetch(p)
    /\ retryCounter' = [retryCounter EXCEPT ![p] = 0]
    /\ \/ UNCHANGED failing
       \/ failing' = [failing EXCEPT ![p] = @ + 1]
    /\ UNCHANGED <<poolVars, eventPolls, retryTimers>>

(* A failure of a poll that an event started is only logged. *)
EventPollAnswered(p) ==
    /\ eventPolls[p] > 0 /\ eventPolls' = [eventPolls EXCEPT ![p] = @ - 1]
    /\ Fetch(p)
    /\ retryCounter' = [retryCounter EXCEPT ![p] = 0]
    /\ UNCHANGED <<poolVars, polls, failing, retryTimers>>

(* Mutant: one retry too many. *)
RetriesExhausted_offByOne(p) == retryCounter[p] > MaxPollRetries

RetriesExhausted(p) == retryCounter[p] >= MaxPollRetries

(* The promise of a poll that failed has been rejected, while other polls  *)
(* went on: the pool is removed after too many failures, else a timer is   *)
(* set, which nothing cancels.                                             *)
HandleError(p) ==
    /\ failing[p] > 0 /\ failing' = [failing EXCEPT ![p] = @ - 1]
    /\ IF RetriesExhausted(p)
       THEN RemovedPool(p) /\ UNCHANGED retryTimers
       ELSE /\ retryCounter' = [retryCounter EXCEPT ![p] = @ + 1]
            /\ retryTimers' = [retryTimers EXCEPT ![p] = @ + 1]
            /\ UNCHANGED <<monitored, timers, listeners>>
    /\ UNCHANGED <<monitorRunning, polls, eventPolls, cache>>

RetryPoll(p) ==
    /\ retryTimers[p] > 0
    /\ retryTimers' = [retryTimers EXCEPT ![p] = @ - 1]
    /\ polls' = [polls EXCEPT ![p] = IF p \in monitored THEN @ + 1 ELSE @]
    /\ UNCHANGED <<poolVars, retryCounter, eventPolls, failing, cache>>

(* triggerPoll fetches for its caller and touches only the cache. *)
TriggerPoll(p) ==
    /\ p \in monitored /\ Fetch(p)
    /\ UNCHANGED <<poolVars, pollVars>>

(* The TTL is over, or clearCache. *)
CacheExpires(p) ==
    /\ cache[p] # "none" /\ cache' = [cache EXCEPT ![p] = "none"]
    /\ UNCHANGED <<poolVars, pollVars>>

MonitorNext ==
    \/ StartPoolMonitor \/ StopPoolMonitor
    \/ \E p \in MonitorPools :
          \/ AddPool(p) \/ RemovePool(p) \/ PollTick(p) \/ PoolEvent(p)
          \/ PollAnswered(p) \/ EventPollAnswered(p) \/ HandleError(p) \/ RetryPoll(p)
          \/ TriggerPoll(p) \/ CacheExpires(p)

MonitorSpec == MonitorInit /\ [][MonitorNext]_monitorVars

MonitorTypeOK ==
    /\ monitored \subseteq MonitorPools /\ cache \in [MonitorPools -> {"none", "node", "fallback"}]
    /\ monitorRunning \in BOOLEAN
    /\ {timers, listeners, retryCounter, polls, eventPolls, failing, retryTimers}
            \subseteq [MonitorPools -> Nat]
    /\ \A p \in MonitorPools : retryCounter[p] <= MaxPollRetries

(* A pool has its interval timer and its listeners exactly while it is     *)
(* monitored by a running monitor, however additions, removals, the        *)
(* removal after too many retries, starts and stops follow each other      *)
(* (startMonitoringPool, stopMonitoringPool).                              *)
PolledIffMonitored ==
    \A p \in MonitorPools :
        LET n == IF monitorRunning /\ p \in monitored THEN 1 ELSE 0
        IN  timers[p] = n /\ listeners[p] = (IF EnableEventListeners THEN n ELSE 0)
=============================================================================
