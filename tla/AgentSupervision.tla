------------------------- MODULE AgentSupervision -------------------------
(***************************************************************************)
(* Who starts, stops and restarts one agent, wired as in run.ts: the       *)
(* restarts of AgentManager.ts (startAll and the monitorAgents loop) and   *)
(* those of config/AgentLifecycleManager.ts (the health checks).  Neither  *)
(* knows of the other, and both loops are interval timers that do not wait *)
(* for their previous run.  Each call is a process; its phase says what it *)
(* awaits:                                                                 *)
(*    first     agent.start() in startAll                                  *)
(*    retry     retryDelayMs in handleAgentError                           *)
(*    settle    the second in the manager's restartAgent                   *)
(*    delay     the backoff in the life-cycle manager's restartAgent       *)
(*    stopped   agent.stop() in the same                                   *)
(*    starting  agent.start() in either restartAgent, or in startAgent     *)
(***************************************************************************)
EXTENDS AgentStatus, FiniteSets

CONSTANTS
    MonitorRuns,            \* bound: monitorAgents calls in flight
    HealthRuns,             \* bound: runHealthChecks calls in flight
    MaxRetries,             \* maxRetries of the manager
    MaxConsecutiveErrors,   \* maxConsecutiveErrors and
    MaxTotalRestarts        \* maxTotalRestarts of the life-cycle manager

ASSUME SupervisionAssumption ==
    /\ IsFiniteSet(HealthRuns) /\ MonitorRuns \cap HealthRuns = {}
    /\ {"startAll", "startAgent"} \cap (MonitorRuns \cup HealthRuns) = {}
    /\ MaxRetries \in Nat /\ MaxConsecutiveErrors \in Nat /\ MaxTotalRestarts \in Nat

VARIABLES
    supervised,         \* isRunning of the manager
    looping,            \* its monitoringInterval is set
    registered,         \* the managers that still have the agent
    errorCount,         \* of the manager's registration, capped at MaxRetries
    phase,              \* of each call
    healthOn,           \* isRunning of the life-cycle manager
    startedBefore,      \* startedAt > 0
    restartCount,
    consecutiveErrors   \* capped at MaxConsecutiveErrors

managerSide == <<supervised, looping, errorCount>>
lifecycleSide == <<healthOn, startedBefore, restartCount, consecutiveErrors>>
supervisionVars == <<statusVars, managerSide, lifecycleSide, registered, phase>>

Calls == {"startAll", "startAgent"} \cup MonitorRuns \cup HealthRuns
StartPhases == {"first", "starting"}

OneMore(n, cap) == IF n < cap THEN n + 1 ELSE n
ErrorInManager == errorCount' = OneMore(errorCount, MaxRetries)
ErrorInLifecycle == consecutiveErrors' = OneMore(consecutiveErrors, MaxConsecutiveErrors)
To(c, where) == phase' = [phase EXCEPT ![c] = where]

SupervisionInit ==
    /\ StatusInit
    /\ supervised = FALSE /\ looping = FALSE /\ errorCount = 0
    /\ registered = {"manager", "lifecycle"}
    /\ phase = [c \in Calls |-> "rest"]
    /\ healthOn = FALSE /\ startedBefore = FALSE
    /\ restartCount = 0 /\ consecutiveErrors = 0

(* -------------------------- AgentManager ------------------------------- *)

(* A manager's call is over: for startAll the loops start now, even if     *)
(* stopAll came in between.                                                *)
CallEnds(c) ==
    /\ To(c, "rest")
    /\ looping' = (looping \/ c = "startAll")

StartAll ==
    /\ ~supervised /\ phase["startAll"] = "rest"
    /\ supervised' = TRUE
    /\ IF "manager" \in registered /\ status = "STOPPED"
       THEN AgentStartBegins /\ To("startAll", "first") /\ UNCHANGED looping
       ELSE CallEnds("startAll") /\ UNCHANGED statusVars
    /\ UNCHANGED <<registered, errorCount, lifecycleSide>>

(* handleAgentError: stop after too many errors, else wait and restart.    *)
HandleAgentError(c, errors) ==
    IF errors >= MaxRetries
    THEN AgentStop /\ CallEnds(c)
    ELSE UNCHANGED <<statusVars, looping>> /\ To(c, "retry")

(* The first start fails: STOPPED is what it leaves if that was one error  *)
(* too many, as stop() follows without a wait.                             *)
FirstStartEnds ==
    /\ phase["startAll"] = "first"
    /\ IF walletMatches
       THEN AgentStartEnds /\ CallEnds("startAll") /\ UNCHANGED errorCount
       ELSE /\ ErrorInManager
            /\ IF errorCount + 1 >= MaxRetries
               THEN /\ status' = "STOPPED" /\ StopTimer /\ UNCHANGED walletMatches
                    /\ CallEnds("startAll")
               ELSE AgentStartEnds /\ To("startAll", "retry") /\ UNCHANGED looping
    /\ UNCHANGED <<supervised, registered, lifecycleSide>>

StopAll ==
    /\ supervised
    /\ supervised' = FALSE /\ looping' = FALSE
    /\ IF "manager" \in registered THEN AgentStop ELSE UNCHANGED statusVars
    /\ UNCHANGED <<registered, errorCount, phase, lifecycleSide>>

(* Mutant: agents that stopped are left stopped. *)
MonitorAgents_errorsOnly(m) ==
    /\ looping /\ supervised /\ "manager" \in registered /\ phase[m] = "rest"
    /\ status = "ERROR" /\ HandleAgentError(m, errorCount)
    /\ UNCHANGED <<supervised, registered, errorCount, lifecycleSide>>

(* monitorAgents, on the interval timer. *)

MonitorAgents(m) ==
    /\ looping /\ supervised /\ "manager" \in registered /\ phase[m] = "rest"
    /\ \/ status = "ERROR" /\ HandleAgentError(m, errorCount)
       \/ status = "STOPPED" /\ To(m, "settle") /\ UNCHANGED <<statusVars, looping>>
    /\ UNCHANGED <<supervised, registered, errorCount, lifecycleSide>>

(* The wait before a retry is over: restartAgent stops the agent.          *)
RetryNow(c) ==
    /\ phase[c] = "retry"
    /\ AgentStop /\ To(c, "settle")
    /\ UNCHANGED <<managerSide, registered, lifecycleSide>>

StartAgain(c) ==
    /\ phase[c] = "settle"
    /\ IF status = "RUNNING"
       THEN ErrorInManager /\ CallEnds(c) /\ UNCHANGED statusVars
       ELSE AgentStartBegins /\ To(c, "starting") /\ UNCHANGED <<errorCount, looping>>
    /\ UNCHANGED <<supervised, registered, lifecycleSide>>

StartedAgain(c) ==
    /\ c \in MonitorRuns \cup {"startAll"} /\ phase[c] = "starting"
    /\ AgentStartEnds
    /\ IF walletMatches THEN errorCount' = 0 ELSE ErrorInManager
    /\ CallEnds(c)
    /\ UNCHANGED <<supervised, registered, lifecycleSide>>

(* ----------------------- AgentLifecycleManager ------------------------- *)

StartHealthMonitoring ==
    /\ ~healthOn /\ healthOn' = TRUE
    /\ UNCHANGED <<statusVars, managerSide, registered, phase, startedBefore, restartCount, consecutiveErrors>>

StopHealthMonitoring ==
    /\ healthOn /\ healthOn' = FALSE
    /\ UNCHANGED <<statusVars, managerSide, registered, phase, startedBefore, restartCount, consecutiveErrors>>

(* Mutant: one restart too many. *)
MayRestart_offByOne ==
    /\ restartCount <= MaxTotalRestarts
    /\ consecutiveErrors < MaxConsecutiveErrors

MayRestart ==
    /\ restartCount < MaxTotalRestarts
    /\ consecutiveErrors < MaxConsecutiveErrors

(* A health check finds the agent in error, stopped though it was started  *)
(* here, or running without activity (which depends on time), and restarts *)
(* it: the limits are tested before the backoff.                           *)
RunHealthCheck(h) ==
    /\ healthOn /\ "lifecycle" \in registered /\ phase[h] = "rest"
    /\ \/ status \in {"ERROR", "RUNNING"}
       \/ status = "STOPPED" /\ startedBefore
    /\ MayRestart
    /\ To(h, "delay")
    /\ UNCHANGED <<statusVars, managerSide, registered, lifecycleSide>>

BackoffEnds(h) ==
    /\ phase[h] = "delay"
    /\ IF status = "STOPPED"
       THEN AgentStartBegins /\ To(h, "starting")
       ELSE AgentStop /\ To(h, "stopped")
    /\ UNCHANGED <<managerSide, registered, lifecycleSide>>

(* The start after the awaited stop; somebody else's may have ended first. *)
RestartStarts(h) ==
    /\ phase[h] = "stopped"
    /\ IF status = "RUNNING"
       THEN ErrorInLifecycle /\ To(h, "rest") /\ UNCHANGED statusVars
       ELSE AgentStartBegins /\ To(h, "starting") /\ UNCHANGED consecutiveErrors
    /\ UNCHANGED <<managerSide, registered, healthOn, startedBefore, restartCount>>

Restarted(h) ==
    /\ h \in HealthRuns /\ phase[h] = "starting"
    /\ AgentStartEnds /\ To(h, "rest")
    /\ IF walletMatches
       THEN restartCount' = restartCount + 1 /\ consecutiveErrors' = 0 /\ startedBefore' = TRUE
       ELSE ErrorInLifecycle /\ UNCHANGED <<restartCount, startedBefore>>
    /\ UNCHANGED <<managerSide, registered, healthOn>>

(* startAgent, stopAgent, pauseAgent and resumeAgent are there for callers *)
(* other than run.ts.                                                      *)
StartAgent ==
    /\ "lifecycle" \in registered /\ phase["startAgent"] = "rest"
    /\ IF status = "RUNNING"
       THEN ErrorInLifecycle /\ UNCHANGED <<statusVars, phase>>
       ELSE AgentStartBegins /\ To("startAgent", "starting") /\ UNCHANGED consecutiveErrors
    /\ UNCHANGED <<managerSide, registered, healthOn, startedBefore, restartCount>>

StartAgentEnds ==
    /\ phase["startAgent"] = "starting"
    /\ AgentStartEnds /\ To("startAgent", "rest")
    /\ IF walletMatches
       THEN consecutiveErrors' = 0 /\ startedBefore' = TRUE
       ELSE ErrorInLifecycle /\ UNCHANGED startedBefore
    /\ UNCHANGED <<managerSide, registered, healthOn, restartCount>>

StopAgent ==
    /\ "lifecycle" \in registered /\ AgentStop
    /\ UNCHANGED <<managerSide, registered, phase, lifecycleSide>>

PauseAgent ==
    /\ "lifecycle" \in registered /\ AgentPause
    /\ UNCHANGED <<managerSide, registered, phase, lifecycleSide>>

ResumeAgent ==
    /\ "lifecycle" \in registered /\ AgentResume
    /\ UNCHANGED <<managerSide, registered, phase, lifecycleSide>>

(* unregisterAgent of the one, unregister of the other. *)
Unregister(who) ==
    /\ registered' = registered \ {who}
    /\ AgentStop
    /\ UNCHANGED <<managerSide, phase, lifecycleSide>>

CallContinues(c) ==
    \/ RetryNow(c) \/ StartAgain(c) \/ StartedAgain(c)
    \/ BackoffEnds(c) \/ RestartStarts(c) \/ Restarted(c)

SupervisionNext ==
    \/ StartAll \/ FirstStartEnds \/ StopAll
    \/ StartHealthMonitoring \/ StopHealthMonitoring
    \/ StartAgent \/ StartAgentEnds \/ StopAgent \/ PauseAgent \/ ResumeAgent
    \/ \E m \in MonitorRuns : MonitorAgents(m)
    \/ \E h \in HealthRuns : RunHealthCheck(h)
    \/ \E c \in Calls : CallContinues(c)
    \/ \E who \in registered : Unregister(who)

(* Interval timers tick and awaited calls return. *)
SupervisionFairness ==
    /\ WF_supervisionVars(FirstStartEnds) /\ WF_supervisionVars(StartAgentEnds)
    /\ WF_supervisionVars(\E m \in MonitorRuns : MonitorAgents(m))
    /\ \A c \in Calls : WF_supervisionVars(CallContinues(c))

SupervisionSpec == SupervisionInit /\ [][SupervisionNext]_supervisionVars

SupervisionTypeOK ==
    /\ supervised \in BOOLEAN /\ looping \in BOOLEAN
    /\ registered \subseteq {"manager", "lifecycle"}
    /\ errorCount \in 0..MaxRetries
    /\ phase \in [Calls -> {"rest", "first", "retry", "settle", "delay", "stopped", "starting"}]
    /\ healthOn \in BOOLEAN /\ startedBefore \in BOOLEAN
    /\ restartCount \in Nat /\ consecutiveErrors \in 0..MaxConsecutiveErrors

(* However starts, stops and restarts of the two managers overlap, an      *)
(* agent that says STARTING is being started by a call that will end:      *)
(* neither hangs in that status.                                           *)
StartingHasCaller ==
    status = "STARTING" => \E c \in Calls : phase[c] \in StartPhases

(* LifecycleManagerConfig: "Max total restarts per agent".  The limit is   *)
(* tested before the backoff and counted after it.                         *)
RestartsWithinLimit == restartCount <= MaxTotalRestarts

(* What does hold of the limit: health checks that overlap exceed it, but  *)
(* all together by less than one restart each (restartAgent).              *)
ExcessRestartsBounded ==
    MaxTotalRestarts > 0 => restartCount < MaxTotalRestarts + Cardinality(HealthRuns)

(* An agent that stopped or failed while the manager's loop runs is        *)
(* started again, whatever the health checks and other callers do          *)
(* meanwhile (monitorAgents, handleAgentError, restartAgent).              *)
Watched == looping /\ supervised /\ "manager" \in registered
ComesBack ==
    (Watched /\ status \in {"STOPPED", "ERROR"}) ~> (~Watched \/ ~walletMatches \/ status = "RUNNING")
=============================================================================
