---------------------------- MODULE AgentStatus ----------------------------
(***************************************************************************)
(* agents/TradingAgent.ts, the part everybody who manages an agent sees:   *)
(* its status and the interval timer of its monitoring loop.  start() is   *)
(* two steps, because it awaits the signer's address in between; whoever   *)
(* calls it keeps the call in its own state.                               *)
(***************************************************************************)
EXTENDS Naturals

VARIABLES
    status,         \* AgentStatus
    intervals,      \* interval timers of the monitoring loop that are alive
    handle,         \* monitoringInterval is set
    walletMatches   \* the signer has the configured address (never changes)

statusVars == <<status, intervals, handle, walletMatches>>

Statuses == {"STOPPED", "STARTING", "RUNNING", "PAUSED", "ERROR"}

StatusInit ==
    /\ status = "STOPPED"
    /\ intervals = 0 /\ handle = FALSE
    /\ walletMatches \in BOOLEAN

StatusTypeOK ==
    /\ status \in Statuses
    /\ intervals \in Nat
    /\ handle \in BOOLEAN /\ walletMatches \in BOOLEAN

(* clearInterval only reaches the timer that monitoringInterval names. *)
Cleared == IF handle THEN intervals - 1 ELSE intervals
(* Mutant: the timer that is running is not cleared. *)
StartTimer_again == intervals' = intervals + 1 /\ handle' = TRUE

StartTimer == intervals' = Cleared + 1 /\ handle' = TRUE
StopTimer == intervals' = Cleared /\ handle' = FALSE

(* start() up to its await.  When the agent is RUNNING it throws instead. *)
AgentStartBegins ==
    /\ status # "RUNNING"
    /\ status' = "STARTING"
    /\ UNCHANGED <<intervals, handle, walletMatches>>

AgentStartEnds ==
    /\ IF walletMatches
       THEN status' = "RUNNING" /\ StartTimer
       ELSE status' = "ERROR" /\ UNCHANGED <<intervals, handle>>
    /\ UNCHANGED walletMatches

AgentStop ==
    /\ IF status = "STOPPED"
       THEN UNCHANGED <<status, intervals, handle>>
       ELSE status' = "STOPPED" /\ StopTimer
    /\ UNCHANGED walletMatches

AgentPause ==
    /\ status = "RUNNING"
    /\ status' = "PAUSED" /\ StopTimer
    /\ UNCHANGED walletMatches

AgentResume ==
    /\ status = "PAUSED"
    /\ status' = "RUNNING" /\ StartTimer
    /\ UNCHANGED walletMatches

(* However start, stop, pause and resume overlap, the agent has one        *)
(* monitoring timer while it is RUNNING and none otherwise: no loop is     *)
(* leaked and none is left without one (startMonitoring, stop, pause).     *)
OneTimerIffRunning ==
    /\ intervals = (IF status = "RUNNING" THEN 1 ELSE 0)
    /\ handle <=> status = "RUNNING"
=============================================================================
