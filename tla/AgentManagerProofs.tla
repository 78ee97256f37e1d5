------------------------- MODULE AgentManagerProofs -------------------------
(***************************************************************************)
(* What holds of the two managers of an agent, AgentSupervision and        *)
(* AgentManager with its TradingAgent, for any number of overlapping       *)
(* checks.  A step changes the status and the timer only by one of the     *)
(* five operations of AgentStatus; the first lemmas say what those keep.   *)
(***************************************************************************)
EXTENDS AgentManager, AgentSupervision, FiniteSetTheorems, TLAPS

(* An agent whose wallet does not match never runs: its failed start finds *)
(* no timer to leave behind.                                               *)
RunsWithItsWallet == status \in {"RUNNING", "PAUSED"} => walletMatches

StatusInv == StatusTypeOK /\ OneTimerIffRunning /\ RunsWithItsWallet

(* What an operation on the agent may do to its status. *)
AgentOperation ==
    \/ AgentStartBegins \/ AgentStartEnds \/ AgentStop
    \/ AgentPause \/ AgentResume \/ UNCHANGED statusVars
    \/ status' = "STOPPED" /\ StopTimer /\ UNCHANGED walletMatches

LEMMA StatusInitOK == StatusInit => StatusInv
<1> SUFFICES ASSUME StatusInit PROVE StatusInv
  OBVIOUS
<1>1. status \notin {"RUNNING", "PAUSED"} /\ status # "RUNNING" /\ status \in Statuses
  BY Zenon DEF StatusInit, Statuses
<1>2. handle = FALSE /\ walletMatches \in BOOLEAN /\ intervals = 0
  BY DEF StatusInit
<1>3. 0 \in Nat
  OBVIOUS
<1> QED  BY <1>1, <1>2, <1>3, Zenon DEF StatusInv, StatusTypeOK, OneTimerIffRunning, RunsWithItsWallet

(* What the status is is enough to know the timer. *)
LEMMA TimerIsOneIf ==
  ASSUME NEW s, s \in Statuses, StatusInv, status' = s, walletMatches' = walletMatches,
         \/ s = "RUNNING" /\ StartTimer
         \/ s # "RUNNING" /\ StopTimer
         \/ s # "RUNNING" /\ status # "RUNNING" /\ UNCHANGED <<intervals, handle>>,
         s \in {"RUNNING", "PAUSED"} => walletMatches
  PROVE  StatusInv'
<1>1. handle \in BOOLEAN /\ walletMatches \in BOOLEAN /\ (handle <=> status = "RUNNING")
  BY DEF StatusInv, StatusTypeOK, OneTimerIffRunning, RunsWithItsWallet
<1>2. intervals = (IF handle THEN 1 ELSE 0)
  BY <1>1 DEF StatusInv, OneTimerIffRunning
<1>3. Cleared = 0
  BY <1>2, SMT DEF Cleared
<1>4. CASE s = "RUNNING" /\ StartTimer
  <2>1. intervals' = 1 /\ handle' = TRUE
    BY <1>3, <1>4, SMT DEF StartTimer
  <2>2. 1 \in Nat
    OBVIOUS
  <2> QED  BY <1>1, <1>4, <2>1, <2>2, Zenon DEF StatusInv, StatusTypeOK, OneTimerIffRunning, RunsWithItsWallet
<1>5. CASE s # "RUNNING" /\ StopTimer
  <2>1. intervals' = 0 /\ handle' = FALSE
    BY <1>3, <1>5 DEF StopTimer
  <2>2. 0 \in Nat
    OBVIOUS
  <2> QED  BY <1>1, <1>5, <2>1, <2>2, Zenon DEF StatusInv, StatusTypeOK, OneTimerIffRunning, RunsWithItsWallet
<1>6. CASE s # "RUNNING" /\ status # "RUNNING" /\ UNCHANGED <<intervals, handle>>
  <2>1. intervals' = 0 /\ handle' = FALSE
    BY <1>1, <1>2, <1>6
  <2>2. 0 \in Nat
    OBVIOUS
  <2> QED  BY <1>1, <1>6, <2>1, <2>2, Zenon DEF StatusInv, StatusTypeOK, OneTimerIffRunning, RunsWithItsWallet
<1> QED  BY <1>4, <1>5, <1>6

LEMMA StatusStep == StatusInv /\ AgentOperation => StatusInv'
<1> SUFFICES ASSUME StatusInv, AgentOperation PROVE StatusInv'
  OBVIOUS
<1>0. /\ "STOPPED" \in Statuses /\ "STARTING" \in Statuses /\ "RUNNING" \in Statuses
      /\ "PAUSED" \in Statuses /\ "ERROR" \in Statuses
      /\ "STOPPED" # "RUNNING" /\ "STARTING" # "RUNNING" /\ "PAUSED" # "RUNNING" /\ "ERROR" # "RUNNING"
      /\ "STOPPED" # "PAUSED"
  BY DEF Statuses
<1>1. CASE AgentStartBegins
  <2>1. "STARTING" \notin {"RUNNING", "PAUSED"}
    OBVIOUS
  <2> QED  BY <1>0, <1>1, <2>1, TimerIsOneIf, Zenon DEF AgentStartBegins
<1>2. CASE AgentStartEnds
  <2>1. CASE walletMatches
    BY <1>0, <1>2, <2>1, TimerIsOneIf, Zenon DEF AgentStartEnds
  <2>2. CASE ~walletMatches
    <3>1. status # "RUNNING" /\ "ERROR" \notin {"RUNNING", "PAUSED"}
      BY <2>2 DEF StatusInv, RunsWithItsWallet
    <3> QED  BY <1>0, <1>2, <2>2, <3>1, TimerIsOneIf, Zenon DEF AgentStartEnds
  <2> QED  BY <2>1, <2>2
<1>s. "STOPPED" \notin {"RUNNING", "PAUSED"}
  OBVIOUS
<1>3. CASE AgentStop
  <2>1. CASE status = "STOPPED"
    BY <1>0, <1>s, <1>3, <2>1, TimerIsOneIf, Zenon DEF AgentStop
  <2>2. CASE status # "STOPPED"
    BY <1>0, <1>s, <1>3, <2>2, TimerIsOneIf, Zenon DEF AgentStop
  <2> QED  BY <2>1, <2>2
<1>4. CASE AgentPause
  <2>1. walletMatches
    BY <1>4 DEF AgentPause, StatusInv, RunsWithItsWallet
  <2> QED  BY <1>0, <1>4, <2>1, TimerIsOneIf, Zenon DEF AgentPause
<1>5. CASE AgentResume
  <2>1. walletMatches
    BY <1>5 DEF AgentResume, StatusInv, RunsWithItsWallet
  <2> QED  BY <1>0, <1>5, <2>1, TimerIsOneIf, Zenon DEF AgentResume
<1>6. CASE UNCHANGED statusVars
  BY <1>6, Zenon DEF statusVars, StatusInv, StatusTypeOK, OneTimerIffRunning, RunsWithItsWallet
<1>7. CASE status' = "STOPPED" /\ StopTimer /\ UNCHANGED walletMatches
  BY <1>0, <1>s, <1>7, TimerIsOneIf, Zenon
<1> QED  BY <1>1, <1>2, <1>3, <1>4, <1>5, <1>6, <1>7 DEF AgentOperation

(* ------------------------------ The status ---------------------------- *)

LEMMA OperationStep == [SupervisionNext]_supervisionVars => AgentOperation
<1> SUFFICES ASSUME [SupervisionNext]_supervisionVars PROVE AgentOperation
  OBVIOUS
<1> USE DEF AgentOperation
<1>1. CASE StartAll
  BY <1>1 DEF StartAll, CallEnds, statusVars
<1>2. CASE FirstStartEnds
  BY <1>2 DEF FirstStartEnds, statusVars
<1>3. CASE StopAll
  BY <1>3 DEF StopAll, statusVars
<1>4. CASE StartHealthMonitoring
  BY <1>4 DEF StartHealthMonitoring, statusVars
<1>5. CASE StopHealthMonitoring
  BY <1>5 DEF StopHealthMonitoring, statusVars
<1>6. CASE StartAgent
  BY <1>6 DEF StartAgent, statusVars
<1>7. CASE StartAgentEnds
  BY <1>7 DEF StartAgentEnds, statusVars
<1>8. CASE StopAgent
  BY <1>8 DEF StopAgent, statusVars
<1>9. CASE PauseAgent
  BY <1>9 DEF PauseAgent, statusVars
<1>10. CASE ResumeAgent
  BY <1>10 DEF ResumeAgent, statusVars
<1>11. ASSUME NEW m \in MonitorRuns, MonitorAgents(m) PROVE AgentOperation
  BY <1>11 DEF MonitorAgents, HandleAgentError, statusVars
<1>12. ASSUME NEW h \in HealthRuns, RunHealthCheck(h) PROVE AgentOperation
  BY <1>12 DEF RunHealthCheck, statusVars
<1>13. ASSUME NEW c \in Calls, RetryNow(c) PROVE AgentOperation
  BY <1>13 DEF RetryNow, statusVars
<1>14. ASSUME NEW c \in Calls, StartAgain(c) PROVE AgentOperation
  BY <1>14 DEF StartAgain, statusVars
<1>15. ASSUME NEW c \in Calls, StartedAgain(c) PROVE AgentOperation
  BY <1>15 DEF StartedAgain, statusVars
<1>16. ASSUME NEW c \in Calls, BackoffEnds(c) PROVE AgentOperation
  BY <1>16 DEF BackoffEnds, statusVars
<1>17. ASSUME NEW c \in Calls, RestartStarts(c) PROVE AgentOperation
  BY <1>17 DEF RestartStarts, statusVars
<1>18. ASSUME NEW c \in Calls, Restarted(c) PROVE AgentOperation
  BY <1>18 DEF Restarted, statusVars
<1>19. ASSUME NEW who \in registered, Unregister(who) PROVE AgentOperation
  BY <1>19 DEF Unregister, statusVars
<1>20. CASE UNCHANGED supervisionVars
  BY <1>20 DEF supervisionVars, statusVars
<1> QED  BY <1>1, <1>2, <1>3, <1>4, <1>5, <1>6, <1>7, <1>8, <1>9, <1>10, <1>11, <1>12, <1>13, <1>14, <1>15, <1>16, <1>17, <1>18, <1>19, <1>20 DEF SupervisionNext, CallContinues

(* ------------------------------ Types --------------------------------- *)

Phases == {"rest", "first", "retry", "settle", "delay", "stopped", "starting"}

LEMMA PhaseType ==
  ASSUME phase \in [Calls -> Phases], NEW c \in Calls, NEW w \in Phases, To(c, w)
  PROVE  phase' \in [Calls -> Phases]
  BY Zenon DEF To

LEMMA CountType ==
  ASSUME NEW cap \in Nat, NEW n \in 0..cap
  PROVE  OneMore(n, cap) \in 0..cap
  BY SMT DEF OneMore

(* What a step keeps of the types: a call moves to another phase, the      *)
(* counters are counted up or reset, the rest are flags.                   *)
PhaseMoves == UNCHANGED phase \/ \E c \in Calls, w \in Phases : To(c, w)
CountsMove ==
    /\ errorCount' \in {errorCount, 0, OneMore(errorCount, MaxRetries)}
    /\ consecutiveErrors' \in {consecutiveErrors, 0, OneMore(consecutiveErrors, MaxConsecutiveErrors)}
    /\ restartCount' \in {restartCount, restartCount + 1}
FlagsMove ==
    /\ supervised' \in {supervised, TRUE, FALSE} /\ healthOn' \in {healthOn, TRUE, FALSE}
    /\ startedBefore' \in {startedBefore, TRUE}
    /\ (looping' = looping \/ looping' = FALSE \/ \E c \in Calls : looping' = (looping \/ c = "startAll"))
    /\ registered' \subseteq registered

LEMMA PhaseStep == SupervisionTypeOK /\ [SupervisionNext]_supervisionVars => PhaseMoves
<1> SUFFICES ASSUME SupervisionTypeOK, [SupervisionNext]_supervisionVars PROVE PhaseMoves
  OBVIOUS
<1>0. /\ "startAll" \in Calls /\ "startAgent" \in Calls
      /\ \A m \in MonitorRuns : m \in Calls
      /\ \A h \in HealthRuns : h \in Calls
  BY DEF Calls
<1>1. CASE StartAll
  BY <1>1, <1>0 DEF StartAll, CallEnds, PhaseMoves, Phases
<1>2. CASE FirstStartEnds
  BY <1>2, <1>0 DEF FirstStartEnds, CallEnds, PhaseMoves, Phases
<1>3. CASE StopAll
  BY <1>3, <1>0 DEF StopAll, PhaseMoves, Phases
<1>4. CASE StartHealthMonitoring
  BY <1>4, <1>0 DEF StartHealthMonitoring, PhaseMoves, Phases
<1>5. CASE StopHealthMonitoring
  BY <1>5, <1>0 DEF StopHealthMonitoring, PhaseMoves, Phases
<1>6. CASE StartAgent
  BY <1>6, <1>0 DEF StartAgent, PhaseMoves, Phases
<1>7. CASE StartAgentEnds
  BY <1>7, <1>0 DEF StartAgentEnds, PhaseMoves, Phases
<1>8. CASE StopAgent
  BY <1>8, <1>0 DEF StopAgent, PhaseMoves, Phases
<1>9. CASE PauseAgent
  BY <1>9, <1>0 DEF PauseAgent, PhaseMoves, Phases
<1>10. CASE ResumeAgent
  BY <1>10, <1>0 DEF ResumeAgent, PhaseMoves, Phases
<1>11. ASSUME NEW m \in MonitorRuns, MonitorAgents(m) PROVE PhaseMoves
  BY <1>11, <1>0 DEF MonitorAgents, HandleAgentError, CallEnds, PhaseMoves, Phases
<1>12. ASSUME NEW h \in HealthRuns, RunHealthCheck(h) PROVE PhaseMoves
  BY <1>12, <1>0 DEF RunHealthCheck, PhaseMoves, Phases
<1>13. ASSUME NEW c \in Calls, RetryNow(c) PROVE PhaseMoves
  BY <1>13, <1>0 DEF RetryNow, PhaseMoves, Phases
<1>14. ASSUME NEW c \in Calls, StartAgain(c) PROVE PhaseMoves
  BY <1>14, <1>0 DEF StartAgain, CallEnds, PhaseMoves, Phases
<1>15. ASSUME NEW c \in Calls, StartedAgain(c) PROVE PhaseMoves
  BY <1>15, <1>0 DEF StartedAgain, CallEnds, PhaseMoves, Phases
<1>16. ASSUME NEW c \in Calls, BackoffEnds(c) PROVE PhaseMoves
  BY <1>16, <1>0 DEF BackoffEnds, PhaseMoves, Phases
<1>17. ASSUME NEW c \in Calls, RestartStarts(c) PROVE PhaseMoves
  BY <1>17, <1>0 DEF RestartStarts, PhaseMoves, Phases
<1>18. ASSUME NEW c \in Calls, Restarted(c) PROVE PhaseMoves
  BY <1>18, <1>0 DEF Restarted, PhaseMoves, Phases
<1>19. ASSUME NEW who \in registered, Unregister(who) PROVE PhaseMoves
  BY <1>19, <1>0 DEF Unregister, PhaseMoves, Phases
<1>20. CASE UNCHANGED supervisionVars
  BY <1>20 DEF PhaseMoves, supervisionVars, managerSide, lifecycleSide, statusVars
<1> QED  BY <1>1, <1>2, <1>3, <1>4, <1>5, <1>6, <1>7, <1>8, <1>9, <1>10, <1>11, <1>12, <1>13, <1>14, <1>15, <1>16, <1>17, <1>18, <1>19, <1>20 DEF SupervisionNext, CallContinues

LEMMA CountStep == SupervisionTypeOK /\ [SupervisionNext]_supervisionVars => CountsMove
<1> SUFFICES ASSUME SupervisionTypeOK, [SupervisionNext]_supervisionVars PROVE CountsMove
  OBVIOUS
<1>1. CASE StartAll
  BY <1>1 DEF StartAll, CallEnds, CountsMove, managerSide, lifecycleSide, ErrorInManager, ErrorInLifecycle
<1>2. CASE FirstStartEnds
  BY <1>2 DEF FirstStartEnds, CallEnds, CountsMove, managerSide, lifecycleSide, ErrorInManager, ErrorInLifecycle
<1>3. CASE StopAll
  BY <1>3 DEF StopAll, CountsMove, managerSide, lifecycleSide, ErrorInManager, ErrorInLifecycle
<1>4. CASE StartHealthMonitoring
  BY <1>4 DEF StartHealthMonitoring, CountsMove, managerSide, lifecycleSide, ErrorInManager, ErrorInLifecycle
<1>5. CASE StopHealthMonitoring
  BY <1>5 DEF StopHealthMonitoring, CountsMove, managerSide, lifecycleSide, ErrorInManager, ErrorInLifecycle
<1>6. CASE StartAgent
  BY <1>6 DEF StartAgent, CountsMove, managerSide, lifecycleSide, ErrorInManager, ErrorInLifecycle
<1>7. CASE StartAgentEnds
  BY <1>7 DEF StartAgentEnds, CountsMove, managerSide, lifecycleSide, ErrorInManager, ErrorInLifecycle
<1>8. CASE StopAgent
  BY <1>8 DEF StopAgent, CountsMove, managerSide, lifecycleSide, ErrorInManager, ErrorInLifecycle
<1>9. CASE PauseAgent
  BY <1>9 DEF PauseAgent, CountsMove, managerSide, lifecycleSide, ErrorInManager, ErrorInLifecycle
<1>10. CASE ResumeAgent
  BY <1>10 DEF ResumeAgent, CountsMove, managerSide, lifecycleSide, ErrorInManager, ErrorInLifecycle
<1>11. ASSUME NEW m \in MonitorRuns, MonitorAgents(m) PROVE CountsMove
  BY <1>11 DEF MonitorAgents, HandleAgentError, CallEnds, CountsMove, managerSide, lifecycleSide, ErrorInManager, ErrorInLifecycle
<1>12. ASSUME NEW h \in HealthRuns, RunHealthCheck(h) PROVE CountsMove
  BY <1>12 DEF RunHealthCheck, CountsMove, managerSide, lifecycleSide, ErrorInManager, ErrorInLifecycle
<1>13. ASSUME NEW c \in Calls, RetryNow(c) PROVE CountsMove
  BY <1>13 DEF RetryNow, CountsMove, managerSide, lifecycleSide, ErrorInManager, ErrorInLifecycle
<1>14. ASSUME NEW c \in Calls, StartAgain(c) PROVE CountsMove
  BY <1>14 DEF StartAgain, CallEnds, CountsMove, managerSide, lifecycleSide, ErrorInManager, ErrorInLifecycle
<1>15. ASSUME NEW c \in Calls, StartedAgain(c) PROVE CountsMove
  BY <1>15 DEF StartedAgain, CallEnds, CountsMove, managerSide, lifecycleSide, ErrorInManager, ErrorInLifecycle
<1>16. ASSUME NEW c \in Calls, BackoffEnds(c) PROVE CountsMove
  BY <1>16 DEF BackoffEnds, CountsMove, managerSide, lifecycleSide, ErrorInManager, ErrorInLifecycle
<1>17. ASSUME NEW c \in Calls, RestartStarts(c) PROVE CountsMove
  BY <1>17 DEF RestartStarts, CountsMove, managerSide, lifecycleSide, ErrorInManager, ErrorInLifecycle
<1>18. ASSUME NEW c \in Calls, Restarted(c) PROVE CountsMove
  BY <1>18 DEF Restarted, CountsMove, managerSide, lifecycleSide, ErrorInManager, ErrorInLifecycle
<1>19. ASSUME NEW who \in registered, Unregister(who) PROVE CountsMove
  BY <1>19 DEF Unregister, CountsMove, managerSide, lifecycleSide, ErrorInManager, ErrorInLifecycle
<1>20. CASE UNCHANGED supervisionVars
  BY <1>20 DEF CountsMove, supervisionVars, managerSide, lifecycleSide, statusVars
<1> QED  BY <1>1, <1>2, <1>3, <1>4, <1>5, <1>6, <1>7, <1>8, <1>9, <1>10, <1>11, <1>12, <1>13, <1>14, <1>15, <1>16, <1>17, <1>18, <1>19, <1>20 DEF SupervisionNext, CallContinues

LEMMA FlagStep == SupervisionTypeOK /\ [SupervisionNext]_supervisionVars => FlagsMove
<1> SUFFICES ASSUME SupervisionTypeOK, [SupervisionNext]_supervisionVars PROVE FlagsMove
  OBVIOUS
<1>0. /\ "startAll" \in Calls /\ "startAgent" \in Calls
      /\ \A m \in MonitorRuns : m \in Calls
      /\ \A h \in HealthRuns : h \in Calls
  BY DEF Calls
<1>1. CASE StartAll
  BY <1>1, <1>0 DEF StartAll, CallEnds, FlagsMove, managerSide, lifecycleSide
<1>2. CASE FirstStartEnds
  BY <1>2, <1>0 DEF FirstStartEnds, CallEnds, FlagsMove, managerSide, lifecycleSide
<1>3. CASE StopAll
  BY <1>3, <1>0 DEF StopAll, FlagsMove, managerSide, lifecycleSide
<1>4. CASE StartHealthMonitoring
  BY <1>4, <1>0 DEF StartHealthMonitoring, FlagsMove, managerSide, lifecycleSide
<1>5. CASE StopHealthMonitoring
  BY <1>5, <1>0 DEF StopHealthMonitoring, FlagsMove, managerSide, lifecycleSide
<1>6. CASE StartAgent
  BY <1>6, <1>0 DEF StartAgent, FlagsMove, managerSide, lifecycleSide
<1>7. CASE StartAgentEnds
  BY <1>7, <1>0 DEF StartAgentEnds, FlagsMove, managerSide, lifecycleSide
<1>8. CASE StopAgent
  BY <1>8, <1>0 DEF StopAgent, FlagsMove, managerSide, lifecycleSide
<1>9. CASE PauseAgent
  BY <1>9, <1>0 DEF PauseAgent, FlagsMove, managerSide, lifecycleSide
<1>10. CASE ResumeAgent
  BY <1>10, <1>0 DEF ResumeAgent, FlagsMove, managerSide, lifecycleSide
<1>11. ASSUME NEW m \in MonitorRuns, MonitorAgents(m) PROVE FlagsMove
  BY <1>11, <1>0 DEF MonitorAgents, HandleAgentError, CallEnds, FlagsMove, managerSide, lifecycleSide
<1>12. ASSUME NEW h \in HealthRuns, RunHealthCheck(h) PROVE FlagsMove
  BY <1>12, <1>0 DEF RunHealthCheck, FlagsMove, managerSide, lifecycleSide
<1>13. ASSUME NEW c \in Calls, RetryNow(c) PROVE FlagsMove
  BY <1>13, <1>0 DEF RetryNow, FlagsMove, managerSide, lifecycleSide
<1>14. ASSUME NEW c \in Calls, StartAgain(c) PROVE FlagsMove
  BY <1>14, <1>0 DEF StartAgain, CallEnds, FlagsMove, managerSide, lifecycleSide
<1>15. ASSUME NEW c \in Calls, StartedAgain(c) PROVE FlagsMove
  BY <1>15, <1>0 DEF StartedAgain, CallEnds, FlagsMove, managerSide, lifecycleSide
<1>16. ASSUME NEW c \in Calls, BackoffEnds(c) PROVE FlagsMove
  BY <1>16, <1>0 DEF BackoffEnds, FlagsMove, managerSide, lifecycleSide
<1>17. ASSUME NEW c \in Calls, RestartStarts(c) PROVE FlagsMove
  BY <1>17, <1>0 DEF RestartStarts, FlagsMove, managerSide, lifecycleSide
<1>18. ASSUME NEW c \in Calls, Restarted(c) PROVE FlagsMove
  BY <1>18, <1>0 DEF Restarted, FlagsMove, managerSide, lifecycleSide
<1>19. ASSUME NEW who \in registered, Unregister(who) PROVE FlagsMove
  BY <1>19, <1>0 DEF Unregister, FlagsMove, managerSide, lifecycleSide
<1>20. CASE UNCHANGED supervisionVars
  BY <1>20 DEF FlagsMove, supervisionVars, managerSide, lifecycleSide, statusVars
<1> QED  BY <1>1, <1>2, <1>3, <1>4, <1>5, <1>6, <1>7, <1>8, <1>9, <1>10, <1>11, <1>12, <1>13, <1>14, <1>15, <1>16, <1>17, <1>18, <1>19, <1>20 DEF SupervisionNext, CallContinues

LEMMA TypeStep == SupervisionTypeOK /\ [SupervisionNext]_supervisionVars => SupervisionTypeOK'
<1> SUFFICES ASSUME SupervisionTypeOK, [SupervisionNext]_supervisionVars PROVE SupervisionTypeOK'
  OBVIOUS
<1>1. phase' \in [Calls -> Phases]
  <2>1. phase \in [Calls -> Phases]
    BY DEF SupervisionTypeOK, Phases
  <2>2. PhaseMoves
    BY PhaseStep
  <2> QED  BY <2>1, <2>2, PhaseType DEF PhaseMoves
<1>2. errorCount' \in 0..MaxRetries /\ consecutiveErrors' \in 0..MaxConsecutiveErrors /\ restartCount' \in Nat
  <2>1. /\ errorCount \in 0..MaxRetries /\ consecutiveErrors \in 0..MaxConsecutiveErrors /\ restartCount \in Nat
        /\ MaxRetries \in Nat /\ MaxConsecutiveErrors \in Nat
    BY SupervisionAssumption DEF SupervisionTypeOK
  <2>2. OneMore(errorCount, MaxRetries) \in 0..MaxRetries
    BY <2>1, CountType
  <2>3. OneMore(consecutiveErrors, MaxConsecutiveErrors) \in 0..MaxConsecutiveErrors
    BY <2>1, CountType
  <2>4. 0 \in 0..MaxRetries /\ 0 \in 0..MaxConsecutiveErrors /\ restartCount + 1 \in Nat
    BY <2>1, SMT
  <2>5. CountsMove
    BY CountStep
  <2> QED  BY <2>1, <2>2, <2>3, <2>4, <2>5, Zenon DEF CountsMove
<1>3. /\ supervised' \in BOOLEAN /\ looping' \in BOOLEAN /\ healthOn' \in BOOLEAN
      /\ startedBefore' \in BOOLEAN /\ registered' \subseteq {"manager", "lifecycle"}
  <2>1. FlagsMove
    BY FlagStep
  <2> QED  BY <2>1, Zenon DEF FlagsMove, SupervisionTypeOK
<1> QED  BY <1>1, <1>2, <1>3 DEF SupervisionTypeOK, Phases

(* ----------------------- A start has a caller -------------------------- *)

(* A call that is not starting anything moves on. *)
LEMMA OtherCallMoves ==
  ASSUME phase \in [Calls -> Phases], StartingHasCaller, status' = status,
         NEW c \in Calls, phase[c] \notin StartPhases, NEW w \in Phases, To(c, w)
  PROVE  StartingHasCaller'
  BY Zenon DEF StartingHasCaller, To

(* A call starts the agent. *)
LEMMA CallStarts ==
  ASSUME phase \in [Calls -> Phases], NEW c \in Calls, NEW w \in StartPhases, To(c, w)
  PROVE  StartingHasCaller'
<1>1. phase'[c] = w
  BY Zenon DEF To
<1> QED  BY <1>1 DEF StartingHasCaller

LEMMA CallerStep == SupervisionTypeOK /\ StartingHasCaller /\ [SupervisionNext]_supervisionVars => StartingHasCaller'
<1> SUFFICES ASSUME SupervisionTypeOK /\ StartingHasCaller, [SupervisionNext]_supervisionVars PROVE StartingHasCaller'
  OBVIOUS
<1> USE DEF SupervisionTypeOK
<1>0. /\ "startAll" \in Calls /\ "startAgent" \in Calls
      /\ \A m \in MonitorRuns : m \in Calls
      /\ \A h \in HealthRuns : h \in Calls
      /\ phase \in [Calls -> Phases]
  BY DEF Calls, Phases
<1>s. \A w \in {"rest", "retry", "settle", "delay", "stopped"} : w \in Phases /\ w \notin StartPhases
  BY DEF Phases, StartPhases
<1>t. "first" \in StartPhases /\ "starting" \in StartPhases
  BY DEF StartPhases
<1>u. status' # "STARTING" => StartingHasCaller'
  BY DEF StartingHasCaller
<1>v. (status' = status /\ phase' = phase) => StartingHasCaller'
  BY DEF StartingHasCaller
<1>1. CASE StartAll
  BY <1>1, <1>0, <1>s, <1>t, <1>u, <1>v, OtherCallMoves, CallStarts DEF StartAll, CallEnds, AgentStartEnds, AgentStop, AgentPause, AgentResume, statusVars
<1>2. CASE FirstStartEnds
  BY <1>2, <1>0, <1>s, <1>t, <1>u, <1>v, OtherCallMoves, CallStarts DEF FirstStartEnds, CallEnds, AgentStartEnds, AgentStop, AgentPause, AgentResume, statusVars
<1>3. CASE StopAll
  BY <1>3, <1>0, <1>s, <1>t, <1>u, <1>v, OtherCallMoves, CallStarts DEF StopAll, AgentStartEnds, AgentStop, AgentPause, AgentResume, statusVars
<1>4. CASE StartHealthMonitoring
  BY <1>4, <1>0, <1>s, <1>t, <1>u, <1>v, OtherCallMoves, CallStarts DEF StartHealthMonitoring, AgentStartEnds, AgentStop, AgentPause, AgentResume, statusVars
<1>5. CASE StopHealthMonitoring
  BY <1>5, <1>0, <1>s, <1>t, <1>u, <1>v, OtherCallMoves, CallStarts DEF StopHealthMonitoring, AgentStartEnds, AgentStop, AgentPause, AgentResume, statusVars
<1>6. CASE StartAgent
  BY <1>6, <1>0, <1>s, <1>t, <1>u, <1>v, OtherCallMoves, CallStarts DEF StartAgent, AgentStartEnds, AgentStop, AgentPause, AgentResume, statusVars
<1>7. CASE StartAgentEnds
  BY <1>7, <1>0, <1>s, <1>t, <1>u, <1>v, OtherCallMoves, CallStarts DEF StartAgentEnds, AgentStartEnds, AgentStop, AgentPause, AgentResume, statusVars
<1>8. CASE StopAgent
  BY <1>8, <1>0, <1>s, <1>t, <1>u, <1>v, OtherCallMoves, CallStarts DEF StopAgent, AgentStartEnds, AgentStop, AgentPause, AgentResume, statusVars
<1>9. CASE PauseAgent
  BY <1>9, <1>0, <1>s, <1>t, <1>u, <1>v, OtherCallMoves, CallStarts DEF PauseAgent, AgentStartEnds, AgentStop, AgentPause, AgentResume, statusVars
<1>10. CASE ResumeAgent
  BY <1>10, <1>0, <1>s, <1>t, <1>u, <1>v, OtherCallMoves, CallStarts DEF ResumeAgent, AgentStartEnds, AgentStop, AgentPause, AgentResume, statusVars
<1>11. ASSUME NEW m \in MonitorRuns, MonitorAgents(m) PROVE StartingHasCaller'
  BY <1>11, <1>0, <1>s, <1>t, <1>u, <1>v, OtherCallMoves, CallStarts DEF MonitorAgents, HandleAgentError, CallEnds, AgentStartEnds, AgentStop, AgentPause, AgentResume, statusVars
<1>12. ASSUME NEW h \in HealthRuns, RunHealthCheck(h) PROVE StartingHasCaller'
  BY <1>12, <1>0, <1>s, <1>t, <1>u, <1>v, OtherCallMoves, CallStarts DEF RunHealthCheck, AgentStartEnds, AgentStop, AgentPause, AgentResume, statusVars
<1>13. ASSUME NEW c \in Calls, RetryNow(c) PROVE StartingHasCaller'
  BY <1>13, <1>0, <1>s, <1>t, <1>u, <1>v, OtherCallMoves, CallStarts DEF RetryNow, AgentStartEnds, AgentStop, AgentPause, AgentResume, statusVars
<1>14. ASSUME NEW c \in Calls, StartAgain(c) PROVE StartingHasCaller'
  BY <1>14, <1>0, <1>s, <1>t, <1>u, <1>v, OtherCallMoves, CallStarts DEF StartAgain, CallEnds, AgentStartEnds, AgentStop, AgentPause, AgentResume, statusVars
<1>15. ASSUME NEW c \in Calls, StartedAgain(c) PROVE StartingHasCaller'
  BY <1>15, <1>0, <1>s, <1>t, <1>u, <1>v, OtherCallMoves, CallStarts DEF StartedAgain, CallEnds, AgentStartEnds, AgentStop, AgentPause, AgentResume, statusVars
<1>16. ASSUME NEW c \in Calls, BackoffEnds(c) PROVE StartingHasCaller'
  BY <1>16, <1>0, <1>s, <1>t, <1>u, <1>v, OtherCallMoves, CallStarts DEF BackoffEnds, AgentStartEnds, AgentStop, AgentPause, AgentResume, statusVars
<1>17. ASSUME NEW c \in Calls, RestartStarts(c) PROVE StartingHasCaller'
  BY <1>17, <1>0, <1>s, <1>t, <1>u, <1>v, OtherCallMoves, CallStarts DEF RestartStarts, AgentStartEnds, AgentStop, AgentPause, AgentResume, statusVars
<1>18. ASSUME NEW c \in Calls, Restarted(c) PROVE StartingHasCaller'
  BY <1>18, <1>0, <1>s, <1>t, <1>u, <1>v, OtherCallMoves, CallStarts DEF Restarted, AgentStartEnds, AgentStop, AgentPause, AgentResume, statusVars
<1>19. ASSUME NEW who \in registered, Unregister(who) PROVE StartingHasCaller'
  BY <1>19, <1>0, <1>s, <1>t, <1>u, <1>v, OtherCallMoves, CallStarts DEF Unregister, AgentStartEnds, AgentStop, AgentPause, AgentResume, statusVars
<1>20. CASE UNCHANGED supervisionVars
  BY <1>20, <1>v DEF supervisionVars, managerSide, lifecycleSide, statusVars
<1> QED  BY <1>1, <1>2, <1>3, <1>4, <1>5, <1>6, <1>7, <1>8, <1>9, <1>10, <1>11, <1>12, <1>13, <1>14, <1>15, <1>16, <1>17, <1>18, <1>19, <1>20 DEF SupervisionNext, CallContinues

(* ------------------------- Restarts are bounded ------------------------ *)

(* ExcessRestartsBounded is not inductive: a health check that has passed the    *)
(* test of the limits still counts its restart.  So the checks in flight   *)
(* are counted with the restarts: the test leaves room for one restart of  *)
(* every check, and a check counts when it leaves.                         *)
InFlight == {h \in HealthRuns : phase[h] # "rest"}
RestartRoom ==
    MaxTotalRestarts > 0 => restartCount + Cardinality(InFlight) < MaxTotalRestarts + Cardinality(HealthRuns)

LEMMA InFlightFinite ==
  /\ IsFiniteSet(InFlight) /\ Cardinality(InFlight) \in Nat /\ Cardinality(HealthRuns) \in Nat
  /\ Cardinality(InFlight) <= Cardinality(HealthRuns)
<1>1. InFlight \subseteq HealthRuns /\ IsFiniteSet(HealthRuns)
  BY SupervisionAssumption DEF InFlight
<1>2. IsFiniteSet(InFlight)
  BY <1>1, FS_Subset
<1> QED  BY <1>1, <1>2, FS_Subset, FS_CardinalityType

(* Nobody takes off and nothing is counted. *)
LEMMA RoomKept ==
  ASSUME SupervisionTypeOK, RestartRoom, restartCount' = restartCount, InFlight' \subseteq InFlight
  PROVE  RestartRoom'
<1>1. Cardinality(InFlight') \in Nat /\ Cardinality(InFlight') <= Cardinality(InFlight)
  BY InFlightFinite, FS_Subset, FS_CardinalityType
<1>2. restartCount \in Nat /\ MaxTotalRestarts \in Nat
  BY SupervisionAssumption DEF SupervisionTypeOK
<1> QED  BY <1>1, <1>2, InFlightFinite, SMT DEF RestartRoom

(* A check that ends, or is another call, takes no room. *)
LEMMA MoveTakesNoRoom ==
  ASSUME SupervisionTypeOK, NEW c \in Calls, NEW w, To(c, w),
         c \notin HealthRuns \/ phase[c] # "rest"
  PROVE  InFlight' \subseteq InFlight
<1>1. \A h \in HealthRuns : h \in Calls
  BY DEF Calls
<1>2. phase \in [Calls -> Phases]
  BY DEF SupervisionTypeOK, Phases
<1>3. \A h \in HealthRuns : h # c => phase'[h] = phase[h]
  BY <1>1, <1>2, Zenon DEF To
<1> QED  BY <1>3, Zenon DEF InFlight

LEMMA RoomStep == SupervisionTypeOK /\ RestartRoom /\ [SupervisionNext]_supervisionVars => RestartRoom'
<1> SUFFICES ASSUME SupervisionTypeOK /\ RestartRoom, [SupervisionNext]_supervisionVars PROVE RestartRoom'
  OBVIOUS
<1>0. /\ "startAll" \in Calls \ HealthRuns /\ "startAgent" \in Calls \ HealthRuns
      /\ \A m \in MonitorRuns : m \in Calls \ HealthRuns
      /\ \A h \in HealthRuns : h \in Calls
      /\ phase \in [Calls -> Phases]
  BY SupervisionAssumption DEF Calls, Phases, SupervisionTypeOK
<1>k. (restartCount' = restartCount /\ phase' = phase) => RestartRoom'
  BY DEF RestartRoom, InFlight
<1>m. ASSUME NEW c \in Calls, NEW w, To(c, w), restartCount' = restartCount,
             c \notin HealthRuns \/ phase[c] # "rest"
      PROVE  RestartRoom'
  BY <1>m, MoveTakesNoRoom, RoomKept
<1>1. CASE StartAll
  BY <1>1, <1>0, <1>k, <1>m DEF StartAll, CallEnds, lifecycleSide
<1>2. CASE FirstStartEnds
  BY <1>2, <1>0, <1>k, <1>m DEF FirstStartEnds, CallEnds, lifecycleSide
<1>3. CASE StopAll
  BY <1>3, <1>0, <1>k, <1>m DEF StopAll, lifecycleSide
<1>4. CASE StartHealthMonitoring
  BY <1>4, <1>0, <1>k, <1>m DEF StartHealthMonitoring, lifecycleSide
<1>5. CASE StopHealthMonitoring
  BY <1>5, <1>0, <1>k, <1>m DEF StopHealthMonitoring, lifecycleSide
<1>6. CASE StartAgent
  BY <1>6, <1>0, <1>k, <1>m DEF StartAgent, lifecycleSide
<1>7. CASE StartAgentEnds
  BY <1>7, <1>0, <1>k, <1>m DEF StartAgentEnds, lifecycleSide
<1>8. CASE StopAgent
  BY <1>8, <1>0, <1>k, <1>m DEF StopAgent, lifecycleSide
<1>9. CASE PauseAgent
  BY <1>9, <1>0, <1>k, <1>m DEF PauseAgent, lifecycleSide
<1>10. CASE ResumeAgent
  BY <1>10, <1>0, <1>k, <1>m DEF ResumeAgent, lifecycleSide
<1>11. ASSUME NEW m \in MonitorRuns, MonitorAgents(m) PROVE RestartRoom'
  BY <1>11, <1>0, <1>k, <1>m DEF MonitorAgents, HandleAgentError, CallEnds, lifecycleSide
<1>12. ASSUME NEW h \in HealthRuns, RunHealthCheck(h) PROVE RestartRoom'
  <2>1. restartCount' = restartCount /\ restartCount < MaxTotalRestarts
    BY <1>12 DEF RunHealthCheck, MayRestart, lifecycleSide
  <2>2. Cardinality(InFlight') \in Nat /\ Cardinality(InFlight') <= Cardinality(HealthRuns)
    <3>1. InFlight' \subseteq HealthRuns
      BY DEF InFlight
    <3> QED  BY <3>1, SupervisionAssumption, FS_Subset, FS_CardinalityType
  <2>3. restartCount \in Nat /\ MaxTotalRestarts \in Nat
    BY SupervisionAssumption DEF SupervisionTypeOK
  <2> QED  BY <2>1, <2>2, <2>3, InFlightFinite, SMT DEF RestartRoom
<1>13. ASSUME NEW c \in Calls, RetryNow(c) PROVE RestartRoom'
  BY <1>13, <1>0, <1>k, <1>m DEF RetryNow, lifecycleSide
<1>14. ASSUME NEW c \in Calls, StartAgain(c) PROVE RestartRoom'
  BY <1>14, <1>0, <1>k, <1>m DEF StartAgain, CallEnds, lifecycleSide
<1>15. ASSUME NEW c \in Calls, StartedAgain(c) PROVE RestartRoom'
  BY <1>15, <1>0, <1>k, <1>m DEF StartedAgain, CallEnds, lifecycleSide
<1>16. ASSUME NEW c \in Calls, BackoffEnds(c) PROVE RestartRoom'
  BY <1>16, <1>0, <1>k, <1>m DEF BackoffEnds, lifecycleSide
<1>17. ASSUME NEW c \in Calls, RestartStarts(c) PROVE RestartRoom'
  BY <1>17, <1>0, <1>k, <1>m DEF RestartStarts, lifecycleSide
<1>18. ASSUME NEW c \in Calls, Restarted(c) PROVE RestartRoom'
  <2>1. c \in HealthRuns /\ phase[c] = "starting" /\ To(c, "rest")
    BY <1>18 DEF Restarted
  <2>2. \A h \in HealthRuns : h # c => phase'[h] = phase[h]
    BY <1>0, <2>1, Zenon DEF To
  <2>3. phase'[c] = "rest"
    BY <1>0, <2>1, Zenon DEF To
  <2>4. InFlight' = InFlight \ {c} /\ c \in InFlight
    BY <2>1, <2>2, <2>3, Zenon DEF InFlight
  <2>5. Cardinality(InFlight') = Cardinality(InFlight) - 1
    BY <2>4, InFlightFinite, FS_RemoveElement
  <2>6. restartCount' \in {restartCount, restartCount + 1} /\ restartCount \in Nat /\ MaxTotalRestarts \in Nat
    BY <1>18, SupervisionAssumption DEF Restarted, SupervisionTypeOK
  <2> QED  BY <2>5, <2>6, InFlightFinite, SMT DEF RestartRoom
<1>19. ASSUME NEW who \in registered, Unregister(who) PROVE RestartRoom'
  BY <1>19, <1>0, <1>k, <1>m DEF Unregister, lifecycleSide
<1>20. CASE UNCHANGED supervisionVars
  BY <1>20, <1>k DEF supervisionVars, managerSide, lifecycleSide, statusVars
<1> QED  BY <1>1, <1>2, <1>3, <1>4, <1>5, <1>6, <1>7, <1>8, <1>9, <1>10, <1>11, <1>12, <1>13, <1>14, <1>15, <1>16, <1>17, <1>18, <1>19, <1>20 DEF SupervisionNext, CallContinues

(* ------------------------------ Theorems ------------------------------- *)

SupervisionInv == SupervisionTypeOK /\ StatusInv /\ StartingHasCaller /\ RestartRoom

LEMMA SupervisionInvInit == SupervisionInit => SupervisionInv
<1> SUFFICES ASSUME SupervisionInit PROVE SupervisionInv
  OBVIOUS
<1>1. SupervisionTypeOK
  <2>1. /\ supervised \in BOOLEAN /\ looping \in BOOLEAN
        /\ healthOn \in BOOLEAN /\ startedBefore \in BOOLEAN
        /\ registered \subseteq {"manager", "lifecycle"}
    BY Zenon DEF SupervisionInit
  <2>2. phase \in [Calls -> {"rest", "first", "retry", "settle", "delay", "stopped", "starting"}]
    BY DEF SupervisionInit
  <2>3. errorCount \in 0..MaxRetries /\ restartCount \in Nat /\ consecutiveErrors \in 0..MaxConsecutiveErrors
    BY SupervisionAssumption, SMT DEF SupervisionInit
  <2> QED  BY <2>1, <2>2, <2>3 DEF SupervisionTypeOK
<1>2. StatusInv
  BY StatusInitOK DEF SupervisionInit
<1>3. StartingHasCaller
  BY DEF SupervisionInit, StatusInit, StartingHasCaller
<1>4. RestartRoom
  <2>1. InFlight = {}
    BY DEF SupervisionInit, InFlight, Calls
  <2>2. restartCount = 0 /\ MaxTotalRestarts \in Nat
    BY SupervisionAssumption DEF SupervisionInit
  <2> QED  BY <2>1, <2>2, InFlightFinite, FS_EmptySet, SMT DEF RestartRoom
<1> QED  BY <1>1, <1>2, <1>3, <1>4 DEF SupervisionInv

LEMMA SupervisionInvStep == SupervisionInv /\ [SupervisionNext]_supervisionVars => SupervisionInv'
  BY OperationStep, StatusStep, TypeStep, CallerStep, RoomStep, Zenon DEF SupervisionInv

(* Every variable keeps its type. *)
THEOREM SupervisionTypeCorrect == SupervisionSpec => [](SupervisionTypeOK /\ StatusTypeOK)
<1>1. SupervisionInv => SupervisionTypeOK /\ StatusTypeOK
  BY DEF SupervisionInv, StatusInv
<1> QED  BY SupervisionInvInit, SupervisionInvStep, <1>1, PTL DEF SupervisionSpec

(* However many calls of the two managers overlap, the agent has one       *)
(* monitoring timer while it runs and none otherwise (startMonitoring,     *)
(* stop, pause).                                                           *)
THEOREM OneTimerWhileRunning == SupervisionSpec => []OneTimerIffRunning
<1>1. SupervisionInv => OneTimerIffRunning
  BY DEF SupervisionInv, StatusInv
<1> QED  BY SupervisionInvInit, SupervisionInvStep, <1>1, PTL DEF SupervisionSpec

(* An agent that says STARTING is being started by a call that will end.   *)
THEOREM StartsHaveCallers == SupervisionSpec => []StartingHasCaller
<1>1. SupervisionInv => StartingHasCaller
  BY DEF SupervisionInv
<1> QED  BY SupervisionInvInit, SupervisionInvStep, <1>1, PTL DEF SupervisionSpec

LEMMA RoomBounds == SupervisionTypeOK /\ RestartRoom => ExcessRestartsBounded
<1> SUFFICES ASSUME SupervisionTypeOK, RestartRoom, MaxTotalRestarts > 0
             PROVE  restartCount < MaxTotalRestarts + Cardinality(HealthRuns)
  BY DEF ExcessRestartsBounded
<1>1. restartCount \in Nat /\ MaxTotalRestarts \in Nat
  BY SupervisionAssumption DEF SupervisionTypeOK
<1> QED  BY <1>1, InFlightFinite, SMT DEF RestartRoom

(* The documented limit, maxTotalRestarts, is exceeded when health checks  *)
(* overlap, but by less than one restart per overlapping check             *)
(* (restartAgent).                                                         *)
THEOREM RestartsAreBounded == SupervisionSpec => []ExcessRestartsBounded
<1>1. SupervisionInv => ExcessRestartsBounded
  BY RoomBounds DEF SupervisionInv
<1> QED  BY SupervisionInvInit, SupervisionInvStep, <1>1, PTL DEF SupervisionSpec

(* -------------------- The status under the other manager --------------- *)

LEMMA AgentActs == AgentNext => AgentOperation
<1> SUFFICES ASSUME AgentNext PROVE AgentOperation
  OBVIOUS
<1> USE DEF AgentOperation
<1>1. CASE Start
  BY <1>1 DEF Start
<1>2. CASE Started
  BY <1>2 DEF Started
<1>3. CASE Stop \/ Pause
  BY <1>3 DEF Stop, Pause
<1>4. CASE Resume
  BY <1>4 DEF Resume
<1>5. CASE Tick
  BY <1>5 DEF Tick, statusVars
<1>6. ASSUME NEW m \in Monitors, Fetched(m) \/ Decided(m) \/ Sent(m) \/ Confirmed(m) \/ WaitFails(m)
      PROVE  AgentOperation
  BY <1>6 DEF Fetched, Decided, Sent, Confirmed, WaitFails, statusVars
<1>7. ASSUME NEW h \in mempool, Mine(h) PROVE AgentOperation
  BY <1>7 DEF Mine, statusVars
<1>8. ASSUME NEW p \in cooling, CooldownEnds(p) PROVE AgentOperation
  BY <1>8 DEF CooldownEnds, statusVars
<1> QED  BY <1>1, <1>2, <1>3, <1>4, <1>5, <1>6, <1>7, <1>8 DEF AgentNext

LEMMA ManagedOperation == [ManagedNext]_managedVars => AgentOperation
<1> SUFFICES ASSUME [ManagedNext]_managedVars PROVE AgentOperation
  OBVIOUS
<1>1. CASE AgentNext
  BY <1>1, AgentActs
<1>2. CASE ManagerStop
  BY <1>2 DEF ManagerStop, AgentOperation
<1>3. CASE ManagerStart \/ MonitorTick \/ Collect
  BY <1>3 DEF ManagerStart, MonitorTick, Collect, AgentOperation, agentVars, statusVars
<1>4. ASSUME NEW c \in Checks,
             CheckTick(c) \/ Checked(c) \/ BatchRefused(c)
      PROVE  AgentOperation
  BY <1>4 DEF CheckTick, Checked, BatchRefused, AgentOperation, agentVars, statusVars
<1>5. CASE UNCHANGED managedVars
  BY <1>5 DEF managedVars, agentVars, statusVars, AgentOperation
<1> QED  BY <1>1, <1>2, <1>3, <1>4, <1>5 DEF ManagedNext

LEMMA ManagedStatus == StatusInv /\ [ManagedNext]_managedVars => StatusInv'
  BY ManagedOperation, StatusStep

(* The agent has one monitoring timer while it runs and none otherwise,    *)
(* also while the manager collects and checks and stops it in between    *)
(* (startMonitoring, stop, pause, stopAll).                                *)
THEOREM OneTimerWhileManaged == ManagedSpec => []OneTimerIffRunning
<1>1. ManagerInit => StatusInv
  BY StatusInitOK DEF ManagerInit, AgentInit
<1>2. StatusInv => OneTimerIffRunning
  BY DEF StatusInv
<1> QED  BY <1>1, <1>2, ManagedStatus, PTL DEF ManagedSpec

(* ------------------------- The manager's batches ----------------------- *)

CheckAt == {"rest", "checker", "send"}
CheckRecord == [at : CheckAt, i : 0..Len(PoolOrder)]

(* A check is at a pool of the list unless it is over. *)
CheckOK(r) == r \in CheckRecord /\ (r.i = 0 <=> r.at = "rest")

LEMMA PoolCount == Len(PoolOrder) \in Nat
  BY TradingAssumption

LEMMA NextPoolOK == ASSUME NEW k \in 0..Len(PoolOrder) PROVE CheckOK(NextPool(k))
<1>1. CASE k < Len(PoolOrder)
  <2>1. NextPool(k) = [at |-> "checker", i |-> k + 1]
    BY <1>1 DEF NextPool
  <2>2. k + 1 \in 0..Len(PoolOrder) /\ k + 1 # 0
    BY <1>1, PoolCount, SMT
  <2> QED  BY <2>1, <2>2 DEF CheckOK, CheckRecord, CheckAt
<1>2. CASE ~(k < Len(PoolOrder))
  <2>1. NextPool(k) = [at |-> "rest", i |-> 0]
    BY <1>2 DEF NextPool, NotChecking
  <2>2. 0 \in 0..Len(PoolOrder)
    BY PoolCount, SMT
  <2> QED  BY <2>1, <2>2 DEF CheckOK, CheckRecord, CheckAt
<1> QED  BY <1>1, <1>2

LEMMA TypesOfManager ==
  ManagerTypeOK <=> /\ managing \in BOOLEAN /\ collecting \in BOOLEAN
                    /\ pendingBatch \in [TradePools -> SUBSET commitments]
                    /\ check \in [Checks -> CheckRecord]
                    /\ \A c \in Checks : check[c].i = 0 <=> check[c].at = "rest"
  BY Zenon DEF ManagerTypeOK, CheckRecord, CheckAt

(* The agent's side of a step only adds to what is stored.                 *)
LEMMA AgentAdds == AgentNext => commitments \subseteq commitments'
  BY DEF AgentNext, Start, Started, Stop, Pause, Resume, Tick, Fetched, Decided, Sent, Confirmed,
         WaitFails, Mine, CooldownEnds, tradeVars

(* Steps that leave the batch side alone; the agent may store more.        *)
LEMMA RestKeepsManager ==
  ASSUME ManagerTypeOK, UNCHANGED <<pendingBatch, check>>,
         managing' \in BOOLEAN, collecting' \in BOOLEAN, commitments \subseteq commitments'
  PROVE  ManagerTypeOK'
<1>1. pendingBatch \in [TradePools -> SUBSET commitments']
  BY TypesOfManager
<1> QED  BY <1>1, TypesOfManager, Zenon DEF ManagerTypeOK, CheckRecord, CheckAt

(* One check moves, in one of the ways it can.                             *)
LEMMA CheckKeepsManager ==
  ASSUME ManagerTypeOK, NEW c \in Checks, CheckTick(c) \/ Checked(c) \/ BatchRefused(c)
  PROVE  ManagerTypeOK'
<1>1. /\ check \in [Checks -> CheckRecord] /\ CheckOK(check[c])
      /\ check[c].i \in 0..Len(PoolOrder) /\ 0 \in 0..Len(PoolOrder)
  BY TypesOfManager, PoolCount, SMT DEF CheckOK, CheckRecord
<1>2. UNCHANGED <<commitments, managing, collecting, pendingBatch>>
  BY DEF CheckTick, Checked, BatchRefused, agentVars, tradeVars
<1>3. ASSUME NEW r, check' = [check EXCEPT ![c] = r], CheckOK(r)
      PROVE  ManagerTypeOK'
  <2>1. check' \in [Checks -> CheckRecord] /\ check'[c] = r /\ \A d \in Checks \ {c} : check'[d] = check[d]
    BY <1>1, <1>3 DEF CheckOK
  <2>2. \A d \in Checks : check'[d].i = 0 <=> check'[d].at = "rest"
    BY <1>3, <2>1, TypesOfManager DEF CheckOK
  <2> QED  BY <1>2, <2>1, <2>2, TypesOfManager, Zenon DEF ManagerTypeOK, CheckRecord, CheckAt
<1>4. ASSUME NEW k \in 0..Len(PoolOrder), check' = [check EXCEPT ![c] = NextPool(k)]
      PROVE  ManagerTypeOK'
  BY <1>3, <1>4, NextPoolOK
<1>5. CASE CheckTick(c)
  BY <1>1, <1>4, <1>5 DEF CheckTick
<1>6. CASE Checked(c)
  <2>1. CASE check' = [check EXCEPT ![c] = NextPool(@.i)]
    BY <1>1, <1>4, <2>1
  <2>2. CASE check' = [check EXCEPT ![c].at = "send"]
    <3> DEFINE r == [check[c] EXCEPT !.at = "send"]
    <3>1. check' = [check EXCEPT ![c] = r]
      BY <1>1, <2>2
    <3>2. CheckOK(r)
      BY <1>1, <1>6 DEF Checked, CheckOK, CheckRecord, CheckAt
    <3> HIDE DEF r
    <3> QED  BY <1>3, <3>1, <3>2
  <2> QED  BY <1>6, <2>1, <2>2 DEF Checked
<1>7. CASE BatchRefused(c)
  BY <1>1, <1>4, <1>7 DEF BatchRefused
<1> QED  BY <1>5, <1>6, <1>7

(* What is collected is added to what is pending.                          *)
LEMMA CollectKeepsManager == ASSUME ManagerTypeOK, Collect PROVE ManagerTypeOK'
<1>1. /\ collecting' = FALSE /\ pendingBatch' = [p \in TradePools |-> WithPending(p)]
      /\ UNCHANGED <<commitments, managing, check>>
  BY DEF Collect, agentVars, tradeVars
<1>2. pendingBatch' \in [TradePools -> SUBSET commitments]
  BY <1>1, TypesOfManager DEF WithPending
<1> QED  BY <1>1, <1>2, TypesOfManager, Zenon DEF ManagerTypeOK, CheckRecord, CheckAt

LEMMA ManagerStep == ManagerTypeOK /\ [ManagedNext]_managedVars => ManagerTypeOK'
<1> SUFFICES ASSUME ManagerTypeOK, [ManagedNext]_managedVars PROVE ManagerTypeOK'
  OBVIOUS
<1>0. managing \in BOOLEAN /\ collecting \in BOOLEAN
  BY TypesOfManager
<1>1. CASE AgentNext /\ UNCHANGED managerVars
  BY <1>0, <1>1, AgentAdds, RestKeepsManager DEF managerVars
<1>2. CASE ManagerStart \/ ManagerStop \/ MonitorTick
  BY <1>0, <1>2, RestKeepsManager DEF ManagerStart, ManagerStop, MonitorTick, agentVars, tradeVars
<1>3. CASE Collect
  BY <1>3, CollectKeepsManager
<1>4. ASSUME NEW c \in Checks, CheckTick(c) \/ Checked(c) \/ BatchRefused(c)
      PROVE  ManagerTypeOK'
  BY <1>4, CheckKeepsManager
<1>5. CASE UNCHANGED managedVars
  BY <1>0, <1>5, RestKeepsManager DEF managedVars, managerVars, agentVars, tradeVars
<1> QED  BY <1>1, <1>2, <1>3, <1>4, <1>5 DEF ManagedNext

LEMMA ManagerStarts == ManagerInit => ManagerTypeOK
<1> SUFFICES ASSUME ManagerInit PROVE ManagerTypeOK
  OBVIOUS
<1>1. /\ managing \in BOOLEAN /\ collecting \in BOOLEAN
      /\ pendingBatch = [p \in TradePools |-> {}] /\ check = [c \in Checks |-> NotChecking]
  BY Zenon DEF ManagerInit
<1>2. NotChecking \in CheckRecord /\ NotChecking.i = 0 /\ NotChecking.at = "rest"
  BY PoolCount, SMT DEF NotChecking, CheckRecord, CheckAt
<1>3. /\ check \in [Checks -> CheckRecord] /\ \A c \in Checks : check[c].i = 0 <=> check[c].at = "rest"
      /\ pendingBatch \in [TradePools -> SUBSET commitments]
  BY <1>1, <1>2
<1> QED  BY <1>1, <1>3, TypesOfManager, Zenon

(* Every variable of the manager's batch side keeps its type: only what    *)
(* the agent has stored is pending, and a check that is not over is at a   *)
(* pool of the list (monitorAgents, checkAndExecuteBatches).               *)
THEOREM ManagerTypeCorrect == ManagedSpec => []ManagerTypeOK
  BY ManagerStarts, ManagerStep, PTL DEF ManagedSpec

(* -------------------------- What is traded ----------------------------- *)

(* TradeTypeOK is not inductive: that a hash which is sent is that of a    *)
(* commitment rests on a monitorPools call having its nonce, and a start   *)
(* that it belongs to, by then, and that on the agent not running before   *)
(* its first start() has come back.                                        *)
MonitorAt == {"rest", "fetch", "decide", "send", "wait"}
MonitorRecord == [at : MonitorAt, i : 0..Len(PoolOrder), nonce : Nat, start : Nat]
MonitorOK(r) ==
    /\ r \in MonitorRecord
    /\ r.at # "rest" => r.i > 0
    /\ r.at \in {"send", "wait"} => r.nonce \in 1..MaxNonce /\ r.start \in 1..MaxStarts
MonitorsOK(calls) ==
    /\ calls \in [Monitors -> MonitorRecord]
    /\ \A m \in Monitors : MonitorOK(calls[m])
SoFarStarted ==
    /\ starting + starts <= MaxStarts
    /\ status \in {"RUNNING", "PAUSED"} => starts > 0
    /\ \A m \in Monitors : monitor[m].at # "rest" => starts > 0
TradeInv == TradeTypeOK /\ SoFarStarted /\ MonitorsOK(monitor)

LEMMA TypesOfTrade ==
  TradeTypeOK <=> /\ starting \in Nat /\ starts \in Nat
                  /\ nonceCounter \in [TradePools -> Nat]
                  /\ monitor \in [Monitors -> MonitorRecord]
                  /\ \A m \in Monitors : monitor[m].at # "rest" => monitor[m].i > 0
                  /\ cooling \subseteq TradePools
                  /\ mempool \subseteq Commitment /\ chain \subseteq Commitment /\ commitments \subseteq Commitment
  BY DEF TradeTypeOK, MonitorRecord, MonitorAt

(* Going on to the next pool of the list.                                  *)
LEMMA AfterOK == ASSUME NEW k \in 0..Len(PoolOrder) PROVE MonitorOK(After(k))
<1>1. Len(PoolOrder) \in Nat
  BY PoolCount
<1>2. CASE k < Len(PoolOrder)
  <2>1. k + 1 \in 0..Len(PoolOrder) /\ k + 1 > 0
    BY <1>1, <1>2, SMT
  <2> QED  BY <1>2, <2>1 DEF After, Arriving, MonitorOK, MonitorRecord, MonitorAt
<1>3. CASE ~(k < Len(PoolOrder))
  <2>1. 0 \in 0..Len(PoolOrder)
    BY <1>1, SMT
  <2> QED  BY <1>3, <2>1 DEF After, AtRest, MonitorOK, MonitorRecord, MonitorAt
<1> QED  BY <1>2, <1>3

LEMMA MovedOK ==
  ASSUME NEW calls, MonitorsOK(calls), NEW m \in Monitors, NEW r, MonitorOK(r)
  PROVE  MonitorsOK([calls EXCEPT ![m] = r])
  BY DEF MonitorsOK, MonitorOK

LEMMA OneMonitorOK ==
  ASSUME NEW calls, MonitorsOK(calls), NEW m \in Monitors
  PROVE  calls[m] \in MonitorRecord /\ MonitorOK(calls[m]) /\ MonitorOK(After(calls[m].i))
<1>1. calls[m] \in MonitorRecord /\ MonitorOK(calls[m]) /\ calls[m].i \in 0..Len(PoolOrder)
  BY DEF MonitorsOK, MonitorRecord
<1> QED  BY <1>1, AfterOK

(* What every step of the agent keeps to.                                  *)
LEMMA TradeKept ==
  ASSUME TradeInv, MonitorsOK(monitor'),
         monitor' = monitor \/ starts' > 0,
         starting' \in Nat, starts' \in Nat, starts <= starts', starting' + starts' <= MaxStarts,
         status' \in {"RUNNING", "PAUSED"} => status \in {"RUNNING", "PAUSED"} \/ starts' > 0,
         nonceCounter' \in [TradePools -> Nat], cooling' \subseteq TradePools,
         mempool' \subseteq Commitment, chain' \subseteq Commitment, commitments' \subseteq Commitment
  PROVE  TradeInv'
<1>1. starts \in Nat /\ (starts > 0 => starts' > 0)
  BY SMT DEF TradeInv, TradeTypeOK
<1>2. SoFarStarted'
  BY <1>1 DEF TradeInv, SoFarStarted
<1>3. monitor' \in [Monitors -> MonitorRecord] /\ \A m \in Monitors : MonitorOK(monitor'[m])
  BY DEF MonitorsOK
<1>4. \A m \in Monitors : monitor'[m].at # "rest" => monitor'[m].i > 0
  BY <1>3 DEF MonitorOK
<1>5. TradeTypeOK'
  BY <1>3, <1>4 DEF TradeTypeOK, MonitorRecord, MonitorAt
<1> QED  BY <1>2, <1>5 DEF TradeInv, MonitorsOK, MonitorOK, MonitorRecord

LEMMA EnterOK ==
  ASSUME MonitorsOK(monitor), EnterMonitor
  PROVE  MonitorsOK(monitor')
<1>1. 0 \in 0..Len(PoolOrder)
  BY PoolCount, SMT
<1>2. PICK m \in Monitors : monitor' = [monitor EXCEPT ![m] = After(0)]
  BY DEF EnterMonitor
<1> QED  BY <1>1, <1>2, AfterOK, MovedOK

(* What an action of TradingAgent leaves alone, most of them.              *)
LEMMA TradeTypes ==
  ASSUME TradeInv
  PROVE  /\ starting \in Nat /\ starts \in Nat /\ starts <= starts /\ starting + starts <= MaxStarts
         /\ nonceCounter \in [TradePools -> Nat] /\ cooling \subseteq TradePools
         /\ mempool \subseteq Commitment /\ chain \subseteq Commitment /\ commitments \subseteq Commitment
         /\ MonitorsOK(monitor)
         /\ status \in {"RUNNING", "PAUSED"} => starts > 0
         /\ \A m \in Monitors : monitor[m].at # "rest" => starts > 0
<1>1. starts \in Nat => starts <= starts
  BY SMT
<1> QED  BY <1>1 DEF TradeInv, TradeTypeOK, SoFarStarted

LEMMA StartKeepsTrade == ASSUME TradeInv, Start PROVE TradeInv'
<1>1. /\ starting + starts < MaxStarts /\ status' = "STARTING" /\ starting' = starting + 1
      /\ UNCHANGED <<starts, nonceCounter, monitor, cooling, mempool, chain, commitments>>
  BY DEF Start, AgentStartBegins
<1>2. starting' \in Nat /\ starting' + starts' <= MaxStarts
  BY <1>1, TradeTypes, TradingAssumption, SMT
<1> QED  BY <1>1, <1>2, TradeTypes, TradeKept

LEMMA StartedKeepsTrade == ASSUME TradeInv, Started PROVE TradeInv'
<1>1. /\ starting > 0 /\ starting' = starting - 1 /\ starts' = starts + 1
      /\ UNCHANGED <<cooling, mempool, chain, commitments>>
      /\ nonceCounter' = [p \in TradePools |-> 0] \/ nonceCounter' = nonceCounter
      /\ EnterMonitor \/ monitor' = monitor
  BY DEF Started
<1>2. starting' \in Nat /\ starts' \in Nat /\ starts' > 0 /\ starts <= starts' /\ starting' + starts' <= MaxStarts
  BY <1>1, TradeTypes, TradingAssumption, SMT
<1>3. nonceCounter' \in [TradePools -> Nat]
  BY <1>1, TradeTypes
<1>4. MonitorsOK(monitor')
  BY <1>1, TradeTypes, EnterOK
<1> QED  BY <1>1, <1>2, <1>3, <1>4, TradeTypes, TradeKept

(* Steps that leave the trades alone, but for entering monitorPools.       *)
LEMMA StatusKeepsTrade ==
  ASSUME TradeInv, UNCHANGED <<starting, starts, nonceCounter, cooling, mempool, chain, commitments>>,
         monitor' = monitor \/ (EnterMonitor /\ starts > 0),
         status' \in {"RUNNING", "PAUSED"} => status \in {"RUNNING", "PAUSED"}
  PROVE  TradeInv'
<1>1. MonitorsOK(monitor')
  BY TradeTypes, EnterOK
<1> QED  BY <1>1, TradeTypes, TradeKept

LEMMA OthersKeepTrade ==
  ASSUME TradeInv, Stop \/ Pause \/ Resume \/ Tick
  PROVE  TradeInv'
<1>1. CASE Stop \/ Pause
  <2>1. UNCHANGED tradeVars /\ (status' = status \/ status' = "STOPPED" \/ status = "RUNNING")
    BY <1>1 DEF Stop, Pause, AgentStop, AgentPause
  <2> QED  BY <2>1, StatusKeepsTrade DEF tradeVars
<1>2. CASE Resume
  <2>1. /\ status = "PAUSED" /\ EnterMonitor
        /\ UNCHANGED <<starting, starts, nonceCounter, cooling, mempool, chain, commitments>>
    BY <1>2 DEF Resume, AgentResume
  <2> QED  BY <2>1, TradeTypes, StatusKeepsTrade
<1>3. CASE Tick
  <2>1. /\ status = "RUNNING" /\ EnterMonitor /\ status' = status
        /\ UNCHANGED <<starting, starts, nonceCounter, cooling, mempool, chain, commitments>>
    BY <1>3 DEF Tick, statusVars
  <2> QED  BY <2>1, TradeTypes, StatusKeepsTrade
<1> QED  BY <1>1, <1>2, <1>3

(* A call of monitorPools that is at a pool.                               *)
LEMMA PollKept ==
  ASSUME TradeInv, NEW m \in Monitors, monitor[m].at # "rest", MonitorsOK(monitor'),
         UNCHANGED <<statusVars, starting, starts>>,
         nonceCounter' \in [TradePools -> Nat], cooling' \subseteq TradePools,
         mempool' \subseteq Commitment, chain' \subseteq Commitment, commitments' \subseteq Commitment
  PROVE  TradeInv'
<1>1. starts > 0 /\ status' = status
  BY TradeTypes DEF statusVars
<1> QED  BY <1>1, TradeTypes, TradeKept

LEMMA PoolOfMonitor ==
  ASSUME MonitorsOK(monitor), NEW m \in Monitors, monitor[m].at # "rest"
  PROVE  AgentPoolOf(m) \in TradePools
<1>1. monitor[m].i \in 0..Len(PoolOrder) /\ monitor[m].i > 0
  BY OneMonitorOK DEF MonitorOK, MonitorRecord
<1>2. monitor[m].i \in 1..Len(PoolOrder)
  BY <1>1, PoolCount, SMT
<1> QED  BY <1>2 DEF AgentPoolOf, TradePools

LEMMA HashOK ==
  ASSUME MonitorsOK(monitor), NEW m \in Monitors, monitor[m].at \in {"send", "wait"}
  PROVE  HashOfMonitor(m) \in Commitment
  BY PoolOfMonitor, OneMonitorOK DEF MonitorOK, HashOfMonitor, Commitment

LEMMA PollKeepsTrade ==
  ASSUME TradeInv, NEW m \in Monitors, Fetched(m) \/ Decided(m) \/ Sent(m) \/ Confirmed(m) \/ WaitFails(m)
  PROVE  TradeInv'
<1> DEFINE r == monitor[m]
<1>0. MonitorsOK(monitor) /\ r \in MonitorRecord /\ MonitorOK(r) /\ MonitorOK(After(r.i))
  BY TradeTypes, OneMonitorOK
<1>m. monitor' = [monitor EXCEPT ![m] = After(r.i)] => MonitorsOK(monitor')
  <2> DEFINE next == After(r.i)
  <2>1. MonitorOK(next)
    BY <1>0
  <2> HIDE DEF next
  <2>2. MonitorsOK([monitor EXCEPT ![m] = next])
    BY <1>0, <2>1, MovedOK
  <2> QED  BY <2>2 DEF next
<1>1. CASE Fetched(m)
  <2>1. r.at = "fetch" /\ UNCHANGED <<statusVars, starting, starts, nonceCounter, cooling, mempool, chain, commitments>>
    BY <1>1 DEF Fetched
  <2>2. MonitorsOK(monitor')
    <3>1. CASE monitor' = [monitor EXCEPT ![m] = After(r.i)]
      BY <1>m, <3>1
    <3>2. CASE monitor' = [monitor EXCEPT ![m] = [r EXCEPT !.at = "decide"]]
      <4>1. MonitorOK([r EXCEPT !.at = "decide"])
        BY <1>0, <2>1 DEF MonitorOK, MonitorRecord, MonitorAt
      <4> QED  BY <1>0, <3>2, <4>1, MovedOK
    <3> QED  BY <1>1, <3>1, <3>2 DEF Fetched
  <2> QED  BY <2>1, <2>2, TradeTypes, PollKept
<1>2. CASE Decided(m)
  <2> DEFINE p == AgentPoolOf(m)
             nonce == nonceCounter[p] + 1
             moved == [r EXCEPT !.at = "send", !.nonce = nonce, !.start = starts]
  <2>1. /\ r.at = "decide" /\ nonce <= MaxNonce /\ cooling' = cooling \cup {p}
        /\ nonceCounter' = [nonceCounter EXCEPT ![p] = nonce]
        /\ monitor' = [monitor EXCEPT ![m] = moved]
        /\ UNCHANGED <<statusVars, starting, starts, mempool, chain, commitments>>
    BY <1>2 DEF Decided
  <2>2. p \in TradePools
    BY <1>0, <2>1, PoolOfMonitor
  <2>3. nonceCounter[p] \in Nat /\ starting \in Nat /\ starts \in Nat /\ starts > 0 /\ starting + starts <= MaxStarts
    BY <2>1, <2>2, TradeTypes
  <2>4. nonce \in Nat /\ nonce \in 1..MaxNonce /\ starts \in 1..MaxStarts
    BY <2>1, <2>3, TradingAssumption, SMT
  <2> HIDE DEF nonce
  <2>5. MonitorOK(moved)
    BY <1>0, <2>1, <2>3, <2>4 DEF MonitorOK, MonitorRecord, MonitorAt
  <2> HIDE DEF moved
  <2>6. MonitorsOK(monitor')
    BY <1>0, <2>1, <2>5, MovedOK
  <2>7. nonceCounter' \in [TradePools -> Nat] /\ cooling' \subseteq TradePools
    BY <2>1, <2>2, <2>4, TradeTypes
  <2> QED  BY <2>1, <2>6, <2>7, TradeTypes, PollKept
<1>3. CASE Sent(m)
  <2>1. r.at = "send" /\ UNCHANGED <<statusVars, starting, starts, nonceCounter, cooling, chain, commitments>>
    BY <1>3 DEF Sent
  <2>2. mempool' \in {mempool, mempool \cup {HashOfMonitor(m)}}
    BY <1>3 DEF Sent
  <2>3. mempool' \subseteq Commitment
    BY <1>0, <2>1, <2>2, HashOK, TradeTypes
  <2>4. MonitorsOK(monitor')
    <3>1. CASE monitor' = [monitor EXCEPT ![m] = After(r.i)]
      BY <1>m, <3>1
    <3>2. CASE monitor' = [monitor EXCEPT ![m] = [r EXCEPT !.at = "wait"]]
      <4>1. MonitorOK([r EXCEPT !.at = "wait"])
        BY <1>0, <2>1 DEF MonitorOK, MonitorRecord, MonitorAt
      <4> QED  BY <1>0, <3>2, <4>1, MovedOK
    <3> QED  BY <1>3, <3>1, <3>2 DEF Sent
  <2> QED  BY <2>1, <2>3, <2>4, TradeTypes, PollKept
<1>4. CASE Confirmed(m) \/ WaitFails(m)
  <2>1. /\ r.at = "wait" /\ monitor' = [monitor EXCEPT ![m] = After(r.i)]
        /\ UNCHANGED <<statusVars, starting, starts, nonceCounter, cooling, mempool, chain>>
        /\ commitments' \in {commitments, commitments \cup {HashOfMonitor(m)}}
    BY <1>4 DEF Confirmed, WaitFails
  <2>2. commitments' \subseteq Commitment
    BY <1>0, <2>1, HashOK, TradeTypes
  <2> QED  BY <1>m, <2>1, <2>2, TradeTypes, PollKept
<1> QED  BY <1>1, <1>2, <1>3, <1>4

LEMMA TradeStep == TradeInv /\ [ManagedNext]_managedVars => TradeInv'
<1> SUFFICES ASSUME TradeInv, [ManagedNext]_managedVars PROVE TradeInv'
  OBVIOUS
<1>1. ASSUME NEW h \in mempool, Mine(h) PROVE TradeInv'
  <2>1. mempool' \subseteq Commitment /\ chain' \subseteq Commitment
    BY <1>1, TradeTypes DEF Mine
  <2> QED  BY <1>1, <2>1, TradeTypes, TradeKept DEF Mine, statusVars
<1>2. ASSUME NEW p \in cooling, CooldownEnds(p) PROVE TradeInv'
  <2>1. cooling' \subseteq TradePools
    BY <1>2, TradeTypes DEF CooldownEnds
  <2> QED  BY <1>2, <2>1, TradeTypes, TradeKept DEF CooldownEnds, statusVars
<1>3. CASE AgentNext
  BY <1>1, <1>2, <1>3, StartKeepsTrade, StartedKeepsTrade, OthersKeepTrade, PollKeepsTrade DEF AgentNext
<1>4. ASSUME UNCHANGED tradeVars, status' = status \/ status' = "STOPPED" PROVE TradeInv'
  BY <1>4, StatusKeepsTrade DEF tradeVars
<1>5. CASE ManagerStop
  BY <1>4, <1>5 DEF ManagerStop, AgentStop
<1>6. CASE ManagerStart \/ MonitorTick \/ Collect
  BY <1>4, <1>6 DEF ManagerStart, MonitorTick, Collect, agentVars, statusVars
<1>7. ASSUME NEW c \in Checks,
             CheckTick(c) \/ Checked(c) \/ BatchRefused(c)
      PROVE  TradeInv'
  BY <1>4, <1>7 DEF CheckTick, Checked, BatchRefused, agentVars, statusVars
<1>8. CASE UNCHANGED managedVars
  BY <1>4, <1>8 DEF managedVars, agentVars, statusVars
<1> QED  BY <1>3, <1>5, <1>6, <1>7, <1>8 DEF ManagedNext

LEMMA TradeStarts == ManagerInit => TradeInv
<1> SUFFICES ASSUME ManagerInit PROVE TradeInv
  OBVIOUS
<1>1. /\ status = "STOPPED" /\ starting = 0 /\ starts = 0 /\ nonceCounter = [p \in TradePools |-> 0]
      /\ monitor = [m \in Monitors |-> AtRest]
      /\ cooling = {} /\ mempool = {} /\ chain = {} /\ commitments = {}
  BY DEF ManagerInit, AgentInit, StatusInit, TradeInit
<1>2. 0 \in 0..Len(PoolOrder) /\ 0 + 0 <= MaxStarts
  BY PoolCount, TradingAssumption, SMT
<1>3. AtRest.at = "rest" /\ MonitorOK(AtRest)
  BY <1>2 DEF AtRest, MonitorOK, MonitorRecord, MonitorAt
<1>4. MonitorsOK(monitor) /\ \A m \in Monitors : monitor[m].at = "rest"
  BY <1>1, <1>3 DEF MonitorsOK, MonitorOK
<1>5. SoFarStarted
  BY <1>1, <1>2, <1>4 DEF SoFarStarted
<1>6. TradeTypeOK
  BY <1>1, <1>4, TypesOfTrade DEF MonitorsOK
<1> QED  BY <1>4, <1>5, <1>6 DEF TradeInv

(* Every variable of the agent keeps its type, however its polls overlap:  *)
(* in particular only hashes that the agent has drawn a nonce for reach    *)
(* the chain and the map of what it can reveal (submitCommitment).         *)
THEOREM TradeTypeCorrect == ManagedSpec => []TradeTypeOK
<1>1. TradeInv => TradeTypeOK
  BY DEF TradeInv
<1> QED  BY TradeStarts, TradeStep, <1>1, PTL DEF ManagedSpec

(* ------------------------------- Nonces -------------------------------- *)

(* NonceUsedOnce is not inductive: a new nonce is unused because all that  *)
(* are in use since the last start() are at most the counter.              *)
HashIn(r) == [pool |-> PoolOrder[r.i], nonce |-> r.nonce, start |-> r.start]
Behind(h) == h.start <= starts /\ (h.start = starts => h.nonce <= nonceCounter[h.pool])
NoncesBehind ==
    /\ \A h \in mempool \cup chain : Behind(h)
    /\ \A m \in Monitors : InSubmission(m) => Behind(HashOfMonitor(m))
NonceInv == TradeInv /\ NoncesBehind /\ NonceUsedOnce

(* A hash that is in use is still behind when the counter moves on or the  *)
(* agent starts again.                                                     *)
CounterMovesOn ==
    \/ starts' = starts /\ nonceCounter' = nonceCounter
    \/ starts' = starts + 1
    \/ /\ starts' = starts
       /\ \E p \in TradePools : nonceCounter' = [nonceCounter EXCEPT ![p] = @ + 1]

LEMMA StaysBehind ==
  ASSUME TradeInv, CounterMovesOn, NEW h \in Commitment, Behind(h)
  PROVE  Behind(h)'
<1>1. starts \in Nat /\ nonceCounter \in [TradePools -> Nat]
  BY TradeTypes
<1>2. h.start \in Nat /\ h.nonce \in Nat /\ h.pool \in TradePools
  BY TradingAssumption, SMT DEF Commitment
<1>3. CASE starts' = starts /\ nonceCounter' = nonceCounter
  BY <1>3 DEF Behind
<1>4. CASE starts' = starts + 1
  <2>1. h.start <= starts' /\ h.start # starts'
    BY <1>1, <1>2, <1>4, SMT DEF Behind
  <2> QED  BY <2>1 DEF Behind
<1>5. ASSUME starts' = starts, NEW p \in TradePools, nonceCounter' = [nonceCounter EXCEPT ![p] = @ + 1]
      PROVE  Behind(h)'
  <2>1. nonceCounter'[h.pool] \in {nonceCounter[h.pool], nonceCounter[h.pool] + 1}
    BY <1>1, <1>2, <1>5
  <2>2. nonceCounter[h.pool] \in Nat
    BY <1>1, <1>2
  <2>3. h.start = starts => h.nonce <= nonceCounter'[h.pool]
    BY <1>2, <2>1, <2>2, SMT DEF Behind
  <2> QED  BY <1>5, <2>3 DEF Behind
<1> QED  BY <1>3, <1>4, <1>5 DEF CounterMovesOn

(* Calls of monitorPools that submit go on doing so or are over, and no    *)
(* transaction is new.                                                     *)
NothingDrawn ==
    /\ mempool' \cup chain' \subseteq mempool \cup chain
    /\ \A m \in Monitors : monitor'[m].at \in {"send", "wait"} => monitor'[m] = monitor[m]

LEMMA UsedAreCommitments ==
  ASSUME TradeInv
  PROVE  /\ \A h \in mempool \cup chain : h \in Commitment
         /\ \A m \in Monitors : InSubmission(m) => HashOfMonitor(m) \in Commitment
  BY TradeTypes, HashOK DEF InSubmission

LEMMA NothingDrawnKeeps ==
  ASSUME NonceInv, NothingDrawn, CounterMovesOn
  PROVE  NoncesBehind' /\ NonceUsedOnce'
<1>0. TradeInv /\ NoncesBehind /\ NonceUsedOnce
  BY DEF NonceInv
<1>1. ASSUME NEW h \in mempool' \cup chain' PROVE Behind(h)'
  BY <1>0, <1>1, UsedAreCommitments, StaysBehind DEF NothingDrawn, NoncesBehind
<1>2. ASSUME NEW m \in Monitors, monitor'[m].at \in {"send", "wait"}
      PROVE  monitor'[m] = monitor[m] /\ InSubmission(m) /\ HashOfMonitor(m)' = HashOfMonitor(m)
  BY <1>2 DEF NothingDrawn, InSubmission, HashOfMonitor, AgentPoolOf
<1>3. ASSUME NEW m \in Monitors, InSubmission(m)' PROVE Behind(HashOfMonitor(m))'
  <2>1. \A h \in Commitment : Behind(h) =>
           h.start <= starts' /\ (h.start = starts' => h.nonce <= nonceCounter'[h.pool])
    BY <1>0, StaysBehind DEF Behind
  <2>2. InSubmission(m) /\ HashOfMonitor(m)' = HashOfMonitor(m)
    BY <1>2, <1>3 DEF InSubmission
  <2>3. HashOfMonitor(m) \in Commitment /\ Behind(HashOfMonitor(m))
    BY <1>0, <2>2, UsedAreCommitments DEF NoncesBehind
  <2> QED  BY <2>1, <2>2, <2>3 DEF Behind
<1>4. NoncesBehind'
  BY <1>1, <1>3 DEF NoncesBehind
<1>5. ASSUME NEW m \in Monitors, monitor'[m].at = "send"
      PROVE  /\ HashOfMonitor(m)' \notin mempool' \cup chain'
             /\ \A k \in Monitors \ {m} : InSubmission(k)' => HashOfMonitor(k)' # HashOfMonitor(m)'
  <2>1. monitor[m].at = "send" /\ HashOfMonitor(m)' = HashOfMonitor(m)
    BY <1>2, <1>5
  <2>2. HashOfMonitor(m) \notin mempool \cup chain
    BY <1>0, <2>1 DEF NonceUsedOnce
  <2>3. ASSUME NEW k \in Monitors \ {m}, InSubmission(k)' PROVE HashOfMonitor(k)' # HashOfMonitor(m)'
    <3>1. InSubmission(k) /\ HashOfMonitor(k)' = HashOfMonitor(k)
      BY <1>2, <2>3 DEF InSubmission
    <3> QED  BY <1>0, <2>1, <3>1 DEF NonceUsedOnce
  <2> QED  BY <2>1, <2>2, <2>3 DEF NothingDrawn
<1>6. NonceUsedOnce'
  BY <1>5 DEF NonceUsedOnce
<1> QED  BY <1>4, <1>6

(* Entering monitorPools, and leaving a pool, draws nothing.               *)
LEMMA EnterDraws ==
  ASSUME MonitorsOK(monitor), EnterMonitor, mempool' \cup chain' \subseteq mempool \cup chain
  PROVE  NothingDrawn
<1>1. PICK e \in Monitors : monitor' = [monitor EXCEPT ![e] = After(0)]
  BY DEF EnterMonitor
<1>2. After(0).at \notin {"send", "wait"}
  BY DEF After, Arriving, AtRest
<1> QED  BY <1>1, <1>2 DEF MonitorsOK, NothingDrawn

LEMMA LeaveDraws ==
  ASSUME MonitorsOK(monitor), NEW m \in Monitors, NEW r, r.at \notin {"send", "wait"},
         monitor' = [monitor EXCEPT ![m] = r], mempool' \cup chain' \subseteq mempool \cup chain
  PROVE  NothingDrawn
  BY DEF MonitorsOK, NothingDrawn

LEMMA AfterLeaves == \A k : After(k).at \notin {"send", "wait"}
  BY DEF After, Arriving, AtRest

LEMMA DecidedUsesOnce ==
  ASSUME NonceInv, NEW m \in Monitors, Decided(m)
  PROVE  NoncesBehind' /\ NonceUsedOnce'
<1> DEFINE p == AgentPoolOf(m)
           nonce == nonceCounter[p] + 1
           moved == [monitor[m] EXCEPT !.at = "send", !.nonce = nonce, !.start = starts]
<1>0. TradeInv /\ NoncesBehind /\ NonceUsedOnce /\ MonitorsOK(monitor)
  BY TradeTypes DEF NonceInv
<1>1. /\ monitor[m].at = "decide" /\ nonceCounter' = [nonceCounter EXCEPT ![p] = @ + 1]
      /\ monitor' = [monitor EXCEPT ![m] = moved]
      /\ UNCHANGED <<starts, mempool, chain>>
  BY <1>0, TradeTypes DEF Decided
<1>2. p \in TradePools /\ nonceCounter \in [TradePools -> Nat] /\ starts \in Nat
  BY <1>0, <1>1, PoolOfMonitor, TradeTypes
<1>3. CounterMovesOn
  BY <1>1, <1>2 DEF CounterMovesOn
<1>4. /\ monitor'[m].at = "send" /\ HashIn(monitor'[m]) = [pool |-> p, nonce |-> nonce, start |-> starts]
      /\ \A k \in Monitors \ {m} : monitor'[k] = monitor[k]
  <2>1. /\ monitor[m] \in MonitorRecord /\ monitor \in [Monitors -> MonitorRecord]
    BY <1>0, OneMonitorOK DEF MonitorsOK
  <2>2. monitor'[m] = moved /\ \A k \in Monitors \ {m} : monitor'[k] = monitor[k]
    BY <1>1, <2>1
  <2>3. moved.at = "send" /\ HashIn(moved) = [pool |-> p, nonce |-> nonce, start |-> starts]
    BY <2>1 DEF MonitorRecord, HashIn, AgentPoolOf
  <2> HIDE DEF moved
  <2> QED  BY <2>2, <2>3
<1>5. \A k \in Monitors : HashOfMonitor(k) = HashIn(monitor[k]) /\ HashOfMonitor(k)' = HashIn(monitor'[k])
  BY DEF HashOfMonitor, AgentPoolOf, HashIn
<1>6. ASSUME NEW h \in Commitment, Behind(h)
      PROVE  h # [pool |-> p, nonce |-> nonce, start |-> starts]
  <2>1. h.start = starts /\ h.pool = p => h.nonce <= nonceCounter[p]
    BY <1>6 DEF Behind
  <2>2. h.nonce \in Nat /\ nonceCounter[p] \in Nat
    BY <1>2, TradingAssumption, SMT DEF Commitment
  <2>3. h.start = starts /\ h.pool = p => h.nonce # nonce
    BY <2>1, <2>2, SMT
  <2> QED  BY <2>3
<1>7. \A h \in mempool' \cup chain' : h \in Commitment /\ Behind(h) /\ Behind(h)'
  BY <1>0, <1>1, <1>3, UsedAreCommitments, StaysBehind DEF NoncesBehind
<1>8. ASSUME NEW k \in Monitors \ {m}, InSubmission(k)'
      PROVE  /\ InSubmission(k) /\ HashOfMonitor(k)' = HashOfMonitor(k)
             /\ HashOfMonitor(k) \in Commitment /\ Behind(HashOfMonitor(k))
  <2>1. InSubmission(k) /\ HashOfMonitor(k)' = HashOfMonitor(k)
    BY <1>4, <1>5, <1>8 DEF InSubmission
  <2> QED  BY <1>0, <2>1, UsedAreCommitments DEF NoncesBehind
<1> HIDE DEF p, nonce, moved
<1>9. ASSUME NEW k \in Monitors, InSubmission(k)' PROVE Behind(HashOfMonitor(k))'
  <2>1. CASE k = m
    <3> DEFINE h == [pool |-> p, nonce |-> nonce, start |-> starts]
    <3>1. HashOfMonitor(k)' = h
      BY <1>4, <1>5, <2>1
    <3>2. nonceCounter'[p] = nonce /\ starts' = starts /\ nonce \in Nat
      BY <1>1, <1>2 DEF nonce
    <3>3. starts <= starts /\ nonce <= nonce
      BY <1>2, <3>2, SMT
    <3>4. h.start <= starts' /\ (h.start = starts' => h.nonce <= nonceCounter'[h.pool])
      BY <3>2, <3>3
    <3> HIDE DEF h
    <3> QED  BY <3>1, <3>4 DEF Behind
  <2>2. CASE k # m
    <3>1. \A h \in Commitment : Behind(h) =>
             h.start <= starts' /\ (h.start = starts' => h.nonce <= nonceCounter'[h.pool])
      BY <1>0, <1>3, StaysBehind DEF Behind
    <3>2. HashOfMonitor(k) \in Commitment /\ Behind(HashOfMonitor(k)) /\ HashOfMonitor(k)' = HashOfMonitor(k)
      BY <1>8, <1>9, <2>2
    <3> QED  BY <3>1, <3>2 DEF Behind
  <2> QED  BY <2>1, <2>2
<1>10. NoncesBehind'
  BY <1>7, <1>9 DEF NoncesBehind
<1>11. ASSUME NEW k \in Monitors, monitor'[k].at = "send"
       PROVE  /\ HashOfMonitor(k)' \notin mempool' \cup chain'
              /\ \A l \in Monitors \ {k} : InSubmission(l)' => HashOfMonitor(l)' # HashOfMonitor(k)'
  <2>1. CASE k = m
    <3>1. HashOfMonitor(k)' = [pool |-> p, nonce |-> nonce, start |-> starts]
      BY <1>4, <1>5, <2>1
    <3>2. \A l \in Monitors \ {k} : InSubmission(l)' => HashOfMonitor(l)' # HashOfMonitor(k)'
      BY <1>6, <1>8, <2>1, <3>1
    <3> QED  BY <1>6, <1>7, <3>1, <3>2
  <2>2. CASE k # m
    <3>1. InSubmission(k)' /\ monitor[k].at = "send"
      BY <1>4, <1>11, <2>2 DEF InSubmission
    <3>2. HashOfMonitor(k)' = HashOfMonitor(k) /\ HashOfMonitor(k) \in Commitment /\ Behind(HashOfMonitor(k))
      BY <1>8, <2>2, <3>1
    <3>3. HashOfMonitor(k) \notin mempool' \cup chain'
      BY <1>0, <1>1, <3>1 DEF NonceUsedOnce
    <3>4. ASSUME NEW l \in Monitors \ {k}, InSubmission(l)' PROVE HashOfMonitor(l)' # HashOfMonitor(k)'
      <4>1. CASE l = m
        BY <1>4, <1>5, <1>6, <3>2, <4>1
      <4>2. CASE l # m
        BY <1>0, <1>8, <3>1, <3>2, <3>4, <4>2 DEF NonceUsedOnce
      <4> QED  BY <4>1, <4>2
    <3> QED  BY <3>2, <3>3, <3>4
  <2> QED  BY <2>1, <2>2
<1>12. NonceUsedOnce'
  BY <1>11 DEF NonceUsedOnce
<1> QED  BY <1>10, <1>12

(* The transaction is accepted: the hash is in the mempool from now on.    *)
LEMMA AcceptedUsesOnce ==
  ASSUME NonceInv, NEW m \in Monitors, Sent(m), mempool' = mempool \cup {HashOfMonitor(m)},
         monitor' = [monitor EXCEPT ![m].at = "wait"]
  PROVE  NoncesBehind' /\ NonceUsedOnce'
<1>0. TradeInv /\ NoncesBehind /\ NonceUsedOnce /\ MonitorsOK(monitor)
  BY TradeTypes DEF NonceInv
<1>1. monitor[m].at = "send" /\ InSubmission(m) /\ UNCHANGED <<starts, nonceCounter, chain>>
  BY DEF Sent, InSubmission
<1>2. /\ monitor'[m].at = "wait" /\ HashOfMonitor(m)' = HashOfMonitor(m)
      /\ \A k \in Monitors \ {m} : monitor'[k] = monitor[k] /\ HashOfMonitor(k)' = HashOfMonitor(k)
  <2>1. monitor[m] \in MonitorRecord /\ monitor \in [Monitors -> MonitorRecord]
    BY <1>0, OneMonitorOK DEF MonitorsOK
  <2>2. /\ monitor'[m] = [monitor[m] EXCEPT !.at = "wait"]
        /\ \A k \in Monitors \ {m} : monitor'[k] = monitor[k]
    BY <2>1
  <2> QED  BY <2>1, <2>2 DEF HashOfMonitor, AgentPoolOf, MonitorRecord
<1>3. \A k \in Monitors : InSubmission(k)' => InSubmission(k) /\ HashOfMonitor(k)' = HashOfMonitor(k)
  BY <1>1, <1>2 DEF InSubmission
<1>4. \A h : Behind(h)' <=> Behind(h)
  BY <1>1 DEF Behind
<1>5. Behind(HashOfMonitor(m))
  BY <1>0, <1>1 DEF NoncesBehind
<1>6. \A h \in mempool' \cup chain' : Behind(h)'
  BY <1>0, <1>1, <1>4, <1>5 DEF NoncesBehind
<1>7. ASSUME NEW k \in Monitors, InSubmission(k)' PROVE Behind(HashOfMonitor(k))'
  <2> DEFINE h == HashOfMonitor(k)
  <2>1. HashOfMonitor(k)' = h /\ Behind(h)
    BY <1>0, <1>3, <1>7 DEF NoncesBehind
  <2> HIDE DEF h
  <2> QED  BY <1>1, <2>1 DEF Behind
<1>8. NoncesBehind'
  BY <1>6, <1>7 DEF NoncesBehind
<1>9. ASSUME NEW k \in Monitors, monitor'[k].at = "send"
      PROVE  /\ HashOfMonitor(k)' \notin mempool' \cup chain'
             /\ \A l \in Monitors \ {k} : InSubmission(l)' => HashOfMonitor(l)' # HashOfMonitor(k)'
  <2>1. k # m /\ monitor[k].at = "send" /\ HashOfMonitor(k)' = HashOfMonitor(k)
    BY <1>2, <1>9
  <2>2. HashOfMonitor(k) \notin mempool \cup chain /\ HashOfMonitor(m) # HashOfMonitor(k)
    BY <1>0, <1>1, <2>1 DEF NonceUsedOnce
  <2>3. \A l \in Monitors \ {k} : InSubmission(l)' => HashOfMonitor(l)' # HashOfMonitor(k)'
    BY <1>0, <1>3, <2>1 DEF NonceUsedOnce
  <2> QED  BY <1>1, <2>1, <2>2, <2>3
<1>10. NonceUsedOnce'
  BY <1>9 DEF NonceUsedOnce
<1> QED  BY <1>8, <1>10

LEMMA AgentUsesOnce == NonceInv /\ AgentNext => NoncesBehind' /\ NonceUsedOnce'
<1> SUFFICES ASSUME NonceInv, AgentNext PROVE NoncesBehind' /\ NonceUsedOnce'
  OBVIOUS
<1>0. MonitorsOK(monitor)
  BY TradeTypes DEF NonceInv
<1>s. ASSUME UNCHANGED <<starts, nonceCounter, monitor>>, mempool' \cup chain' \subseteq mempool \cup chain
      PROVE  NoncesBehind' /\ NonceUsedOnce'
  BY <1>s, NothingDrawnKeeps DEF NothingDrawn, CounterMovesOn
<1>1. CASE Start \/ Stop \/ Pause
  BY <1>1, <1>s DEF Start, Stop, Pause, tradeVars
<1>2. CASE Started
  <2>1. starts' = starts + 1 /\ UNCHANGED <<mempool, chain>> /\ (EnterMonitor \/ monitor' = monitor)
    BY <1>2 DEF Started
  <2>2. NothingDrawn
    BY <1>0, <2>1, EnterDraws DEF NothingDrawn
  <2> QED  BY <2>1, <2>2, NothingDrawnKeeps DEF CounterMovesOn
<1>3. CASE Resume \/ Tick
  <2>1. EnterMonitor /\ UNCHANGED <<starts, nonceCounter, mempool, chain>>
    BY <1>3 DEF Resume, Tick
  <2>2. NothingDrawn
    BY <1>0, <2>1, EnterDraws
  <2> QED  BY <2>1, <2>2, NothingDrawnKeeps DEF CounterMovesOn
<1>4. ASSUME NEW m \in Monitors, NEW r, r.at \notin {"send", "wait"},
             monitor' = [monitor EXCEPT ![m] = r], UNCHANGED <<starts, nonceCounter, mempool, chain>>
      PROVE  NoncesBehind' /\ NonceUsedOnce'
  <2>1. NothingDrawn
    BY <1>0, <1>4, LeaveDraws
  <2> QED  BY <1>4, <2>1, NothingDrawnKeeps DEF CounterMovesOn
<1>5. ASSUME NEW m \in Monitors, monitor' = [monitor EXCEPT ![m] = After(@.i)],
             UNCHANGED <<starts, nonceCounter, mempool, chain>>
      PROVE  NoncesBehind' /\ NonceUsedOnce'
  <2> DEFINE r == After(monitor[m].i)
  <2>1. r.at \notin {"send", "wait"} /\ monitor' = [monitor EXCEPT ![m] = r]
    BY <1>0, <1>5, AfterLeaves DEF MonitorsOK
  <2> HIDE DEF r
  <2> QED  BY <1>4, <1>5, <2>1
<1>6. ASSUME NEW m \in Monitors, Fetched(m) PROVE NoncesBehind' /\ NonceUsedOnce'
  <2>1. UNCHANGED <<starts, nonceCounter, mempool, chain>>
    BY <1>6 DEF Fetched
  <2>2. CASE monitor' = [monitor EXCEPT ![m].at = "decide"]
    <3> DEFINE r == [monitor[m] EXCEPT !.at = "decide"]
    <3>1. r.at \notin {"send", "wait"} /\ monitor' = [monitor EXCEPT ![m] = r]
      BY <1>0, <2>2, OneMonitorOK DEF MonitorsOK, MonitorRecord
    <3> HIDE DEF r
    <3> QED  BY <1>4, <2>1, <3>1
  <2> QED  BY <1>5, <1>6, <2>1, <2>2 DEF Fetched
<1>7. ASSUME NEW m \in Monitors, Sent(m) PROVE NoncesBehind' /\ NonceUsedOnce'
  BY <1>5, <1>7, AcceptedUsesOnce DEF Sent
<1>8. ASSUME NEW m \in Monitors, Confirmed(m) \/ WaitFails(m) PROVE NoncesBehind' /\ NonceUsedOnce'
  BY <1>5, <1>8 DEF Confirmed, WaitFails
<1>9. ASSUME NEW h \in mempool, Mine(h) PROVE NoncesBehind' /\ NonceUsedOnce'
  BY <1>s, <1>9 DEF Mine
<1>10. ASSUME NEW p \in cooling, CooldownEnds(p) PROVE NoncesBehind' /\ NonceUsedOnce'
  BY <1>s, <1>10 DEF CooldownEnds
<1> QED  BY <1>1, <1>2, <1>3, <1>6, <1>7, <1>8, <1>9, <1>10, DecidedUsesOnce DEF AgentNext

LEMMA NonceStep == NonceInv /\ [ManagedNext]_managedVars => NonceInv'
<1> SUFFICES ASSUME NonceInv, [ManagedNext]_managedVars PROVE NonceInv'
  OBVIOUS
<1>1. TradeInv'
  BY TradeStep DEF NonceInv
<1>2. CASE AgentNext
  BY <1>1, <1>2, AgentUsesOnce DEF NonceInv
<1>3. CASE UNCHANGED tradeVars
  <2>1. NothingDrawn /\ CounterMovesOn
    BY <1>3 DEF tradeVars, NothingDrawn, CounterMovesOn
  <2> QED  BY <1>1, <2>1, NothingDrawnKeeps DEF NonceInv
<1>4. ASSUME NEW c \in Checks, CheckTick(c) \/ Checked(c) \/ BatchRefused(c) PROVE UNCHANGED tradeVars
  BY <1>4 DEF CheckTick, Checked, BatchRefused, agentVars
<1>5. CASE ManagerStart \/ ManagerStop \/ MonitorTick \/ Collect \/ UNCHANGED managedVars
  BY <1>3, <1>5 DEF ManagerStart, ManagerStop, MonitorTick, Collect, managedVars, agentVars
<1> QED  BY <1>2, <1>3, <1>4, <1>5 DEF ManagedNext

LEMMA NonceStarts == ManagerInit => NonceInv
<1> SUFFICES ASSUME ManagerInit PROVE NonceInv
  OBVIOUS
<1>1. mempool = {} /\ chain = {} /\ monitor = [m \in Monitors |-> AtRest]
  BY DEF ManagerInit, AgentInit, TradeInit
<1>2. \A m \in Monitors : monitor[m].at = "rest"
  BY <1>1 DEF AtRest
<1> QED  BY <1>1, <1>2, TradeStarts DEF NonceInv, NoncesBehind, NonceUsedOnce, InSubmission

(* However many polls overlap, and whenever the agent is restarted, no two *)
(* submissions in progress have drawn one nonce of a pool, and none is     *)
(* sent with a nonce that has been used since the last start()             *)
(* (getNextNonce, submitCommitment).                                       *)
THEOREM NoncesUsedOnce == ManagedSpec => []NonceUsedOnce
<1>1. NonceInv => NonceUsedOnce
  BY DEF NonceInv
<1> QED  BY NonceStarts, NonceStep, <1>1, PTL DEF ManagedSpec
=============================================================================
