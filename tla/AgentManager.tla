---------------------------- MODULE AgentManager ----------------------------
(***************************************************************************)
(* agents/AgentManager.ts, its batch side, over one TradingAgent: the      *)
(* monitor loop collects the agent's commitments, the batch loop asks the  *)
(* hook's checker and offers what was collected.  Neither loop waits for   *)
(* its previous run, so batch checks overlap each other, collections and   *)
(* the agent's own polls.  AgentSupervision has the other side, restarts.  *)
(*                                                                         *)
(* No batch of the manager is ever executed: it calls                      *)
(*     revealAndBatchExecute(key, SwapIntent[])                            *)
(* while the hook has revealAndBatchExecute(key, bytes32[]) only, and no   *)
(* fallback.  The gas estimate of the call fails, and what executeBatch    *)
(* does after it (marking commitments as revealed, clearing the pending    *)
(* ones) is never reached.  So getPendingCommitments returns all that the  *)
(* agent has stored, and the manager's batches only grow.                  *)
(***************************************************************************)
EXTENDS TradingAgent

CONSTANT Checks     \* bound: checkAndExecuteBatches calls in flight

VARIABLES
    managing,       \* isRunning
    collecting,     \* monitorAgents calls are past their isRunning test
    pendingBatch,   \* pendingCommitments of each pool's batch state
    check           \* the checkAndExecuteBatches calls

managerVars == <<managing, collecting, pendingBatch, check>>
managedVars == <<agentVars, managerVars>>

NotChecking == [at |-> "rest", i |-> 0]
NextPool(k) == IF k < Len(PoolOrder) THEN [at |-> "checker", i |-> k + 1] ELSE NotChecking
PoolOfCheck(c) == PoolOrder[check[c].i]

ManagerInit ==
    /\ AgentInit
    /\ managing = FALSE /\ collecting = FALSE
    /\ pendingBatch = [p \in TradePools |-> {}]
    /\ check = [c \in Checks |-> NotChecking]

ManagerStart ==
    /\ ~managing /\ managing' = TRUE
    /\ UNCHANGED <<agentVars, collecting, pendingBatch, check>>

(* stopAll stops the agent; the calls in flight go on. *)
ManagerStop ==
    /\ managing /\ managing' = FALSE
    /\ AgentStop /\ UNCHANGED tradeVars
    /\ UNCHANGED <<collecting, pendingBatch, check>>

(* monitorAgents may wait for a restart between its test and collecting. *)
MonitorTick ==
    /\ managing /\ collecting' = TRUE
    /\ UNCHANGED <<agentVars, managing, pendingBatch, check>>

(* Mutant: collected only when nothing is pending. *)
WithPending_whenEmpty(p) ==
    IF pendingBatch[p] = {} THEN {h \in commitments : h.pool = p} ELSE pendingBatch[p]

(* addCommitmentToBatchState, for each that getPendingCommitments returns. *)
WithPending(p) == pendingBatch[p] \cup {h \in commitments : h.pool = p}

Collect ==
    /\ collecting /\ collecting' = FALSE
    /\ pendingBatch' = [p \in TradePools |-> WithPending(p)]
    /\ UNCHANGED <<agentVars, managing, check>>

CheckTick(c) ==
    /\ managing /\ check[c].at = "rest"
    /\ check' = [check EXCEPT ![c] = NextPool(0)]
    /\ UNCHANGED <<agentVars, managing, collecting, pendingBatch>>

(* checker answers, whatever it finds: it counts everybody's commitments   *)
(* and reads the time.  executeBatch is called if something is pending.    *)
Checked(c) ==
    /\ check[c].at = "checker"
    /\ \E canExec \in BOOLEAN :
          check' = IF canExec /\ pendingBatch[PoolOfCheck(c)] # {}
                   THEN [check EXCEPT ![c].at = "send"]
                   ELSE [check EXCEPT ![c] = NextPool(@.i)]
    /\ UNCHANGED <<agentVars, managing, collecting, pendingBatch>>

(* The call of revealAndBatchExecute throws; checkAndExecuteBatches logs   *)
(* the error and goes on with the next pool.                               *)
BatchRefused(c) ==
    /\ check[c].at = "send"
    /\ check' = [check EXCEPT ![c] = NextPool(@.i)]
    /\ UNCHANGED <<agentVars, managing, collecting, pendingBatch>>

ManagedNext ==
    \/ AgentNext /\ UNCHANGED managerVars
    \/ ManagerStart \/ ManagerStop \/ MonitorTick \/ Collect
    \/ \E c \in Checks : CheckTick(c) \/ Checked(c) \/ BatchRefused(c)

ManagedSpec == ManagerInit /\ [][ManagedNext]_managedVars

(* Both loops are interval timers, which tick while the manager runs, and  *)
(* calls return.                                                           *)
ManagedFairness ==
    /\ WF_managedVars(MonitorTick) /\ WF_managedVars(Collect)
    /\ \A c \in Checks : WF_managedVars(CheckTick(c) \/ Checked(c) \/ BatchRefused(c))

ManagerTypeOK ==
    /\ managing \in BOOLEAN /\ collecting \in BOOLEAN
    /\ pendingBatch \in [TradePools -> SUBSET commitments]
    /\ check \in [Checks -> [at : {"rest", "checker", "send"}, i : 0..Len(PoolOrder)]]
    /\ \A c \in Checks : check[c].i = 0 <=> check[c].at = "rest"

(* What the agent has stored reaches the batch state, unless the manager   *)
(* is stopped, although the loop may wait for restarts in between          *)
(* (monitorAgents, getPendingCommitments, addCommitmentToBatchState).      *)
StoredIsCollected ==
    \A h \in Commitment :
        (h \in commitments /\ managing) ~> (h \in pendingBatch[h.pool] \/ ~managing)
=============================================================================
