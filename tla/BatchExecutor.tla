--------------------------- MODULE BatchExecutor ---------------------------
(***************************************************************************)
(* agents/hooks: BatchExecutor.ts and RevealManager.ts, and the sendTx of  *)
(* PrivBatchHookClient.ts, against the hook contract as they see it.       *)
(*                                                                         *)
(* Reveals are kept off-chain, submitted to the contract, and executed in  *)
(* batches, by polls that a timer starts whether or not the last one has   *)
(* ended, and by direct calls.  A step of a run is what it does between    *)
(* two awaits.  A transaction takes two: it is mined, and it is answered;  *)
(* an answer may be lost, and a transaction may fail without being mined.  *)
(* sendTx's own retries resend what no node accepted and change nothing.   *)
(***************************************************************************)
EXTENDS Integers, FiniteSets

CONSTANTS
    Pools,
    Hashes,            \* commitment hashes, each committed once
    PoolOf,            \* [Hashes -> Pools]
    ZKVerified,        \* hashes of the ZK path
    Polls,             \* pollAndExecute activations that may overlap
    Calls,             \* direct executeBatchZK/Standard calls, likewise
    Expiring,          \* intents whose deadline may pass
    MIN_COMMITMENTS,
    MaxRetries,        \* config.maxRetries
    MaxFaults          \* bound: lost answers, RPC errors, slippage reverts
                       \* and batches that somebody else executes

Runs == Polls \cup Calls

ASSUME ExecutorAssumption ==
    /\ Pools # {}
    /\ PoolOf \in [Hashes -> Pools]
    /\ ZKVerified \subseteq Hashes /\ Expiring \subseteq Hashes
    /\ MIN_COMMITMENTS \in Nat /\ MaxRetries \in Nat /\ MaxFaults \in Nat

VARIABLES
    \* RevealManager.pendingReveals: "none" before addReveal, "unsubmitted",
    \* "submitted" (submittedOnChain), "executed" when clearExecutedReveals
    \* has removed it, "dropped" when clearPool has
    reveals,
    proofs,      \* BatchExecutor.zkProofs
    monitored,   \* monitoredPools
    polling,     \* isRunning: "off", or the path that polls execute by
    run,         \* the state of every activation
    \* the contract
    open,        \* unrevealed commitments
    stored,      \* revealStorage
    executed,    \* revealed commitments
    expired,     \* intents whose deadline has passed
    cooling,     \* pools whose BATCH_INTERVAL has not elapsed
    faults

chain == <<open, stored, executed, expired, cooling>>
vars == <<reveals, proofs, monitored, polling, run, chain, faults>>

(* An activation: where it is, what it has checked, what it still has to   *)
(* execute and to submit, and the hashes and answer of its transaction.    *)
NotRunning == [pc |-> "idle", zk |-> FALSE, checked |-> {}, ready |-> {},
               pool |-> CHOOSE p \in Pools : TRUE, toSubmit |-> {},
               hashes |-> {}, attempt |-> 0, answer |-> "none"]

Init ==
    /\ reveals = [h \in Hashes |-> "none"]
    /\ proofs = {}
    /\ monitored = {}
    /\ polling = "off"
    /\ run = [r \in Runs |-> NotRunning]
    /\ open = {} /\ stored = {} /\ executed = {} /\ expired = {} /\ cooling = {}
    /\ faults = 0

Goto(r, next) == run' = [run EXCEPT ![r] = next]

Fault == faults < MaxFaults /\ faults' = faults + 1

NoFault == UNCHANGED faults

(* ------------------------ the reveals of a pool ----------------------- *)

HashesOfPool(p) == {h \in Hashes : PoolOf[h] = p}

PendingUnsubmitted == {h \in Hashes : reveals[h] = "unsubmitted"}

SubmittedHashesForPool(p) == {h \in HashesOfPool(p) : reveals[h] = "submitted"}

(* An agent has committed and hands over what it committed to. *)
AddReveal(h) ==
    /\ reveals[h] = "none"
    /\ reveals' = [reveals EXCEPT ![h] = "unsubmitted"]
    /\ open' = open \cup {h}
    /\ UNCHANGED <<proofs, monitored, polling, run, stored, executed, expired, cooling, faults>>

ClearPool(p) ==
    /\ reveals' = [h \in Hashes |->
                     IF PoolOf[h] = p /\ reveals[h] \in {"unsubmitted", "submitted"}
                     THEN "dropped" ELSE reveals[h]]
    /\ UNCHANGED <<proofs, monitored, polling, run, chain, faults>>

StoreProof(h) ==
    /\ h \in ZKVerified
    /\ proofs' = proofs \cup {h}
    /\ UNCHANGED <<reveals, monitored, polling, run, chain, faults>>

AddPool(p) ==
    monitored' = monitored \cup {p} /\ UNCHANGED <<reveals, proofs, polling, run, chain, faults>>

RemovePool(p) ==
    monitored' = monitored \ {p} /\ UNCHANGED <<reveals, proofs, polling, run, chain, faults>>

(* --------------------------- the contract ----------------------------- *)

Checker(p) ==
    Cardinality(HashesOfPool(p) \cap open) >= MIN_COMMITMENTS /\ p \notin cooling

RevealAccepted(h) == h \notin expired /\ h \notin executed

(* Hashes stand for reveals with different nonces, and of the settlement   *)
(* nothing is modelled: the reverts for a used nonce or an uncovered       *)
(* transfer are calls that fail without being mined (Fault).               *)
BatchAccepted(p, hs, zk) ==
    /\ Cardinality(hs) >= MIN_COMMITMENTS
    /\ p \notin cooling
    /\ hs \subseteq stored \cap open
    /\ hs \cap expired = {}
    /\ hs \cap ZKVerified = IF zk THEN hs ELSE {}

BatchMined(p, hs) ==
    /\ open' = open \ hs
    /\ stored' = stored \ hs
    /\ executed' = executed \cup hs
    /\ cooling' = cooling \cup {p}
    /\ UNCHANGED expired

(* Execution is permissionless: anybody may execute stored reveals. *)
SomebodyElseExecutes(p, hs) ==
    /\ Fault
    /\ hs \subseteq HashesOfPool(p) /\ \E zk \in BOOLEAN : BatchAccepted(p, hs, zk)
    /\ BatchMined(p, hs)
    /\ UNCHANGED <<reveals, proofs, monitored, polling, run>>

IntervalElapses(p) ==
    /\ p \in cooling
    /\ cooling' = cooling \ {p}
    /\ UNCHANGED <<reveals, proofs, monitored, polling, run, open, stored, executed, expired, faults>>

DeadlinePasses(h) ==
    /\ h \in Expiring \ expired
    /\ expired' = expired \cup {h}
    /\ UNCHANGED <<reveals, proofs, monitored, polling, run, open, stored, executed, cooling, faults>>

(* ------------------------------ polling ------------------------------- *)

BeginPoll(r, path) == Goto(r, [NotRunning EXCEPT !.pc = "checking", !.zk = (path = "zk")])

(* The first poll starts at once. *)
StartPolling(r, path) ==
    /\ polling = "off" /\ run[r].pc = "idle"
    /\ polling' = path
    /\ BeginPoll(r, path)
    /\ UNCHANGED <<reveals, proofs, monitored, chain, faults>>

StopPolling ==
    polling' = "off" /\ UNCHANGED <<reveals, proofs, monitored, run, chain, faults>>

(* The interval timer fires; a poll does not wait for an earlier one. *)
StartPoll(r) ==
    /\ polling # "off" /\ run[r].pc = "idle"
    /\ BeginPoll(r, polling)
    /\ UNCHANGED <<reveals, proofs, monitored, polling, chain, faults>>

(* The pools still to be checked: a Map is iterated as it is by then. *)
Unchecked(r) == monitored \ run[r].checked

(* checkBatchReadiness asks the contract first; a failed call skips the    *)
(* pool, and a pool that cannot execute is not looked at further.          *)
QueryPool(r, p) ==
    /\ run[r].pc = "checking" /\ p \in Unchecked(r)
    /\ LET from == [run[r] EXCEPT !.checked = @ \cup {p}]
       IN  \/ ~Checker(p) /\ Goto(r, from) /\ NoFault
           \/ Checker(p) /\ Goto(r, [from EXCEPT !.pc = "counting", !.pool = p]) /\ NoFault
           \/ Checker(p) /\ Goto(r, from) /\ Fault
    /\ UNCHANGED <<reveals, proofs, monitored, polling, chain>>

(* Mutant: exactly the minimum is not enough. *)
MeetsMinimum_offByOne(p) == Cardinality(SubmittedHashesForPool(p)) > MIN_COMMITMENTS

(* Only the reveals already submitted count. *)
MeetsMinimum(p) == Cardinality(SubmittedHashesForPool(p)) >= MIN_COMMITMENTS

CountReveals(r) ==
    /\ run[r].pc = "counting"
    /\ LET p == run[r].pool
       IN  Goto(r, [run[r] EXCEPT !.pc = "checking",
                                  !.ready = IF MeetsMinimum(p) THEN @ \cup {p} ELSE @])
    /\ UNCHANGED <<reveals, proofs, monitored, polling, chain, faults>>

(* executeBatchZK or executeBatchStandard up to the first await. *)
BeginExecution(r, p, from) ==
    Goto(r, [from EXCEPT !.pc = "submitting", !.pool = p, !.toSubmit = PendingUnsubmitted])

(* Mutant: a pool is executed again until it no longer fails. *)
StillReady_untilExecuted(r, p) == run[r].ready

StillReady(r, p) == run[r].ready \ {p}

NextReadyPool(r) ==
    /\ \/ run[r].pc = "checking" /\ Unchecked(r) = {}
       \/ run[r].pc = "done"
    /\ \/ run[r].ready = {} /\ Goto(r, NotRunning)
       \/ \E p \in run[r].ready :
             LET rest == [run[r] EXCEPT !.pc = "done", !.ready = StillReady(r, p)]
             IN  IF p \in monitored THEN BeginExecution(r, p, rest) ELSE Goto(r, rest)
    /\ UNCHANGED <<reveals, proofs, monitored, polling, chain, faults>>

CallExecuteBatch(r, p, zk) ==
    /\ run[r].pc = "idle"
    /\ BeginExecution(r, p, [NotRunning EXCEPT !.zk = zk])
    /\ UNCHANGED <<reveals, proofs, monitored, polling, chain, faults>>

(* ----------------------------- execution ------------------------------ *)

(* submitSingleReveal of the next reveal: validated, sent and mined, or    *)
(* not.                                                                    *)
SendReveal(r, h) ==
    LET rest == [run[r] EXCEPT !.toSubmit = @ \ {h}]
        Sent(answer) == Goto(r, [rest EXCEPT !.pc = "revealing", !.hashes = {h}, !.answer = answer])
    IN  /\ run[r].pc = "submitting" /\ h \in run[r].toSubmit
        /\ \/ h \in expired /\ Goto(r, rest) /\ UNCHANGED stored /\ NoFault
           \/ /\ RevealAccepted(h)
              /\ stored' = stored \cup {h}
              /\ \/ Sent("ok") /\ NoFault
                 \/ Sent("lost") /\ Fault
           \/ ~RevealAccepted(h) /\ h \notin expired /\ Sent("reverted") /\ UNCHANGED stored /\ NoFault
           \/ Sent("failed") /\ h \notin expired /\ UNCHANGED stored /\ Fault
        /\ UNCHANGED <<reveals, proofs, monitored, polling, open, executed, expired, cooling>>

(* Mutant: marked as submitted whatever the answer. *)
MarkSubmitted_always(hs, answer) ==
    reveals' = [h \in Hashes |->
                  IF h \in hs /\ reveals[h] = "unsubmitted" THEN "submitted" ELSE reveals[h]]

MarkSubmitted(hs, answer) ==
    reveals' = [h \in Hashes |->
                  IF h \in hs /\ reveals[h] = "unsubmitted" /\ answer = "ok"
                  THEN "submitted" ELSE reveals[h]]

RevealAnswered(r) ==
    /\ run[r].pc = "revealing"
    /\ MarkSubmitted(run[r].hashes, run[r].answer)
    /\ Goto(r, [run[r] EXCEPT !.pc = "submitting", !.hashes = {}, !.answer = "none"])
    /\ UNCHANGED <<proofs, monitored, polling, chain, faults>>

(* After postRevealDelayMs: the batch is what has been submitted for the   *)
(* pool by now; a missing proof ends the execution.                        *)
GatherBatch(r) ==
    LET hs == SubmittedHashesForPool(run[r].pool)
        complete == hs # {} /\ (run[r].zk => hs \subseteq proofs)
    IN  /\ run[r].pc = "submitting" /\ run[r].toSubmit = {}
        /\ Goto(r, IF complete
                   THEN [run[r] EXCEPT !.pc = "executing", !.hashes = hs, !.attempt = 0]
                   ELSE [run[r] EXCEPT !.pc = "done"])
        /\ UNCHANGED <<reveals, proofs, monitored, polling, chain, faults>>

SendBatch(r) ==
    LET hs == run[r].hashes
        accepted == BatchAccepted(run[r].pool, hs, run[r].zk)
        Sent(answer) == Goto(r, [run[r] EXCEPT !.pc = "awaiting", !.answer = answer])
    IN  /\ run[r].pc = "executing"
        /\ \/ /\ accepted /\ BatchMined(run[r].pool, hs)
              /\ \/ Sent("ok") /\ NoFault
                 \/ Sent("lost") /\ Fault
           \/ ~accepted /\ Sent("reverted") /\ UNCHANGED chain /\ NoFault
           \/ Sent("failed") /\ UNCHANGED chain /\ Fault
        /\ UNCHANGED <<reveals, proofs, monitored, polling>>

(* clearExecutedReveals and the proofs.  Mutant: of all that is submitted   *)
(* by now.                                                                 *)
CleanUp_everything(r) ==
    LET hs == SubmittedHashesForPool(run[r].pool)
    IN  /\ reveals' = [h \in Hashes |-> IF h \in hs THEN "executed" ELSE reveals[h]]
        /\ proofs' = IF run[r].zk THEN proofs \ hs ELSE proofs

CleanUp(r) ==
    LET hs == run[r].hashes
    IN  /\ reveals' = [h \in Hashes |->
                         IF h \in hs /\ reveals[h] # "dropped" THEN "executed" ELSE reveals[h]]
        /\ proofs' = IF run[r].zk THEN proofs \ hs ELSE proofs

(* Mutant: one attempt too many. *)
RetriesLeft_offByOne(r) == run[r].attempt <= MaxRetries

RetriesLeft(r) == run[r].attempt < MaxRetries

(* executeWithRetry: an answer that names one of the contract's errors is  *)
(* final, any other failure is tried again, mined or not.                  *)
BatchAnswered(r) ==
    LET finished == [run[r] EXCEPT !.pc = "done", !.hashes = {}, !.attempt = 0, !.answer = "none"]
    IN  /\ run[r].pc = "awaiting"
        /\ \/ run[r].answer = "ok" /\ CleanUp(r) /\ Goto(r, finished)
           \/ /\ run[r].answer \in {"lost", "failed"} /\ RetriesLeft(r)
              /\ Goto(r, [run[r] EXCEPT !.pc = "executing", !.attempt = @ + 1,
                                        !.answer = "none"])
              /\ UNCHANGED <<reveals, proofs>>
           \/ /\ \/ run[r].answer = "reverted"
                 \/ run[r].answer \in {"lost", "failed"} /\ ~RetriesLeft(r)
              /\ Goto(r, finished)
              /\ UNCHANGED <<reveals, proofs>>
        /\ UNCHANGED <<monitored, polling, chain, faults>>

RunStep(r) ==
    \/ \E p \in Pools : QueryPool(r, p)
    \/ CountReveals(r)
    \/ NextReadyPool(r)
    \/ \E h \in Hashes : SendReveal(r, h)
    \/ RevealAnswered(r)
    \/ GatherBatch(r)
    \/ SendBatch(r)
    \/ BatchAnswered(r)

Next ==
    \/ \E h \in Hashes : AddReveal(h) \/ StoreProof(h) \/ DeadlinePasses(h)
    \/ \E p \in Pools : ClearPool(p) \/ AddPool(p) \/ RemovePool(p) \/ IntervalElapses(p)
    \/ \E p \in Pools, hs \in SUBSET Hashes : SomebodyElseExecutes(p, hs)
    \/ \E r \in Polls : StartPoll(r) \/ \E path \in {"zk", "standard"} : StartPolling(r, path)
    \/ StopPolling
    \/ \E r \in Calls, p \in Pools, zk \in BOOLEAN : CallExecuteBatch(r, p, zk)
    \/ \E r \in Runs : RunStep(r)

(* Timers fire, transactions and calls are answered one way or another,    *)
(* and blocks go on being made.                                            *)
Fairness ==
    /\ \A r \in Polls : WF_vars(StartPoll(r))
    /\ \A r \in Runs : WF_vars(RunStep(r))
    /\ \A p \in Pools : WF_vars(IntervalElapses(p))

Spec == Init /\ [][Next]_vars /\ Fairness

(* ------------------------------ properties ----------------------------- *)

PC == {"idle", "checking", "counting", "submitting", "revealing", "executing", "awaiting", "done"}

Activation ==
    [pc : PC, zk : BOOLEAN, checked : SUBSET Pools, ready : SUBSET Pools, pool : Pools,
     toSubmit : SUBSET Hashes, hashes : SUBSET Hashes, attempt : 0..MaxRetries,
     answer : {"none", "ok", "lost", "failed", "reverted"}]

(* The manager, the executor, its activations and the contract keep their  *)
(* types; no retry goes beyond maxRetries.                                 *)
TypeOK ==
    /\ reveals \in [Hashes -> {"none", "unsubmitted", "submitted", "executed", "dropped"}]
    /\ proofs \subseteq ZKVerified /\ monitored \subseteq Pools
    /\ polling \in {"off", "zk", "standard"}
    /\ run \in [Runs -> Activation]
    /\ open \subseteq Hashes /\ stored \subseteq Hashes /\ executed \subseteq Hashes
    /\ expired \subseteq Expiring /\ cooling \subseteq Pools
    /\ faults \in 0..MaxFaults

(* submittedOnChain is true of the chain: the reveal is in storage or has  *)
(* been executed, with overlapping runs submitting the same reveals and    *)
(* answers that come late or never.                                        *)
SubmittedIsOnChain ==
    \A h \in Hashes : reveals[h] = "submitted" => h \in stored \cup executed

(* Nothing is forgotten before it is executed: cleaning up after a batch   *)
(* removes the reveals and proofs of executed commitments only, whatever   *)
(* other runs submitted while the batch was awaited.                       *)
CleanUpOnlyExecuted ==
    [][\A h \in Hashes :
          \/ reveals[h] # "executed" /\ reveals'[h] = "executed"
          \/ h \in proofs \ proofs'
          => h \in executed]_vars

(* Every poll and call ends, however its transactions are answered. *)
EveryRunEnds == \A r \in Runs : run[r].pc # "idle" ~> run[r].pc = "idle"

(* The reveals the contract would still execute. *)
Alive(p) == {h \in HashesOfPool(p) : h \in open \ expired}

FitsPath(hs) ==
    \/ polling = "zk" /\ hs \subseteq ZKVerified \cap proofs
    \/ polling = "standard" /\ hs \cap ZKVerified = {}

(* Enough reveals of a pool are submitted, and all of them can be executed. *)
Executable(p) ==
    LET hs == {h \in HashesOfPool(p) : reveals[h] = "submitted"}
    IN  /\ p \in monitored /\ FitsPath(hs)
        /\ Cardinality(hs) >= MIN_COMMITMENTS
        /\ hs \subseteq Alive(p) \cap stored

(* Polling executes what is submitted: an executable pool does not stay    *)
(* one, after finitely many faults and with polls that overlap.            *)
SubmittedGetExecuted == \A p \in Pools : Executable(p) ~> ~Executable(p)

(* Enough reveals of a pool were handed over, submitted or not. *)
Waiting(p) ==
    LET hs == {h \in HashesOfPool(p) : reveals[h] \in {"unsubmitted", "submitted"}}
    IN  /\ p \in monitored /\ FitsPath(hs)
        /\ Cardinality(hs) >= MIN_COMMITMENTS
        /\ hs \subseteq Alive(p)

(* BatchExecutor.ts:289 "Start polling for batch readiness and             *)
(* auto-execute".                                                          *)
PollingExecutes == \A p \in Pools : Waiting(p) ~> ~Waiting(p)

=============================================================================
