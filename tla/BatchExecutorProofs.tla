------------------------ MODULE BatchExecutorProofs ------------------------
(***************************************************************************)
(* Type correctness and the safety of BatchExecutor for any number of      *)
(* pools, reveals, overlapping runs and faults.                            *)
(***************************************************************************)
EXTENDS BatchExecutor, TLAPS

LEMMA IdleType == NotRunning \in Activation
  BY ExecutorAssumption DEF NotRunning, Activation, PC

(* A step of one run leaves the others where they are. *)
LEMMA GotoRun ==
  ASSUME TypeOK, NEW r \in Runs, NEW next \in Activation, Goto(r, next)
  PROVE  /\ run' \in [Runs -> Activation]
         /\ run'[r] = next
         /\ \A s \in Runs : s # r => run'[s] = run[s]
  BY DEF Goto, TypeOK

LEMMA RunOf == ASSUME TypeOK, NEW r \in Runs PROVE run[r] \in Activation
  BY DEF TypeOK

(* The records that the steps of a run build from it. *)
LEMMA CountedType ==
  ASSUME NEW a \in Activation, NEW ready \in SUBSET Pools
  PROVE  [a EXCEPT !.pc = "checking", !.ready = ready] \in Activation
  BY DEF Activation, PC

LEMMA FirstAttempt == 0 \in 0..MaxRetries
  BY ExecutorAssumption

LEMMA ExecutingType ==
  ASSUME NEW a \in Activation, NEW hs \in SUBSET Hashes, NEW n \in 0..MaxRetries
  PROVE  /\ [a EXCEPT !.pc = "executing", !.hashes = hs, !.attempt = n] \in Activation
         /\ [a EXCEPT !.pc = "executing", !.attempt = n, !.answer = "none"] \in Activation
         /\ [a EXCEPT !.pc = "done"] \in Activation
         /\ [a EXCEPT !.pc = "done", !.hashes = {}, !.attempt = n,
                      !.answer = "none"] \in Activation
  BY DEF Activation, PC

(* -------------------------- type correctness --------------------------- *)

(* What a step leaves behind in the contract. *)
ChainType ==
    /\ open \subseteq Hashes /\ stored \subseteq Hashes /\ executed \subseteq Hashes
    /\ expired \subseteq Expiring /\ cooling \subseteq Pools

LEMMA MinedType ==
  ASSUME ChainType, NEW p \in Pools, NEW hs \in SUBSET Hashes, BatchMined(p, hs)
  PROVE  ChainType'
  BY DEF ChainType, BatchMined

LEMMA FaultType ==
  ASSUME TypeOK, Fault \/ NoFault
  PROVE  faults' \in 0..MaxFaults
  BY ExecutorAssumption DEF TypeOK, Fault, NoFault

(* The type of everything but the contract and the runs. *)
ManagerType ==
    /\ reveals \in [Hashes -> {"none", "unsubmitted", "submitted", "executed", "dropped"}]
    /\ proofs \subseteq ZKVerified /\ monitored \subseteq Pools
    /\ polling \in {"off", "zk", "standard"}

LEMMA TypeParts ==
  TypeOK <=> /\ ManagerType /\ ChainType
             /\ run \in [Runs -> Activation]
             /\ faults \in 0..MaxFaults
  BY DEF TypeOK, ManagerType, ChainType

(* Polling and the steps of a run up to the first transaction. *)
LEMMA PollStepType ==
  ASSUME TypeOK, NEW r \in Runs,
         \/ \E p \in Pools : QueryPool(r, p)
         \/ CountReveals(r)
         \/ NextReadyPool(r)
         \/ GatherBatch(r)
         \/ StartPoll(r)
         \/ \E path \in {"zk", "standard"} : StartPolling(r, path)
         \/ \E p \in Pools, zk \in BOOLEAN : CallExecuteBatch(r, p, zk)
  PROVE  TypeOK'
<1> USE RunOf, IdleType, GotoRun
<1>0. UNCHANGED chain => ChainType'
  BY DEF chain, TypeOK, ChainType
<1>1. ASSUME NEW p \in Pools, QueryPool(r, p) PROVE TypeOK'
  <2> DEFINE from == [run[r] EXCEPT !.checked = @ \cup {p}]
  <2>1. from \in Activation /\ [from EXCEPT !.pc = "counting", !.pool = p] \in Activation
    BY DEF Activation, PC
  <2>2. run' \in [Runs -> Activation]
    BY <1>1, <2>1 DEF QueryPool
  <2>3. faults' \in 0..MaxFaults
    BY <1>1, FaultType DEF QueryPool
  <2> QED  BY <1>0, <1>1, <2>2, <2>3 DEF QueryPool, TypeOK, ChainType
<1>2. ASSUME CountReveals(r) PROVE TypeOK'
  <2> DEFINE p == run[r].pool
             next == [run[r] EXCEPT !.pc = "checking",
                                    !.ready = IF MeetsMinimum(p) THEN @ \cup {p} ELSE @]
  <2>1. next \in Activation
    <3>1. run[r].ready \in SUBSET Pools /\ p \in Pools
      BY DEF Activation
    <3>2. next = [run[r] EXCEPT !.pc = "checking",
                                !.ready = IF MeetsMinimum(p) THEN run[r].ready \cup {p}
                                                             ELSE run[r].ready]
      BY DEF Activation
    <3> QED  BY <3>1, <3>2, CountedType
  <2>2. run' \in [Runs -> Activation]
    BY <1>2, <2>1 DEF CountReveals
  <2> QED  BY <1>0, <1>2, <2>2 DEF CountReveals, TypeOK, ChainType
<1>3. ASSUME NextReadyPool(r) PROVE TypeOK'
  <2>1. ASSUME NEW p \in run[r].ready
        PROVE  LET rest == [run[r] EXCEPT !.pc = "done", !.ready = StillReady(r, p)]
               IN  /\ rest \in Activation
                   /\ [rest EXCEPT !.pc = "submitting", !.pool = p,
                                   !.toSubmit = PendingUnsubmitted] \in Activation
    BY <2>1 DEF Activation, PC, StillReady, PendingUnsubmitted
  <2>2. run' \in [Runs -> Activation]
    BY <1>3, <2>1 DEF NextReadyPool, BeginExecution
  <2> QED  BY <1>0, <1>3, <2>2 DEF NextReadyPool, TypeOK, ChainType
<1>4. ASSUME GatherBatch(r) PROVE TypeOK'
  <2> DEFINE hs == SubmittedHashesForPool(run[r].pool)
  <2>1. /\ [run[r] EXCEPT !.pc = "executing", !.hashes = hs, !.attempt = 0] \in Activation
        /\ [run[r] EXCEPT !.pc = "done"] \in Activation
    <3>1. hs \in SUBSET Hashes
      BY DEF SubmittedHashesForPool, HashesOfPool
    <3> HIDE DEF hs
    <3> QED  BY <3>1, FirstAttempt, ExecutingType
  <2>2. run' \in [Runs -> Activation]
    BY <1>4, <2>1 DEF GatherBatch
  <2> QED  BY <1>0, <1>4, <2>2 DEF GatherBatch, TypeOK, ChainType
<1>5. ASSUME NEW path \in {"zk", "standard"}
      PROVE  [NotRunning EXCEPT !.pc = "checking", !.zk = (path = "zk")] \in Activation
  BY IdleType DEF Activation, PC
<1>6. ASSUME StartPoll(r) PROVE TypeOK'
  <2>1. run' \in [Runs -> Activation]
    BY <1>5, <1>6 DEF StartPoll, BeginPoll, TypeOK
  <2> QED  BY <1>0, <1>6, <2>1 DEF StartPoll, TypeOK, ChainType
<1>7. ASSUME NEW path \in {"zk", "standard"}, StartPolling(r, path) PROVE TypeOK'
  <2>1. run' \in [Runs -> Activation]
    BY <1>5, <1>7 DEF StartPolling, BeginPoll
  <2> QED  BY <1>0, <1>7, <2>1 DEF StartPolling, TypeOK, ChainType
<1>8. ASSUME NEW p \in Pools, NEW zk \in BOOLEAN, CallExecuteBatch(r, p, zk) PROVE TypeOK'
  <2>1. [[NotRunning EXCEPT !.zk = zk] EXCEPT !.pc = "submitting", !.pool = p,
                                              !.toSubmit = PendingUnsubmitted] \in Activation
    BY IdleType DEF Activation, PC, PendingUnsubmitted
  <2>2. run' \in [Runs -> Activation]
    BY <1>8, <2>1 DEF CallExecuteBatch, BeginExecution
  <2> QED  BY <1>0, <1>8, <2>2 DEF CallExecuteBatch, TypeOK, ChainType
<1> QED  BY <1>1, <1>2, <1>3, <1>4, <1>6, <1>7, <1>8

(* The steps that send and answer transactions. *)
LEMMA TransactionStepType ==
  ASSUME TypeOK, NEW r \in Runs,
         \/ \E h \in Hashes : SendReveal(r, h)
         \/ RevealAnswered(r)
         \/ SendBatch(r)
         \/ BatchAnswered(r)
  PROVE  TypeOK'
<1> USE RunOf, IdleType, GotoRun
<1>1. ASSUME NEW h \in Hashes, SendReveal(r, h) PROVE TypeOK'
  <2> DEFINE rest == [run[r] EXCEPT !.toSubmit = @ \ {h}]
  <2>1. rest \in Activation
    BY DEF Activation
  <2>2. ASSUME NEW answer \in {"ok", "lost", "failed", "reverted"}
        PROVE  [rest EXCEPT !.pc = "revealing", !.hashes = {h}, !.answer = answer] \in Activation
    BY <2>1 DEF Activation, PC
  <2>3. run' \in [Runs -> Activation]
    BY <1>1, <2>1, <2>2 DEF SendReveal
  <2>4. faults' \in 0..MaxFaults
    BY <1>1, FaultType DEF SendReveal
  <2>5. stored' \subseteq Hashes
    BY <1>1 DEF SendReveal, TypeOK
  <2> QED  BY <1>1, <2>3, <2>4, <2>5 DEF SendReveal, TypeOK
<1>2. ASSUME RevealAnswered(r) PROVE TypeOK'
  <2>1. [run[r] EXCEPT !.pc = "submitting", !.hashes = {}, !.answer = "none"] \in Activation
    BY DEF Activation, PC
  <2>2. run' \in [Runs -> Activation]
    BY <1>2, <2>1 DEF RevealAnswered
  <2>3. reveals' \in [Hashes -> {"none", "unsubmitted", "submitted", "executed", "dropped"}]
    BY <1>2 DEF RevealAnswered, MarkSubmitted, TypeOK
  <2> QED  BY <1>2, <2>2, <2>3 DEF RevealAnswered, TypeOK, chain
<1>3. ASSUME SendBatch(r) PROVE TypeOK'
  <2>1. ASSUME NEW answer \in {"ok", "lost", "failed", "reverted"}
        PROVE  [run[r] EXCEPT !.pc = "awaiting", !.answer = answer] \in Activation
    BY DEF Activation, PC
  <2>2. run' \in [Runs -> Activation]
    BY <1>3, <2>1 DEF SendBatch
  <2>3. faults' \in 0..MaxFaults
    BY <1>3, FaultType DEF SendBatch
  <2>4. run[r].pool \in Pools /\ run[r].hashes \in SUBSET Hashes
    BY DEF Activation
  <2>5. ChainType'
    <3>1. ChainType
      BY TypeParts
    <3> QED  BY <1>3, <2>4, <3>1, MinedType DEF SendBatch, chain, ChainType
  <2> QED  BY <1>3, <2>2, <2>3, <2>5 DEF SendBatch, TypeOK, ChainType
<1>4. ASSUME BatchAnswered(r) PROVE TypeOK'
  <2> DEFINE finished == [run[r] EXCEPT !.pc = "done", !.hashes = {}, !.attempt = 0,
                                        !.answer = "none"]
             again == [run[r] EXCEPT !.pc = "executing", !.attempt = @ + 1, !.answer = "none"]
  <2>1. finished \in Activation
    BY FirstAttempt, ExecutingType
  <2>2. RetriesLeft(r) => again \in Activation
    <3>1. again = [run[r] EXCEPT !.pc = "executing", !.attempt = run[r].attempt + 1,
                                 !.answer = "none"]
      BY DEF Activation
    <3>2. RetriesLeft(r) => run[r].attempt + 1 \in 0..MaxRetries
      BY ExecutorAssumption DEF Activation, RetriesLeft
    <3> QED  BY <3>1, <3>2, ExecutingType
  <2>3. run' \in [Runs -> Activation]
    BY <1>4, <2>1, <2>2 DEF BatchAnswered
  <2>4. /\ reveals' \in [Hashes -> {"none", "unsubmitted", "submitted", "executed", "dropped"}]
        /\ proofs' \subseteq ZKVerified
    BY <1>4 DEF BatchAnswered, CleanUp, TypeOK
  <2> QED  BY <1>4, <2>3, <2>4 DEF BatchAnswered, TypeOK, chain
<1> QED  BY <1>1, <1>2, <1>3, <1>4

(* The manager's, the contract's and others' steps. *)
LEMMA OtherStepType ==
  ASSUME TypeOK,
         \/ \E h \in Hashes : AddReveal(h) \/ StoreProof(h) \/ DeadlinePasses(h)
         \/ \E p \in Pools : ClearPool(p) \/ AddPool(p) \/ RemovePool(p) \/ IntervalElapses(p)
         \/ \E p \in Pools, hs \in SUBSET Hashes : SomebodyElseExecutes(p, hs)
         \/ StopPolling
         \/ UNCHANGED vars
  PROVE  TypeOK'
<1>1. ASSUME NEW h \in Hashes, AddReveal(h) \/ StoreProof(h) \/ DeadlinePasses(h)
      PROVE  TypeOK'
  BY <1>1 DEF AddReveal, StoreProof, DeadlinePasses, TypeOK, chain
<1>2. ASSUME NEW p \in Pools, ClearPool(p) \/ AddPool(p) \/ RemovePool(p) \/ IntervalElapses(p)
      PROVE  TypeOK'
  BY <1>2 DEF ClearPool, AddPool, RemovePool, IntervalElapses, TypeOK, chain
<1>3. ASSUME NEW p \in Pools, NEW hs \in SUBSET Hashes, SomebodyElseExecutes(p, hs)
      PROVE  TypeOK'
  <2>1. ChainType'
    BY <1>3, MinedType, TypeParts DEF SomebodyElseExecutes
  <2>2. faults' \in 0..MaxFaults
    BY <1>3, FaultType DEF SomebodyElseExecutes
  <2> QED  BY <1>3, <2>1, <2>2 DEF SomebodyElseExecutes, TypeOK, ChainType
<1>4. ASSUME StopPolling \/ UNCHANGED vars PROVE TypeOK'
  BY <1>4 DEF StopPolling, TypeOK, chain, vars
<1> QED  BY <1>1, <1>2, <1>3, <1>4

(* The manager, the executor, every activation and the contract keep their *)
(* types, and no activation retries more than maxRetries times.            *)
THEOREM TypeCorrect == Spec => []TypeOK
<1>1. Init => TypeOK
  BY IdleType, ExecutorAssumption DEF Init, TypeOK
<1>2. TypeOK /\ [Next]_vars => TypeOK'
  BY PollStepType, TransactionStepType, OtherStepType DEF Next, RunStep, Runs
<1> QED  BY <1>1, <1>2, PTL DEF Spec

(* ------------------------------- safety -------------------------------- *)

(* What a run has been told happened. *)
TrueAnswer(r) ==
    run[r].answer = "ok" =>
        /\ run[r].pc = "revealing" => run[r].hashes \subseteq stored \cup executed
        /\ run[r].pc = "awaiting" => run[r].hashes \subseteq executed

(* Inductive: SubmittedIsOnChain alone does not say that a run that is     *)
(* about to mark a reveal was told the truth.                              *)
IInv ==
    /\ TypeOK
    /\ SubmittedIsOnChain
    /\ \A r \in Runs : TrueAnswer(r)

(* Nothing that is on chain is ever lost: a reveal leaves storage only by  *)
(* being executed.                                                         *)
ChainGrows ==
    /\ stored \cup executed \subseteq stored' \cup executed'
    /\ executed \subseteq executed'

LEMMA StepGrowsChain == ASSUME [Next]_vars PROVE ChainGrows
<1>1. ASSUME NEW r \in Runs, RunStep(r) PROVE ChainGrows
  BY <1>1 DEF RunStep, QueryPool, CountReveals, NextReadyPool, SendReveal, RevealAnswered,
              GatherBatch, SendBatch, BatchAnswered, BatchMined, chain, ChainGrows
<1>2. ASSUME NEW h \in Hashes, AddReveal(h) \/ StoreProof(h) \/ DeadlinePasses(h)
      PROVE  ChainGrows
  BY <1>2 DEF AddReveal, StoreProof, DeadlinePasses, chain, ChainGrows
<1>3. ASSUME NEW p \in Pools, ClearPool(p) \/ AddPool(p) \/ RemovePool(p) \/ IntervalElapses(p)
      PROVE  ChainGrows
  BY <1>3 DEF ClearPool, AddPool, RemovePool, IntervalElapses, chain, ChainGrows
<1>4. ASSUME NEW p \in Pools, NEW hs \in SUBSET Hashes, SomebodyElseExecutes(p, hs)
      PROVE  ChainGrows
  BY <1>4 DEF SomebodyElseExecutes, BatchMined, ChainGrows
<1>5. ASSUME NEW r \in Polls,
             StartPoll(r) \/ \E path \in {"zk", "standard"} : StartPolling(r, path)
      PROVE  ChainGrows
  BY <1>5 DEF StartPoll, StartPolling, chain, ChainGrows
<1>6. ASSUME NEW r \in Calls, NEW p \in Pools, NEW zk \in BOOLEAN, CallExecuteBatch(r, p, zk)
      PROVE  ChainGrows
  BY <1>6 DEF CallExecuteBatch, chain, ChainGrows
<1>7. ASSUME StopPolling \/ UNCHANGED vars PROVE ChainGrows
  BY <1>7 DEF StopPolling, vars, chain, ChainGrows
<1> QED  BY <1>1, <1>2, <1>3, <1>4, <1>5, <1>6, <1>7 DEF Next

(* An answer that was true stays true. *)
LEMMA AnswerKept ==
  ASSUME NEW r \in Runs, TrueAnswer(r), ChainGrows, run'[r] = run[r]
  PROVE  TrueAnswer(r)'
  BY DEF TrueAnswer, ChainGrows

(* A step of a run leaves it with a true answer, or none. *)
LEMMA StepAnswersTruly ==
  ASSUME TypeOK, NEW r \in Runs,
         \/ RunStep(r) \/ StartPoll(r)
         \/ \E path \in {"zk", "standard"} : StartPolling(r, path)
         \/ \E p \in Pools, zk \in BOOLEAN : CallExecuteBatch(r, p, zk)
  PROVE  /\ TrueAnswer(r)'
         /\ \A s \in Runs : s # r => run'[s] = run[s]
<1> USE RunOf DEF Goto
<1>0. run \in [Runs -> Activation]
  BY DEF TypeOK
<1>1. \A s \in Runs : s # r => run'[s] = run[s]
  BY <1>0 DEF RunStep, QueryPool, CountReveals, NextReadyPool, BeginExecution, SendReveal,
              RevealAnswered, GatherBatch, SendBatch, BatchAnswered, StartPoll, StartPolling,
              BeginPoll, CallExecuteBatch
<1>2. ASSUME run'[r].pc \notin {"revealing", "awaiting"} PROVE TrueAnswer(r)'
  BY <1>2 DEF TrueAnswer
<1>3. ASSUME NEW h \in Hashes, SendReveal(r, h) PROVE TrueAnswer(r)'
  <2> DEFINE rest == [run[r] EXCEPT !.toSubmit = @ \ {h}]
             Sent(answer) == [rest EXCEPT !.pc = "revealing", !.hashes = {h}, !.answer = answer]
  <2>1. rest \in Activation /\ rest.pc = run[r].pc
    BY DEF Activation
  <2>2. \/ run' = [run EXCEPT ![r] = rest] /\ run[r].pc = "submitting"
        \/ run' = [run EXCEPT ![r] = Sent("ok")] /\ h \in stored'
        \/ \E answer \in {"lost", "failed", "reverted"} : run' = [run EXCEPT ![r] = Sent(answer)]
    BY <1>3 DEF SendReveal
  <2>3. ASSUME NEW answer \in {"ok", "lost", "failed", "reverted"}
        PROVE  /\ Sent(answer).pc = "revealing" /\ Sent(answer).hashes = {h}
               /\ Sent(answer).answer = answer
    BY <2>1 DEF Activation
  <2> HIDE DEF rest, Sent
  <2> QED  BY <1>0, <2>1, <2>2, <2>3 DEF TrueAnswer
<1>4. ASSUME SendBatch(r) PROVE TrueAnswer(r)'
  <2> DEFINE Sent(answer) == [run[r] EXCEPT !.pc = "awaiting", !.answer = answer]
  <2>1. \/ run' = [run EXCEPT ![r] = Sent("ok")] /\ run[r].hashes \subseteq executed'
        \/ \E answer \in {"lost", "failed", "reverted"} : run' = [run EXCEPT ![r] = Sent(answer)]
    BY <1>4 DEF SendBatch, BatchMined
  <2>2. ASSUME NEW answer \in {"ok", "lost", "failed", "reverted"}
        PROVE  /\ Sent(answer).pc = "awaiting" /\ Sent(answer).hashes = run[r].hashes
               /\ Sent(answer).answer = answer
    BY DEF Activation
  <2> HIDE DEF Sent
  <2> QED  BY <1>0, <2>1, <2>2 DEF TrueAnswer
<1>5. ASSUME \/ \E p \in Pools : QueryPool(r, p)
             \/ CountReveals(r) \/ NextReadyPool(r) \/ GatherBatch(r)
             \/ RevealAnswered(r) \/ BatchAnswered(r) \/ StartPoll(r)
             \/ \E path \in {"zk", "standard"} : StartPolling(r, path)
             \/ \E p \in Pools, zk \in BOOLEAN : CallExecuteBatch(r, p, zk)
      PROVE  run'[r].pc \notin {"revealing", "awaiting"}
  <2> USE <1>0
  <2>1. \A p \in Pools : QueryPool(r, p) => run'[r].pc \in {"checking", "counting"}
    BY DEF QueryPool, Activation
  <2>2. /\ CountReveals(r) => run'[r].pc = "checking"
        /\ GatherBatch(r) => run'[r].pc \in {"executing", "done"}
        /\ RevealAnswered(r) => run'[r].pc = "submitting"
    <3>1. CountReveals(r) => run'[r].pc = "checking"
      BY DEF CountReveals, Activation
    <3>2. GatherBatch(r) => run'[r].pc \in {"executing", "done"}
      BY DEF GatherBatch, Activation
    <3>3. RevealAnswered(r) => run'[r].pc = "submitting"
      BY DEF RevealAnswered, Activation
    <3> QED  BY <3>1, <3>2, <3>3
  <2>3. BatchAnswered(r) => run'[r].pc \in {"executing", "done"}
    <3> DEFINE finished == [run[r] EXCEPT !.pc = "done", !.hashes = {}, !.attempt = 0,
                                          !.answer = "none"]
               again == [run[r] EXCEPT !.pc = "executing", !.attempt = @ + 1, !.answer = "none"]
    <3>1. finished.pc = "done" /\ again.pc = "executing"
      BY DEF Activation
    <3>2. BatchAnswered(r) => \E next \in {finished, again} : run' = [run EXCEPT ![r] = next]
      BY DEF BatchAnswered
    <3> HIDE DEF finished, again
    <3> QED  BY <3>1, <3>2
  <2>4. NextReadyPool(r) => run'[r].pc \in {"idle", "done", "submitting"}
    <3> DEFINE Rest(p) == [run[r] EXCEPT !.pc = "done", !.ready = StillReady(r, p)]
               Begun(p) == [Rest(p) EXCEPT !.pc = "submitting", !.pool = p,
                                           !.toSubmit = PendingUnsubmitted]
    <3>1. \A p : Rest(p).pc = "done" /\ Begun(p).pc = "submitting"
      BY DEF Activation
    <3>2. NotRunning.pc = "idle"
      BY DEF NotRunning
    <3>3. NextReadyPool(r) =>
             \/ run' = [run EXCEPT ![r] = NotRunning]
             \/ \E p : run' = [run EXCEPT ![r] = Rest(p)] \/ run' = [run EXCEPT ![r] = Begun(p)]
      BY DEF NextReadyPool, BeginExecution
    <3> HIDE DEF Rest, Begun
    <3> QED  BY <3>1, <3>2, <3>3
  <2>5. /\ StartPoll(r) => run'[r].pc = "checking"
        /\ \A path \in {"zk", "standard"} : StartPolling(r, path) => run'[r].pc = "checking"
    <3> DEFINE Begun(path) == [NotRunning EXCEPT !.pc = "checking", !.zk = (path = "zk")]
    <3>1. \A path : Begun(path).pc = "checking"
      BY IdleType DEF Activation
    <3>2. \A path : BeginPoll(r, path) => run'[r] = Begun(path)
      BY DEF BeginPoll
    <3> HIDE DEF Begun
    <3> QED  BY <3>1, <3>2 DEF StartPoll, StartPolling
  <2>6. \A p \in Pools, zk \in BOOLEAN : CallExecuteBatch(r, p, zk) => run'[r].pc = "submitting"
    <3> DEFINE From(zk) == [NotRunning EXCEPT !.zk = zk]
               Begun(p, zk) == [From(zk) EXCEPT !.pc = "submitting", !.pool = p,
                                                !.toSubmit = PendingUnsubmitted]
    <3>1. \A p, zk : Begun(p, zk).pc = "submitting"
      BY IdleType DEF Activation
    <3>2. \A p \in Pools, zk \in BOOLEAN : CallExecuteBatch(r, p, zk) => run'[r] = Begun(p, zk)
      BY DEF CallExecuteBatch, BeginExecution
    <3> HIDE DEF Begun
    <3> QED  BY <3>1, <3>2
  <2> QED  BY <1>5, <2>1, <2>2, <2>3, <2>4, <2>5, <2>6
<1> QED  BY <1>1, <1>2, <1>3, <1>4, <1>5 DEF RunStep

LEMMA AnswersKept ==
  ASSUME TypeOK, \A r \in Runs : TrueAnswer(r), [Next]_vars
  PROVE  \A r \in Runs : TrueAnswer(r)'
<1>1. ASSUME NEW r \in Runs,
             \/ RunStep(r) \/ StartPoll(r)
             \/ \E path \in {"zk", "standard"} : StartPolling(r, path)
             \/ \E p \in Pools, zk \in BOOLEAN : CallExecuteBatch(r, p, zk)
      PROVE  \A s \in Runs : TrueAnswer(s)'
  <2>1. TrueAnswer(r)' /\ \A s \in Runs : s # r => run'[s] = run[s]
    BY <1>1, StepAnswersTruly
  <2> QED  BY <2>1, StepGrowsChain, AnswerKept
<1>2. ASSUME run' = run PROVE \A s \in Runs : TrueAnswer(s)'
  BY <1>2, StepGrowsChain, AnswerKept
<1>3. ASSUME \/ \E h \in Hashes : AddReveal(h) \/ StoreProof(h) \/ DeadlinePasses(h)
             \/ \E p \in Pools : ClearPool(p) \/ AddPool(p) \/ RemovePool(p) \/ IntervalElapses(p)
             \/ \E p \in Pools, hs \in SUBSET Hashes : SomebodyElseExecutes(p, hs)
             \/ StopPolling
             \/ UNCHANGED vars
      PROVE  run' = run
  BY <1>3 DEF AddReveal, StoreProof, DeadlinePasses, ClearPool, AddPool, RemovePool,
              IntervalElapses, SomebodyElseExecutes, StopPolling, vars
<1> QED  BY <1>1, <1>2, <1>3 DEF Next, Runs

(* Only an answered reveal marks, and only an answered batch cleans up. *)
LEMMA RevealsAndProofs ==
  ASSUME IInv, [Next]_vars
  PROVE  \A h \in Hashes :
            /\ reveals'[h] = "submitted" => reveals[h] = "submitted" \/ h \in stored \cup executed
            /\ reveals'[h] = "executed" => reveals[h] = "executed" \/ h \in executed
            /\ h \in proofs => h \in proofs' \/ h \in executed
<1> DEFINE Quiet(h) ==
            /\ reveals'[h] = "submitted" => reveals[h] = "submitted" \/ h \in stored \cup executed
            /\ reveals'[h] = "executed" => reveals[h] = "executed" \/ h \in executed
            /\ h \in proofs => h \in proofs' \/ h \in executed
<1>0. reveals \in [Hashes -> {"none", "unsubmitted", "submitted", "executed", "dropped"}]
  BY DEF IInv, TypeOK
<1>1. ASSUME NEW r \in Runs, RevealAnswered(r), NEW h \in Hashes PROVE Quiet(h)
  BY <1>0, <1>1 DEF RevealAnswered, MarkSubmitted, IInv, TrueAnswer
<1>2. ASSUME NEW r \in Runs, BatchAnswered(r), NEW h \in Hashes PROVE Quiet(h)
  BY <1>0, <1>2 DEF BatchAnswered, CleanUp, IInv, TrueAnswer
<1>3. ASSUME NEW g \in Hashes, AddReveal(g) \/ StoreProof(g), NEW h \in Hashes PROVE Quiet(h)
  BY <1>0, <1>3 DEF AddReveal, StoreProof
<1>4. ASSUME NEW p \in Pools, ClearPool(p), NEW h \in Hashes PROVE Quiet(h)
  BY <1>0, <1>4 DEF ClearPool
<1>5. ASSUME UNCHANGED <<reveals, proofs>>, NEW h \in Hashes PROVE Quiet(h)
  BY <1>5
<1>6. ASSUME NEW r \in Runs,
             \/ \E p \in Pools : QueryPool(r, p)
             \/ CountReveals(r) \/ NextReadyPool(r) \/ GatherBatch(r) \/ SendBatch(r)
             \/ \E h \in Hashes : SendReveal(r, h)
             \/ StartPoll(r)
             \/ \E path \in {"zk", "standard"} : StartPolling(r, path)
             \/ \E p \in Pools, zk \in BOOLEAN : CallExecuteBatch(r, p, zk)
      PROVE  UNCHANGED <<reveals, proofs>>
  BY <1>6 DEF QueryPool, CountReveals, NextReadyPool, GatherBatch, SendBatch, SendReveal,
              StartPoll, StartPolling, CallExecuteBatch
<1>7. ASSUME \/ \E h \in Hashes : DeadlinePasses(h)
             \/ \E p \in Pools : AddPool(p) \/ RemovePool(p) \/ IntervalElapses(p)
             \/ \E p \in Pools, hs \in SUBSET Hashes : SomebodyElseExecutes(p, hs)
             \/ StopPolling
             \/ UNCHANGED vars
      PROVE  UNCHANGED <<reveals, proofs>>
  BY <1>7 DEF DeadlinePasses, AddPool, RemovePool, IntervalElapses, SomebodyElseExecutes,
              StopPolling, vars
<1> HIDE DEF Quiet
<1>8. \A h \in Hashes : Quiet(h)
  BY <1>1, <1>2, <1>3, <1>4, <1>5, <1>6, <1>7 DEF Next, RunStep, Runs
<1> QED  BY <1>8 DEF Quiet

LEMMA InvariantHolds == Spec => []IInv
<1>1. Init => IInv
  <2>1. Init => TypeOK
    BY IdleType, ExecutorAssumption DEF Init, TypeOK
  <2> QED  BY <2>1 DEF Init, IInv, SubmittedIsOnChain, TrueAnswer, NotRunning
<1>2. IInv /\ TypeOK' /\ [Next]_vars => IInv'
  <2> SUFFICES ASSUME IInv, TypeOK', [Next]_vars PROVE IInv'
    OBVIOUS
  <2>1. SubmittedIsOnChain'
    BY RevealsAndProofs, StepGrowsChain DEF SubmittedIsOnChain, IInv, ChainGrows
  <2>2. \A r \in Runs : TrueAnswer(r)'
    BY AnswersKept DEF IInv
  <2> QED  BY <2>1, <2>2 DEF IInv
<1> QED  BY <1>1, <1>2, TypeCorrect, PTL DEF Spec

(* A reveal the manager counts as submitted is in the contract's storage   *)
(* or has been executed.                                                   *)
THEOREM SubmittedRevealsOnChain == Spec => []SubmittedIsOnChain
<1>1. IInv => SubmittedIsOnChain
  BY DEF IInv
<1> QED  BY <1>1, InvariantHolds, PTL

(* Reveals and proofs are cleaned up only when they have been executed.    *)
THEOREM ExecutedRevealsCleanedUp == Spec => CleanUpOnlyExecuted
<1>1. IInv /\ [Next]_vars =>
         [\A h \in Hashes :
             \/ reveals[h] # "executed" /\ reveals'[h] = "executed"
             \/ h \in proofs \ proofs'
             => h \in executed]_vars
  BY RevealsAndProofs
<1> QED  BY <1>1, InvariantHolds, PTL DEF Spec, CleanUpOnlyExecuted

=============================================================================
