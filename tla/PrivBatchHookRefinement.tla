---------------------- MODULE PrivBatchHookRefinement ----------------------
(***************************************************************************)
(* Proof that PrivBatchHook.tla implements IntentLifecycle.tla, and of     *)
(* what its steps may do, from the invariant of PrivBatchHookProofs.tla.   *)
(***************************************************************************)
EXTENDS PrivBatchHookProofs

USE DEF ledger

AbsStatus == [p \in Pools |-> [i \in Intents |-> StatusOf(p, i)]]

(* A step that leaves the entries of the keccak hashes alone leaves every   *)
(* status alone.                                                           *)
LEMMA StatusUnchanged ==
    ASSUME \A p \in Pools, i \in Intents :
              /\ pending'[p][HashOf[i]] = pending[p][HashOf[i]]
              /\ revealed'[p][HashOf[i]] = revealed[p][HashOf[i]]
    PROVE  AbsStatus' = AbsStatus
  <1>1. ASSUME NEW p \in Pools, NEW i \in Intents
        PROVE  StatusOf(p, i)' = StatusOf(p, i)
    <2>1. /\ pending'[p][HashOf[i]] = pending[p][HashOf[i]]
          /\ revealed'[p][HashOf[i]] = revealed[p][HashOf[i]]
      OBVIOUS
    <2> QED  BY <2>1 DEF StatusOf
  <1> QED  BY <1>1 DEF AbsStatus

(* A stored reveal is consumed only by executing it. *)
THEOREM RevealsConsumedByExecution == Spec => RevealConsumedByExecution
  <1>1. ASSUME IInv, [Next]_vars, NEW h \in Hashes,
               revealStorage[h] # NoIntent, revealStorage'[h] = NoIntent
        PROVE  \E l \in legs' \ legs : l.hash = h /\ l.intent = revealStorage[h]
    <2>0. TypeOK
      BY <1>1 DEF IInv
    <2>1. ASSUME NEW p \in Pools, NEW b \in Batches, NEW marks,
                 AllStored(b), ExecuteBatch(p, b, marks)
          PROVE  \E l \in legs' \ legs : l.hash = h /\ l.intent = revealStorage[h]
      <3>1. PICK leg : /\ legs' = legs \cup {leg[k] : k \in DOMAIN b}
                       /\ \A k \in DOMAIN b : IsLeg(leg[k], p, b, k)
        BY <2>0, <2>1, LegsOfBatch
      <3>2. PICK k \in DOMAIN b : b[k] = h
        BY <1>1, <2>1 DEF ExecuteBatch, DeleteReveals, HashesOf
      <3>3. /\ leg[k].hash = h /\ leg[k].intent = revealStorage[h]
            /\ leg[k].pool = p
        BY <3>1, <3>2 DEF IsLeg
      <3>4. NonceOf(p, revealStorage[h]) \notin usedNonces
        BY <2>1, <3>2 DEF ExecuteBatch, ProcessReveals, NoncesUnused
      <3>5. leg[k] \notin legs
        BY <1>1, <3>3, <3>4 DEF IInv, SingleExecution
      <3> QED  BY <3>1, <3>3, <3>5
    <2>2. \A i \in Intents : i # NoIntent
      BY ConstantsAssumption
    <2>3. CASE UNCHANGED revealStorage
      BY <1>1, <2>3
    <2>4. ASSUME NEW g \in Hashes, NEW i \in Intents,
                 revealStorage' = [revealStorage EXCEPT ![g] = i]
          PROVE  FALSE
      BY <1>1, <2>0, <2>2, <2>4 DEF TypeOK
    <2>5. \A i \in Intents : HashOf[i] \in Hashes
      BY HashAssumption
    <2> QED
      BY <1>1, <2>1, <2>3, <2>4, <2>5
      DEF Next, vars, Tick, SubmitCommitment, SubmitCommitmentWithProof, SubmitReveal,
          SubmitRevealForZK, RevealAndBatchExecute, RevealAndBatchExecuteWithProofs
  <1>2. IInv /\ [Next]_vars =>
           [\A h \in Hashes :
              revealStorage[h] # NoIntent /\ revealStorage'[h] = NoIntent =>
                \E l \in legs' \ legs : l.hash = h /\ l.intent = revealStorage[h]]_vars
    BY <1>1
  <1> QED  BY <1>2, InvariantHolds, PTL DEF Spec, RevealConsumedByExecution

(* ----------------------------- refinement ------------------------------ *)

LEMMA KeccakHashes == \A i \in Intents : HashOf[i] \in Hashes /\ HashOf[i] \notin Provable
  BY HashAssumption

(* The statuses read from the entries of one pool. *)
LEMMA StatusValues ==
    ASSUME TypeOK, NEW p \in Pools, NEW i \in Intents
    PROVE  /\ StatusOf(p, i) = "none" <=>
                 revealed[p][HashOf[i]] = 0 /\ pending[p][HashOf[i]] = 0
           /\ StatusOf(p, i) = "committed" <=>
                 revealed[p][HashOf[i]] = 0 /\ pending[p][HashOf[i]] > 0
           /\ StatusOf(p, i) = "executed" <=> revealed[p][HashOf[i]] > 0
  <1>1. pending[p][HashOf[i]] \in Nat /\ revealed[p][HashOf[i]] \in Nat
    BY KeccakHashes DEF TypeOK
  <1> QED  BY <1>1 DEF StatusOf

(* A commitment commits the intent of its hash, or changes no status. *)
LEMMA CommitRefines ==
    ASSUME TypeOK, NEW p \in Pools, NEW h \in Hashes, SubmitCommitment(p, h)
    PROVE  Lifecycle!Next \/ AbsStatus' = AbsStatus
  <1>1. /\ UNCHANGED <<now, revealed, lastBatchTimestamp>>
        /\ pending' = [pending EXCEPT ![p][h] = @ + 1]
        /\ pending \in [Pools -> [Hashes -> Nat]]
    BY DEF SubmitCommitment, Push, TypeOK
  <1>2. CASE \E i \in Intents : HashOf[i] = h /\ StatusOf(p, i) = "none"
    <2>1. PICK i \in Intents : HashOf[i] = h /\ StatusOf(p, i) = "none"
      BY <1>2
    <2>2. AbsStatus' = [AbsStatus EXCEPT ![p][i] = "committed"]
      <3>1. ASSUME NEW q \in Pools, NEW j \in Intents, ~(q = p /\ j = i)
            PROVE  StatusOf(q, j)' = StatusOf(q, j)
        <4>1. pending'[q][HashOf[j]] = pending[q][HashOf[j]]
          BY <1>1, <2>1, <3>1, HashAssumption
        <4> QED  BY <1>1, <4>1 DEF StatusOf
      <3>2. StatusOf(p, i)' = "committed"
        <4>1. revealed[p][h] = 0 /\ pending[p][h] = 0
          BY <2>1, StatusValues
        <4>2. revealed'[p][h] = 0 /\ pending'[p][h] = 1
          BY <1>1, <4>1
        <4> QED  BY <2>1, <4>2 DEF StatusOf
      <3> QED  BY <3>1, <3>2 DEF AbsStatus
    <2>3. Lifecycle!Commit(p, i)
      BY <1>1, <2>1, <2>2 DEF Lifecycle!Commit, AbsStatus
    <2> QED  BY <2>3 DEF Lifecycle!Next
  <1>3. CASE \A i \in Intents : HashOf[i] = h => StatusOf(p, i) # "none"
    <2>1. ASSUME NEW q \in Pools, NEW j \in Intents
          PROVE  StatusOf(q, j)' = StatusOf(q, j)
      <3>1. CASE q = p /\ HashOf[j] = h
        <4>1. revealed[p][h] > 0 \/ pending[p][h] > 0
          BY <1>3, <3>1, StatusValues DEF StatusOf
        <4>2. /\ revealed'[p][h] = revealed[p][h]
              /\ pending'[p][h] = pending[p][h] + 1
              /\ pending[p][h] \in Nat
          BY <1>1
        <4> QED  BY <3>1, <4>1, <4>2 DEF StatusOf
      <3>2. CASE ~(q = p /\ HashOf[j] = h)
        <4>1. pending'[q][HashOf[j]] = pending[q][HashOf[j]]
          BY <1>1, <3>2, KeccakHashes
        <4> QED  BY <1>1, <4>1 DEF StatusOf
      <3> QED  BY <3>1, <3>2
    <2> QED  BY <2>1 DEF AbsStatus
  <1> QED  BY <1>2, <1>3

(* The batch of a set of intents is due, and moves the pool's clock. *)
LEMMA BatchDueRefines ==
    ASSUME NEW p \in Pools, NEW b \in Batches, NEW marks, ExecuteBatch(p, b, marks)
    PROVE  Lifecycle!BatchDue(p)
  BY DEF ExecuteBatch, IntervalElapsed, Lifecycle!BatchDue

(* A batch of Poseidon commitments touches no keccak commitment. *)
LEMMA OpaqueBatchRefines ==
    ASSUME TypeOK, NEW p \in Pools, NEW b \in Batches,
           RevealAndBatchExecuteWithProofs(p, b)
    PROVE  Lifecycle!Next
  <1>1. ExecuteBatch(p, b, BothMarkingLoops(p)) /\ HashesOf(b) \subseteq Provable
    BY DEF RevealAndBatchExecuteWithProofs
  <1>2. AbsStatus' = AbsStatus
    BY <1>1, KeccakHashes, EntriesAfterBatch, StatusUnchanged
  <1>3. Lifecycle!ExecuteOpaque(p)
    BY <1>1, <1>2, BatchDueRefines DEF Lifecycle!ExecuteOpaque, AbsStatus
  <1> QED  BY <1>3 DEF Lifecycle!Next

(* The intents of a keccak batch, one for each of its positions. *)
IntentsOf(b) == {revealStorage[b[k]] : k \in DOMAIN b}

(* Distinct nonces make distinct intents: a batch executes as many intents *)
(* as it lists hashes.                                                     *)
LEMMA BatchSize ==
    ASSUME TypeOK, NEW p \in Pools, NEW b \in Batches, NoncesUnused(p, b)
    PROVE  Cardinality(IntentsOf(b)) >= MIN_COMMITMENTS
  <1>1. PICK n \in Nat : /\ n >= MIN_COMMITMENTS
                         /\ b \in [1..n -> Hashes]
                         /\ DOMAIN b = 1..n
    BY BatchType
  <1> DEFINE f == [k \in 1..n |-> revealStorage[b[k]]]
  <1>2. f \in Bijection(1..n, IntentsOf(b))
    <2>1. f \in [1..n -> IntentsOf(b)]
      BY <1>1 DEF IntentsOf
    <2>2. \A j, k \in 1..n : f[j] = f[k] => j = k
      BY <1>1 DEF NoncesUnused
    <2>3. \A i \in IntentsOf(b) : \E k \in 1..n : f[k] = i
      BY <1>1 DEF IntentsOf
    <2> HIDE DEF f
    <2> QED  BY <2>1, <2>2, <2>3 DEF Bijection, Injection, Surjection, IsInjective
  <1>3. ExistsBijection(1..n, IntentsOf(b))
    BY <1>2 DEF ExistsBijection
  <1>4. Cardinality(IntentsOf(b)) = n
    BY <1>3, FS_CountingElements
  <1> QED  BY <1>1, <1>4

(* A keccak batch executes the intents it reveals, all of them committed,  *)
(* alive, of fresh and distinct nonces.                                    *)
LEMMA KeccakBatchRefines ==
    ASSUME IInv, TypeOK', NEW p \in Pools, NEW b \in Batches, RevealAndBatchExecute(p, b)
    PROVE  Lifecycle!Next
  <1> DEFINE S == IntentsOf(b)
             marks == [h \in Hashes |-> 1]
  <1>0. TypeOK
    BY DEF IInv
  <1>1. AllStored(b) /\ ExecuteBatch(p, b, marks)
    BY DEF RevealAndBatchExecute
  <1>2. /\ DeadlinesMet(b) /\ NoncesUnused(p, b) /\ CommitmentsPending(p, b)
    BY <1>1 DEF ExecuteBatch, ProcessReveals
  <1>3. S \subseteq Intents
    BY <1>0, <1>1, StoredIntents DEF IntentsOf
  <1>4. Matched(b, marks)
    BY <1>0, <1>1, StoredIntents DEF RevealAndBatchExecute, Matched
  <1>5. \A i \in Intents : HashOf[i] \in HashesOf(b) <=> i \in S
    <2>1. \A k \in DOMAIN b : /\ HashOf[revealStorage[b[k]]] = b[k]
                              /\ revealStorage[b[k]] \in Intents
      BY <1>0, <1>1, StoredIntents DEF RevealAndBatchExecute
    <2> QED  BY <2>1, HashAssumption DEF HashesOf, IntentsOf
  <1>6. ASSUME NEW i \in S
        PROVE  StatusOf(p, i) = "committed" /\ now <= i.deadline /\ NonceOf(p, i) \notin usedNonces
    <2>1. PICK k \in DOMAIN b : revealStorage[b[k]] = i
      BY DEF IntentsOf
    <2>2. now <= i.deadline /\ NonceOf(p, i) \notin usedNonces
      BY <1>2, <2>1 DEF DeadlinesMet, NoncesUnused
    <2>3. b[k] = HashOf[i]
      BY <2>1 DEF RevealAndBatchExecute
    <2>4. pending[p][HashOf[i]] > 0
      BY <1>2, <2>3 DEF CommitmentsPending
    <2>5. revealed[p][HashOf[i]] = 0
      BY <1>1, <1>3, <1>4, <1>5, BatchHashesFresh
    <2> QED  BY <1>0, <1>3, <2>2, <2>4, <2>5, StatusValues
  <1>7. ASSUME NEW i \in S, NEW j \in Intents, i # j, i.user = j.user, i.nonce = j.nonce
        PROVE  j \notin S /\ StatusOf(p, j) # "executed"
    <2>1. NonceOf(p, j) = NonceOf(p, i)
      BY <1>7 DEF NonceOf
    <2>2. j \notin S
      BY <1>2, <1>7, <2>1 DEF IntentsOf, NoncesUnused
    <2>3. StatusOf(p, j) # "executed"
      BY <1>0, <1>6, <2>1, ExecutedMeansNonceUsed, StatusValues
    <2> QED  BY <2>2, <2>3
  <1>8. AbsStatus' = [AbsStatus EXCEPT ![p] =
                         [i \in Intents |-> IF i \in S THEN "executed" ELSE @[i]]]
    <2>1. ASSUME NEW q \in Pools, NEW i \in Intents, ~(q = p /\ i \in S)
          PROVE  StatusOf(q, i)' = StatusOf(q, i)
      <3>1. /\ pending'[q][HashOf[i]] = pending[q][HashOf[i]]
            /\ revealed'[q][HashOf[i]] = revealed[q][HashOf[i]]
        BY <1>0, <1>1, <1>5, <2>1, KeccakHashes, EntriesAfterBatch
      <3> QED  BY <3>1 DEF StatusOf
    <2>2. ASSUME NEW i \in S
          PROVE  StatusOf(p, i)' = "executed"
      <3>1. revealed'[p][HashOf[i]] = revealed[p][HashOf[i]] + marks[HashOf[i]]
        BY <1>0, <1>1, <1>3, <1>5, KeccakHashes, EntriesAfterBatch
      <3>2. revealed[p][HashOf[i]] \in Nat /\ marks[HashOf[i]] = 1
        BY <1>0, <1>3, KeccakHashes DEF TypeOK
      <3> QED  BY <3>1, <3>2 DEF StatusOf
    <2> HIDE DEF S
    <2> QED  BY <2>1, <2>2 DEF AbsStatus
  <1>9. Cardinality(S) >= MIN_COMMITMENTS
    BY <1>0, <1>2, BatchSize
  <1>10. Lifecycle!BatchDue(p)
    BY <1>1, BatchDueRefines
  <1> HIDE DEF S
  <1>11. Lifecycle!Execute(p, S)
    <2>1. \A i \in S : AbsStatus[p][i] = "committed" /\ now <= i.deadline
      BY <1>3, <1>6 DEF AbsStatus
    <2>2. \A i \in S, j \in Intents :
             i # j /\ Lifecycle!SameNonce(i, j) => j \notin S /\ AbsStatus[p][j] # "executed"
      BY <1>7 DEF AbsStatus, Lifecycle!SameNonce
    <2>3. Lifecycle!Cardinality(S) = Cardinality(S)
      BY DEF Lifecycle!Cardinality, Cardinality
    <2> QED  BY <1>8, <1>9, <1>10, <2>1, <2>2, <2>3 DEF Lifecycle!Execute, AbsStatus
  <1> QED  BY <1>3, <1>11 DEF Lifecycle!Next

(* Every transaction is a step of the life cycle or a stutter. *)
LEMMA StepRefines ==
    ASSUME IInv, TypeOK', [Next]_vars
    PROVE  [Lifecycle!Next]_(Lifecycle!vars)
  <1>0. TypeOK
    BY DEF IInv
  <1>1. ASSUME AbsStatus' = AbsStatus, UNCHANGED <<now, lastBatchTimestamp>>
        PROVE  UNCHANGED Lifecycle!vars
    BY <1>1 DEF Lifecycle!vars, AbsStatus
  <1>2. CASE Tick
    <2>1. AbsStatus' = AbsStatus
      BY <1>2, StatusUnchanged DEF Tick
    <2>2. Lifecycle!Tick
      BY <1>2, <2>1 DEF Tick, Lifecycle!Tick, AbsStatus
    <2> QED  BY <2>2 DEF Lifecycle!Next
  <1>3. ASSUME NEW p \in Pools, NEW h \in Hashes, SubmitCommitment(p, h)
        PROVE  [Lifecycle!Next]_(Lifecycle!vars)
    <2>1. UNCHANGED <<now, lastBatchTimestamp>>
      BY <1>3 DEF SubmitCommitment
    <2> QED  BY <1>0, <1>1, <1>3, <2>1, CommitRefines
  <1>4. ASSUME NEW p \in Pools, NEW h \in Hashes, SubmitCommitmentWithProof(p, h)
        PROVE  UNCHANGED Lifecycle!vars
    <2>1. \A q \in Pools, i \in Intents : pending'[q][HashOf[i]] = pending[q][HashOf[i]]
      <3>1. CASE UNCHANGED pending
        BY <3>1
      <3>2. CASE Push(p, h)
        BY <1>0, <1>4, <3>2, KeccakHashes DEF Push, TypeOK, SubmitCommitmentWithProof
      <3> QED  BY <1>4, <3>1, <3>2 DEF SubmitCommitmentWithProof
    <2>2. AbsStatus' = AbsStatus
      BY <1>4, <2>1, StatusUnchanged DEF SubmitCommitmentWithProof
    <2> QED  BY <1>1, <1>4, <2>2 DEF SubmitCommitmentWithProof
  <1>5. ASSUME UNCHANGED <<now, ledger>>
        PROVE  UNCHANGED Lifecycle!vars
    BY <1>1, <1>5, StatusUnchanged
  <1>6. ASSUME NEW p \in Pools, NEW b \in Batches, RevealAndBatchExecute(p, b)
        PROVE  Lifecycle!Next
    BY <1>6, KeccakBatchRefines
  <1>7. ASSUME NEW p \in Pools, NEW b \in Batches, RevealAndBatchExecuteWithProofs(p, b)
        PROVE  Lifecycle!Next
    BY <1>0, <1>7, OpaqueBatchRefines
  <1> QED  BY <1>2, <1>3, <1>4, <1>5, <1>6, <1>7
           DEF Next, vars, SubmitReveal, SubmitRevealForZK

LEMMA InitRefines == Init => Lifecycle!Init
  <1> SUFFICES ASSUME Init PROVE Lifecycle!Init
    OBVIOUS
  <1>1. \A p \in Pools, i \in Intents : StatusOf(p, i) = "none"
    BY KeccakHashes DEF Init, StatusOf
  <1> QED  BY <1>1 DEF Init, Lifecycle!Init

(* PrivBatchHook implements IntentLifecycle: on both paths, with duplicated *)
(* commitments, shared reveals and reused nonces, each intent of a pool is  *)
(* committed and then executed at most once, in time and in company.       *)
THEOREM HookImplementsLifecycle == Spec => ImplementsLifecycle
  <1>1. Spec => [](IInv /\ TypeOK)
    <2>1. IInv => TypeOK
      BY DEF IInv
    <2> QED  BY <2>1, InvariantHolds, PTL
  <1>2. IInv /\ TypeOK' /\ [Next]_vars => [Lifecycle!Next]_(Lifecycle!vars)
    BY StepRefines
  <1> QED  BY <1>1, <1>2, InitRefines, PTL DEF Spec, ImplementsLifecycle, Lifecycle!Spec
=============================================================================
