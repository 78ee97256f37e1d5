-------------------------- MODULE IntentLifecycle --------------------------
(***************************************************************************)
(* What PrivBatchHook.sol promises about commit-reveal, with no reveals,   *)
(* hashes, counters or tokens: in each pool an intent is committed, and    *)
(* later executed at most once, together with others, before its deadline, *)
(* with no other executed intent of its nonce, and no sooner than          *)
(* BATCH_INTERVAL after the previous batch.  PrivBatchHook.tla implements  *)
(* this with Lifecycle.                                                    *)
(***************************************************************************)
EXTENDS Integers, FiniteSets

CONSTANTS Pools, Intents, MIN_COMMITMENTS, BATCH_INTERVAL, StartTime

VARIABLES
    now,
    status,     \* status[p][i]: "none", "committed" or "executed"
    lastBatch   \* time of the last batch of each pool

vars == <<now, status, lastBatch>>

Status == {"none", "committed", "executed"}

Init ==
    /\ now = StartTime
    /\ status = [p \in Pools |-> [i \in Intents |-> "none"]]
    /\ lastBatch = [p \in Pools |-> 0]

Tick == now' = now + 1 /\ UNCHANGED <<status, lastBatch>>

Commit(p, i) ==
    /\ status[p][i] = "none"
    /\ status' = [status EXCEPT ![p][i] = "committed"]
    /\ UNCHANGED <<now, lastBatch>>

BatchDue(p) ==
    /\ now - lastBatch[p] >= BATCH_INTERVAL
    /\ lastBatch' = [lastBatch EXCEPT ![p] = now]
    /\ UNCHANGED now

SameNonce(i, j) == i.user = j.user /\ i.nonce = j.nonce

(* A batch of the intents S, all committed, alive and of fresh nonces. *)
Execute(p, S) ==
    /\ Cardinality(S) >= MIN_COMMITMENTS
    /\ \A i \in S : status[p][i] = "committed" /\ now <= i.deadline
    /\ \A i \in S, j \in Intents :
          i # j /\ SameNonce(i, j) => j \notin S /\ status[p][j] # "executed"
    /\ status' = [status EXCEPT ![p] =
                    [i \in Intents |-> IF i \in S THEN "executed" ELSE @[i]]]
    /\ BatchDue(p)

(* A batch of Poseidon commitments: their intents were never known here. *)
ExecuteOpaque(p) == BatchDue(p) /\ UNCHANGED status

Next ==
    \/ Tick
    \/ \E p \in Pools, i \in Intents : Commit(p, i)
    \/ \E p \in Pools, S \in SUBSET Intents : Execute(p, S)
    \/ \E p \in Pools : ExecuteOpaque(p)

Spec == Init /\ [][Next]_vars
=============================================================================
