-------------------------- MODULE MCBatchExecutor --------------------------
(***************************************************************************)
(* Small instances of BatchExecutor for TLC.                               *)
(***************************************************************************)
EXTENDS BatchExecutor, TLC

CONSTANT P1

MCPoolOf == [h \in Hashes |-> P1]
=============================================================================
