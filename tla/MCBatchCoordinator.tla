------------------------- MODULE MCBatchCoordinator -------------------------
(***************************************************************************)
(* Small instances of BatchCoordinator for TLC.                            *)
(***************************************************************************)
EXTENDS BatchCoordinator, TLC

AgentSymmetry == Permutations(Agents)
=============================================================================
