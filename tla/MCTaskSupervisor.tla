-------------------------- MODULE MCTaskSupervisor --------------------------
(* The supervisor of one task for TLC: the pollers are interchangeable. *)
EXTENDS TaskSupervisor, TLC

Symmetry == Permutations(Pollers)
=============================================================================
