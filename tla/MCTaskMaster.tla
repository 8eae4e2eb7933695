---------------------------- MODULE MCTaskMaster ----------------------------
(* Small instances of TaskMaster for TLC. *)
EXTENDS TaskMaster, TLC

Symmetry == Permutations(TaskIds)
=============================================================================
