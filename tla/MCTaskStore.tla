---------------------------- MODULE MCTaskStore ----------------------------
(* Instances of TaskStore for TLC. *)
EXTENDS TaskStore, TLC

Symmetry == Permutations(Handlers) \cup Permutations(Members) \cup Permutations(Tasks)
=============================================================================
