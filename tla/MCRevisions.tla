---------------------------- MODULE MCRevisions ----------------------------
(* Instances of Revisions for TLC. *)
EXTENDS Revisions, TLC

Symmetry == Permutations(Handlers) \cup Permutations(Specs) \cup Permutations(Revs)
=============================================================================
