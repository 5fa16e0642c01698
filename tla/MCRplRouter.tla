---------------------------- MODULE MCRplRouter ----------------------------
(* Instances of RplRouter for model checking. *)
EXTENDS RplRouter

TargetSymmetry == Permutations(Targets)
=============================================================================
