------------------------------ MODULE MCCoffee ------------------------------
(* Instances of Coffee for model checking. *)
EXTENDS Coffee

ReadWrite == {{"READ", "WRITE"}}
WriteAppend == {{"WRITE", "APPEND"}}
NameSymmetry == Permutations(Names)
=============================================================================
