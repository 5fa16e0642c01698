---------------------------- MODULE MCSixLowpan ----------------------------
(* Instances of SixLowpan for model checking. *)
EXTENDS SixLowpan, TLC

SenderSymmetry == Permutations(Senders)
=============================================================================
