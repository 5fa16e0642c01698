---------------------------- MODULE MCSerialLine ---------------------------
(* An instance of SerialLine for model checking. *)
EXTENDS SerialLine

MCEvent == {"line", "continue", "other"}
=============================================================================
