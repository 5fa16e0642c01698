-------------------------- MODULE MCCallbackTimer --------------------------
(* Small instances of CallbackTimer. *)
EXTENDS CallbackTimer
CONSTANTS c1, c2, u1, u2

TwoTimers == {c1, c2}
OneUser   == {u1}
TwoUsers  == {u1, u2}
=============================================================================
