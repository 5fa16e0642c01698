--------------------------- MODULE MCEventQueue ----------------------------
(* A small instance of EventQueue: an odd number of slots, so that the     *)
(* wrap of the index is not hidden by a mask, and a counter type whose     *)
(* range is barely large enough.                                           *)
EXTENDS EventQueue
CONSTANTS a, b
MCEvent == {a, b}
=============================================================================
