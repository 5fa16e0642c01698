---------------------------- MODULE MCEventTimer ----------------------------
(* Small instances of EventTimer; each .cfg picks the values that its      *)
(* question needs.                                                         *)
EXTENDS EventTimer
CONSTANTS t1, t2, p1, p2

TwoTimers    == {t1, t2}
TwoProcesses == {p1, p2}
OneProcess   == {p1}
Intervals      == {0, 2}
LongIntervals  == {1, 3}
ShortIntervals == {0, 1}
NoAdjustment   == {}
BothWays       == {-1, 1}
Nobody         == {}
=============================================================================
