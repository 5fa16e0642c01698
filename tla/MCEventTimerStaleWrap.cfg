SPECIFICATION Spec
CONSTANTS
    t1 = t1
    t2 = t2
    p1 = p1
    p2 = p2
    None = None
    Timer <- TwoTimers
    Process <- TwoProcesses
    CLOCK = 6
    Interval <- LongIntervals
    Adjustment <- NoAdjustment
    NUMEVENTS = 1
    MayExit <- OneProcess
    OtherEvents = FALSE
    ClockMayWrap = TRUE
    MaxLate = 1
INVARIANT NoLostExpiry
