SPECIFICATION LiveSpec
CONSTANTS
    t1 = t1
    t2 = t2
    p1 = p1
    p2 = p2
    None = None
    Timer <- TwoTimers
    Process <- OneProcess
    CLOCK = 5
    Interval <- Intervals
    Adjustment <- NoAdjustment
    NUMEVENTS = 2
    MayExit <- Nobody
    OtherEvents = TRUE
    ClockMayWrap = TRUE
    MaxLate = 1
INVARIANTS
    TypeOK
    NoLostExpiry
PROPERTY OverdueIsAnswered
