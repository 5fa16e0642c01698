SPECIFICATION LiveSpec
CONSTANTS
    a = a
    b = b
    c = c
    NULL = NULL
    Process <- Two
    NUMEVENTS = 1
    Boot <- BootTwo
    May <- Pausing
    PolledByIsr = {}
    MaxCalls = 1
    MaxDepth = 3
PROPERTIES
    PauseEnds
