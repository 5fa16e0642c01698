SPECIFICATION Spec
CONSTANTS
    a = a
    b = b
    c = c
    NULL = NULL
    Process <- Three
    NUMEVENTS = 2
    Boot <- BootThree
    May <- Ending
    PolledByIsr <- Two
    MaxCalls = 1
    MaxDepth = 3
INVARIANTS
    AllToldOfExit
