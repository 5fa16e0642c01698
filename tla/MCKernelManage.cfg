SPECIFICATION Spec
CONSTANTS
    a = a
    b = b
    c = c
    NULL = NULL
    Process <- Three
    NUMEVENTS = 2
    Boot <- BootThree
    May <- Managing
    PolledByIsr = {}
    MaxCalls = 1
    MaxDepth = 3
INVARIANTS
    CurrentIsRunning
