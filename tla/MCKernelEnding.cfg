SPECIFICATION LiveSpec
CONSTANTS
    a = a
    b = b
    c = c
    NULL = NULL
    Process <- Three
    NUMEVENTS = 2
    Boot <- BootThree
    May <- Ending
    PolledByIsr = {b}
    MaxCalls = 1
    MaxDepth = 3
INVARIANTS
    TypeOK
    NoLostPoll
    EnteredOnce
    ListedAreRunning
    BroadcastOnce
PROPERTY PollsAnswered
