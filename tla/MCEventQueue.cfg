SPECIFICATION Spec
CONSTANTS
    a = a
    b = b
    NoEvent = NoEvent
    Event <- MCEvent
    NUMEVENTS = 5
    NumEventsMod = 9
INVARIANT TypeOK
PROPERTY IsFifo
