SPECIFICATION SerialSpec
CONSTANTS
    Readers = {shell}
    serial = serial
    Event <- MCEvent
    NoEvent = "none"
    NUMEVENTS = 2
    NumEventsMod = 3
    BUFSIZE = 4
    MaxBytes = 6
INVARIANTS SerialTypeOK LinesIntact
PROPERTIES IsFifo AllIsRead
CHECK_DEADLOCK FALSE
