SPECIFICATION LiveSpec
CONSTANTS
    c1 = c1
    c2 = c2
    u1 = u1
    u2 = u2
    None = None
    ctimer_process = ctimer_process
    CTimer <- TwoTimers
    User <- TwoUsers
    Capacity = 3
INVARIANTS
    TypeOK
    NeverForgotten
PROPERTIES
    IsCallbackService
    CallbackComes
