SPECIFICATION Spec
CONSTANTS
    c1 = c1
    c2 = c2
    u1 = u1
    u2 = u2
    None = None
    ctimer_process = ctimer_process
    CTimer <- TwoTimers
    User <- OneUser
    Capacity = 2
INVARIANT CallbackIsDue
