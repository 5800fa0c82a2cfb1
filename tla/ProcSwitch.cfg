SPECIFICATION Spec
CONSTANTS
    Procs = {p1, p2}
    Queues = {runq, kbdq}
    RunQ = runq
    KbdQ = kbdq
    NULL = NULL
    Orig = orig
    BufCap = 2
    WindowOpen = TRUE
INVARIANTS
    ControlReachesEligible
