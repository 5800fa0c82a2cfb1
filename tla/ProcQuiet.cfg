SPECIFICATION Spec
CONSTANTS
    Procs = {p1, p2, p3}
    Queues = {runq, kbdq}
    RunQ = runq
    KbdQ = kbdq
    NULL = NULL
    Orig = orig
    BufCap = 2
    WindowOpen = FALSE
INVARIANTS
    TypeOK
    ControlReachesEligible
    HaltOnlyWhenIdle
    NoUnderrun
    ReaderPerCharacter
PROPERTIES
    ImplementsScheduler
    KeysAreServed
