SPECIFICATION FairSpec
CONSTANTS
    Procs = {p1, p2, p3, p4}
    Queues = {runq, kbdq, serq}
    RunQ = runq
    NULL = NULL
    Orig = orig
INVARIANTS
    TypeOK
    QueuesWellFormed
    LiveThreadsQueued
    CursorFollowsRunning
    HaltOnlyWhenIdle
PROPERTIES
    ImplementsRoundRobin
    NoStarvation
