SPECIFICATION Spec
CONSTANTS
    CharKeys = {"a", "b"}
    ShiftKeys = {"lshift", "rshift"}
    OtherKeys = {"up"}
    Extended = {"up"}
    N_TRIES = 3
    BufCap = 2
    MaxResend = 3
    MaxEarly = 1
    MaxEvents = 3
INVARIANTS
    TypeOK
    InitHonest
    TypedArrives
PROPERTIES
    Responsive
CHECK_DEADLOCK FALSE
