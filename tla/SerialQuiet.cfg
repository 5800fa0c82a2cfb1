SPECIFICATION Spec
CONSTANTS
    Threads = {t1, t2}
    None = None
    BufCap = 3
    HW_BUFF_SIZE = 2
    UartDepth = 3
    Stamp = 7
    MaxLen = 4
    WindowOpen = FALSE
INVARIANTS
    TypeOK
    WaitingForInterrupt
    NothingStranded
    InOrder
PROPERTIES
    WritersWoken
    OutputDrains
