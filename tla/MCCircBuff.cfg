SPECIFICATION Spec
CONSTANTS
    BUFF_SIZE = 4
    Chars = {a, b}
    Nothing = Nothing
INVARIANTS
    TypeOK
    HoldsQueue
    ReaderSlotSafe
    FullExactlyAtCapacity
PROPERTIES
    ImplementsFifo
