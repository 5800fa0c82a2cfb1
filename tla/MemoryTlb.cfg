SPECIFICATION Spec
CONSTANTS
    PAGE_SIZE = 4
    physical_regions <- MCRegions
    kernel <- MCKernel
    multiboot <- MCMultiboot
    NoFrame = NoFrame
    HeapStart = 15
    StacksStart = 16
    StackPages = 2
    MaxStacks = 2
    TableSpan = 16
    MaxFrames = 6
    NoPage = NoPage
    TlbPages <- MCTlbPages
    TlbCoherent = FALSE
INVARIANTS
    FreedFramesUnreachable
