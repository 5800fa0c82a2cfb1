SPECIFICATION Spec
CONSTANTS
    NULL = NULL
    Garbage = Garbage
    PAGE_SIZE = 32
    PoolSizes <- MCPoolSizes
    HeaderSize = 1
    SizeOfDev = 3
    SizeOfNode = 3
    SizeOfBlock = 10
    ByteBase = 2
    NumSectors = 20
    DriveKinds = {"floating", "absent", "packet", "error", "lba28", "ata"}
    PromptIdentify = TRUE
    Buffers = {"mbr", "sb", "fat", "dir", "file"}
    PartTypes <- MCPartTypes
    PartStart = 2
    PartLen = 17
    BootSignatures = {TRUE, FALSE}
    FatSignature = TRUE
    reserved_sectors = 1
    num_fats = 2
    sectors_per_fat = 3
    EntsPerFat = 4
    DirEnts = 4
    ClusterSize = 2
    TABLE_VAL_MAX = 24
    EntryMod = 32
    OffMod = 64
    NamePieces = 2
    Dotted <- MCDotted
    Objects <- MCObjects
    Dirs <- MCDirs
    Sizes <- MCSizes
    Layouts <- MCLayouts
    PathOf <- MCPathOf
    Root = "root"
    Slots = {1, 2}
    Lengths = {3}
    MaxLookups = 2
INVARIANTS
    TypeOK
    CacheCoherent
    HeapSound
PROPERTIES
    ImplementsFiles
    CallsReturn
CHECK_DEADLOCK FALSE
