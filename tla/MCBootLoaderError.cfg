CONSTANTS
    N_RESERVED_SECTORS = 3
    READ_SIZE = 3
    SECTORS_PER_TRACK = 3
    N_HEADS = 2
    N_CYLINDERS = 3
    SegmentSectors = 8
    MaxMapEntries = 2
    MemorySectors = 10
    Glitches = 4
    BehindFat0 <- LeadsBack
    BehindFat1 <- LeadsAway
    Disks <- MCDisks
    BiosMaps <- GoodMap
    GarbageSections <- GarbageHeaders
    GarbageCounts <- SomeCounts
SPECIFICATION Spec
CHECK_DEADLOCK FALSE
INVARIANTS
    FailureReported
