CONSTANTS
    PageSize = 4
    BitsPerByte = 2
    WordBytes = 2
    PtrLimit = 128
    LowMemory = {{}}
    CounterLimit = 100
    Maps <- PartialWordMaps
    Counts <- SomeCounts
    Hints <- FewHints
SPECIFICATION Spec
CHECK_DEADLOCK FALSE
INVARIANTS
    NullMeansNoRun
