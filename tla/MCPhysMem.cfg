CONSTANTS
    PageSize = 4
    BitsPerByte = 2
    WordBytes = 2
    PtrLimit = 128
    LowMemory = {{}}
    CounterLimit = 100
    Maps <- MCMaps
    Counts <- MCCounts
    Hints <- MCHints
SPECIFICATION CarefulFairSpec
INVARIANTS
    TypeOK
    NoDoubleAllocation
    BitmapExact
    AllocatedExact
    RefusalJustified
    HintFirst
PROPERTIES
    CallReturns
    ImplementsPageAllocator
