CONSTANTS
    PageSize = 4
    BitsPerByte = 2
    WordBytes = 2
    PtrLimit = 64
    LowMemory = {{}}
    CounterLimit = 100
    Maps <- MCHighMaps
    Counts <- NoCalls
    Hints <- NoCalls
SPECIFICATION BootSpec
CHECK_DEADLOCK FALSE
INVARIANTS
    OnlyUsableFree
