CONSTANTS
    PageSize = 4
    BitsPerByte = 2
    WordBytes = 2
    PtrLimit = 64
    LowMemory = {{}}
    CounterLimit = 100
    Maps <- MCMaps
    Counts <- NoCalls
    Hints <- NoCalls
    AllocBytes = 10
    Registers <- MCRegisters
    ScreenCells <- MCCells
    NULL = NULL
    Tables <- MCTables
    FloatSupport = FALSE
    Processors <- MCProcessors
    Machines <- MCMachines
SPECIFICATION KSpec
CHECK_DEADLOCK FALSE
INVARIANTS
    MapRespected
    BitmapKept
    UsableAllFree
    BitmapHighest
    RefusalJustified
    MemoryRestored
    CursorVisible
    LocationFollows
    CalledInOrder
PROPERTIES
    ReachesEnd
