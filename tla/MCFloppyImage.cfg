CONSTANTS
    SectorSize = 8
    ImageSectors = 12
    FatSectors = 3
    RootDirSectors = 1
    DirectoryEntrySize = 4
    BpbSize = 4
    IntMax = 28
    Edits = 1
    Paths <- MCPaths
    Trees <- MCTrees
    Listing <- MCListing
    Args <- MCArgs
    Lengths <- MCLengths
SPECIFICATION FairSpec
CHECK_DEADLOCK FALSE
INVARIANTS
    TypeOK
    FilesReadBack
    UntouchedIsExact
    ChainsInOrder
    NothingLeftOut
PROPERTIES
    BuildEnds
