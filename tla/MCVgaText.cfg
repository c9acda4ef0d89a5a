CONSTANTS
    VGA_Width = 3
    VGA_Height = 3
    TabStop = 2
    VGA_BlankChar = " "
    Printable <- MCPrintable
    Texts <- MCTexts
    Places <- MCPlaces
SPECIFICATION FairSpec
INVARIANTS
    TypeOK
    WritesOnScreen
PROPERTIES
    CursorFollows
    PrintReturns
    ImplementsTerminal
