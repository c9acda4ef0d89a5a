CONSTANTS
    CharBits = 4
    ShortBits = 8
    IntBits = 12
    IntegerBufLen = 64
    Characters <- MCCharacters
    CharOf <- MCCharOf
    Strings <- MCStrings
    WildText <- MCWildText
    Formats <- MCFormats
    Behind <- MCBehind
    Stacks <- MCStacks
SPECIFICATION Spec
CHECK_DEADLOCK FALSE
INVARIANTS
    TypeOK
    ArgsInStep
    PrintsAsC11
    StaysInFormat
    BufferHolds
PROPERTIES
    CallReturns
