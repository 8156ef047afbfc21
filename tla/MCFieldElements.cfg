SPECIFICATION Spec
CONSTANTS
    Mod = 7
    Word = 4
    Fr_N64 = 2
    ScalarBits = 4
    Small <- MCSmall
    Number <- MCNumber
INVARIANTS
    TypeOK
    PrintsItsValue
    FullNumbersReadBack
PROPERTIES
    ComputesInTheField
CHECK_DEADLOCK FALSE
