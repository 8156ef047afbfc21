SPECIFICATION FairSpec
CONSTANTS
    Mod = 3
    Literal <- MCLiteral
    Zero <- MCZero
    One <- MCOne
    Meaning <- MCMeaning
    Reading <- MCReading
    Name <- MCName
    Schema <- MCSchema
    tag = ""
INVARIANTS
    TypeOK
    NoNullTerm
    OptimizedMeansUnused
    EncodingExact
PROPERTIES
    Terminates
CHECK_DEADLOCK FALSE
