SPECIFICATION Spec
CONSTANTS
    Mod = 5
    Literal <- MCLiteralAll
    Zero <- MCZero
    One <- MCOne
    Meaning <- MCMeaningAll
    Reading <- MCReadingAll
    Name <- MCName
    Schema <- MCSchemaAll
    tag = ""
INVARIANTS
    EncodingExactAsWritten
CHECK_DEADLOCK FALSE
