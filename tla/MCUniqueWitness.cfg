SPECIFICATION PrintSpec
CONSTANTS
    Mod = 3
    Literal <- MCLiteral
    Zero = "0"
    One = "1"
    Meaning <- MCMeaning
    Reading <- MCReading
    Name <- MCName
    Schema <- MCSchema
    Call <- MCCall
    Request <- MCRequest
INVARIANTS
    FileShowsEvidence
    ShownAsInTheFile
PROPERTIES
    AnswersTheQuestion
    Ends
CHECK_DEADLOCK FALSE
