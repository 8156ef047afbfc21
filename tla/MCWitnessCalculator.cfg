SPECIFICATION FairSpec
CONSTANTS
    N = 3
    Ra = 1
    Rb = 2
    Rc = 1
    Mod = 13
    Key <- MCKey
    Hash <- MCHash
    Table <- MCTable
    Json <- MCJson
    DoublePrecision = 2
    MaxDigits = 2
    Foreign = 99
INVARIANTS
    TypeOK
    RunsOnAllInputs
    WitnessSolvesConstraints
    WitnessIsForTheFile
    RefusedOnlyAtTheEnd
    RunWhenComplete
    NothingReadUnset
    ComputesSigma
PROPERTIES
    InputsFrozen
    Ends
CHECK_DEADLOCK FALSE
