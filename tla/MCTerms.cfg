SPECIFICATION Spec
CONSTANTS
    Mod = 5
    Width = 2
    Types = {"FF", "FFI", "BV"}
    Literal = {0, 4}
    Distances = {1}
    Calls <- AllCalls
    MaxCalls = 3
    Careful = TRUE
INVARIANTS
    TypeOK
    ModelsAreReduced
    UnusableOperations
PROPERTIES
    ComputesInTheRing
    DivisionIsDetermined
CHECK_DEADLOCK FALSE
