SPECIFICATION Spec
CONSTANTS
    Mod = 3
    Width = 2
    Types = {"FFI"}
    Literal = {0, 2}
    Distances = {1}
    Calls = {"+", "neg", "batch_add", "=="}
    MaxCalls = 3
    Careful = FALSE
PROPERTIES
    EqualityIsOfTheField
CHECK_DEADLOCK FALSE
