SPECIFICATION Spec
CONSTANTS
    Circuit <- MCCircuit
INVARIANTS
    TypeOK
    OneBuildAfterMake
    NamesOnTheirWires
    PublicInputsIffNoOutputs
    ConstraintsKept
PROPERTIES
    TranslatesAfterMake
