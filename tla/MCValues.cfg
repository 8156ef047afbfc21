SPECIFICATION MCSpec
CONSTANTS
    Valuation <- MCValuation
    Atom <- MCAtom
    Calls <- NoAndAssign
    Mod = 211
    Build = {"kept", "extended"}
    Numbers <- MCNumbers
    Width = 3
INVARIANTS
    AssertedHolds
    MisreadCharacterised
CHECK_DEADLOCK FALSE
