SPECIFICATION Spec
CONSTANTS
    Formula <- MCFormula
    Var <- MCVar
    Value <- MCValue
    Holds <- MCHolds
    SortOf <- MCSortOf
    NameOf <- MCNameOf
    Key <- MCKey
    MaxTerms = 2
INVARIANTS
    CheckDecidesSolvability
