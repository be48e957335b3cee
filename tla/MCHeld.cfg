CONSTANTS
    Calls <- CallsD
    Witnesses <- Beside
    MaxRune = 15
    RuneError = 14
    Surrogates = {13}
    OneByte = 12
    LongString = 12
    HalfRange = 16
    Precision = 4
    MaxExponent = 4
    MaxRange = 40
    Operands <- OperandsD
    Ranges <- RangesD
    Inputs <- Roots
    Ops <- OpsD
    PathLists <- PathListsD
    MaxDepth = 8
SPECIFICATION Spec
INVARIANTS
    HeldKeptAlways
CHECK_DEADLOCK FALSE
