CONSTANTS
    MaxUnits = 4
    Items <- AllItems
    Limits = {0, 7, 8, 10, 11, 12, 14, 16, 17, 18, 20}
SPECIFICATION Spec
INVARIANTS
    StatesFit
    RunesWhole
    StatesKeep
PROPERTIES
    EveryPassShortens
CHECK_DEADLOCK FALSE
