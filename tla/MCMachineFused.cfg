CONSTANTS
    Programs <- FusedPrograms
SPECIFICATION Spec
INVARIANTS
    OnlyMeantValues
CHECK_DEADLOCK FALSE
