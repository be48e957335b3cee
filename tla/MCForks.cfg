CONSTANTS
    Stacks = {stack}
    Values = {u, v}
    MaxBlocks = 4
    MaxForks = 2
SPECIFICATION Spec
INVARIANTS
    TypeOK
    ForksProtected
    FreeWhenUnshared
    ViewFollowsBlocks
PROPERTIES
    SavedLikeCopies
CHECK_DEADLOCK FALSE
