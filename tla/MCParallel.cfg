CONSTANTS
    Workers = {w1, w2}
    MaxInputs = 4
    Kinds = {"plain", "halts", "nul", "read"}
    Worlds <- MCWorlds
SPECIFICATION FairSpec
INVARIANTS
    TypeOK
    OnePlace
    PrintedInOrder
    ReturnsComplete
PROPERTIES
    SequentialUpToHalt
    Termination
    NoGoroutineLeak
CHECK_DEADLOCK FALSE
