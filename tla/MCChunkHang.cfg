CONSTANTS
    MaxUnits = 0
    Items <- StrayItems
    Limits = {8}
SPECIFICATION FairSpec
PROPERTIES
    NeverHangs
CHECK_DEADLOCK FALSE
