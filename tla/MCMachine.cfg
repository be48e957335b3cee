CONSTANTS
    Programs <- MCPrograms
SPECIFICATION Spec
INVARIANTS
    FramesApart
    OuterFramesLive
PROPERTIES
    NothingLeftBehind
    MeansWhatItSays
CHECK_DEADLOCK FALSE
