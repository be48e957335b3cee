CONSTANTS
    Calls = {c1, c2}
    Selected = {"llm", "llmArgs", "llmLarge", "selectCut", "selectDoc", "classArgs", "classCut"}
    Configurations <- MCConfigurations
    Flags <- WithoutExitStatus
    MaxRetries = 2
    Tasks <- MCTasks
    Messages <- MCMessages
SPECIFICATION FairSpec
INVARIANTS
    TypeOK
    FailuresAreDiscards
    VerdictIsAnswered
    WarningsAddUp
    FailClosedAlone
PROPERTIES
    NoRetryAfterFinal
    RunEnds
CHECK_DEADLOCK FALSE
