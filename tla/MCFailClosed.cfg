CONSTANTS
    Calls = {c1}
    Selected = {"llm", "selectCut", "classCut"}
    Configurations <- MCConfigurations
    Flags <- WithExitStatus
    MaxRetries = 2
    Tasks <- MCTasks
    Messages <- MCMessages
SPECIFICATION Spec
INVARIANTS
    FailClosed
CHECK_DEADLOCK FALSE
