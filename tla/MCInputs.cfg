CONSTANTS
    Parts = {"flags", "files", "stream", "position"}
    MaxFiles = 3
    Kind <- Options
    Short <- ByLetter
    Letters = {"n", "L", "q"}
    Integer <- Sevens
    CommandLines <- Lines
    Content <- Files
    ArgLists <- FileLists
    Workers = 1
    Documents <- Docs
    Sources <- Texts
    BufSize = 4
    ReadSize = 3
SPECIFICATION Spec
INVARIANTS
    CommandLineMeant
    InputsInOrder
    HandlesClosed
    NamesOwnFile
    StreamMeant
    KeptErrorLine
CHECK_DEADLOCK FALSE
