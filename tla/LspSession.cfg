SPECIFICATION FairSpec
CONSTANTS
    Uris = {a, b}
    Texts = {"ill_typed"}
    Kinds = {"didOpen", "didChange", "didClose", "shutdown", "exit", "eof"}
    MaxMessages = 4
    MaxYields = 1
    JobCapacity = 1
    EarlyWakes = TRUE
INVARIANTS ExitReachesReader ShownIsOpen
PROPERTY ServerEnds
CHECK_DEADLOCK FALSE
