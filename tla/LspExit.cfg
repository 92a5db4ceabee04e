SPECIFICATION Spec
CONSTANTS
    Uris = {a}
    Texts = {"fine"}
    Kinds = {"didOpen", "didSave", "exit"}
    MaxMessages = 3
    MaxYields = 1
    JobCapacity = 1
    EarlyWakes = FALSE
INVARIANT ExitIsNoticed
CHECK_DEADLOCK FALSE
