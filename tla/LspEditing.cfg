SPECIFICATION Spec
CONSTANTS
    Uris = {a, b}
    Texts = {"ill_typed", "ill_formed"}
    Kinds = {"didOpen", "didChange", "didSave"}
    MaxMessages = 4
    MaxYields = 1
    JobCapacity = 1
    EarlyWakes = FALSE
INVARIANTS ShownIsCurrent CleanIsCurrent PendingIsScheduled
CHECK_DEADLOCK FALSE
