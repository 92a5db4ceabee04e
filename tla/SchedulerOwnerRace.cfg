CONSTANTS
    MaxTasks = 2
    MaxChannels = 0
    MaxCapacity = 0
    MaxSends = 0
    MaxFastYields = 1
    ImmediateHosts = TRUE
SPECIFICATION Spec
INVARIANT CurrentIsOwner
CHECK_DEADLOCK FALSE
