CONSTANTS
    MaxTasks = 2
    MaxChannels = 1
    MaxCapacity = 1
    MaxSends = 1
    MaxFastYields = 1
    ImmediateHosts = FALSE
SPECIFICATION FairSpec
INVARIANTS
    TypeOK
    CurrentIsOwner
    DeadlockIsReal
    DrainedBeforeExit
PROPERTIES
    EveryTaskStarts
    TimersFire
CHECK_DEADLOCK FALSE
