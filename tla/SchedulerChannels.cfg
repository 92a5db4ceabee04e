CONSTANTS
    MaxTasks = 2
    MaxChannels = 1
    MaxCapacity = 2
    MaxSends = 3
    MaxFastYields = 0
    ImmediateHosts = TRUE
SPECIFICATION Spec
INVARIANTS
    StacksAccounted
    NoSilentHang
    ChannelFIFO
    ChannelConservation
CHECK_DEADLOCK FALSE
