SPECIFICATION MCFairSpec
CONSTANTS
    MaxPid = 1
    TimeSlice = 3
    Lengths = {0, 1, 2, 3}
    Durations = {1}
    DevIds = {1}
    MaxSteers = 0
PROPERTY
    DeviceWaitEnds
