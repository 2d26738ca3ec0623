SPECIFICATION MCFairSpec
CONSTANTS
    MaxPid = 1
    TimeSlice = 3
    Lengths = {0, 1, 2, 3}
    Durations = {0}
    DevIds = {0}
    MaxSteers = 0
PROPERTY
    SleepEnds
