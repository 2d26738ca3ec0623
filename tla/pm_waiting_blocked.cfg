SPECIFICATION MCSpec
CONSTANTS
    MaxPid = 1
    TimeSlice = 3
    Lengths = {4}
    Durations = {2}
    DevIds = {0}
    MaxSteers = 0
INVARIANT
    WaitingIsBlocked
