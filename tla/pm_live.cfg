SPECIFICATION RRFairSpec
CONSTANTS
    MaxPid = 3
    TimeSlice = 2
    Lengths = {3}
    Durations = {2}
    DevIds = {0}
    MaxSteers = 1
INVARIANT
    OneTurnUnlessSteered
PROPERTIES
    SleepEnds
    DeviceWaitEnds
    ProgramsFinish
