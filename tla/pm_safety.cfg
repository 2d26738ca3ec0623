SPECIFICATION MCSpec
CONSTANTS
    MaxPid = 3
    TimeSlice = 2
    Lengths = {0, 3}
    Durations = {0, 2}
    DevIds = {0, 1}
    MaxSteers = 2
INVARIANTS
    TypeOK
    RunningIsCurrent
    ReadyIsQueued
    NoLostWakeup
    ClaimsAreSound
PROPERTIES
    FifoService
    OwnerKeepsDisk
