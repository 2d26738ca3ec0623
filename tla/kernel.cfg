SPECIFICATION MCSpec
CONSTANTS
    MaxPid = 2
    TimeSlice = 2
    Lengths = {0, 4}
    Durations = {1}
    DevIds = {0}
    MaxSteers = 1
    Files = {"f"}
    Capacity = 2
    Sizes = {1}
    Operands = {2, 3, 5, 6}
    IntMax = 5
INVARIANTS
    KernelTypeOK
    DescriptorsAreHeld
    MemoryIsOfTheLiving
    ScriptFdsAreNamable
PROPERTIES
    DescriptorsStay
    DescriptorsAreOwn
