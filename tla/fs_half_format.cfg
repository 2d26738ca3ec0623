SPECIFICATION CrashSpec
CONSTANTS
    NumInodes = 3
    NumBlocks = 3
    DirectBlocks = 2
    BlockSize = 2
    Slots = 3
    Names = {"a", "b"}
    MaxDepth = 2
    Values = {0, 1}
    Sizes = {3}
    MaxFd = 3
    ArgLength = 2
    RemovesOpenFiles = FALSE
INVARIANT
    SessionsHaveRoot
