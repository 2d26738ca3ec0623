SPECIFICATION Spec
CONSTANTS
    NumInodes = 3
    NumBlocks = 4
    DirectBlocks = 2
    BlockSize = 2
    Slots = 4
    Names = {"a", "b"}
    MaxDepth = 1
    Values = {0}
    Sizes = {1}
    MaxFd = 3
    RemovesOpenFiles = TRUE
INVARIANT
    BlocksAreAccounted
