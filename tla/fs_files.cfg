SPECIFICATION Spec
CONSTANTS
    NumInodes = 3
    NumBlocks = 3
    DirectBlocks = 2
    BlockSize = 2
    Slots = 3
    Names = {"a", "b"}
    MaxDepth = 2
    Values = {0, 1}
    Sizes = {1, 3}
    MaxFd = 4
    RemovesOpenFiles = FALSE
INVARIANTS
    TypeOK
    BlocksAreAccounted
    DirectoriesAreATree
    NothingIsUnsaved
    OpenFilesAreLive
PROPERTY
    ImplementsFileStore
