SPECIFICATION Spec
CONSTANTS
    Pids = {1, 2}
    NumPages = 2
    NumFrames = 2
    SwapBlocks = {1, 2}
    Values = {0, 1}
    Zero = 0
INVARIANTS
    TypeOK
    FramesMatchTables
    SwapIsConserved
    CleanPagesAreBacked
PROPERTY
    ImplementsVirtualMemory
