SPECIFICATION SweepSpec
CONSTANTS
    Pids = {1, 2}
    NumPages = 2
    NumFrames = 4
    SwapBlocks = {}
    Values = {0}
    Zero = 0
INVARIANT
    SweepIsAsComputed
PROPERTY
    SweepEnds
\* The loop ends with the victim chosen.
CHECK_DEADLOCK FALSE
