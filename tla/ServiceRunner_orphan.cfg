SPECIFICATION RunnerSpec
CONSTANTS
    MaxSignals = 2
    MaxStarts = 1
    MaxPosts = 0
INVARIANTS
    CleanExitLeavesNoOrphan
CHECK_DEADLOCK FALSE
