SPECIFICATION RunnerSpec
CONSTANTS
    MaxSignals = 1
    MaxStarts = 2
    MaxPosts = 1
INVARIANTS
    CleanExitLeavesNoOrphan
CHECK_DEADLOCK FALSE
