SPECIFICATION RunnerFairSpec
CONSTANTS
    MaxSignals = 2
    MaxStarts = 1
    MaxPosts = 0
INVARIANTS
    CleanExitLeavesNothing
PROPERTIES
    StopFinishes
CHECK_DEADLOCK FALSE
