SPECIFICATION RunnerFairSpec
CONSTANTS
    MaxSignals = 2
    MaxStarts = 1
    MaxPosts = 0
PROPERTIES
    StopIsSafeInHandler
CHECK_DEADLOCK FALSE
