SPECIFICATION RunnerSpec
CONSTANTS
    MaxSignals = 1
    MaxStarts = 1
    MaxPosts = 1
INVARIANTS
    BackfillIsFirst
CHECK_DEADLOCK FALSE
