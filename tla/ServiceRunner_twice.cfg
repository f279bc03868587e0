SPECIFICATION RunnerSpec
CONSTANTS
    MaxSignals = 2
    MaxStarts = 1
    MaxPosts = 0
PROPERTIES
    StopIsIdempotent
CHECK_DEADLOCK FALSE
