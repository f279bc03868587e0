SPECIFICATION RunnerSpec
CONSTANTS
    MaxSignals = 1
    MaxStarts = 1
    MaxPosts = 0
PROPERTIES
    MissingNeverRaises
CHECK_DEADLOCK FALSE
