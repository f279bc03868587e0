SPECIFICATION FairSpec
CONSTANTS
    Procs = {p1, p2}
    MaxStops = 0
PROPERTIES
    UnearnedIsNotReported
CHECK_DEADLOCK FALSE
