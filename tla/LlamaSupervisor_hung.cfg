SPECIFICATION FairSpec
CONSTANTS
    Procs = {p1, p2}
    LastDelay = 1
    MaxStops = 1
PROPERTIES
    UnhealthyIsRestarted
CHECK_DEADLOCK FALSE
