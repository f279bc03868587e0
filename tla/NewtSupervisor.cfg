SPECIFICATION FairSpec
CONSTANTS
    Procs = {p1, p2}
    MaxStops = 1
INVARIANTS
    HealthFileIsEarned
PROPERTIES
    ImplementsKeepAlive
    DropIsReported
    ConnectionIsReported
CHECK_DEADLOCK FALSE
