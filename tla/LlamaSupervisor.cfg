SPECIFICATION FairSpec
CONSTANTS
    Procs = {p1, p2, p3}
    LastDelay = 2
    MaxStops = 2
INVARIANTS
    NoOrphan
    SupervisionLasts
    BackoffFollowsSchedule
PROPERTIES
    ImplementsKeepAlive
    CrashIsRepaired
    StopCompletes
CHECK_DEADLOCK FALSE
