SPECIFICATION FairSpec
CONSTANTS
    MaxJobs = 3
    MaxFinishedRetained = 1
    Workers = {w1, w2}
    MaxStops = 2
INVARIANTS
    OneAtATime
    LiveRegistered
    SubmissionOrder
PROPERTIES
    NoStartDuringShutdown
    ImplementsLedger
    EveryJobEnds
    StopEndsWorkers
CHECK_DEADLOCK FALSE
