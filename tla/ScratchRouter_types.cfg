SPECIFICATION PullSpec
CONSTANTS
    Clients = {c1}
    Ports = {p1}
    Nobody = Nobody
    MaxCalls = 1
    MaxFaults = 1
    MaxQueue = 1
INVARIANT FailuresHaveOneType
CHECK_DEADLOCK FALSE
