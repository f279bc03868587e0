\* Two callers (the job worker and the CLI) of one cache and two ports.
SPECIFICATION PullFairSpec
CONSTANTS
    Clients = {c1, c2}
    Ports = {p1, p2}
    Nobody = Nobody
    MaxCalls = 2
    MaxFaults = 1
    MaxQueue = 1
INVARIANTS NoRouterIsLeft PullIsHonest EndIsNotMissed
PROPERTY CallEnds
CHECK_DEADLOCK FALSE
