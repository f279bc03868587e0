SPECIFICATION PullSpec
CONSTANTS
    Clients = {c1, c2}
    Ports = {p1}
    Nobody = Nobody
    MaxCalls = 2
    MaxFaults = 0
    MaxQueue = 1
INVARIANT RouterIsItsOwn
CHECK_DEADLOCK FALSE
