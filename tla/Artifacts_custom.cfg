SPECIFICATION Spec
CONSTANTS
    Upstream = {}
    Custom = {k1, k2}
    Source = {}
    MaxRuns = 2
    MaxKills = 0
INVARIANT UnpackedIsVerified
CHECK_DEADLOCK FALSE
