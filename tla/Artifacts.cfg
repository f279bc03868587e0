SPECIFICATION Spec
CONSTANTS
    Upstream = {u1, u2}
    Custom = {k1, k2}
    Source = {s1}
    MaxRuns = 4
    MaxKills = 1
INVARIANTS
    InstalledIsWhole
    InstallationSurvives
CHECK_DEADLOCK FALSE
