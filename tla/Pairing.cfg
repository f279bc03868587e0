SPECIFICATION Spec
CONSTANTS
    Commands = {c1, c2}
    Creds = {k1, k2}
    MaxBuild = 2
    MaxCommands = 4
    MaxKills = 1
INVARIANTS
    NothingIsUndone
    PairingTakesEffect
CHECK_DEADLOCK FALSE
