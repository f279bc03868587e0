SPECIFICATION StoreSpec
CONSTANTS
    Models = {m1, m2}
    Writers = {w1, w2}
    Files <- HealthFiles
    Tolerant = {"health"}
    MaxOps = 2
    MaxTorn = 0
PROPERTIES
    OthersUntouched
CHECK_DEADLOCK FALSE
