SPECIFICATION StoreSpec
CONSTANTS
    Models = {m1, m2}
    Writers = {w1}
    Files <- HealthFiles
    Tolerant = {"health"}
    MaxOps = 2
    MaxTorn = 1
PROPERTIES
    SurvivesKill
CHECK_DEADLOCK FALSE
