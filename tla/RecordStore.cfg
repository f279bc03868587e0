SPECIFICATION StoreSpec
CONSTANTS
    Models = {m1, m2}
    Writers = {w1, w2}
    Files <- PresetFiles
    Tolerant = {"tuning"}
    MaxOps = 3
    MaxTorn = 1
INVARIANTS
    LossIsExplained
    PresetsHaveReasons
PROPERTIES
    HandEditsSurvive
CHECK_DEADLOCK FALSE
