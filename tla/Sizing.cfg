SPECIFICATION Spec
CONSTANTS
    Profiles <- MCProfiles
    MinCtx = 2
    MinServable = 3
    Block = 2
INVARIANTS
    VerdictIsRight
    BestFit
    NeighboursAgree
CHECK_DEADLOCK FALSE
