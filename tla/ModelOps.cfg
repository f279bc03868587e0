SPECIFICATION FairSpec
CONSTANTS
    Models = {m1}
    Actors = {job, other}
    Job = job
    MaxBuild = 2
    MaxCrashes = 2
INVARIANTS
    RemnantsExplained
PROPERTIES
    DeletedOnlyWhenAsked
    MissingIsBackfilled
