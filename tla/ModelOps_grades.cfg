SPECIFICATION Spec
CONSTANTS
    Models = {m1, m2}
    Actors = {job}
    Job = job
    MaxBuild = 2
    MaxCrashes = 0
INVARIANT CurrentGradesAreCurrent
