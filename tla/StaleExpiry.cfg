SPECIFICATION Spec
CONSTANTS
    Keys = {k1}
    NoKey = NoKey
    SyncKeys = {}
    MaxQueuedJobs = 1
    ArtifactTtl = 1
    FailedTtl = 1
    TombstoneTtl = 1
    MaxJobs = 3
    MaxBundles = 2
    MaxTime = 3
    MaxFaults = 0
    MaxCrashes = 0
INVARIANT UnexpiredIsReused
