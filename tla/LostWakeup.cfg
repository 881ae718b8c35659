SPECIFICATION FairSpec
CONSTANTS
    Keys = {k1}
    NoKey = NoKey
    SyncKeys = {}
    MaxQueuedJobs = 1
    ArtifactTtl = 1
    FailedTtl = 1
    TombstoneTtl = 1
    MaxJobs = 1
    MaxBundles = 1
    MaxTime = 1
    MaxFaults = 1
    MaxCrashes = 0
PROPERTY QueuedIsClaimed
