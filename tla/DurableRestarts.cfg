SPECIFICATION FairSpec
CONSTANTS
    Keys = {k1, k2}
    NoKey = NoKey
    SyncKeys = {k1}
    MaxJobs = 2
    MaxBundles = 2
    MaxQueuedJobs = 1
    ArtifactTtl = 1
    FailedTtl = 1
    TombstoneTtl = 1
    MaxTime = 3
    MaxFaults = 0
    MaxCrashes = 1
INVARIANT CompletedReadable
PROPERTIES ImplementsLifecycle CleanExit QueuedIsClaimed ExpiredIsSwept
