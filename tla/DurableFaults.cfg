SPECIFICATION Spec
CONSTANTS
    Keys = {k1}
    NoKey = NoKey
    SyncKeys = {k1}
    MaxJobs = 2
    MaxBundles = 2
    MaxQueuedJobs = 2
    ArtifactTtl = 1
    FailedTtl = 1
    TombstoneTtl = 1
    MaxTime = 3
    MaxFaults = 2
    MaxCrashes = 1
INVARIANTS TypeOK OneActivePerKey NoRepeatedProviderCall DurableBeforeVisible PointerNotDangling
PROPERTIES RecordsMoveForward ExpiredStaysExpired
