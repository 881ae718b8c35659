CONSTANTS
    MaxVideos = 3
    Processed = {2}
    PageSize = 1
    InitialLimit = 1
    PagesPerPass = 2
    Overlap = 0
    Parts = 2
    MaxAttempts = 2
    MaxJobs = 3
    MaxRuns = 2
    MaxTroubles = 2
SPECIFICATION FairSpec
INVARIANTS NothingMissed FailureHasCause SubmittedOnce
PROPERTIES ReadyForGood VideoEnds CollectionEnds
CHECK_DEADLOCK FALSE
