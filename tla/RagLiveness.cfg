CONSTANTS
    Docs = {d1}
    Versions = {v1, v2}
    None = none
    MaxIngestions = 2
    MaxQueued = 1
    MaxGeneration = 1
    MaxExpired = 0
    MaxFaults = 1
    MaxRuns = 2
SPECIFICATION FairSpec
PROPERTIES IngestionEnds ServesAgain
CHECK_DEADLOCK FALSE
