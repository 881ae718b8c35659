CONSTANTS
    Docs = {d1}
    Versions = {v1, v2}
    None = none
    MaxIngestions = 2
    MaxQueued = 1
    MaxGeneration = 1
    MaxExpired = 1
    MaxFaults = 2
    MaxRuns = 2
SPECIFICATION Spec
SYMMETRY VersionSymmetry
INVARIANTS NoResurrection SearchReadsOneVersion EpochFollowsTable SnapshotRetained OneOwner
PROPERTIES CompletedIsPublished ImplementsShelf
CHECK_DEADLOCK FALSE
