CONSTANTS
    Docs = {d1}
    Versions = {v1, v2}
    None = none
    MaxIngestions = 2
    MaxQueued = 1
    MaxGeneration = 1
    MaxExpired = 0
    MaxFaults = 0
    MaxRuns = 1
SPECIFICATION Spec
INVARIANTS JoinTargetsCurrentGeneration
CHECK_DEADLOCK FALSE
