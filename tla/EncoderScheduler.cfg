SPECIFICATION FairSpec
CONSTANTS
    Searches = {s1, s2}
    Batches = {b1, b2}
    Null = Null
    i1 = i1
    i2 = i2
    x1 = x1
INVARIANTS OneCallback BatchPassedAtMost
PROPERTY BatchStarted
CHECK_DEADLOCK FALSE
