\* Two requests and the worker on two permits, two chunks.
CONSTANTS
    Requests = {r1, r2}
    Workers = {w1}
    MaxPermits = 2
    Chunks = 2
SPECIFICATION FairSpec
INVARIANTS PermitsAccounted NothingLeftBehind
PROPERTIES NothingStoredAfterAbort FirstReasonWins WaiterServed ShutdownDrains
\* After a shutdown nothing more happens.
CHECK_DEADLOCK FALSE
