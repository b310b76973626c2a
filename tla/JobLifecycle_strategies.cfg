CONSTANTS
    Instances = {i1, i2}
    Execs = {e1, e2}
    Workers = {w1, w2}
    None = None
    ReentryAllowed = TRUE
    Queued = TRUE
    SendMayFail = TRUE
    Restartable = {i1}
    Attempts = 3
    MaxFaults = 1
    MaxCrashes = 1
    MaxOperations = 1
SPECIFICATION MCSpec
INVARIANT NoSilentOrphan
INVARIANT OneInFlightInProcess
PROPERTY RowsFollowGate
PROPERTY ExecutionEnds
CHECK_DEADLOCK FALSE
