CONSTANTS
    Instances = {i1, i2}
    Execs = {e1, e2, e3}
    Launchers = {l1, l2, l3}
    None = None
    NoOne = NoOne
    ReentryAllowed = FALSE
    UpsertLocks = FALSE
SPECIFICATION SqlSpec
INVARIANT AtMostOneRunning
PROPERTY ImplementsGate
