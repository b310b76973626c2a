CONSTANTS
    Clients = {c1, c2}
    Keys = {k1}
    Execs = {e1, e2}
    None = None
    MaxFaults = 1
SPECIFICATION Spec
INVARIANT InstanceAgreed
PROPERTY ImplementsGate
PROPERTY EveryCallReturns
CHECK_DEADLOCK FALSE
