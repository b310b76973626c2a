CONSTANTS
    Transports = {"bullmq"}
    Commands = {}
    Reader = "plain"
    Counts = {1, 2}
    Totals = {0, 3}
    MaxDeliveries = 2
    MaxFaults = 0
SPECIFICATION Spec
INVARIANT OnlyItsRange
CHECK_DEADLOCK FALSE
