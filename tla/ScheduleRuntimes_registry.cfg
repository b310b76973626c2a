CONSTANTS
    Schedules <- Entries
    Overlap <- ByName
    Cron <- Crons
    Inert <- OnlyInert
    MaxTicks = 3
    Replicas = {r1, r2}
    MaxFires = 2
    Duplicates <- OnlyNightly
    Firing = {"skip", "queue", "parallel", "nightly"}
    MaxFaults = 1
    BootBy = 12
    Horizon = 130
    MaxDropped = 1
SPECIFICATION RuntimesSpec
INVARIANT TicksTakeTurns
INVARIANT FiresRunAlone
INVARIANT AcknowledgedIsHandled
INVARIANT TimerKeepsUp
PROPERTY KeptTickStarts
CHECK_DEADLOCK FALSE
