CONSTANTS
    Transports = {"bullmq", "kafka", "aws-sqs", "aws-batch", "aws-ecs", "kubernetes"}
    Commands <- MCCommands
    Reader = "aware"
    Counts = {1, 2}
    Totals = {0, 3}
    MaxDeliveries = 3
    MaxFaults = 2
SPECIFICATION Spec
INVARIANT TaskNamesItsRow
INVARIANT OnlyItsRange
INVARIANT NoSilentLoss
PROPERTY EveryPartitionEnds
CHECK_DEADLOCK FALSE
