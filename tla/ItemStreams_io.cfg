CONSTANTS
    Lines <- MixedLines
    Rows = 5
    ChunkSize = 2
    PageSize = 3
    RetryLimit = 1
    MaxFaults = 2
    MaxDeletes = 1
    MaxRuns = 3
SPECIFICATION Spec
INVARIANT EveryRecordAccounted
INVARIANT RestartRepeatsNothing
INVARIANT OneObjectPerRecord
CHECK_DEADLOCK FALSE
