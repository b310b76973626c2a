CONSTANTS
    N = 5
    ChunkSize = 2
    SkipLimit = 1
    RetryLimit = 1
    Filtered = {2}
    Refused = {4}
    ReadFaults <- AnyReaderFaults
    StreamFaults <- OnlyStreamFaults
    OtherFaults = {"skip", "retry", "fatal"}
    EntryStatuses <- WithRedelivery
    MaxFaults = 3
    MaxCrashes = 1
    MaxRuns = 5
SPECIFICATION FairSpec
INVARIANT CheckpointCovers
INVARIANT NoLostRecord
PROPERTY RestartResumes
PROPERTY JobCompletes
CHECK_DEADLOCK FALSE
