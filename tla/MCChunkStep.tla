------------------------------ MODULE MCChunkStep ------------------------------
(***************************************************************************)
(* The error classes and entry statuses the TLC instances of ChunkStep     *)
(* choose from.                                                            *)
(***************************************************************************)
EXTENDS ChunkStep

Error(kind, moves) == [kind |-> kind, moves |-> moves]

\* A file reader has passed the record it cannot parse; a database reader
\* has not moved when its query fails.
BadRecord == Error("skip", TRUE)
FetchFailsRetryable == Error("retry", FALSE)
FetchFailsSkippable == Error("skip", FALSE)
FetchFails == Error("fatal", FALSE)

AnyReaderFaults == {BadRecord, FetchFailsRetryable, FetchFails}
OnlyStreamFaults == {FetchFailsSkippable}

\* Launch and operator restart; and, on top, a worker handed an orphaned row.
LaunchAndRestart == {"STARTING", "FAILED", "STOPPED"}
WithRedelivery == LaunchAndRestart \cup {"STARTED"}

\* The instances meet the conditions the proofs of ChunkStep_proofs name.
ASSUME InstanceAssumption == ReaderKeepsCount /\ SkipsLeaveARecord
=============================================================================
