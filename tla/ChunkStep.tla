------------------------------- MODULE ChunkStep -------------------------------
(***************************************************************************)
(* One chunk-oriented step of one job execution, over all the runs that    *)
(* launch, restart or redeliver it: ChunkStepExecutor.execute (drain,      *)
(* read, process, write, checkpoint), its skip and retry policies          *)
(* (runPhase), and the part of JobExecutor.execute that looks up a         *)
(* checkpoint before a run and records the outcome after it.               *)
(*                                                                         *)
(* Records are numbered in reader order.  A call into user code (reader,   *)
(* processor, writer, listener) may throw; an error is skippable,          *)
(* retryable, or neither ("fatal").  A reader may or may not have moved    *)
(* past the record when it throws: the file readers have, the database     *)
(* readers have not (io/file-readers.ts, io/database.ts).                  *)
(***************************************************************************)
EXTENDS Integers, FiniteSets, Sequences

CONSTANTS
    N,               \* number of records the reader can deliver
    ChunkSize,
    SkipLimit,       \* skipPolicy.limit; 0: the step has no skip policy
    RetryLimit,      \* retryPolicy.limit; 0: the step has no retry policy
    Filtered,        \* records the processor answers with null
    Refused,         \* records the writer reports as skipped by itself
    ReadFaults,      \* the errors read may throw: [kind : ErrorKind, moves : BOOLEAN]
    StreamFaults,    \* the ones more that the read of a stream may throw
    OtherFaults,     \* the kinds of errors process and write may throw
    EntryStatuses,   \* job statuses on which the executor is handed the row
    MaxFaults,       \* bound: errors thrown in a behaviour
    MaxCrashes,      \* bound: worker processes lost in a behaviour
    MaxRuns          \* bound: runs of the step in a behaviour

ErrorKind == {"skip", "retry", "fatal"}
Records == 1..N
JobStatuses == {"STARTING", "STARTED", "COMPLETED", "FAILED", "STOPPED"}
StepStatuses == {"STARTING", "COMPLETED", "FAILED"}

ASSUME ChunkAssumption ==
    /\ N \in Nat /\ ChunkSize \in Nat \ {0}
    /\ SkipLimit \in Nat /\ RetryLimit \in Nat
    /\ Filtered \subseteq Records /\ Refused \subseteq Records
    /\ ReadFaults \cup StreamFaults \subseteq [kind : ErrorKind, moves : BOOLEAN]
    /\ OtherFaults \subseteq ErrorKind
    /\ EntryStatuses \subseteq JobStatuses
    /\ MaxFaults \in Nat /\ MaxCrashes \in Nat /\ MaxRuns \in Nat

VARIABLES
    streamReader,    \* the reader is an ItemStream and restores its own position
    \* The repository.
    jobStatus,       \* the job execution's status column
    steps,           \* step execution rows, oldest first: [status, last, pos]
    \* The executor of the current run; lost with its process.
    pc,              \* "idle" between runs
    isRestart,       \* the run was entered on a FAILED or STOPPED job execution
    resume,          \* context.resumeFromChunkIndex, -1 when undefined
    pos,             \* records the reader has passed
    chunkIndex,
    slot,            \* read slots used in this chunk
    items,           \* records of this chunk still to be processed
    processed,       \* records of this chunk to be written
    attempt,         \* attempt of the current operation, from 1
    skipCount,
    \* The writer's target, and what the run decided about each record.
    written,         \* [Records -> Nat]: durable writes of the record
    dropped,         \* records given up by a skip or a filter
    \* Bounds used up.
    faults, crashes

repoVars == <<jobStatus, steps>>
entryVars == <<isRestart, resume>>
runVars == <<entryVars, pos, chunkIndex, slot, items, processed, attempt, skipCount>>
outVars == <<written, dropped>>
boundVars == <<faults, crashes, streamReader>>
vars == <<repoVars, pc, runVars, outVars, boundVars>>

NoCheckpoint == -1
FreshContext == [last |-> NoCheckpoint, pos |-> 0]

Lesser(a, b) == IF a <= b THEN a ELSE b

ReaderFaults == ReadFaults \cup IF streamReader THEN StreamFaults ELSE {}

Init ==
    /\ streamReader \in BOOLEAN
    /\ jobStatus = "STARTING" /\ steps = <<>>
    /\ pc = "idle"
    /\ isRestart = FALSE /\ resume = NoCheckpoint /\ pos = 0 /\ chunkIndex = 0 /\ slot = 0
    /\ items = {} /\ processed = {} /\ attempt = 1 /\ skipCount = 0
    /\ written = [r \in Records |-> 0] /\ dropped = {}
    /\ faults = 0 /\ crashes = 0

-----------------------------------------------------------------------------
(***************************************************************************)
(* The start of a run.  Only a FAILED or STOPPED job execution is a        *)
(* restart, and a restart resumes only if the LATEST row of the step is    *)
(* FAILED; that row's context is then copied into the new one.  A run on   *)
(* any other status starts from scratch.                                   *)
(***************************************************************************)
Restarting == jobStatus \in {"FAILED", "STOPPED"}

\* Faulty variant: the looked-up row must be in its initial status.
FindCheckpointOfStarting ==
    IF /\ Restarting
       /\ steps # <<>>
       /\ steps[Len(steps)].status = "STARTING"
    THEN [last |-> steps[Len(steps)].last, pos |-> steps[Len(steps)].pos]
    ELSE FreshContext

FindCheckpoint ==
    IF /\ Restarting
       /\ steps # <<>>
       /\ steps[Len(steps)].status = "FAILED"
    THEN [last |-> steps[Len(steps)].last, pos |-> steps[Len(steps)].pos]
    ELSE FreshContext

StartRun ==
    LET ctx == FindCheckpoint IN
    /\ pc = "idle"
    /\ jobStatus \in EntryStatuses
    /\ Len(steps) < MaxRuns
    /\ jobStatus' = "STARTED"
    /\ steps' = Append(steps, [status |-> "STARTING", last |-> ctx.last, pos |-> ctx.pos])
    /\ pc' = "loop"
    /\ isRestart' = Restarting
    /\ resume' = ctx.last
    /\ pos' = IF streamReader THEN ctx.pos ELSE 0
    /\ chunkIndex' = IF streamReader /\ ctx.last # NoCheckpoint THEN ctx.last + 1 ELSE 0
    /\ slot' = 0 /\ items' = {} /\ processed' = {} /\ attempt' = 1
    /\ skipCount' = 0
    /\ UNCHANGED <<written, dropped, boundVars>>

\* Something thrown out of the chunk loop: the executor's catch block.
Fail == pc' = "failing"

Throw == faults < MaxFaults /\ faults' = faults + 1

-----------------------------------------------------------------------------

(***************************************************************************)
(* runPhase: the skip policy is asked first and its budget is the run's    *)
(* whole skipCount; then the retry policy; anything else fails the step.   *)
(***************************************************************************)
Verdict(kind) ==
    CASE kind = "skip" /\ skipCount + 1 <= SkipLimit -> "skip"
      [] kind = "retry" /\ attempt <= RetryLimit -> "retry"
      [] OTHER -> "throw"

\* Bookkeeping of one skip honoured by the policy.
HonourSkip(gone) ==
    /\ skipCount' = skipCount + 1
    /\ dropped' = dropped \cup gone
    /\ attempt' = 1

-----------------------------------------------------------------------------
(***************************************************************************)
(* Restart with a plain reader: the chunks up to resumeFromChunkIndex are  *)
(* read again and thrown away, ChunkSize records for each, outside the     *)
(* skip and retry policies.                                                *)
(***************************************************************************)
\* Faulty variant: one chunk too many.
DrainingOneMore == ~streamReader /\ resume # NoCheckpoint /\ chunkIndex <= resume + 1

Draining == ~streamReader /\ resume # NoCheckpoint /\ chunkIndex <= resume

Drained == Lesser(ChunkSize, N - pos)

DrainChunk ==
    /\ pc = "loop" /\ Draining
    /\ IF Drained = 0
       THEN pc' = "finish" /\ UNCHANGED <<pos, chunkIndex>>
       ELSE /\ pos' = pos + Drained
            /\ chunkIndex' = chunkIndex + 1
            /\ UNCHANGED pc
    /\ UNCHANGED <<repoVars, entryVars, slot, items, processed, attempt, skipCount,
                   outVars, boundVars>>

DrainFails ==
    /\ pc = "loop" /\ Draining
    /\ ReaderFaults # {}
    /\ Throw /\ Fail
    /\ UNCHANGED <<repoVars, runVars, outVars, crashes, streamReader>>

(***************************************************************************)
(* The read phase fills up to ChunkSize slots.  A skipped read uses up its *)
(* slot.  A chunk with no record ends the step, whatever emptied it.       *)
(***************************************************************************)
BeginChunk ==
    /\ pc = "loop" /\ ~Draining
    /\ pc' = "read"
    /\ slot' = 0 /\ items' = {} /\ processed' = {} /\ attempt' = 1
    /\ UNCHANGED <<repoVars, entryVars, pos, chunkIndex, skipCount, outVars, boundVars>>

ReadItem ==
    /\ pc = "read" /\ slot < ChunkSize /\ pos < N
    /\ items' = items \cup {pos + 1}
    /\ pos' = pos + 1
    /\ slot' = slot + 1
    /\ attempt' = 1
    /\ UNCHANGED <<repoVars, pc, entryVars, chunkIndex, processed, skipCount,
                   outVars, boundVars>>

ReadThrows(f) ==
    LET verdict == Verdict(f.kind) IN
    /\ pc = "read" /\ slot < ChunkSize /\ pos < N
    /\ Throw
    /\ pos' = IF f.moves THEN pos + 1 ELSE pos
    /\ \/ /\ verdict = "skip"
          /\ HonourSkip(IF f.moves THEN {pos + 1} ELSE {})
          /\ slot' = slot + 1
          /\ UNCHANGED pc
       \/ /\ verdict = "retry"
          /\ attempt' = attempt + 1
          /\ UNCHANGED <<pc, slot, skipCount, dropped>>
       \/ /\ verdict = "throw"
          /\ Fail
          /\ UNCHANGED <<attempt, slot, skipCount, dropped>>
    /\ UNCHANGED <<repoVars, entryVars, chunkIndex, items, processed, written, crashes, streamReader>>

EndRead ==
    /\ pc = "read" /\ (slot = ChunkSize \/ pos = N)
    /\ pc' = IF items = {} THEN "finish" ELSE "process"
    /\ attempt' = 1
    /\ UNCHANGED <<repoVars, entryVars, pos, chunkIndex, slot, items, processed, skipCount,
                   outVars, boundVars>>

-----------------------------------------------------------------------------
\* The process phase takes the chunk's records in reader order.
IsNext(r) == r \in items /\ \A s \in items : r <= s

ProcessItem(r) ==
    /\ pc = "process" /\ IsNext(r)
    /\ items' = items \ {r}
    /\ attempt' = 1
    /\ IF r \in Filtered
       THEN skipCount' = skipCount + 1 /\ dropped' = dropped \cup {r} /\ UNCHANGED processed
       ELSE processed' = processed \cup {r} /\ UNCHANGED <<skipCount, dropped>>
    /\ UNCHANGED <<repoVars, pc, entryVars, pos, chunkIndex, slot, written,
                   boundVars>>

ProcessThrows(r, kind) ==
    LET verdict == Verdict(kind) IN
    /\ pc = "process" /\ IsNext(r)
    /\ Throw
    /\ \/ /\ verdict = "skip"
          /\ HonourSkip({r})
          /\ items' = items \ {r}
          /\ UNCHANGED pc
       \/ /\ verdict = "retry"
          /\ attempt' = attempt + 1
          /\ UNCHANGED <<pc, items, skipCount, dropped>>
       \/ /\ verdict = "throw"
          /\ Fail
          /\ UNCHANGED <<attempt, items, skipCount, dropped>>
    /\ UNCHANGED <<repoVars, entryVars, pos, chunkIndex, slot, processed, written, crashes, streamReader>>

EndProcess ==
    /\ pc = "process" /\ items = {}
    /\ pc' = IF processed = {} THEN "checkpoint" ELSE "write"
    /\ attempt' = 1
    /\ UNCHANGED <<repoVars, entryVars, pos, chunkIndex, slot, items, processed, skipCount,
                   outVars, boundVars>>

(***************************************************************************)
(* The write phase: one transaction for the whole chunk.  A write that     *)
(* throws is rolled back; a skipped write gives up the whole chunk; what   *)
(* the writer itself reports as skipped adds to skipCount, unchecked.      *)
(***************************************************************************)
WriteChunk ==
    /\ pc = "write"
    /\ written' = [r \in Records |->
                      IF r \in processed \ Refused THEN written[r] + 1 ELSE written[r]]
    /\ dropped' = dropped \cup (processed \cap Refused)
    /\ skipCount' = skipCount + Cardinality(processed \cap Refused)
    /\ pc' = "checkpoint"
    /\ UNCHANGED <<repoVars, entryVars, pos, chunkIndex, slot, items, processed, attempt,
                   boundVars>>

WriteThrows(kind) ==
    LET verdict == Verdict(kind) IN
    /\ pc = "write"
    /\ Throw
    /\ \/ /\ verdict = "skip"
          /\ HonourSkip(processed)
          /\ pc' = "checkpoint"
       \/ /\ verdict = "retry"
          /\ attempt' = attempt + 1
          /\ UNCHANGED <<pc, skipCount, dropped>>
       \/ /\ verdict = "throw"
          /\ Fail
          /\ UNCHANGED <<attempt, skipCount, dropped>>
    /\ UNCHANGED <<repoVars, entryVars, pos, chunkIndex, slot, items, processed, written, crashes, streamReader>>

(***************************************************************************)
(* The checkpoint is saved after the write's transaction, not in it.  An   *)
(* after:write listener or the save itself may throw before it is stored,  *)
(* an after:chunk listener once it is.                                     *)
(***************************************************************************)
\* Faulty variant: the checkpoint already counts what comes next.
SavedStepsAhead ==
    [steps EXCEPT ![Len(steps)].last = chunkIndex + 1,
                  ![Len(steps)].pos = IF streamReader THEN Lesser(pos + 1, N) ELSE 0]

SavedSteps ==
    [steps EXCEPT ![Len(steps)].last = chunkIndex,
                  ![Len(steps)].pos = IF streamReader THEN pos ELSE 0]

SaveCheckpoint ==
    /\ pc = "checkpoint"
    /\ steps' = SavedSteps
    /\ chunkIndex' = chunkIndex + 1
    /\ pc' = "loop"
    /\ UNCHANGED <<jobStatus, entryVars, pos, slot, items, processed, attempt, skipCount,
                   outVars, boundVars>>

CheckpointThrows ==
    /\ pc = "checkpoint"
    /\ OtherFaults # {}
    /\ Throw /\ Fail
    /\ steps' \in {steps, SavedSteps}
    /\ UNCHANGED <<jobStatus, runVars, outVars, crashes, streamReader>>

-----------------------------------------------------------------------------
\* A before:step, before:chunk or after:step listener throws, or a stream fails
\* to open or to close: even with every chunk done the step is FAILED.
ListenerThrows ==
    /\ pc \in {"loop", "finish"}
    /\ OtherFaults # {}
    /\ Throw /\ Fail
    /\ UNCHANGED <<repoVars, runVars, outVars, crashes, streamReader>>

\* The outcome: the step row, and then, in a write of its own, the job row
\* (JobExecutor.execute; this step is the job's last).
StepOutcome(s) ==
    /\ steps' = [steps EXCEPT ![Len(steps)].status = s]
    /\ pc' = "stepDone"
    /\ UNCHANGED <<jobStatus, runVars, outVars, boundVars>>

FinishStep == pc = "finish" /\ StepOutcome("COMPLETED")
FailStep == pc = "failing" /\ StepOutcome("FAILED")

\* Faulty variant: the job row is written only for a failed step.
FinishJobIfFailed ==
    /\ pc = "stepDone"
    /\ jobStatus' = IF steps[Len(steps)].status = "FAILED" THEN "FAILED" ELSE jobStatus
    /\ pc' = "idle"
    /\ UNCHANGED <<steps, runVars, outVars, boundVars>>

FinishJob ==
    /\ pc = "stepDone"
    /\ jobStatus' = steps[Len(steps)].status
    /\ pc' = "idle"
    /\ UNCHANGED <<steps, runVars, outVars, boundVars>>

\* The worker's process is lost: what it persisted stays, the row stays STARTED.
Crash ==
    /\ pc # "idle" /\ crashes < MaxCrashes
    /\ crashes' = crashes + 1
    /\ pc' = "idle"
    /\ UNCHANGED <<repoVars, runVars, outVars, faults, streamReader>>

\* JobOperator.stop on the row of a lost worker, so that it can be restarted.
StopOrphan ==
    /\ pc = "idle" /\ jobStatus = "STARTED"
    /\ jobStatus' = "STOPPED"
    /\ UNCHANGED <<steps, pc, runVars, outVars, boundVars>>

ExecutorStep ==
    \/ DrainChunk \/ BeginChunk \/ ReadItem \/ EndRead
    \/ \E r \in Records : ProcessItem(r)
    \/ EndProcess \/ WriteChunk \/ SaveCheckpoint
    \/ FinishStep \/ FailStep \/ FinishJob

UserCodeThrows ==
    \/ DrainFails
    \/ \E f \in ReaderFaults : ReadThrows(f)
    \/ \E r \in Records, kind \in OtherFaults : ProcessThrows(r, kind)
    \/ \E kind \in OtherFaults : WriteThrows(kind)
    \/ CheckpointThrows \/ ListenerThrows

Next == StartRun \/ ExecutorStep \/ UserCodeThrows \/ Crash \/ StopOrphan

Spec == Init /\ [][Next]_vars

(***************************************************************************)
(* The executor runs on, somebody restarts what failed, and the operator   *)
(* stops an orphaned row.  Errors and crashes are never obliged to happen. *)
(***************************************************************************)
FairSpec == Spec /\ WF_vars(ExecutorStep) /\ WF_vars(StartRun) /\ WF_vars(StopOrphan)

-----------------------------------------------------------------------------
\* Rows, loop variables and history have their types.
TypeOK ==
    /\ streamReader \in BOOLEAN
    /\ jobStatus \in JobStatuses
    /\ steps \in Seq([status : StepStatuses, last : Nat \cup {NoCheckpoint}, pos : 0..N])
    /\ pc \in {"idle", "loop", "read", "process", "write", "checkpoint", "finish", "failing",
              "stepDone"}
    /\ pc # "idle" => steps # <<>>
    /\ isRestart \in BOOLEAN
    /\ resume \in Nat \cup {NoCheckpoint} /\ chunkIndex \in Nat
    /\ pos \in 0..N /\ slot \in 0..ChunkSize
    /\ items \subseteq Records /\ processed \subseteq Records
    /\ attempt \in Nat /\ skipCount \in Nat
    /\ written \in [Records -> Nat] /\ dropped \subseteq Records
    /\ faults \in Nat /\ crashes \in Nat

\* A record is settled once it is durably written, or given up by a policy.
Settled(r) == written[r] > 0 \/ r \in dropped

\* The records a restart from this row's context would not deliver again.
Covered(row) ==
    IF streamReader THEN 1..row.pos ELSE 1..Lesser((row.last + 1) * ChunkSize, N)

(***************************************************************************)
(* What the two properties below need of a reader and of the policies      *)
(* (README, "Disagreements"): a retried read delivers the record it failed *)
(* on, a plain reader is past a record that is skipped, so that a chunk is *)
(* always ChunkSize records to the drain; and skipped reads alone cannot   *)
(* empty a chunk, which would end the step.                                *)
(***************************************************************************)
ReaderKeepsCount ==
    /\ \A f \in ReadFaults \cup StreamFaults : f.kind = "retry" => ~f.moves
    /\ \A f \in ReadFaults : f.kind = "skip" => f.moves

SkipsLeaveARecord == SkipLimit < ChunkSize

(***************************************************************************)
(* A checkpoint never runs ahead of the writer: whatever a restart would   *)
(* pass over has been written or deliberately dropped.  The checkpoint is  *)
(* saved outside the write transaction, and a plain reader's checkpoint is *)
(* a chunk count that the drain turns back into records.                   *)
(***************************************************************************)
CheckpointCovers ==
    \A k \in DOMAIN steps : \A r \in Covered(steps[k]) : Settled(r)

(***************************************************************************)
(* A job that reports COMPLETED has settled every record of its input,     *)
(* however many failures, crashes and restarts it went through             *)
(* (ChunkStepExecutor.execute reads until the reader is exhausted).        *)
(***************************************************************************)
NoLostRecord == jobStatus = "COMPLETED" => \A r \in Records : Settled(r)

(***************************************************************************)
(* A restart honours the checkpoint of a run that failed: what that run    *)
(* had committed, or inherited from a run before it, is not written again, *)
(* though the chunks it drains are read again from the start.              *)
(***************************************************************************)
RestartResumes ==
    [][\A r \in Records :
           /\ written'[r] > written[r]
           /\ isRestart /\ Len(steps) > 1 /\ steps[Len(steps) - 1].status = "FAILED"
           => r \notin Covered(steps[Len(steps) - 1])]_vars

(***************************************************************************)
(* Once the errors stop, restarting completes the job: no checkpoint sends *)
(* the executor into a loop or past the end of a run.                      *)
(***************************************************************************)
JobCompletes == <>(jobStatus = "COMPLETED")
=============================================================================
