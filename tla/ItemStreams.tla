------------------------------ MODULE ItemStreams ------------------------------
(***************************************************************************)
(* The readers and writers of core/src/io, each driven by the chunk loop   *)
(* of ChunkStepExecutor over the runs of one step: open the streams with   *)
(* the restored context, read, write, save what update() returns, close.   *)
(* A reader is characterised by what its position is, when it moves, and   *)
(* what it keeps in memory; a writer by what a call leaves behind when it  *)
(* fails and by what it remembers between calls.                           *)
(***************************************************************************)
EXTENDS Naturals, Sequences, FiniteSets

CONSTANTS
    Lines,           \* Seq({"item", "blank", "null", "bad"}): the file or object to read
    Rows,            \* number of rows of the table to read
    ChunkSize, PageSize,
    RetryLimit,
    MaxFaults,       \* bound: errors thrown in a behaviour, bad lines not counted
    MaxDeletes,      \* bound: rows another client deletes
    MaxRuns          \* bound: runs of the step

LineReader == {"line", "csv", "jsonl", "s3"}
TableReader == {"paging", "cursor"}
Writer == {"jsonl", "csv", "s3", "batch"}
OnError == {"skip", "retry", "throw"}   \* what the step's policies make of an error

ASSUME ItemStreamsAssumption ==
    /\ Lines \in Seq({"item", "blank", "null", "bad"})
    /\ Rows \in Nat /\ ChunkSize \in Nat \ {0} /\ PageSize \in Nat \ {0}
    /\ RetryLimit \in Nat /\ MaxFaults \in Nat /\ MaxDeletes \in Nat /\ MaxRuns \in Nat

VARIABLES
    reader, writer,  \* the configuration, fixed at the start
    onRead, onWrite, \* OnError: the policies' answer to a read and a write error
    table,           \* Seq: ids of the rows in the table, ascending
    saved,           \* the step's ExecutionContext
    resumable,       \* the latest step row is FAILED: its context is restored
    runs, pc,
    rd,              \* reader in memory: [at, buffer]; at: index, offset or cursor
    wr,              \* writer in memory: [header, chunk]
    slot, attempt, chunk,
    file,            \* Seq of ids, 0 for the header: what jsonl, csv and batch wrote
    objects,         \* [chunk number -> set of ids]: what the s3 writer put
    \* History, for the properties.
    reported,        \* records given to a skip listener
    passed,          \* records a retried read has left behind
    fresh,           \* a run began without the context of the one before
    unsure,          \* a write failed and its records were written anyway
    skippedWrites,
    faults, deletes

config == <<reader, writer, onRead, onWrite>>
repo == <<saved, resumable, runs>>
target == <<file, objects>>
history == <<reported, passed, fresh, unsure, skippedWrites>>
vars == <<config, table, repo, pc, rd, wr, slot, attempt, chunk, target, history, faults, deletes>>

\* The position a reader starts from without a checkpoint: a CSV header is line 1.
FirstPosition(kind) == IF kind = "csv" THEN 1 ELSE 0

FreshContext == [at |-> FirstPosition(reader), header |-> FALSE, chunk |-> 0]

ChunkNumbers == 0..(Len(Lines) + Rows)

Init ==
    /\ reader \in LineReader \cup TableReader /\ writer \in Writer
    /\ onRead \in OnError /\ onWrite \in OnError
    /\ table = [i \in 1..Rows |-> i]
    /\ saved = FreshContext /\ resumable = FALSE /\ runs = 0
    /\ pc = "idle"
    /\ rd = [at |-> 0, buffer |-> <<>>] /\ wr = [header |-> FALSE, chunk |-> 0]
    /\ slot = 0 /\ attempt = 1 /\ chunk = <<>>
    /\ file = <<>> /\ objects = [k \in ChunkNumbers |-> {}]
    /\ reported = {} /\ passed = {} /\ fresh = FALSE /\ unsure = FALSE
    /\ skippedWrites = 0
    /\ faults = 0 /\ deletes = 0

\* JobExecutor restores the context of a FAILED step row only; every stream is
\* opened with it, and no stream keeps anything of an earlier run.
StartRun ==
    LET ctx == IF resumable THEN saved ELSE FreshContext IN
    /\ pc = "idle" /\ runs < MaxRuns
    /\ runs' = runs + 1 /\ resumable' = FALSE /\ saved' = ctx
    /\ rd' = [at |-> ctx.at, buffer |-> <<>>]
    /\ wr' = [header |-> ctx.header, chunk |-> ctx.chunk]
    /\ pc' = "read" /\ slot' = 0 /\ attempt' = 1 /\ chunk' = <<>>
    /\ fresh' = (fresh \/ (runs > 0 /\ ~resumable))
    /\ UNCHANGED <<config, table, target, reported, passed, unsure, skippedWrites,
                   faults, deletes>>

-----------------------------------------------------------------------------
(***************************************************************************)
(* RestartableFileLineReader, CsvFileItemReader, JsonlFileItemReader and   *)
(* S3JsonlItemReader.read: lines that are blank or mapped to null are      *)
(* passed over, except that the S3 reader hands a null on, which is the    *)
(* end of the input to its caller.  The index is moved before the line is  *)
(* parsed or mapped.                                                       *)
(***************************************************************************)
Passable(kind, line) == line = "blank" \/ (line = "null" /\ kind # "s3")

\* The next line read() stops at, 0 at the end.
NextLine(kind, at) ==
    LET stops == {i \in (at + 1)..Len(Lines) : ~Passable(kind, Lines[i])} IN
    IF stops = {} THEN 0 ELSE CHOOSE i \in stops : \A j \in stops : i <= j

\* What the line readers answer: the position afterwards and the record, 0 for
\* the end of the input.
ReadLine(kind, r) ==
    LET i == NextLine(kind, r.at) IN
    [rd |-> [r EXCEPT !.at = IF i = 0 THEN Len(Lines) ELSE i],
     item |-> IF i # 0 /\ Lines[i] = "null" THEN 0 ELSE i]

(***************************************************************************)
(* DatabasePagingItemReader and DatabaseCursorItemReader.read: a page is   *)
(* fetched when the buffer is used up; the position moves record by        *)
(* record, so what is left in the buffer is not in the checkpoint.         *)
(***************************************************************************)
\* The rows up to an id: WHERE id > cursor leaves them out.
UpTo(id) == CHOOSE n \in 0..Len(table) : \A i \in 1..Len(table) : table[i] <= id <=> i <= n

Page(kind, at) ==
    LET before == IF kind = "paging" THEN at ELSE UpTo(at)
    IN  SubSeq(table, before + 1, IF before + PageSize < Len(table) THEN before + PageSize ELSE Len(table))

\* Faulty variant: the position moves when a page is fetched.
ReadRowPageWise(kind, r) ==
    LET page == IF r.buffer = <<>> THEN Page(kind, r.at) ELSE r.buffer IN
    IF page = <<>> THEN [rd |-> r, item |-> 0]
    ELSE [rd |-> [at |-> IF r.buffer # <<>> THEN r.at
                         ELSE IF kind = "paging" THEN r.at + Len(page) ELSE page[Len(page)],
                  buffer |-> Tail(page)],
          item |-> Head(page)]

ReadRow(kind, r) ==
    LET page == IF r.buffer = <<>> THEN Page(kind, r.at) ELSE r.buffer IN
    IF page = <<>> THEN [rd |-> r, item |-> 0]
    ELSE [rd |-> [at |-> IF kind = "paging" THEN r.at + 1 ELSE Head(page), buffer |-> Tail(page)],
          item |-> Head(page)]

Answer == IF reader \in LineReader THEN ReadLine(reader, rd) ELSE ReadRow(reader, rd)

\* A line that JSON.parse or the row mapper refuses whenever it is read.
Unreadable(item) == reader \in LineReader /\ item > 0 /\ Lines[item] = "bad"

ReadItem ==
    /\ pc = "read" /\ slot < ChunkSize
    /\ Answer.item # 0 /\ ~Unreadable(Answer.item)
    /\ chunk' = Append(chunk, Answer.item)
    /\ rd' = Answer.rd
    /\ slot' = slot + 1 /\ attempt' = 1
    /\ UNCHANGED <<config, table, repo, pc, wr, target, history, faults, deletes>>

EndRead ==
    /\ pc = "read"
    /\ \/ slot = ChunkSize /\ UNCHANGED rd
       \/ slot < ChunkSize /\ Answer.item = 0 /\ rd' = Answer.rd
    /\ pc' = IF chunk = <<>> THEN "finish" ELSE "write"
    /\ attempt' = 1
    /\ UNCHANGED <<config, table, repo, wr, slot, chunk, target, history, faults, deletes>>

\* A read error: a line reader has passed the line, a table reader (whose fetch
\* failed) has not moved.  runPhase then skips the slot, calls read() again, or
\* gives the step up.
ReadThrows ==
    LET item == IF reader \in LineReader THEN Answer.item ELSE 0 IN
    /\ pc = "read" /\ slot < ChunkSize /\ Answer.item # 0
    /\ \/ Unreadable(Answer.item) /\ UNCHANGED faults
       \/ ~Unreadable(Answer.item) /\ (reader \in TableReader => rd.buffer = <<>>)
          /\ faults < MaxFaults /\ faults' = faults + 1
    /\ rd' = IF reader \in LineReader THEN Answer.rd ELSE rd
    /\ \/ /\ onRead = "skip"
          /\ reported' = reported \cup {item}
          /\ slot' = slot + 1
          /\ UNCHANGED <<pc, attempt, passed>>
       \/ /\ onRead = "retry" /\ attempt <= RetryLimit
          /\ attempt' = attempt + 1
          /\ passed' = passed \cup {item}
          /\ UNCHANGED <<pc, slot, reported>>
       \/ /\ onRead = "throw" \/ (onRead = "retry" /\ attempt > RetryLimit)
          /\ pc' = "failing"
          /\ UNCHANGED <<attempt, slot, reported, passed>>
    /\ UNCHANGED <<config, table, repo, wr, chunk, target, fresh, unsure,
                   skippedWrites, deletes>>

-----------------------------------------------------------------------------
(***************************************************************************)
(* The writers.  The CSV writer takes the header to be written before the  *)
(* append; the s3 writer counts a chunk after the put.                     *)
(***************************************************************************)
Header == 0

HeaderLines == IF writer = "csv" /\ ~wr.header THEN <<Header>> ELSE <<>>

\* What a call leaves in the target once its data is taken.
Taken ==
    IF writer = "s3"
    THEN objects' = [objects EXCEPT ![wr.chunk] = {chunk[i] : i \in DOMAIN chunk}] /\ UNCHANGED file
    ELSE file' = file \o HeaderLines \o chunk /\ UNCHANGED objects

\* Faulty variant: the s3 writer counts the chunk before the put.
WriteFailedCounted == [header |-> wr.header \/ writer = "csv",
                       chunk |-> wr.chunk + (IF writer = "s3" THEN 1 ELSE 0)]

\* The writer's memory after a call that failed, and after one that returned.
WriteFailed == [wr EXCEPT !.header = @ \/ writer = "csv"]
WriteDone == [header |-> wr.header \/ writer = "csv",
              chunk |-> wr.chunk + (IF writer = "s3" THEN 1 ELSE 0)]

WriteChunk ==
    /\ pc = "write"
    /\ Taken /\ wr' = WriteDone
    /\ pc' = "checkpoint"
    /\ UNCHANGED <<config, table, repo, rd, slot, attempt, chunk, history, faults, deletes>>

\* A write error.  A transaction is rolled back; a file or an object may have
\* taken the data all the same.
WriteThrows ==
    /\ pc = "write" /\ faults < MaxFaults /\ faults' = faults + 1
    /\ \/ UNCHANGED <<target, unsure>>
       \/ writer # "batch" /\ Taken /\ unsure' = TRUE
    /\ wr' = WriteFailed
    /\ \/ /\ onWrite = "skip" /\ pc' = "checkpoint"
          /\ reported' = reported \cup {chunk[i] : i \in DOMAIN chunk}
          /\ skippedWrites' = skippedWrites + 1
          /\ UNCHANGED attempt
       \/ /\ onWrite = "retry" /\ attempt <= RetryLimit /\ attempt' = attempt + 1
          /\ UNCHANGED <<pc, reported, skippedWrites>>
       \/ /\ onWrite = "throw" \/ (onWrite = "retry" /\ attempt > RetryLimit)
          /\ pc' = "failing"
          /\ UNCHANGED <<attempt, reported, skippedWrites>>
    /\ UNCHANGED <<config, table, repo, rd, slot, chunk, passed, fresh, deletes>>

\* Faulty variant: only the last stream's update reaches the context.
SaveCheckpointLastStream ==
    /\ pc = "checkpoint"
    /\ saved' = [saved EXCEPT !.header = wr.header, !.chunk = wr.chunk]
    /\ pc' = "read" /\ slot' = 0 /\ attempt' = 1 /\ chunk' = <<>>
    /\ UNCHANGED <<config, table, resumable, runs, rd, wr, target, history, faults, deletes>>

\* updateStreams and saveExecutionContext, then the next chunk.
SaveCheckpoint ==
    /\ pc = "checkpoint"
    /\ saved' = [at |-> rd.at, header |-> wr.header, chunk |-> wr.chunk]
    /\ pc' = "read" /\ slot' = 0 /\ attempt' = 1 /\ chunk' = <<>>
    /\ UNCHANGED <<config, table, resumable, runs, rd, wr, target, history, faults, deletes>>

-----------------------------------------------------------------------------
FailStep ==
    /\ pc = "failing" /\ pc' = "idle" /\ resumable' = TRUE
    /\ UNCHANGED <<config, table, saved, runs, rd, wr, slot, attempt, chunk, target, history,
                   faults, deletes>>

FinishStep ==
    /\ pc = "finish" /\ pc' = "completed"
    /\ UNCHANGED <<config, table, repo, rd, wr, slot, attempt, chunk, target, history, faults,
                   deletes>>

\* The process is lost: the step row stays STARTING and is not resumed from.
Crash ==
    /\ pc \notin {"idle", "completed"} /\ faults < MaxFaults /\ faults' = faults + 1
    /\ pc' = "idle"
    /\ UNCHANGED <<config, table, repo, rd, wr, slot, attempt, chunk, target, history, deletes>>

\* Another client deletes a row of the table that is being read.
DeleteRow(i) ==
    /\ reader \in TableReader /\ deletes < MaxDeletes
    /\ pc = "read" /\ i \in DOMAIN table
    /\ deletes' = deletes + 1
    /\ table' = SubSeq(table, 1, i - 1) \o SubSeq(table, i + 1, Len(table))
    /\ UNCHANGED <<config, repo, pc, rd, wr, slot, attempt, chunk, target, history, faults>>

Next ==
    \/ StartRun \/ ReadItem \/ EndRead \/ ReadThrows
    \/ WriteChunk \/ WriteThrows \/ SaveCheckpoint
    \/ FailStep \/ FinishStep \/ Crash
    \/ \E i \in 1..Rows : DeleteRow(i)

Spec == Init /\ [][Next]_vars

-----------------------------------------------------------------------------
\* Positions, buffers, counters and history have their types.
TypeOK ==
    /\ pc \in {"idle", "read", "write", "checkpoint", "finish", "failing", "completed"}
    /\ rd.at \in 0..(Len(Lines) + Rows) /\ Len(rd.buffer) < PageSize
    /\ wr.header \in BOOLEAN /\ wr.chunk \in ChunkNumbers
    /\ saved.at \in 0..(Len(Lines) + Rows) /\ saved.chunk \in ChunkNumbers
    /\ slot \in 0..ChunkSize /\ Len(chunk) <= slot
    /\ attempt \in 1..(RetryLimit + 1)
    /\ table \in Seq(1..Rows) /\ file \in Seq(ChunkNumbers)
    /\ \A k \in ChunkNumbers : objects[k] \subseteq ChunkNumbers

Written(id) == (\E i \in DOMAIN file : file[i] = id) \/ \E k \in ChunkNumbers : id \in objects[k]

Input ==
    IF reader \in LineReader
    THEN {i \in (FirstPosition(reader) + 1)..Len(Lines) : Lines[i] \in {"item", "bad"}}
    ELSE {table[i] : i \in DOMAIN table}

(***************************************************************************)
(* A step that completes has accounted for every record of its input,      *)
(* through any errors, restarts and lost processes: it is in the target,   *)
(* or was given to the skip listeners, with three exceptions that are the  *)
(* readers' own.  A read() that is retried leaves the line behind that     *)
(* threw; offsets shift when rows are deleted, where a cursor does not;    *)
(* and an S3 object may end at a null line.  (A step also ends at a chunk  *)
(* whose every slot was skipped: slot < ChunkSize leaves that to           *)
(* NoLostRecord of ChunkStep.)                                             *)
(***************************************************************************)
EveryRecordAccounted ==
    (pc = "completed" /\ slot < ChunkSize) =>
        \A id \in Input :
            \/ Written(id) \/ id \in reported
            \/ reader \in LineReader /\ id \in passed
            \/ reader = "paging" /\ deletes > 0
            \/ reader = "s3" /\ \E i \in 1..(id - 1) : Lines[i] = "null"

(***************************************************************************)
(* A record is written a second time only when a write was reported failed *)
(* but had happened, or a lost process made a run start over: a restart    *)
(* from a checkpoint repeats nothing, whatever the reader had buffered.    *)
(***************************************************************************)
RestartRepeatsNothing ==
    (~unsure /\ ~fresh /\ deletes = 0) =>
        \A i, j \in DOMAIN file : (i # j /\ file[i] # Header) => file[i] # file[j]

(***************************************************************************)
(* The s3 writer keeps a record in one object however often a chunk is     *)
(* written: a retried put, a restart and a run that starts over all write  *)
(* the chunk to the object it had, as long as the runs cut the input into  *)
(* the same chunks: a write the skip policy gives up, a deleted row, and a *)
(* read error that left no record behind or was retried shift the chunks.  *)
(***************************************************************************)
SameChunks ==
    skippedWrites = 0 /\ deletes = 0 /\ 0 \notin reported
    /\ \A id \in passed : id # 0 => Unreadable(id)

OneObjectPerRecord ==
    SameChunks =>
        \A k, m \in ChunkNumbers : k # m => objects[k] \cap objects[m] = {}
=============================================================================
