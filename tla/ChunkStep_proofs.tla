--------------------------- MODULE ChunkStep_proofs ----------------------------
(***************************************************************************)
(* Proofs about ChunkStep for any number of records, any chunk size, any   *)
(* policies, errors, crashes and restarts, and both kinds of reader.       *)
(* CheckpointCovers is not inductive: it says what rows promise, and a     *)
(* running step is between two rows.  ChunkIInv adds what the run in       *)
(* progress has settled so far, and, for a plain reader, that the loop's   *)
(* chunk index still tells how many records the reader has passed.         *)
(***************************************************************************)
EXTENDS ChunkStep, SequenceTheorems, FiniteSetTheorems, TLAPS

AllSettled(n) == \A r \in 1..n : Settled(r)

\* Whatever the reader has passed is settled, or in the chunk in hand.
PassedInv ==
    /\ pc \in {"loop", "checkpoint", "finish"} => AllSettled(pos)
    /\ pc \in {"read", "process", "write"} =>
           \A r \in 1..pos : Settled(r) \/ r \in items \/ r \in processed
    /\ pc = "read" => processed = {}
    /\ pc = "write" => items = {}

\* A plain reader has passed ChunkSize records for every chunk of the loop.
CountInv ==
    ~streamReader =>
        /\ pc = "loop" => pos = Lesser(chunkIndex * ChunkSize, N)
        /\ pc = "read" => pos = Lesser(chunkIndex * ChunkSize + slot, N)
        /\ pc \in {"process", "write", "checkpoint"} =>
               pos = Lesser((chunkIndex + 1) * ChunkSize, N)
        /\ resume # NoCheckpoint => AllSettled(Lesser((resume + 1) * ChunkSize, N))

\* A run past its last chunk, or with its outcome stored, has settled it all.
EndInv ==
    SkipsLeaveARecord =>
        /\ NoLostRecord
        /\ pc = "read" /\ items = {} => slot <= skipCount /\ slot <= SkipLimit
        /\ pc = "finish" => pos = N
        /\ pc = "stepDone" /\ steps[Len(steps)].status = "COMPLETED" => AllSettled(N)

\* The run took its checkpoint from the failed run before it.
Resuming == isRestart /\ Len(steps) > 1 /\ steps[Len(steps) - 1].status = "FAILED"

\* Such a run starts where that row ends and has nothing of it in hand.
ResumeInv ==
    (pc # "idle" /\ Resuming) =>
        LET previous == steps[Len(steps) - 1] IN
        /\ resume = previous.last
        /\ pc \in {"loop", "read", "process", "write", "checkpoint"} /\ streamReader =>
               previous.pos <= pos
        /\ pc \in {"read", "process", "write"} => Covered(previous) \cap (items \cup processed) = {}
        /\ pc = "read" => \A r \in Covered(previous) : r <= pos

ChunkIInv ==
    /\ ReaderKeepsCount
    /\ TypeOK /\ CheckpointCovers /\ PassedInv /\ CountInv /\ EndInv /\ ResumeInv

-----------------------------------------------------------------------------
(***************************************************************************)
(* Chunk counts as record counts: ChunkSize is a constant, but unknown.    *)
(***************************************************************************)
LEMMA ChunkArithmetic ==
    \A a, b \in Nat :
        /\ a * ChunkSize \in Nat
        /\ (a + 1) * ChunkSize = a * ChunkSize + ChunkSize
        /\ a <= b => a * ChunkSize <= b * ChunkSize
<1> SUFFICES ASSUME NEW a \in Nat, NEW b \in Nat
             PROVE  /\ a * ChunkSize \in Nat
                    /\ (a + 1) * ChunkSize = a * ChunkSize + ChunkSize
                    /\ a <= b => a * ChunkSize <= b * ChunkSize
    OBVIOUS
<1>1. a * ChunkSize \in Nat /\ (a + 1) * ChunkSize = a * ChunkSize + ChunkSize
    BY ChunkAssumption
<1>2. ASSUME a <= b PROVE a * ChunkSize <= b * ChunkSize
    <2>1. PICK d \in Nat : b = a + d
        BY <1>2
    <2>2. b * ChunkSize = a * ChunkSize + d * ChunkSize /\ d * ChunkSize \in Nat
        BY <2>1, ChunkAssumption
    <2> QED BY <1>1, <2>2, ChunkAssumption
<1> QED BY <1>1, <1>2

(***************************************************************************)
(* A record once settled stays so: nothing lowers written or dropped.      *)
(***************************************************************************)
LEMMA SettledStays ==
    ASSUME TypeOK, Next PROVE \A r \in Records : Settled(r) => Settled(r)'
<1>1. \A r \in Records : written'[r] \in Nat /\ written'[r] >= written[r]
    <2>1. CASE WriteChunk
        BY <2>1 DEF WriteChunk, TypeOK
    <2>2. CASE ~WriteChunk
        <3>1. UNCHANGED written
            BY <2>2
               DEF Next, ExecutorStep, UserCodeThrows, StartRun, DrainChunk, BeginChunk, ReadItem,
                   EndRead, ProcessItem, EndProcess, SaveCheckpoint, FinishStep, FailStep,
                   StepOutcome, FinishJob, DrainFails, ReadThrows, ProcessThrows, WriteThrows,
                   CheckpointThrows, ListenerThrows, Crash, StopOrphan, outVars
        <3> QED BY <3>1 DEF TypeOK
    <2> QED BY <2>1, <2>2
<1>2. dropped \subseteq dropped'
    BY DEF Next, ExecutorStep, UserCodeThrows, StartRun, DrainChunk, BeginChunk, ReadItem, EndRead,
           ProcessItem, EndProcess, WriteChunk, SaveCheckpoint, FinishStep, FailStep, StepOutcome,
           FinishJob, DrainFails, ReadThrows, ProcessThrows, WriteThrows, CheckpointThrows,
           ListenerThrows, Crash, StopOrphan, outVars, HonourSkip
<1> QED BY <1>1, <1>2 DEF Settled, TypeOK

(***************************************************************************)
(* A step row other than the newest is never rewritten, and rewriting the  *)
(* newest one changes what the update names and nothing else.              *)
(***************************************************************************)
Row == [status : StepStatuses, last : Nat \cup {NoCheckpoint}, pos : 0..N]

\* The rows are there, and each is a row.
LEMMA NewestRow ==
    ASSUME TypeOK, steps # <<>>
    PROVE  /\ steps \in Seq(Row) /\ Len(steps) \in Nat \ {0} /\ DOMAIN steps = 1..Len(steps)
           /\ \A k \in DOMAIN steps : steps[k] \in Row
<1>1. steps \in Seq(Row)
    BY DEF TypeOK, Row
<1> HIDE DEF Row
<1> QED BY <1>1, EmptySeq, LenProperties, ElementOfSeq

\* The row after a checkpoint is saved.
LEMMA SavedRows ==
    ASSUME TypeOK, steps # <<>>
    PROVE  LET n == Len(steps) IN
           /\ SavedSteps \in Seq(Row) /\ Len(SavedSteps) = n /\ DOMAIN SavedSteps = DOMAIN steps
           /\ \A k \in 1..(n - 1) : SavedSteps[k] = steps[k]
           /\ SavedSteps[n].status = steps[n].status
           /\ SavedSteps[n].last = chunkIndex
           /\ SavedSteps[n].pos = IF streamReader THEN pos ELSE 0
<1> DEFINE n == Len(steps)
           saved == [steps[n] EXCEPT !.last = chunkIndex, !.pos = IF streamReader THEN pos ELSE 0]
<1>1. steps \in Seq(Row) /\ n \in Nat /\ n \in 1..n /\ DOMAIN steps = 1..n /\ steps[n] \in Row
    BY NewestRow
<1>2. chunkIndex \in Nat \cup {NoCheckpoint} /\ (IF streamReader THEN pos ELSE 0) \in 0..N
    BY ChunkAssumption DEF TypeOK
<1>3. /\ saved \in Row /\ saved.status = steps[n].status
      /\ saved.last = chunkIndex /\ saved.pos = IF streamReader THEN pos ELSE 0
    BY <1>1, <1>2 DEF Row
<1>4. SavedSteps = [steps EXCEPT ![n] = saved]
    BY <1>1 DEF SavedSteps
<1> HIDE DEF saved, Row
<1>5. SavedSteps \in Seq(Row) /\ Len(SavedSteps) = n
    BY <1>1, <1>3, <1>4, ExceptSeq
<1>6. DOMAIN SavedSteps = DOMAIN steps
    BY <1>1, <1>4
<1>7. SavedSteps[n] = saved
    BY <1>1, <1>4
<1>8. \A k \in 1..(n - 1) : SavedSteps[k] = steps[k]
    <2> SUFFICES ASSUME NEW k \in 1..(n - 1) PROVE SavedSteps[k] = steps[k]
        OBVIOUS
    <2>1. n \in Nat
        BY <1>1
    <2>2. k \in 1..n /\ k # n
        BY <2>1
    <2> QED BY <1>1, <1>4, <2>2
<1> QED BY <1>3, <1>5, <1>6, <1>7, <1>8

\* The rows after the outcome of the step is stored.
LEMMA OutcomeRows ==
    ASSUME TypeOK, steps # <<>>, NEW s \in StepStatuses, steps' = [steps EXCEPT ![Len(steps)].status = s]
    PROVE  LET n == Len(steps) IN
           /\ steps' \in Seq(Row) /\ Len(steps') = n /\ DOMAIN steps' = DOMAIN steps
           /\ \A k \in 1..(n - 1) : steps'[k] = steps[k]
           /\ steps'[n].status = s
           /\ \A k \in DOMAIN steps : steps'[k].last = steps[k].last /\ steps'[k].pos = steps[k].pos
<1> DEFINE n == Len(steps)
           done == [steps[n] EXCEPT !.status = s]
<1>1. steps \in Seq(Row) /\ n \in Nat /\ n \in 1..n /\ DOMAIN steps = 1..n /\ steps[n] \in Row
    BY NewestRow
<1>2. done \in Row /\ done.status = s /\ done.last = steps[n].last /\ done.pos = steps[n].pos
    BY <1>1 DEF Row
<1>3. steps' = [steps EXCEPT ![n] = done]
    BY <1>1
<1> HIDE DEF done, Row
<1> QED BY <1>1, <1>2, <1>3, ExceptSeq

-----------------------------------------------------------------------------
(***************************************************************************)
(* Initially nothing is read, written or stored.                           *)
(***************************************************************************)
LEMMA ChunkInitIInv == ReaderKeepsCount /\ Init => ChunkIInv
<1> SUFFICES ASSUME ReaderKeepsCount, Init PROVE ChunkIInv
    OBVIOUS
<1> USE ChunkAssumption DEF Init
<1>1. TypeOK
    <2>1. steps \in Seq(Row)
        BY EmptySeq
    <2>2. written \in [Records -> Nat]
        OBVIOUS
    <2>3. pos \in 0..N /\ slot \in 0..ChunkSize /\ resume \in Nat \cup {NoCheckpoint}
        BY DEF NoCheckpoint
    <2>4. items \subseteq Records /\ processed \subseteq Records /\ dropped \subseteq Records
        OBVIOUS
    <2>5. streamReader \in BOOLEAN /\ isRestart \in BOOLEAN /\ jobStatus \in JobStatuses
        BY DEF JobStatuses
    <2> QED BY <2>1, <2>2, <2>3, <2>4, <2>5 DEF TypeOK, Row
<1>2. CheckpointCovers /\ PassedInv /\ CountInv /\ EndInv /\ ResumeInv
    BY DEF CheckpointCovers, PassedInv, CountInv, EndInv, NoLostRecord, ResumeInv
<1> QED BY <1>1, <1>2 DEF ChunkIInv

(***************************************************************************)
(* Steps that leave the rows, the reader and the writer alone and only     *)
(* give up the run (or lose its process) keep every part of the invariant. *)
(***************************************************************************)
LEMMA GiveUpIInv ==
    ASSUME ChunkIInv, pc' \in {"idle", "failing"}, pc # "idle",
           UNCHANGED <<repoVars, entryVars, streamReader, written>>,
           pos' \in 0..N, slot' \in 0..ChunkSize, chunkIndex' = chunkIndex,
           items' \subseteq Records, processed' \subseteq Records,
           attempt' \in Nat, skipCount' \in Nat, faults' \in Nat, crashes' \in Nat,
           UNCHANGED dropped
    PROVE  ChunkIInv'
<1> USE ChunkAssumption DEF ChunkIInv, repoVars, entryVars
<1>1. TypeOK'
    BY DEF TypeOK
<1>2. CheckpointCovers' /\ PassedInv' /\ CountInv'
    BY DEF CheckpointCovers, Covered, PassedInv, CountInv, AllSettled, Settled
<1>3. EndInv'
    BY DEF EndInv, NoLostRecord, SkipsLeaveARecord, Settled
<1>4. ResumeInv'
    BY DEF ResumeInv, Resuming
<1> QED BY <1>1, <1>2, <1>3, <1>4 DEF ReaderKeepsCount

(***************************************************************************)
(* A run starts with what its checkpoint covers, and that is settled.      *)
(***************************************************************************)
LEMMA StartIInv == ASSUME ChunkIInv, StartRun PROVE ChunkIInv'
<1> DEFINE ctx == FindCheckpoint
           n == Len(steps)
           row == [status |-> "STARTING", last |-> ctx.last, pos |-> ctx.pos]
<1> USE ChunkAssumption DEF ChunkIInv
<1>1. steps \in Seq(Row) /\ n \in Nat /\ DOMAIN steps = 1..n /\ \A k \in 1..n : steps[k] \in Row
    <2>1. steps \in Seq(Row)
        BY DEF TypeOK, Row
    <2> HIDE DEF Row
    <2> QED BY <2>1, LenProperties, ElementOfSeq
<1>2. Restarting /\ steps # <<>> => n \in 1..n
    BY NewestRow DEF Restarting
<1>3. /\ ctx.last \in Nat \cup {NoCheckpoint} /\ ctx.pos \in 0..N
      /\ \/ ctx.last = NoCheckpoint /\ ctx.pos = 0
         \/ /\ n \in 1..n /\ ctx.last = steps[n].last /\ ctx.pos = steps[n].pos
    BY <1>1, <1>2 DEF FindCheckpoint, FreshContext, Row
<1>4. \A r \in Covered(row) : Settled(r)
    <2>1. CASE ctx.last = NoCheckpoint /\ ctx.pos = 0
        <3>1. Covered(row) = {}
            BY <2>1, ChunkArithmetic DEF Covered, NoCheckpoint, Lesser
        <3> QED BY <3>1
    <2>2. CASE n \in 1..n /\ ctx.last = steps[n].last /\ ctx.pos = steps[n].pos
        <3>1. Covered(row) = Covered(steps[n])
            BY <2>2 DEF Covered
        <3> QED BY <1>1, <2>2, <3>1 DEF CheckpointCovers
    <2> QED BY <1>3, <2>1, <2>2
<1>5. row \in Row
    BY <1>3 DEF Row, StepStatuses
<1>6. /\ steps' \in Seq(Row) /\ Len(steps') = n + 1 /\ DOMAIN steps' = 1..(n + 1)
      /\ steps'[n + 1] = row /\ \A k \in 1..n : steps'[k] = steps[k]
    <2>1. steps' = Append(steps, row)
        BY DEF StartRun
    <2> HIDE DEF Row, row
    <2> QED BY <1>1, <1>5, <2>1, AppendProperties, LenProperties
<1> HIDE DEF ctx, row, Row
<1>7. /\ pc' = "loop" /\ jobStatus' = "STARTED" /\ isRestart' = Restarting /\ resume' = ctx.last
      /\ pos' = (IF streamReader THEN ctx.pos ELSE 0)
      /\ chunkIndex' = (IF streamReader /\ ctx.last # NoCheckpoint THEN ctx.last + 1 ELSE 0)
      /\ slot' = 0 /\ items' = {} /\ processed' = {} /\ attempt' = 1 /\ skipCount' = 0
      /\ UNCHANGED <<written, dropped, faults, crashes, streamReader>>
    BY DEF StartRun, boundVars, ctx
<1>8. TypeOK'
    <2>1. steps' \in Seq([status : StepStatuses, last : Nat \cup {NoCheckpoint}, pos : 0..N]) /\ steps' # <<>>
        BY <1>6, EmptySeq DEF Row
    <2>2. /\ resume' \in Nat \cup {NoCheckpoint} /\ chunkIndex' \in Nat /\ pos' \in 0..N
          /\ slot' \in 0..ChunkSize /\ isRestart' \in BOOLEAN
        BY <1>3, <1>7 DEF TypeOK, NoCheckpoint, Restarting, Row
    <2> QED BY <1>7, <2>1, <2>2 DEF TypeOK, JobStatuses
<1>9. CheckpointCovers'
    <2> SUFFICES ASSUME NEW k \in 1..(n + 1) PROVE (\A r \in Covered(steps[k]) : Settled(r))'
        BY <1>6 DEF CheckpointCovers
    <2>1. \A r : Settled(r)' <=> Settled(r)
        BY <1>7 DEF Settled
    <2>2. Covered(steps[k])' = Covered(steps'[k])
        BY <1>7 DEF Covered
    <2>3. CASE k = n + 1
        BY <1>4, <1>6, <2>1, <2>2, <2>3
    <2>4. CASE k \in 1..n
        BY <1>1, <1>6, <2>1, <2>2, <2>4 DEF CheckpointCovers
    <2> QED BY <1>1, <2>3, <2>4
<1>10. PassedInv'
    BY <1>3, <1>4, <1>7 DEF PassedInv, AllSettled, Covered, Settled, row
<1>11. CountInv'
    <2>1. ASSUME ~streamReader, ctx.last # NoCheckpoint
          PROVE  AllSettled(Lesser((ctx.last + 1) * ChunkSize, N))
        BY <1>4, <2>1 DEF AllSettled, Covered, row
    <2> QED BY <1>7, <2>1, ChunkArithmetic DEF CountInv, AllSettled, Settled, Lesser, TypeOK
<1>12. EndInv'
    BY <1>7 DEF EndInv, NoLostRecord
<1>13. ResumeInv'
    <2> SUFFICES ASSUME Resuming'
                 PROVE  steps'[Len(steps') - 1].last = ctx.last /\ steps'[Len(steps') - 1].pos = ctx.pos
        BY <1>3, <1>7 DEF ResumeInv, TypeOK
    <2>1. Restarting /\ n > 0 /\ steps[n].status = "FAILED" /\ steps'[Len(steps') - 1] = steps[n]
        BY <1>1, <1>6, <1>7 DEF Resuming
    <2>2. steps # <<>>
        BY <2>1, EmptySeq
    <2> QED BY <2>1, <2>2 DEF ctx, FindCheckpoint
<1> QED BY <1>8, <1>9, <1>10, <1>11, <1>12, <1>13 DEF ReaderKeepsCount

-----------------------------------------------------------------------------
(***************************************************************************)
(* A step of the loop that stores nothing keeps the promises of the rows   *)
(* and of the checkpoint it resumed from.                                  *)
(***************************************************************************)
LEMMA PromisesStay ==
    ASSUME ChunkIInv, Next, UNCHANGED <<repoVars, entryVars, streamReader>>
    PROVE  /\ CheckpointCovers' /\ (SkipsLeaveARecord => NoLostRecord')
           /\ ~streamReader /\ resume # NoCheckpoint =>
                  AllSettled(Lesser((resume + 1) * ChunkSize, N))'
           /\ \A m \in 0..N : AllSettled(m) => AllSettled(m)'
<1> USE ChunkAssumption DEF ChunkIInv, repoVars, entryVars
<1>1. \A r \in Records : Settled(r) => Settled(r)'
    BY SettledStays
<1>2. CheckpointCovers'
    <2> SUFFICES ASSUME NEW k \in DOMAIN steps, NEW r \in Covered(steps[k]) PROVE Settled(r)'
        BY DEF CheckpointCovers, Covered
    <2>1. steps # <<>> /\ steps[k] \in Row
        BY NewestRow
    <2>2. r \in Records
        BY <2>1, ChunkArithmetic DEF Covered, Records, Row, Lesser, NoCheckpoint
    <2> QED BY <1>1, <2>2 DEF CheckpointCovers
<1>3. ASSUME NEW m \in 0..N, AllSettled(m) PROVE AllSettled(m)'
    BY <1>1, <1>3 DEF AllSettled, Records
<1>4. ASSUME resume # NoCheckpoint PROVE Lesser((resume + 1) * ChunkSize, N) \in 0..N
    BY <1>4, ChunkArithmetic DEF TypeOK, Lesser, NoCheckpoint
<1> QED BY <1>1, <1>2, <1>3, <1>4 DEF EndInv, NoLostRecord, CountInv, AllSettled

(***************************************************************************)
(* The drain passes chunks the checkpoint covers, ChunkSize records each.  *)
(***************************************************************************)
LEMMA DrainIInv == ASSUME ChunkIInv, DrainChunk, Next PROVE ChunkIInv'
<1> USE ChunkAssumption DEF ChunkIInv, DrainChunk, repoVars, entryVars, outVars, boundVars
<1>1. TypeOK'
    BY DEF TypeOK, Drained, Lesser
<1>2. CASE Drained = 0
    <2>1. pos = N /\ pc' = "finish" /\ UNCHANGED <<pos, chunkIndex>>
        BY <1>2 DEF Drained, Lesser, TypeOK
    <2>2. UNCHANGED <<slot, items, processed, skipCount, written, dropped>>
        OBVIOUS
    <2>3. PassedInv'
        BY <2>1, <2>2 DEF PassedInv, AllSettled, Settled
    <2>4. CountInv'
        BY <2>1, <2>2, PromisesStay DEF CountInv
    <2>5. EndInv'
        BY <2>1, <2>2, PromisesStay DEF EndInv, SkipsLeaveARecord
    <2>6. ResumeInv'
        BY <2>1, <2>2 DEF ResumeInv, Resuming
    <2> QED BY <1>1, <2>3, <2>4, <2>5, <2>6, PromisesStay DEF ReaderKeepsCount
<1>3. CASE Drained # 0
    <2>1. /\ pos' = pos + Lesser(ChunkSize, N - pos) /\ chunkIndex' = chunkIndex + 1 /\ pc' = "loop"
          /\ UNCHANGED <<slot, items, processed, skipCount, written, dropped>>
        BY <1>3 DEF Drained
    <2>2. pos' <= Lesser((resume + 1) * ChunkSize, N) /\ pos' = Lesser(chunkIndex' * ChunkSize, N)
        <3>1. /\ chunkIndex * ChunkSize \in Nat /\ (resume + 1) * ChunkSize \in Nat
              /\ (chunkIndex + 1) * ChunkSize = chunkIndex * ChunkSize + ChunkSize
              /\ (chunkIndex + 1) * ChunkSize <= (resume + 1) * ChunkSize
            BY ChunkArithmetic DEF TypeOK, Draining, NoCheckpoint
        <3>2. pos = Lesser(chunkIndex * ChunkSize, N)
            BY DEF CountInv, Draining
        <3> QED BY <2>1, <3>1, <3>2 DEF Lesser, TypeOK
    <2>3. AllSettled(Lesser((resume + 1) * ChunkSize, N))'
        BY PromisesStay DEF Draining
    <2>4. PassedInv'
        BY <1>1, <2>1, <2>2, <2>3, ChunkArithmetic
           DEF PassedInv, AllSettled, TypeOK, Lesser, NoCheckpoint, Draining
    <2>5. CountInv'
        BY <2>1, <2>2, <2>3 DEF CountInv, Lesser
    <2>6. EndInv'
        BY <2>1, PromisesStay DEF EndInv, SkipsLeaveARecord
    <2>7. ResumeInv'
        BY <2>1 DEF ResumeInv, Resuming, Draining
    <2> QED BY <1>1, <2>4, <2>5, <2>6, <2>7, PromisesStay DEF ReaderKeepsCount
<1> QED BY <1>2, <1>3

(***************************************************************************)
(* The read phase starts past the drained chunks, and every slot it fills  *)
(* takes a plain reader one record on.                                     *)
(***************************************************************************)
LEMMA BeginIInv == ASSUME ChunkIInv, BeginChunk, Next PROVE ChunkIInv'
<1> USE ChunkAssumption DEF ChunkIInv, BeginChunk, repoVars, entryVars, outVars, boundVars
<1>1. TypeOK'
    BY DEF TypeOK
<1>2. PassedInv'
    BY DEF PassedInv, AllSettled, Settled
<1>3. CountInv'
    BY PromisesStay, ChunkArithmetic DEF CountInv, TypeOK, Lesser
<1>4. EndInv'
    BY PromisesStay DEF EndInv, SkipsLeaveARecord, TypeOK
<1>5. ResumeInv'
    <2> SUFFICES ASSUME Resuming
                 PROVE  /\ resume = steps[Len(steps) - 1].last
                        /\ streamReader => steps[Len(steps) - 1].pos <= pos
                        /\ \A r \in Covered(steps[Len(steps) - 1]) : r <= pos
        BY DEF ResumeInv, Resuming, Covered
    <2>1. /\ resume = steps[Len(steps) - 1].last
          /\ streamReader => steps[Len(steps) - 1].pos <= pos
        BY DEF ResumeInv
    <2>2. CASE streamReader
        <3>1. steps[Len(steps) - 1].pos \in 0..N
            BY NewestRow DEF Row, TypeOK, Resuming
        <3> QED BY <2>1, <2>2, <3>1 DEF Covered, TypeOK
    <2>3. CASE ~streamReader
        <3>1. pos = Lesser(chunkIndex * ChunkSize, N)
            BY <2>3 DEF CountInv
        <3>2. (resume + 1) * ChunkSize \in Nat /\ (resume + 1) * ChunkSize <= chunkIndex * ChunkSize
            BY <2>3, ChunkArithmetic DEF Draining, TypeOK, NoCheckpoint
        <3>3. chunkIndex * ChunkSize \in Nat
            BY ChunkArithmetic DEF TypeOK
        <3> QED BY <2>1, <2>3, <3>1, <3>2, <3>3 DEF Covered, Lesser
    <2> QED BY <2>1, <2>2, <2>3
<1> QED BY <1>1, <1>2, <1>3, <1>4, <1>5, PromisesStay DEF ReaderKeepsCount

\* What the row before the newest one covers does not change with the loop.
LEMMA PreviousRow ==
    ASSUME TypeOK, UNCHANGED <<steps, streamReader>>
    PROVE  LET previous == steps[Len(steps) - 1] IN
           /\ Covered(previous)' = Covered(previous)
           /\ Resuming => previous.pos \in 0..N
<1>1. Resuming => steps # <<>>
    BY EmptySeq DEF Resuming, TypeOK
<1>2. Resuming => Len(steps) - 1 \in DOMAIN steps
    BY <1>1, NewestRow DEF Resuming
<1> QED BY <1>1, <1>2, NewestRow DEF Covered, Row

\* Reading on keeps clear of what the row before the newest one covers.
LEMMA ReadOnResumes ==
    ASSUME ChunkIInv, pc = "read", pc' = "read",
           UNCHANGED <<steps, entryVars, streamReader, processed>>,
           pos' \in {pos, pos + 1}, items' \subseteq items \cup {pos + 1}
    PROVE  ResumeInv'
<1> DEFINE previous == steps[Len(steps) - 1]
<1> USE DEF ChunkIInv, entryVars
<1>1. Resuming' <=> Resuming
    BY DEF Resuming
<1>2. Covered(previous)' = Covered(previous)
    BY PreviousRow
<1>3. ASSUME Resuming
      PROVE  /\ resume = previous.last
             /\ streamReader => previous.pos <= pos'
             /\ Covered(previous) \cap (items' \cup processed) = {}
             /\ \A r \in Covered(previous) : r <= pos'
    <2>1. previous.pos \in 0..N
        BY <1>3, PreviousRow
    <2>2. /\ resume = previous.last
          /\ streamReader => previous.pos <= pos
          /\ Covered(previous) \cap (items \cup processed) = {}
          /\ \A r \in Covered(previous) : r <= pos
        BY <1>3 DEF ResumeInv
    <2>3. \A r \in Covered(previous) : r \in Int
        BY DEF Covered
    <2> HIDE DEF previous
    <2> QED BY <2>1, <2>2, <2>3 DEF TypeOK
<1> QED BY <1>1, <1>2, <1>3 DEF ResumeInv

\* A record is read: one slot, one record.
LEMMA ReadIInv == ASSUME ChunkIInv, ReadItem, Next PROVE ChunkIInv'
<1> USE ChunkAssumption DEF ChunkIInv, ReadItem, repoVars, entryVars, outVars, boundVars
<1>1. TypeOK'
    BY DEF TypeOK, Records
<1>2. PassedInv'
    BY DEF PassedInv, AllSettled, Settled, TypeOK
<1>3. CountInv'
    BY PromisesStay, ChunkArithmetic DEF CountInv, TypeOK, Lesser
<1>4. EndInv'
    BY PromisesStay DEF EndInv, SkipsLeaveARecord
<1>5. ResumeInv'
    BY ReadOnResumes
<1> QED BY <1>1, <1>2, <1>3, <1>4, <1>5, PromisesStay DEF ReaderKeepsCount

\* A read throws: skipped past the record, retried in place, or the run gives up.
LEMMA ReadThrowsIInv ==
    ASSUME ChunkIInv, NEW f \in ReaderFaults, ReadThrows(f), Next PROVE ChunkIInv'
<1> USE ChunkAssumption DEF ChunkIInv, ReadThrows, repoVars, entryVars, Throw
<1>1. /\ f \in [kind : ErrorKind, moves : BOOLEAN]
      /\ f.kind = "retry" => ~f.moves
      /\ ~streamReader /\ f.kind = "skip" => f.moves
    BY DEF ReaderFaults, ReaderKeepsCount
<1>2. pos' \in 0..N /\ faults' \in Nat /\ UNCHANGED <<crashes, streamReader, items, processed, written>>
    BY DEF TypeOK
<1>3. CASE Verdict(f.kind) = "throw"
    <2>1. pc' = "failing" /\ UNCHANGED <<attempt, slot, skipCount, dropped>>
        BY <1>3 DEF Fail
    <2> QED BY <1>2, <2>1, GiveUpIInv DEF TypeOK
<1>4. CASE Verdict(f.kind) = "retry"
    <2>1. /\ f.kind = "retry" /\ pos' = pos /\ attempt' = attempt + 1
          /\ UNCHANGED <<pc, slot, skipCount, dropped>>
        BY <1>1, <1>4 DEF Verdict
    <2>2. TypeOK'
        BY <1>2, <2>1 DEF TypeOK
    <2>3. PassedInv' /\ CountInv'
        BY <1>2, <2>1, PromisesStay DEF PassedInv, CountInv, AllSettled, Settled
    <2>4. EndInv' /\ ResumeInv'
        BY <1>2, <2>1, PromisesStay DEF EndInv, SkipsLeaveARecord, ResumeInv, Resuming, Covered
    <2> QED BY <2>2, <2>3, <2>4, PromisesStay DEF ReaderKeepsCount
<1>5. CASE Verdict(f.kind) = "skip"
    <2>1. /\ f.kind = "skip" /\ skipCount + 1 <= SkipLimit /\ slot' = slot + 1
          /\ pos' = (IF f.moves THEN pos + 1 ELSE pos)
          /\ dropped' = dropped \cup (IF f.moves THEN {pos + 1} ELSE {})
          /\ skipCount' = skipCount + 1 /\ attempt' = 1 /\ UNCHANGED <<pc>>
        BY <1>5 DEF Verdict, HonourSkip
    <2>2. TypeOK'
        BY <1>1, <1>2, <2>1 DEF TypeOK, Records
    <2>3. PassedInv'
        BY <1>1, <1>2, <2>1 DEF PassedInv, AllSettled, Settled, TypeOK
    <2>4. CountInv'
        BY <1>1, <1>2, <2>1, PromisesStay, ChunkArithmetic DEF CountInv, TypeOK, Lesser
    <2>5. EndInv'
        BY <1>2, <2>1, PromisesStay DEF EndInv, SkipsLeaveARecord, TypeOK
    <2>6. ResumeInv'
        BY <1>2, <2>1, ReadOnResumes
    <2> QED BY <2>2, <2>3, <2>4, <2>5, <2>6, PromisesStay DEF ReaderKeepsCount
<1> QED BY <1>3, <1>4, <1>5 DEF Verdict

(***************************************************************************)
(* A chunk is full, or the reader exhausted; an empty chunk means the      *)
(* latter, since skipped reads alone cannot fill the slots.                *)
(***************************************************************************)
LEMMA EndReadIInv == ASSUME ChunkIInv, EndRead, Next PROVE ChunkIInv'
<1> USE ChunkAssumption DEF ChunkIInv, EndRead, repoVars, entryVars, outVars, boundVars
<1>1. TypeOK'
    BY DEF TypeOK
<1>2. PassedInv'
    BY DEF PassedInv, AllSettled, Settled
<1>3. CountInv'
    BY PromisesStay, ChunkArithmetic DEF CountInv, TypeOK, Lesser
<1>4. EndInv'
    BY PromisesStay DEF EndInv, SkipsLeaveARecord, TypeOK
<1>5. ResumeInv'
    BY DEF ResumeInv, Resuming, Covered
<1> QED BY <1>1, <1>2, <1>3, <1>4, <1>5, PromisesStay DEF ReaderKeepsCount

-----------------------------------------------------------------------------
(***************************************************************************)
(* Records move from the chunk in hand to the writer or are dropped; none  *)
(* disappears.                                                             *)
(***************************************************************************)
LEMMA ChunkInHandIInv ==
    ASSUME ChunkIInv, Next, TypeOK', pc \in {"process", "write"},
           pc' \in {"process", "write", "checkpoint"},
           UNCHANGED <<repoVars, entryVars, streamReader, pos, chunkIndex>>,
           items' \cup processed' \subseteq items \cup processed,
           \A r \in items \cup processed : Settled(r)' \/ r \in items' \/ r \in processed',
           pc' = "write" => items' = {},
           pc' = "checkpoint" => \A r \in items' \cup processed' : Settled(r)'
    PROVE  ChunkIInv'
<1> USE ChunkAssumption DEF ChunkIInv, repoVars, entryVars
<1>1. PassedInv'
    <2>1. ASSUME NEW r \in 1..pos PROVE Settled(r)' \/ r \in items' \/ r \in processed'
        <3>1. r \in Records
            BY DEF TypeOK, Records
        <3>2. Settled(r) \/ r \in items \cup processed
            BY DEF PassedInv
        <3> QED BY <3>1, <3>2, SettledStays
    <2> QED BY <2>1 DEF PassedInv, AllSettled
<1>2. CountInv'
    BY PromisesStay DEF CountInv
<1>3. EndInv'
    BY PromisesStay DEF EndInv, SkipsLeaveARecord
<1>4. ResumeInv'
    <2>1. Resuming' <=> Resuming
        BY DEF Resuming
    <2> QED BY <2>1, PreviousRow DEF ResumeInv
<1> QED BY <1>1, <1>2, <1>3, <1>4, PromisesStay DEF ReaderKeepsCount

\* A record is processed, or filtered away.
LEMMA ProcessIInv == ASSUME ChunkIInv, NEW r \in Records, ProcessItem(r), Next PROVE ChunkIInv'
<1> USE ChunkAssumption DEF ChunkIInv, ProcessItem, repoVars, entryVars, boundVars
<1>1. TypeOK'
    BY DEF TypeOK
<1>2. r \in items
    BY DEF IsNext
<1>3. \A q \in items \cup processed : Settled(q)' \/ q \in items' \/ q \in processed'
    BY <1>2 DEF Settled
<1> QED BY <1>1, <1>2, <1>3, ChunkInHandIInv

\* A record is skipped, tried again, or ends the run.
LEMMA ProcessThrowsIInv ==
    ASSUME ChunkIInv, NEW r \in Records, NEW kind \in OtherFaults, ProcessThrows(r, kind), Next
    PROVE  ChunkIInv'
<1> USE ChunkAssumption DEF ChunkIInv, ProcessThrows, repoVars, entryVars, Throw
<1>1. /\ faults' \in Nat /\ r \in items
      /\ UNCHANGED <<crashes, streamReader, pos, chunkIndex, slot, processed, written>>
    BY DEF TypeOK, IsNext
<1>2. CASE Verdict(kind) = "throw"
    <2>1. pc' = "failing" /\ UNCHANGED <<attempt, items, skipCount, dropped>>
        BY <1>2 DEF Fail
    <2> QED BY <1>1, <2>1, GiveUpIInv DEF TypeOK
<1>3. CASE Verdict(kind) = "retry"
    <2>1. attempt' = attempt + 1 /\ UNCHANGED <<pc, items, skipCount, dropped>>
        BY <1>3 DEF Verdict
    <2>2. TypeOK'
        BY <1>1, <2>1 DEF TypeOK
    <2> QED BY <1>1, <2>1, <2>2, ChunkInHandIInv
<1>4. CASE Verdict(kind) = "skip"
    <2>1. /\ items' = items \ {r} /\ dropped' = dropped \cup {r}
          /\ skipCount' = skipCount + 1 /\ attempt' = 1 /\ pc' = pc
        BY <1>4 DEF Verdict, HonourSkip
    <2>2. TypeOK'
        BY <1>1, <2>1 DEF TypeOK
    <2>3. \A q \in items \cup processed : Settled(q)' \/ q \in items' \/ q \in processed'
        BY <1>1, <2>1 DEF Settled
    <2> QED BY <1>1, <2>1, <2>2, <2>3, ChunkInHandIInv
<1> QED BY <1>2, <1>3, <1>4 DEF Verdict

\* With all of the chunk processed there is nothing left in hand but what is written.
LEMMA EndProcessIInv == ASSUME ChunkIInv, EndProcess, Next PROVE ChunkIInv'
<1> USE ChunkAssumption DEF ChunkIInv, EndProcess, repoVars, entryVars, outVars, boundVars
<1>1. TypeOK'
    BY DEF TypeOK
<1> QED BY <1>1, ChunkInHandIInv

(***************************************************************************)
(* A write settles the whole chunk; one that throws settles none of it, or *)
(* gives all of it up.                                                     *)
(***************************************************************************)
LEMMA WriteIInv == ASSUME ChunkIInv, WriteChunk, Next PROVE ChunkIInv'
<1> USE ChunkAssumption DEF ChunkIInv, WriteChunk, repoVars, entryVars, boundVars
<1>1. TypeOK'
    <2>1. written' \in [Records -> Nat] /\ dropped' \subseteq Records
        BY DEF TypeOK
    <2>2. skipCount' \in Nat
        <3>1. IsFiniteSet(processed \cap Refused)
            <4>1. IsFiniteSet(1..N)
                BY FS_Interval
            <4> QED BY <4>1, FS_Subset DEF TypeOK, Records
        <3> QED BY <3>1, FS_CardinalityType DEF TypeOK
    <2> QED BY <2>1, <2>2 DEF TypeOK
<1>2. items = {} /\ \A r \in processed : Settled(r)'
    BY DEF PassedInv, Settled, TypeOK
<1> QED BY <1>1, <1>2, ChunkInHandIInv

\* The chunk is given up, written again, or ends the run.
LEMMA WriteThrowsIInv ==
    ASSUME ChunkIInv, NEW kind \in OtherFaults, WriteThrows(kind), Next PROVE ChunkIInv'
<1> USE ChunkAssumption DEF ChunkIInv, WriteThrows, repoVars, entryVars, Throw
<1>1. /\ faults' \in Nat /\ items = {}
      /\ UNCHANGED <<crashes, streamReader, pos, chunkIndex, slot, items, processed, written>>
    BY DEF TypeOK, PassedInv
<1>2. CASE Verdict(kind) = "throw"
    <2>1. pc' = "failing" /\ UNCHANGED <<attempt, skipCount, dropped>>
        BY <1>2 DEF Fail
    <2> QED BY <1>1, <2>1, GiveUpIInv DEF TypeOK
<1>3. CASE Verdict(kind) = "retry"
    <2>1. attempt' = attempt + 1 /\ UNCHANGED <<pc, skipCount, dropped>>
        BY <1>3 DEF Verdict
    <2>2. TypeOK'
        BY <1>1, <2>1 DEF TypeOK
    <2> QED BY <1>1, <2>1, <2>2, ChunkInHandIInv
<1>4. CASE Verdict(kind) = "skip"
    <2>1. /\ dropped' = dropped \cup processed
          /\ skipCount' = skipCount + 1 /\ attempt' = 1 /\ pc' = "checkpoint"
        BY <1>4 DEF Verdict, HonourSkip
    <2>2. TypeOK'
        BY <1>1, <2>1 DEF TypeOK
    <2>3. \A q \in processed : Settled(q)'
        BY <2>1 DEF Settled
    <2> QED BY <1>1, <2>1, <2>2, <2>3, ChunkInHandIInv
<1> QED BY <1>2, <1>3, <1>4 DEF Verdict

-----------------------------------------------------------------------------
(***************************************************************************)
(* What the checkpoint covers is what the reader has passed: its position, *)
(* or as many chunks as the loop has counted.                              *)
(***************************************************************************)
LEMMA SavedIsCovered ==
    ASSUME ChunkIInv, Next, pc = "checkpoint", steps' = SavedSteps, UNCHANGED streamReader
    PROVE  CheckpointCovers'
<1> DEFINE n == Len(steps)
<1> USE ChunkAssumption DEF ChunkIInv
<1>1. steps # <<>>
    BY DEF TypeOK
<1>2. /\ n \in Nat \ {0} /\ DOMAIN steps = 1..n /\ DOMAIN steps' = DOMAIN steps
      /\ \A k \in 1..(n - 1) : steps'[k] = steps[k]
      /\ steps'[n].last = chunkIndex /\ steps'[n].pos = (IF streamReader THEN pos ELSE 0)
    BY <1>1, NewestRow, SavedRows
<1> HIDE DEF n
<1> SUFFICES ASSUME NEW k \in 1..n PROVE (\A r \in Covered(steps[k]) : Settled(r))'
    BY <1>2 DEF CheckpointCovers
<1>3. Covered(steps[k])' = Covered(steps'[k])
    BY DEF Covered
<1>4. \A r \in Records : Settled(r) => Settled(r)'
    BY SettledStays
<1>5. CASE k = n
    <2>1. Covered(steps'[k]) = 1..pos
        <3>1. CASE streamReader
            BY <1>2, <1>5, <3>1 DEF Covered
        <3>2. CASE ~streamReader
            BY <1>2, <1>5, <3>2 DEF Covered, CountInv
        <3> QED BY <3>1, <3>2
    <2>2. \A r \in 1..pos : r \in Records /\ Settled(r)
        BY DEF TypeOK, Records, PassedInv, AllSettled
    <2> QED BY <1>3, <1>4, <2>1, <2>2
<1>6. CASE k \in 1..(n - 1)
    <2>1. k \in DOMAIN steps /\ steps'[k] = steps[k] /\ steps[k] \in Row
        BY <1>1, <1>2, <1>6, NewestRow
    <2>2. \A r \in Covered(steps[k]) : r \in Records /\ Settled(r)
        BY <2>1, ChunkArithmetic DEF Covered, Records, Row, Lesser, NoCheckpoint, CheckpointCovers
    <2> QED BY <1>3, <1>4, <2>1, <2>2
<1> QED BY <1>2, <1>5, <1>6

\* The row before the newest, and what it covers, are as they were.
LEMMA SavedKeepsPrevious ==
    ASSUME TypeOK, steps # <<>>, steps' = SavedSteps, UNCHANGED <<isRestart, streamReader>>
    PROVE  /\ Resuming' <=> Resuming
           /\ Resuming => (steps[Len(steps) - 1])' = steps[Len(steps) - 1]
<1> DEFINE n == Len(steps)
<1>1. n \in Nat \ {0} /\ Len(steps') = n /\ \A k \in 1..(n - 1) : steps'[k] = steps[k]
    BY NewestRow, SavedRows
<1> QED BY <1>1 DEF Resuming

\* The checkpoint is stored and the loop goes on.
LEMMA SaveIInv == ASSUME ChunkIInv, SaveCheckpoint, Next PROVE ChunkIInv'
<1> USE ChunkAssumption DEF ChunkIInv, SaveCheckpoint, entryVars, outVars, boundVars
<1>1. steps # <<>>
    BY DEF TypeOK
<1>2. TypeOK'
    BY <1>1, SavedRows, EmptySeq, NewestRow DEF TypeOK, Row
<1>3. CheckpointCovers'
    BY SavedIsCovered
<1>4. PassedInv' /\ EndInv'
    BY DEF PassedInv, EndInv, SkipsLeaveARecord, NoLostRecord, AllSettled, Settled
<1>5. CountInv'
    BY DEF CountInv, AllSettled, Settled
<1>6. ResumeInv'
    BY <1>1, SavedKeepsPrevious DEF ResumeInv
<1> QED BY <1>2, <1>3, <1>4, <1>5, <1>6 DEF ReaderKeepsCount

\* The run fails around its checkpoint, stored or not.
LEMMA CheckpointThrowsIInv == ASSUME ChunkIInv, CheckpointThrows, Next PROVE ChunkIInv'
<1> USE ChunkAssumption DEF ChunkIInv, CheckpointThrows, runVars, entryVars, outVars, Throw, Fail
<1>1. CASE steps' = steps
    BY <1>1, GiveUpIInv DEF repoVars, TypeOK
<1>2. CASE steps' = SavedSteps
    <2>1. steps # <<>>
        BY DEF TypeOK
    <2>2. TypeOK'
        BY <1>2, <2>1, SavedRows, EmptySeq, NewestRow DEF TypeOK, Row
    <2>3. CheckpointCovers'
        BY <1>2, SavedIsCovered
    <2>4. PassedInv' /\ EndInv'
        BY DEF PassedInv, EndInv, SkipsLeaveARecord, NoLostRecord, AllSettled, Settled
    <2>5. CountInv'
        BY DEF CountInv, AllSettled, Settled
    <2>6. ResumeInv'
        BY <1>2, <2>1, SavedKeepsPrevious DEF ResumeInv
    <2> QED BY <2>2, <2>3, <2>4, <2>5, <2>6 DEF ReaderKeepsCount
<1> QED BY <1>1, <1>2

(***************************************************************************)
(* The outcome: the step row and then the job row.                         *)
(***************************************************************************)
LEMMA OutcomeIInv == ASSUME ChunkIInv, FinishStep \/ FailStep, Next PROVE ChunkIInv'
<1> DEFINE n == Len(steps)
<1> USE ChunkAssumption DEF ChunkIInv, runVars, entryVars, outVars, boundVars
<1>1. PICK s \in {"COMPLETED", "FAILED"} :
          /\ s = "COMPLETED" => pc = "finish"
          /\ pc \in {"finish", "failing"} /\ pc' = "stepDone"
          /\ steps' = [steps EXCEPT ![Len(steps)].status = s]
          /\ UNCHANGED <<jobStatus, runVars, outVars, boundVars>>
    BY DEF FinishStep, FailStep, StepOutcome
<1>2. steps # <<>> /\ s \in StepStatuses
    BY <1>1 DEF TypeOK, StepStatuses
<1>3. /\ n \in Nat \ {0} /\ DOMAIN steps = 1..n /\ steps' \in Seq(Row) /\ Len(steps') = n
      /\ DOMAIN steps' = DOMAIN steps /\ steps'[n].status = s
      /\ \A k \in 1..(n - 1) : steps'[k] = steps[k]
      /\ \A k \in DOMAIN steps : steps'[k].last = steps[k].last /\ steps'[k].pos = steps[k].pos
    BY <1>1, <1>2, OutcomeRows, NewestRow
<1>4. TypeOK'
    BY <1>1, <1>3, EmptySeq DEF TypeOK, Row
<1>5. CheckpointCovers'
    BY <1>1, <1>3 DEF CheckpointCovers, Covered, Settled
<1>6. PassedInv' /\ CountInv'
    BY <1>1 DEF PassedInv, CountInv, AllSettled, Settled
<1>7. EndInv'
    BY <1>1, <1>3 DEF EndInv, NoLostRecord, SkipsLeaveARecord, AllSettled, Settled, PassedInv
<1>8. ResumeInv'
    <2>1. n > 1 => steps'[n - 1] = steps[n - 1]
        BY <1>3
    <2>2. Resuming' => Resuming
        BY <1>1, <1>3, <2>1 DEF Resuming
    <2> QED BY <1>1, <1>3, <2>1, <2>2 DEF ResumeInv, Resuming
<1> QED BY <1>4, <1>5, <1>6, <1>7, <1>8 DEF ReaderKeepsCount

\* The job row takes the outcome of the step row.
LEMMA FinishJobIInv == ASSUME ChunkIInv, FinishJob, Next PROVE ChunkIInv'
<1> USE ChunkAssumption DEF ChunkIInv, FinishJob, runVars, entryVars, outVars, boundVars
<1>1. steps # <<>> /\ steps[Len(steps)].status \in StepStatuses
    BY NewestRow DEF TypeOK, Row
<1>2. TypeOK'
    BY <1>1 DEF TypeOK, StepStatuses, JobStatuses
<1>3. CheckpointCovers' /\ PassedInv' /\ CountInv' /\ ResumeInv'
    BY DEF CheckpointCovers, Covered, PassedInv, CountInv, AllSettled, Settled, ResumeInv
<1>4. EndInv'
    BY DEF EndInv, NoLostRecord, SkipsLeaveARecord, AllSettled, Settled, Records
<1> QED BY <1>2, <1>3, <1>4 DEF ReaderKeepsCount

(***************************************************************************)
(* A lost process and an orphan's stop leave the rows' promises alone.     *)
(***************************************************************************)
LEMMA StopIInv == ASSUME ChunkIInv, StopOrphan PROVE ChunkIInv'
<1> USE ChunkAssumption DEF ChunkIInv, StopOrphan, runVars, entryVars, outVars, boundVars
<1>1. TypeOK'
    BY DEF TypeOK, JobStatuses
<1>2. CheckpointCovers' /\ PassedInv' /\ CountInv' /\ ResumeInv' /\ EndInv'
    BY DEF CheckpointCovers, Covered, PassedInv, CountInv, AllSettled, Settled, ResumeInv, EndInv,
           SkipsLeaveARecord, NoLostRecord
<1> QED BY <1>1, <1>2 DEF ReaderKeepsCount

-----------------------------------------------------------------------------
\* Every step keeps the invariant.
LEMMA ChunkNextIInv == ChunkIInv /\ [Next]_vars => ChunkIInv'
<1> SUFFICES ASSUME ChunkIInv, [Next]_vars PROVE ChunkIInv'
    OBVIOUS
<1>1. CASE StartRun
    BY <1>1, StartIInv
<1>2. CASE DrainChunk
    BY <1>2, DrainIInv DEF Next, ExecutorStep
<1>3. CASE BeginChunk
    BY <1>3, BeginIInv DEF Next, ExecutorStep
<1>4. CASE ReadItem
    BY <1>4, ReadIInv DEF Next, ExecutorStep
<1>5. CASE EndRead
    BY <1>5, EndReadIInv DEF Next, ExecutorStep
<1>6. ASSUME NEW r \in Records, ProcessItem(r) PROVE ChunkIInv'
    BY <1>6, ProcessIInv DEF Next, ExecutorStep
<1>7. CASE EndProcess
    BY <1>7, EndProcessIInv DEF Next, ExecutorStep
<1>8. CASE WriteChunk
    BY <1>8, WriteIInv DEF Next, ExecutorStep
<1>9. CASE SaveCheckpoint
    BY <1>9, SaveIInv DEF Next, ExecutorStep
<1>10. CASE FinishStep \/ FailStep
    BY <1>10, OutcomeIInv DEF Next, ExecutorStep
<1>11. CASE FinishJob
    BY <1>11, FinishJobIInv DEF Next, ExecutorStep
<1>12. CASE DrainFails \/ ListenerThrows
    <2>1. /\ pc \in {"loop", "finish"} /\ pc' = "failing" /\ faults' = faults + 1
          /\ UNCHANGED <<repoVars, entryVars, streamReader, written, dropped, pos, slot, chunkIndex,
                         items, processed, attempt, skipCount, crashes>>
        BY <1>12 DEF DrainFails, ListenerThrows, Throw, Fail, runVars, outVars
    <2> QED BY <2>1, GiveUpIInv DEF ChunkIInv, TypeOK
<1>13. ASSUME NEW f \in ReaderFaults, ReadThrows(f) PROVE ChunkIInv'
    BY <1>13, ReadThrowsIInv DEF Next, UserCodeThrows
<1>14. ASSUME NEW r \in Records, NEW kind \in OtherFaults, ProcessThrows(r, kind) PROVE ChunkIInv'
    BY <1>14, ProcessThrowsIInv DEF Next, UserCodeThrows
<1>15. ASSUME NEW kind \in OtherFaults, WriteThrows(kind) PROVE ChunkIInv'
    BY <1>15, WriteThrowsIInv DEF Next, UserCodeThrows
<1>16. CASE CheckpointThrows
    BY <1>16, CheckpointThrowsIInv DEF Next, UserCodeThrows
<1>17. CASE Crash
    <2>1. /\ pc # "idle" /\ pc' = "idle" /\ crashes' = crashes + 1
          /\ UNCHANGED <<repoVars, entryVars, streamReader, written, dropped, pos, slot, chunkIndex,
                         items, processed, attempt, skipCount, faults>>
        BY <1>17 DEF Crash, runVars, outVars
    <2> QED BY <2>1, GiveUpIInv DEF ChunkIInv, TypeOK
<1>18. CASE StopOrphan
    BY <1>18, StopIInv
<1>19. CASE UNCHANGED vars
    <2>1. UNCHANGED <<jobStatus, steps, pc, isRestart, resume, pos, chunkIndex, slot, items,
                      processed, attempt, skipCount, written, dropped, faults, crashes, streamReader>>
        BY <1>19 DEF vars, repoVars, runVars, entryVars, outVars, boundVars
    <2> QED BY <2>1
            DEF ChunkIInv, ReaderKeepsCount, TypeOK, CheckpointCovers, Covered, PassedInv, CountInv,
                AllSettled, Settled, ResumeInv, Resuming, EndInv, SkipsLeaveARecord, NoLostRecord
<1> QED BY <1>1, <1>2, <1>3, <1>4, <1>5, <1>6, <1>7, <1>8, <1>9, <1>10, <1>11, <1>12, <1>13,
           <1>14, <1>15, <1>16, <1>17, <1>18, <1>19 DEF Next, ExecutorStep, UserCodeThrows

\* The invariant holds in every state of every behaviour, if the reader keeps count.
THEOREM ChunkInductiveInvariant == ReaderKeepsCount /\ Spec => []ChunkIInv
BY ChunkInitIInv, ChunkNextIInv, PTL DEF Spec

(***************************************************************************)
(* No checkpoint runs ahead of the writer, for any number of records, any  *)
(* chunk size, policies, faults, crashes and restarts, and both kinds of   *)
(* reader, as long as the reader keeps count of what it passes.            *)
(***************************************************************************)
THEOREM CheckpointsCover == ReaderKeepsCount /\ Spec => []CheckpointCovers
<1>1. ChunkIInv => CheckpointCovers
    BY DEF ChunkIInv
<1> QED BY <1>1, ChunkInductiveInvariant, PTL

(***************************************************************************)
(* A COMPLETED job has settled every record of its input, if besides the   *)
(* step's skip limit is smaller than its chunk.                            *)
(***************************************************************************)
THEOREM NothingLost == SkipsLeaveARecord /\ ReaderKeepsCount /\ Spec => []NoLostRecord
<1>1. SkipsLeaveARecord /\ ChunkIInv => NoLostRecord
    BY DEF ChunkIInv, EndInv
<1>2. ASSUME SkipsLeaveARecord PROVE Spec /\ ReaderKeepsCount => []NoLostRecord
    <2>1. ChunkIInv => NoLostRecord
        BY <1>1, <1>2
    <2> QED BY <2>1, ChunkInductiveInvariant, PTL
<1> QED BY <1>2

(***************************************************************************)
(* A restart writes nothing that the failed run before it had committed.   *)
(***************************************************************************)
THEOREM RestartsResume == ReaderKeepsCount /\ Spec => RestartResumes
<1>1. ChunkIInv /\ [Next]_vars =>
          [\A r \in Records :
              /\ written'[r] > written[r]
              /\ isRestart /\ Len(steps) > 1 /\ steps[Len(steps) - 1].status = "FAILED"
              => r \notin Covered(steps[Len(steps) - 1])]_vars
    <2> SUFFICES ASSUME ChunkIInv, Next, NEW r \in Records, written'[r] > written[r], Resuming
                 PROVE  r \notin Covered(steps[Len(steps) - 1])
        BY DEF Resuming
    <2>1. WriteChunk
        <3>1. UNCHANGED written => FALSE
            BY DEF ChunkIInv, TypeOK
        <3> QED BY <3>1
            DEF Next, ExecutorStep, UserCodeThrows, StartRun, DrainChunk, BeginChunk, ReadItem,
                EndRead, ProcessItem, EndProcess, SaveCheckpoint, FinishStep, FailStep,
                StepOutcome, FinishJob, DrainFails, ReadThrows, ProcessThrows, WriteThrows,
                CheckpointThrows, ListenerThrows, Crash, StopOrphan, outVars
    <2>2. r \in processed
        BY <2>1 DEF WriteChunk, ChunkIInv, TypeOK
    <2> QED BY <2>1, <2>2 DEF WriteChunk, ChunkIInv, ResumeInv
<1> QED BY <1>1, ChunkInductiveInvariant, PTL DEF Spec, RestartResumes
=============================================================================
