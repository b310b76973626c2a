---------------------------- MODULE RepositoryRows ----------------------------
(***************************************************************************)
(* What the adapters do to rows that exist.  Two workloads, one of which a *)
(* behaviour follows.  "updates": an executor, the handler of a redelivered*)
(* message and an operator patch the same job execution row, or an         *)
(* executor its step row, statement by statement, and may die in between.  *)
(* "restarts": one step fails or its process dies, and it is run again;    *)
(* every run creates a step row and saves checkpoints into its context,    *)
(* and a restart looks for the latest row to continue from.                *)
(* RepositoryReads adds a third, "reads".                                  *)
(***************************************************************************)
EXTENDS RepositoryAdapters, Integers, FiniteSets, FiniteSetsExt

CONSTANTS
    InUse,           \* the adapters considered
    MaxRuns,         \* bound: runs of the step
    MaxChunks,       \* bound: chunks of its input
    Gap,             \* time between the creation of two step rows
    Second,          \* the resolution of a coarse created_at column
    Skews,           \* how far a process's clock may be ahead of the database's
    SlotReuse        \* PostgreSQL gives the place of a dead row version away again

ASSUME RepositoryRowsAssumption ==
    /\ InUse \subseteq DOMAIN Adapters
    /\ {MaxRuns, MaxChunks, Gap, Second} \subseteq Nat \ {0}
    /\ Skews \subseteq Nat
    /\ SlotReuse \in BOOLEAN

VARIABLES
    repository, workload,
    method,          \* updateJobExecution or updateStepExecution
    row,             \* [Columns -> value]: the row it updates
    writer,          \* [Writers -> patches to apply, and the place in the first]
    steps,           \* the step rows, in the order of their creation
    run,             \* the run of the step in progress
    committed,       \* the last checkpoint of the latest run that has a row
    now              \* the database's clock

updatesVars == <<method, row, writer>>
restartsVars == <<steps, run, committed, now>>
rowsVars == <<repository, workload, updatesVars, restartsVars>>

Workloads == {"updates", "restarts", "reads"}
Does(m) == Adapters[repository][m].does

-----------------------------------------------------------------------------
(***************************************************************************)
(* Updates of one row.  writeCount stands for the counters of a step row.  *)
(***************************************************************************)
ColumnOrder == 
    <<"status", "startTime", "endTime", "writeCount", "exitCode", "exitMessage">>
Columns == {ColumnOrder[i] : i \in DOMAIN ColumnOrder}

\* The patches the code sends; at is the moment the writer put in them.
StartPatch(at) == [status |-> "STARTED", startTime |-> at]
CompletePatch(at) == [status |-> "COMPLETED", endTime |-> at, exitCode |-> "COMPLETED"]
FailPatch(at) == [status |-> "FAILED", endTime |-> at, exitMessage |-> "error"]
StopPatch(at) ==
    [status |-> "STOPPED", endTime |-> at, exitCode |-> "STOPPED", exitMessage |-> "stopped"]

StepPatch(status) ==
    [status |-> status, writeCount |-> "counted", exitCode |-> status, exitMessage |-> "result"]

Writers == {"executor", "redelivered", "operator"}
JobPatches ==
    [executor |-> {<<StartPatch("t1"), CompletePatch("t2")>>, <<StartPatch("t1"), FailPatch("t2")>>},
     redelivered |-> {<<StartPatch("t3"), CompletePatch("t4")>>, <<StartPatch("t3"), FailPatch("t4")>>},
     operator |-> {<<StopPatch("t5")>>}]
StepPatches ==
    [executor |-> {<<StepPatch("COMPLETED")>>, <<StepPatch("FAILED")>>},
     redelivered |-> {<<>>}, operator |-> {<<>>}]
Patches(w) == IF method = "updateJobExecution" THEN JobPatches[w] ELSE StepPatches[w]
AllPatches == UNION {{p[i] : i \in DOMAIN p} : p \in UNION {Patches(w) : w \in Writers}}

Patched(cols, p, r) == [c \in Columns |-> IF c \in cols \cap DOMAIN p THEN p[c] ELSE r[c]]

Busy(w) == writer[w].todo # <<>>
Patch(w) == Head(writer[w].todo)
UpdateStmt(w) == Does(method)[writer[w].at]
NextPatch(w) ==
    writer' = [writer EXCEPT ![w] = [@ EXCEPT !.todo = Tail(writer[w].todo), !.at = 1, !.column = 1]]

DoUpdateTogether(w) ==
    /\ Busy(w)
    /\ UpdateStmt(w).do = "updateTogether"
    /\ row' = Patched(Columns, Patch(w), row)
    /\ NextPatch(w)
    /\ UNCHANGED <<repository, workload, method, restartsVars>>

\* One UPDATE for each column of the patch, in the order of the code.
DoUpdateColumn(w) ==
    LET i == writer[w].column IN
    /\ Busy(w)
    /\ UpdateStmt(w).do = "updateColumns"
    /\ row' = Patched({ColumnOrder[i]}, Patch(w), row)
    /\ IF \E j \in i + 1 .. Len(ColumnOrder) : ColumnOrder[j] \in DOMAIN Patch(w)
       THEN writer' = [writer EXCEPT ![w].column =
                           Min({j \in i + 1 .. Len(ColumnOrder) : ColumnOrder[j] \in DOMAIN Patch(w)})]
       ELSE NextPatch(w)
    /\ UNCHANGED <<repository, workload, method, restartsVars>>

DoReadRow(w) ==
    /\ Busy(w)
    /\ UpdateStmt(w).do = "readRow"
    /\ writer' = [writer EXCEPT ![w].at = @ + 1, ![w].loaded = row]
    /\ UNCHANGED <<repository, workload, method, row, restartsVars>>

\* The flush writes the columns that differ from the row as it was loaded.
DoFlushRow(w) ==
    LET changed == {c \in Columns \cap DOMAIN Patch(w) : Patch(w)[c] # writer[w].loaded[c]} IN
    /\ Busy(w)
    /\ UpdateStmt(w).do = "flushRow"
    /\ row' = Patched(changed, Patch(w), row)
    /\ NextPatch(w)
    /\ UNCHANGED <<repository, workload, method, restartsVars>>

\* The process dies: what it has not written stays unwritten.
WriterDies(w) ==
    /\ Busy(w)
    /\ writer' = [writer EXCEPT ![w] = [@ EXCEPT !.todo = <<>>, !.at = 1, !.column = 1]]
    /\ UNCHANGED <<repository, workload, method, row, restartsVars>>

-----------------------------------------------------------------------------
(***************************************************************************)
(* Runs of one step.                                                       *)
(***************************************************************************)
CreateStmt == Does("createStepExecution")[1]
Order == Does("findLatestStepExecution")[1].order

NoContext == -1
Newest == Len(steps)
Rows == DOMAIN steps
Slots == {steps[i].slot : i \in Rows}

\* Where PostgreSQL puts a new version of a row: at the end of the table, or
\* also in the place of a version that died.
FreeSlots ==
    LET top == IF Slots = {} THEN 0 ELSE Max(Slots) IN
    {top + 1} \cup IF SlotReuse THEN 1..top \ Slots ELSE {}

\* created_at as it is stored.
Stamp(skew) ==
    LET t == now + IF CreateStmt.clock = "process" THEN skew ELSE 0 IN
    IF CreateStmt.grain = "second" THEN t \div Second ELSE t

\* The rows findLatestStepExecution may answer: ids are random, so a tie on
\* created_at goes to either.
Latest ==
    CASE Order = "createdAt" -> {i \in Rows : \A j \in Rows : steps[j].created <= steps[i].created}
      [] Order = "createdAtAscending" ->
             {i \in Rows : \A j \in Rows : steps[i].created <= steps[j].created}
      [] Order = "ctid" -> {i \in Rows : steps[i].slot = Max(Slots)}
      [] Order = "insertion" -> {Newest}

\* saveExecutionContext: nobody else writes this row's context, so its read
\* and its write are one step here.
SaveContext(checkpoint) ==
    LET save == Does("saveExecutionContext")
        version == steps[Newest].version
    IN  steps' = [steps EXCEPT ![Newest].checkpoint = checkpoint,
                               ![Newest].version = IF version = NoContext
                                                   THEN save[Len(save)].firstVersion
                                                   ELSE version + 1]

\* getExecutionContext: the saved checkpoint, or the empty context.
GetContext(i) ==
    IF steps[i].version = NoContext THEN Does("getExecutionContext")[1].absent
    ELSE steps[i].checkpoint

\* execute is a restart if the job row is FAILED or STOPPED; where the last run
\* died it says STARTED, unless an operator stops it.
MayRestart(restart) ==
    CASE run.job = "STARTING" -> ~restart
      [] run.job = "FAILED" -> restart
      [] run.job = "STARTED" -> TRUE

\* JobExecutor writes STARTED; a restart then looks for the prior row, before
\* it creates its own, and takes the context of a FAILED one.
LocatePrior ==
    /\ workload = "restarts"
    /\ run.at = "idle"
    /\ Len(steps) < MaxRuns
    /\ \E restart \in BOOLEAN :
           /\ MayRestart(restart)
           /\ \/ /\ ~restart \/ steps = <<>>
                 /\ run' = [job |-> "STARTED", at |-> "located", done |-> 0, restart |-> restart,
                            prior |-> FALSE, resume |-> 0]
              \/ /\ restart /\ steps # <<>>
                 /\ \E i \in Latest :
                        run' = [job |-> "STARTED", at |-> "located", done |-> 0, restart |-> TRUE,
                                prior |-> steps[i].failed,
                                resume |-> IF steps[i].failed THEN GetContext(i) ELSE 0]
    /\ UNCHANGED <<repository, workload, steps, committed, now, updatesVars>>

DoCreateStep ==
    /\ run.at = "located"
    /\ \E skew \in Skews, slot \in FreeSlots :
           steps' = Append(steps, [created |-> Stamp(skew), slot |-> slot,
                                   failed |-> FALSE, checkpoint |-> 0,
                                   version |-> NoContext])
    /\ now' = now + Gap
    /\ run' = [run EXCEPT !.at = "created"]
    /\ committed' = run.resume
    /\ UNCHANGED <<repository, workload, updatesVars>>

\* The prior context is copied before the first chunk.
DoCopyContext ==
    /\ run.at = "created"
    /\ IF run.prior THEN SaveContext(run.resume) ELSE UNCHANGED steps
    /\ run' = [run EXCEPT !.at = "working", !.done = run.resume]
    /\ UNCHANGED <<repository, workload, committed, now, updatesVars>>

DoSaveCheckpoint ==
    /\ run.at = "working"
    /\ run.done < MaxChunks
    /\ SaveContext(run.done + 1)
    /\ run' = [run EXCEPT !.done = @ + 1]
    /\ committed' = run.done + 1
    /\ UNCHANGED <<repository, workload, now, updatesVars>>

\* updateStepExecution(FAILED): an UPDATE writes a new version of the row.  The
\* job row's FAILED follows, unless the process dies first.
DoFailStep ==
    /\ run.at = "working"
    /\ \E slot \in FreeSlots :
           steps' = [steps EXCEPT ![Newest].failed = TRUE, ![Newest].slot = slot]
    /\ \E job \in {"FAILED", "STARTED"} : run' = [run EXCEPT !.at = "idle", !.job = job]
    /\ UNCHANGED <<repository, workload, committed, now, updatesVars>>

\* The process dies: its step row, if it has one, stays STARTING.
RunDies ==
    /\ run.at # "idle"
    /\ run' = [run EXCEPT !.at = "idle"]
    /\ UNCHANGED <<repository, workload, steps, committed, now, updatesVars>>

-----------------------------------------------------------------------------
RowsInit ==
    /\ repository \in InUse
    /\ workload \in Workloads
    /\ row = [c \in Columns |-> IF c = "status" THEN "STARTING" ELSE "none"]
    /\ method \in {"updateJobExecution", "updateStepExecution"}
    /\ workload # "updates" => method = "updateJobExecution"
    /\ \E p \in [Writers -> UNION {Patches(w) : w \in Writers} \cup {<<>>}] :
           /\ \A w \in Writers : p[w] \in IF workload = "updates" THEN Patches(w) ELSE {<<>>}
           /\ writer = [w \in Writers |-> [todo |-> p[w], at |-> 1, column |-> 1, loaded |-> row]]
    /\ steps = <<>>
    /\ run = [job |-> "STARTING", at |-> "idle", restart |-> FALSE, prior |-> FALSE,
              resume |-> 0, done |-> 0]
    /\ committed = 0
    /\ now = 0

RowsNext ==
    \/ \E w \in Writers :
           \/ DoUpdateTogether(w) \/ DoUpdateColumn(w) \/ DoReadRow(w) \/ DoFlushRow(w)
           \/ WriterDies(w)
    \/ LocatePrior \/ DoCreateStep \/ DoCopyContext \/ DoSaveCheckpoint \/ DoFailStep
    \/ RunDies

RowsSpec == RowsInit /\ [][RowsNext]_rowsVars

-----------------------------------------------------------------------------
\* Rows, writers and the restarting run stay within their domains.
RowsTypeOK ==
    /\ repository \in InUse
    /\ \A w \in Writers : writer[w].column \in DOMAIN ColumnOrder
    /\ \A i \in Rows : steps[i].checkpoint \in 0..MaxChunks /\ steps[i].slot \in Nat
    /\ run.resume \in 0..MaxChunks
    /\ committed \in 0..MaxChunks

(***************************************************************************)
(* A row that says how the job ended was written by one update: its status,*)
(* end time and exit fields are those of the same patch, in every          *)
(* interleaving of executor, redelivery and operator and wherever one of   *)
(* them dies.  Three adapters do not give this: two Prisma ones send an    *)
(* UPDATE per column, and MikroORM leaves out the columns that equal the   *)
(* row as it was loaded.                                                   *)
(***************************************************************************)
NoTornRow ==
    repository \notin {"prisma", "postgresPrisma", "mikroOrm"}
    /\ row["status"] \in {"COMPLETED", "FAILED", "STOPPED"} =>
        \E p \in AllPatches : \A c \in DOMAIN p : row[c] = p[c]

(***************************************************************************)
(* A restart continues where the latest run stopped, if that run FAILED:   *)
(* the row findLatestStepExecution answers holds its last checkpoint, or   *)
(* the one it had itself resumed from, however often the step failed or    *)
(* died before.  After a run that died, wherever between the row and the   *)
(* copied context or later, it starts over, never from an older row.       *)
(***************************************************************************)
ResumesWhereStopped ==
    run.at = "located" /\ run.restart =>
        run.resume = IF steps # <<>> /\ steps[Newest].failed THEN committed ELSE 0
=============================================================================
