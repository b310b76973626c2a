--------------------------- MODULE RepositoryReads ---------------------------
(***************************************************************************)
(* The reads of JobExplorer, a third workload on the rows.  Executions of  *)
(* one instance are launched; executors enter them, run their steps, fail, *)
(* die and are stopped; others enter them again, for a restart, for a      *)
(* redelivered message or for another partition, also while the first is   *)
(* at work and also after it COMPLETED.  A reader lists the executions or  *)
(* collects the details of one, which takes a statement for each table and *)
(* no transaction.  A behaviour ends with what it read: lists look at      *)
(* several executions and not at their steps, details at the steps of one. *)
(***************************************************************************)
EXTENDS RepositoryRows

CONSTANTS
    MaxExecutions,   \* bound: executions in a list
    MaxSteps,        \* bound: step rows of an execution in its details
    MaxEntries       \* bound: calls of execute on an execution

ASSUME RepositoryReadsAssumption == {MaxExecutions, MaxSteps, MaxEntries} \subseteq Nat \ {0}

VARIABLES
    executions,      \* the execution rows, in the order of their creation
    reader           \* what the explorer has read so far

readsVars == <<executions, reader>>
allVars == <<rowsVars, readsVars>>
idleVars == <<repository, workload, updatesVars, steps, run, committed>>

Executions == DOMAIN executions
Running == {"STARTING", "STARTED"}
NotStarted == -1   \* start_time is null
StepsOf(e) == executions[e].steps
Unread == reader.at \notin {"listed", "details"}

\* The calls of execute on an execution: how far each is, its step row, its clock.
Executors(e) == DOMAIN executions[e].at
Out == [phase |-> "out", step |-> 0, ahead |-> 0]
Phase(x, e) == executions[e].at[x].phase
StepOf(x, e) == executions[e].at[x].step

-----------------------------------------------------------------------------
(***************************************************************************)
(* The writers: launcher, executor and operator, by the rows they write.   *)
(***************************************************************************)
\* createExecutionAtomic: one running execution of the instance at a time.
LaunchExecution ==
    /\ workload = "reads"
    /\ Len(executions) < IF reader.wants = "list" THEN MaxExecutions ELSE 1
    /\ \A e \in Executions : executions[e].status \notin Running
    /\ executions' = Append(executions, [status |-> "STARTING", start |-> NotStarted,
                                         began |-> NotStarted, shared |-> FALSE,
                                         at |-> <<>>, steps |-> <<>>])
    /\ UNCHANGED <<idleVars, now, reader>>

(***************************************************************************)
(* JobExecutor.execute writes STARTED and its own clock's time whatever    *)
(* the row says: the fresh row of a launch, a FAILED or STOPPED one that   *)
(* is restarted, a STARTED or COMPLETED one whose message came again, or   *)
(* one on which the handler of another partition is at work.  History:     *)
(* whether the execution ever had two executors at once, and whether one   *)
(* entered after the explorer had read the row.                            *)
(***************************************************************************)
EnterWrite(e) ==
    /\ Len(executions[e].at) < MaxEntries
    /\ \E skew \in Skews :
           executions' = [executions EXCEPT
               ![e] = [@ EXCEPT !.status = "STARTED", !.start = now + skew, !.began = now,
                                !.shared = executions[e].shared \/ \E x \in Executors(e) : Phase(x, e) # "out",
                                !.at = Append(executions[e].at,
                                              [phase |-> "entered", step |-> 0, ahead |-> skew])]]
    /\ now' = now + Gap
    /\ reader' = [reader EXCEPT !.entered = @ \/ reader.exec = e]
    /\ UNCHANGED idleVars

\* The step rows of one executor are stamped with one clock.
BeginStep(x, e) ==
    /\ reader.wants = "details"
    /\ Phase(x, e) \in {"entered", "done"}
    /\ Len(StepsOf(e)) < MaxSteps
    /\ LET ahead == executions[e].at[x].ahead
           begun == [created |-> Stamp(ahead), ended |-> FALSE, checkpoint |-> NoCheckpoint]
           place == [phase |-> "running", step |-> Len(StepsOf(e)) + 1, ahead |-> ahead]
       IN  executions' = [executions EXCEPT
               ![e] = [@ EXCEPT !.at[x] = place, !.steps = Append(StepsOf(e), begun)]]
    /\ now' = now + 1
    /\ UNCHANGED <<idleVars, reader>>

SaveStep(x, e) ==
    /\ Phase(x, e) = "running"
    /\ StepsOf(e)[StepOf(x, e)].checkpoint = NoCheckpoint
    /\ executions' = [executions EXCEPT ![e].steps[StepOf(x, e)].checkpoint = 1]
    /\ UNCHANGED <<idleVars, now, reader>>

EndStep(x, e) ==
    /\ Phase(x, e) = "running"
    /\ executions' = [executions EXCEPT
           ![e] = [@ EXCEPT !.steps[StepOf(x, e)].ended = TRUE, !.at[x].phase = "done"]]
    /\ UNCHANGED <<idleVars, now, reader>>

\* A job has a first step, so a run that completes has ended one.
EndWrite(x, e, status) ==
    /\ Phase(x, e) \in {"entered", "done"}
    /\ status = "COMPLETED" /\ reader.wants = "details" => Phase(x, e) = "done"
    /\ executions' = [executions EXCEPT ![e] = [@ EXCEPT !.status = status, !.at[x] = Out]]
    /\ UNCHANGED <<idleVars, now, reader>>

\* The process dies, or execute throws before its last write.
ExecutorDies(x, e) ==
    /\ Phase(x, e) # "out"
    /\ executions' = [executions EXCEPT ![e].at[x] = Out]
    /\ UNCHANGED <<idleVars, now, reader>>

\* JobOperator.stop: the row says STOPPED, the executors go on.
StopWrite(e) ==
    /\ executions[e].status \in Running
    /\ executions' = [executions EXCEPT ![e].status = "STOPPED"]
    /\ UNCHANGED <<idleVars, now, reader>>

-----------------------------------------------------------------------------
(***************************************************************************)
(* What a SELECT with an ORDER BY may answer: an order of the rows that    *)
(* agrees with their keys, either order where the keys are equal.          *)
(***************************************************************************)
Orders(rows, Precedes(_, _)) ==
    LET n == Cardinality(rows) IN
    {s \in [1..n -> rows] : \A i, j \in 1..n : i < j => s[i] # s[j] /\ Precedes(s[i], s[j])}

FindStepExecutions(e) ==
    LET order == Does("findStepExecutions")[1].order
        Precedes(i, j) ==
            CASE order = "createdAt" -> StepsOf(e)[i].created <= StepsOf(e)[j].created
              [] order = "insertion" -> i < j
              [] order = "id" -> TRUE
    IN  Orders(DOMAIN StepsOf(e), Precedes)

FindJobExecutions(wanted) ==
    LET select == Does("findJobExecutions")[1]
        null(e) == executions[e].start = NotStarted
        Precedes(d, e) ==
            IF select.order = "insertion" THEN d < e
            ELSE CASE null(d) /\ null(e) -> TRUE
                   [] null(d) /\ ~null(e) -> select.nulls = "first"
                   [] ~null(d) /\ null(e) -> select.nulls = "last"
                   [] OTHER -> executions[d].start >= executions[e].start
    IN  Orders({e \in Executions : executions[e].status \in wanted}, Precedes)

\* JobExplorer.listJobExecutions, with and without a filter on the status.
Statuses == Running \cup {"COMPLETED", "FAILED", "STOPPED"}
ListJobExecutions ==
    /\ reader.wants = "list" /\ reader.at = "idle"
    /\ \E wanted \in {Statuses, {"COMPLETED", "FAILED"}} :
           \E listed \in FindJobExecutions(wanted) :
               reader' = [reader EXCEPT !.at = "listed",
                                        !.listed = [i \in DOMAIN listed |-> executions[listed[i]].began]]
    /\ UNCHANGED <<idleVars, now, executions>>

(***************************************************************************)
(* JobExplorer.getJobExecutionDetails: the row (and its instance, which    *)
(* nothing deletes), the steps, then the context of each, all at once.     *)
(***************************************************************************)
ReadDetails(e) ==
    /\ reader.wants = "details" /\ reader.at = "idle"
    /\ Does("getJobExecution")[1] = SelectRow /\ Does("getJobInstance")[1] = SelectRow
    /\ reader' = [reader EXCEPT !.at = "row", !.exec = e, !.status = executions[e].status]
    /\ UNCHANGED <<idleVars, now, executions>>

ReadSteps ==
    /\ reader.at = "row"
    /\ \E order \in FindStepExecutions(reader.exec) :
           reader' = [reader EXCEPT !.at = "steps", !.order = order,
                          !.steps = [i \in DOMAIN StepsOf(reader.exec) |-> StepsOf(reader.exec)[i].ended]]
    /\ UNCHANGED <<idleVars, now, executions>>

Contexts(e) ==
    [i \in DOMAIN reader.steps |-> IF StepsOf(e)[i].checkpoint = NoCheckpoint
                                   THEN Does("getExecutionContext")[1].absent
                                   ELSE StepsOf(e)[i].checkpoint]

\* Faulty variant: the row that is shown is read with the contexts.
ReadContextsAndRow ==
    /\ reader.at = "steps"
    /\ reader' = [reader EXCEPT !.at = "details", !.contexts = Contexts(reader.exec),
                                !.status = executions[reader.exec].status]
    /\ UNCHANGED <<idleVars, now, executions>>

ReadContexts ==
    /\ reader.at = "steps"
    /\ reader' = [reader EXCEPT !.at = "details", !.contexts = Contexts(reader.exec)]
    /\ UNCHANGED <<idleVars, now, executions>>

-----------------------------------------------------------------------------
ReadsInit ==
    /\ RowsInit
    /\ executions = <<>>
    /\ reader \in [wants : IF workload = "reads" THEN {"list", "details"} ELSE {"list"},
                   at : {"idle"}, exec : {0}, status : {"none"}, entered : {FALSE}, listed : {<<>>},
                   order : {<<>>}, steps : {<<>>}, contexts : {<<>>}]

ReadsNext ==
    \/ RowsNext /\ UNCHANGED readsVars
    \/ Unread /\ LaunchExecution
    \/ Unread /\ \E e \in Executions :
           \/ EnterWrite(e)
           \/ \E x \in Executors(e) :
                  \/ BeginStep(x, e) \/ SaveStep(x, e) \/ EndStep(x, e)
                  \/ \E status \in {"COMPLETED", "FAILED"} : EndWrite(x, e, status)
                  \/ ExecutorDies(x, e)
           \/ StopWrite(e) \/ ReadDetails(e)
    \/ ListJobExecutions \/ ReadSteps \/ ReadContexts

ReadsSpec == ReadsInit /\ [][ReadsNext]_allVars

-----------------------------------------------------------------------------
(***************************************************************************)
(* What JobExplorer shows can be relied on as far as one executor at a     *)
(* time writes.  The details of an execution are read in several           *)
(* statements while it may be running; still, when they show it COMPLETED  *)
(* they show a last step, ended, with the context it ended with, whatever  *)
(* failed, died, was stopped, restarted or delivered again before, and the *)
(* steps come as they ran.  In a listing, among executions that have       *)
(* started the one entered last comes first, though rows without a start   *)
(* stand among them and an older one may have been entered last.           *)
(*                                                                         *)
(* Two things part a COMPLETED row from its steps, and nothing else does:  *)
(* executors that shared the row (partitions, a handler taken for dead),   *)
(* and one that entered it again while the explorer was reading.           *)
(*                                                                         *)
(* The adapters' exceptions: the in-memory repository lists executions as  *)
(* they were created; MikroORM orders steps by a random id, and            *)
(* mysql-drizzle by a created_at in whole seconds, which short steps share.*)
(***************************************************************************)
ExplorerCoherent ==
    /\ reader.at = "details" /\ ~executions[reader.exec].shared =>
        /\ reader.status = "COMPLETED" /\ ~reader.entered =>
            LET last == Len(reader.steps) IN
            /\ reader.steps # <<>> /\ reader.steps[last]
            /\ reader.contexts[last] = StepsOf(reader.exec)[last].checkpoint
        /\ repository \notin {"mikroOrm", "mysqlDrizzle"} =>
            \A i, j \in DOMAIN reader.order : i < j => reader.order[i] < reader.order[j]
    /\ repository # "inMemory" =>
        \A i, j \in DOMAIN reader.listed :
            i < j /\ NotStarted \notin {reader.listed[i], reader.listed[j]} =>
                reader.listed[i] > reader.listed[j]
=============================================================================
