------------------------------ MODULE LaunchGate ------------------------------
(***************************************************************************)
(* What JobRepository.createExecutionAtomic promises to its callers, as    *)
(* one atomic step: an execution row in STARTING state appears for a job   *)
(* instance only while no other execution of that instance is STARTING or  *)
(* STARTED.  The rest of the module is what the running executors do to    *)
(* the row afterwards (JobExecutor.execute, JobLauncher.run).  SqlLaunch   *)
(* is shown to implement this specification.                               *)
(***************************************************************************)
EXTENDS FiniteSets

CONSTANTS
    Instances,       \* job instances: one per (job_name, job_key) pair
    Execs,           \* the ids createExecutionAtomic may draw
    None,            \* "no instance": the row does not exist
    ReentryAllowed   \* JobExecutor.execute may be called on a row that already ran

ASSUME GateAssumption ==
    /\ None \notin Instances
    /\ None \notin Execs
    /\ ReentryAllowed \in BOOLEAN

VARIABLES
    instanceOf,      \* [Execs -> Instances \cup {None}]: the row's job_instance_id
    status           \* [Execs -> JobStatus]: the row's status column

gateVars == <<instanceOf, status>>

\* The statuses an execution row takes in this module; "ABSENT" is no row.
JobStatus ==
    {"ABSENT", "STARTING", "STARTED", "COMPLETED", "FAILED", "STOPPED", "ABANDONED"}

\* The statuses createExecutionAtomic takes for a running execution.
RunningStatus == {"STARTING", "STARTED"}

Finished == {"COMPLETED", "FAILED", "STOPPED", "ABANDONED"}

Running(i) == {e \in Execs : instanceOf[e] = i /\ status[e] \in RunningStatus}

GateInit ==
    /\ instanceOf = [e \in Execs |-> None]
    /\ status = [e \in Execs |-> "ABSENT"]

\* Faulty variant: an execution that nobody has picked up yet does not count.
CreateExecutionStartedOnly(i, e) ==
    /\ status[e] = "ABSENT"
    /\ \A d \in Running(i) : status[d] # "STARTED"
    /\ instanceOf' = [instanceOf EXCEPT ![e] = i]
    /\ status' = [status EXCEPT ![e] = "STARTING"]

(***************************************************************************)
(* The promise: get-or-create the instance, check, insert, all at once.    *)
(***************************************************************************)
CreateExecution(i, e) ==
    /\ status[e] = "ABSENT"
    /\ Running(i) = {}
    /\ instanceOf' = [instanceOf EXCEPT ![e] = i]
    /\ status' = [status EXCEPT ![e] = "STARTING"]

(***************************************************************************)
(* JobExecutor.execute writes STARTED without looking at the row.  On a    *)
(* fresh row that is STARTING -> STARTED; a restart, a redelivered queue   *)
(* message or a start overtaken by JobOperator.stop writes it over a row   *)
(* that already left the running statuses, and nothing re-checks the gate. *)
(***************************************************************************)
WriteStarted(e) ==
    /\ status[e] \in {"STARTING"} \cup IF ReentryAllowed THEN Finished ELSE {}
    /\ status' = [status EXCEPT ![e] = "STARTED"]
    /\ UNCHANGED instanceOf

\* The executor's terminal write, or the operator's abandon: each decided on
\* a status read earlier, so any row that once ran may be overwritten.
WriteTerminal(e) ==
    /\ status[e] \notin {"ABSENT", "STARTING"}
    /\ \E s \in {"COMPLETED", "FAILED", "ABANDONED"} :
           status' = [status EXCEPT ![e] = s]
    /\ UNCHANGED instanceOf

\* JobOperator.stop, on a row it read as STARTING or STARTED.
WriteStopped(e) ==
    /\ status[e] # "ABSENT"
    /\ status' = [status EXCEPT ![e] = "STOPPED"]
    /\ UNCHANGED instanceOf

UpdateJobExecution(e) == WriteStarted(e) \/ WriteTerminal(e) \/ WriteStopped(e)

GateNext ==
    \/ \E i \in Instances, e \in Execs : CreateExecution(i, e)
    \/ \E e \in Execs : UpdateJobExecution(e)

GateSpec == GateInit /\ [][GateNext]_gateVars

-----------------------------------------------------------------------------
\* Every row has a status, and belongs to an instance iff it exists.
GateTypeOK ==
    /\ instanceOf \in [Execs -> Instances \cup {None}]
    /\ status \in [Execs -> JobStatus]
    /\ \A e \in Execs : instanceOf[e] = None <=> status[e] = "ABSENT"
=============================================================================
