------------------------- MODULE InMemoryRepository -------------------------
(***************************************************************************)
(* InMemoryJobRepository (packages/core): maps in the process, and         *)
(* withLock, a promise chain that admits one caller at a time. A method    *)
(* body without an await is a single step of the process; the statements   *)
(* below are no coarser.                                                   *)
(***************************************************************************)
EXTENDS RepositoryScripts

\* Under withLock.
GetOrCreateJobInstance == Autocommit(<<TakeMutex, FindInstance, InsertInstance("nothing", TRUE, TRUE), ReadBack(FALSE)>>)

\* Under withLock, and without a rollback: an instance created for a refused
\* launch stays.
CreateExecutionAtomic ==
    Autocommit(<<TakeMutex, InsertInstance("nothing", FALSE, FALSE), FindRunning,
                 InsertExecution>>)

\* The patch is spread over the row, outside withLock.
UpdateJobExecution == Autocommit(<<UpdateTogether>>)

\* Rows keep the insertion order of the map.
CreateStepExecution == Autocommit(<<InsertStep("process", "fine")>>)

\* The patch is spread over the row.
UpdateStepExecution == Autocommit(<<UpdateTogether>>)

\* The last matching row in the map's insertion order.
FindLatestStepExecution == Autocommit(<<LatestBy("insertion")>>)

GetExecutionContext == Autocommit(<<SelectContext(NoCheckpoint)>>)

\* Read and stored in one synchronous step.
SaveExecutionContext == Autocommit(<<WriteContext(1)>>)

GetJobExecution == Autocommit(<<SelectRow>>)

GetJobInstance == Autocommit(<<SelectRow>>)

FindJobInstances == Autocommit(<<SelectAll("insertion")>>)

\* The maps are walked: rows come in the order of their insertion.
FindJobExecutions == Autocommit(<<SelectAll("insertion")>>)

FindStepExecutions == Autocommit(<<SelectAll("insertion")>>)

Methods ==
    [getOrCreateJobInstance |-> GetOrCreateJobInstance,
     createExecutionAtomic |-> CreateExecutionAtomic,
     updateJobExecution |-> UpdateJobExecution,
     createStepExecution |-> CreateStepExecution,
     updateStepExecution |-> UpdateStepExecution,
     findLatestStepExecution |-> FindLatestStepExecution,
     getExecutionContext |-> GetExecutionContext,
     saveExecutionContext |-> SaveExecutionContext,
     getJobExecution |-> GetJobExecution,
     getJobInstance |-> GetJobInstance,
     findJobInstances |-> FindJobInstances,
     findJobExecutions |-> FindJobExecutions,
     findStepExecutions |-> FindStepExecutions]
=============================================================================
