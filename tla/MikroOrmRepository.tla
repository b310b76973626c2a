------------------------- MODULE MikroOrmRepository -------------------------
(***************************************************************************)
(* MikroORMJobRepository (packages/mikro-orm), which the PostgreSQL and    *)
(* MySQL packages re-export.                                               *)
(***************************************************************************)
EXTENDS RepositoryScripts

\* The insert answers with the row it created; its errors are not caught.
GetOrCreateJobInstance == Autocommit(<<FindInstance, InsertInstance("nothing", FALSE, TRUE), ReadBack(FALSE)>>)

\* INSERT ... ON CONFLICT DO NOTHING, SELECT ... FOR UPDATE SKIP LOCKED, the
\* running check and the insert, in one transaction.
CreateExecutionAtomic ==
    Transaction(<<InsertInstance("nothing", FALSE, FALSE), LockSkipLocked, FindRunning,
                  InsertExecution>>)

\* The entity is loaded, patched and flushed: what equals the loaded value is
\* not written.
UpdateJobExecution == Autocommit(<<ReadRow, FlushRow>>)

\* The column's default stamps the row.
CreateStepExecution == Autocommit(<<InsertStep("database", "fine")>>)

\* Loaded, patched and flushed.
UpdateStepExecution == Autocommit(<<ReadRow, FlushRow>>)

\* ORDER BY ctid DESC: the physical place of the row's current version.
FindLatestStepExecution == Autocommit(<<LatestBy("ctid")>>)

GetExecutionContext == Autocommit(<<SelectContext(NoCheckpoint)>>)

\* findOne, then an insert or a flush of the loaded entity; the first save
\* stores version 1.
SaveExecutionContext == Autocommit(<<SelectVersion, WriteContext(1)>>)

GetJobExecution == Autocommit(<<SelectRow>>)

GetJobInstance == Autocommit(<<SelectRow>>)

FindJobInstances == Autocommit(<<SelectAll("createdAt")>>)

\* Newest start first; PostgreSQL puts a null, an execution that has not
\* started, before them.
FindJobExecutions == Autocommit(<<SelectStarted("first")>>)

\* Ordered by the primary key, which is random.
FindStepExecutions == Autocommit(<<SelectAll("id")>>)

Methods ==
    [getOrCreateJobInstance |-> GetOrCreateJobInstance,
     createExecutionAtomic |-> CreateExecutionAtomic,
     updateJobExecution |-> UpdateJobExecution,
     createStepExecution |-> CreateStepExecution,
     updateStepExecution |-> UpdateStepExecution,
     findLatestStepExecution |-> FindLatestStepExecution,
     getExecutionContext |-> GetExecutionContext,
     saveExecutionContext |-> SaveExecutionContext,
     getJobExecution |-> GetJobExecution,
     getJobInstance |-> GetJobInstance,
     findJobInstances |-> FindJobInstances,
     findJobExecutions |-> FindJobExecutions,
     findStepExecutions |-> FindStepExecutions]
=============================================================================
