-------------------------- MODULE TypeormRepository --------------------------
(***************************************************************************)
(* TypeOrmJobRepository (packages/typeorm): raw SQL through an             *)
(* EntityManager, on PostgreSQL or, in tests, SQLite.                      *)
(***************************************************************************)
EXTENDS RepositoryScripts

\* On SQLite the row is selected without a lock: the INSERT already holds the
\* database's only write lock.
CreateExecutionAtomicSqlite ==
    Transaction(<<InsertInstance("lock", FALSE, FALSE), SelectUnlocked, FindRunning,
                  InsertExecution>>)

\* The insert answers with the row it created; an error is swallowed and the
\* row read back.
GetOrCreateJobInstance == Autocommit(<<FindInstance, InsertInstance("nothing", TRUE, TRUE), ReadBack(FALSE)>>)

\* INSERT ... ON CONFLICT DO NOTHING, SELECT ... FOR UPDATE SKIP LOCKED, the
\* running check and the insert, in one transaction. SQLite's branch is
\* CreateExecutionAtomicSqlite.
CreateExecutionAtomic ==
    Transaction(<<InsertInstance("nothing", FALSE, FALSE), LockSkipLocked, FindRunning,
                  InsertExecution>>)

\* All columns of the patch in one UPDATE; an empty patch sends nothing.
UpdateJobExecution == Autocommit(<<UpdateTogether>>)

\* created_at is the database's NOW(), kept with its fraction of a second.
CreateStepExecution == Autocommit(<<InsertStep("database", "fine")>>)

\* One UPDATE, as for the job execution.
UpdateStepExecution == Autocommit(<<UpdateTogether>>)

\* The latest row: created_at descending, random id as the tie-break.
FindLatestStepExecution == Autocommit(<<LatestBy("createdAt")>>)

GetExecutionContext == Autocommit(<<SelectContext(NoCheckpoint)>>)

\* Two statements and no transaction around them; the first save stores
\* version 0, the version a missing context is read with.
SaveExecutionContext == Autocommit(<<SelectVersion, WriteContext(0)>>)

GetJobExecution == Autocommit(<<SelectRow>>)

GetJobInstance == Autocommit(<<SelectRow>>)

FindJobInstances == Autocommit(<<SelectAll("createdAt")>>)

\* Newest start first; the executions that have not started come last.
FindJobExecutions == Autocommit(<<SelectStarted("last")>>)

FindStepExecutions == Autocommit(<<SelectAll("createdAt")>>)

Methods ==
    [getOrCreateJobInstance |-> GetOrCreateJobInstance,
     createExecutionAtomic |-> CreateExecutionAtomic,
     updateJobExecution |-> UpdateJobExecution,
     createStepExecution |-> CreateStepExecution,
     updateStepExecution |-> UpdateStepExecution,
     findLatestStepExecution |-> FindLatestStepExecution,
     getExecutionContext |-> GetExecutionContext,
     saveExecutionContext |-> SaveExecutionContext,
     getJobExecution |-> GetJobExecution,
     getJobInstance |-> GetJobInstance,
     findJobInstances |-> FindJobInstances,
     findJobExecutions |-> FindJobExecutions,
     findStepExecutions |-> FindStepExecutions]
=============================================================================
