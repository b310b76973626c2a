-------------------------- MODULE PrismaRepository --------------------------
(***************************************************************************)
(* PrismaJobRepository (packages/prisma): raw SQL through Prisma, on       *)
(* PostgreSQL.                                                             *)
(***************************************************************************)
EXTENDS RepositoryScripts

\* The insert answers with the row it created; an error is swallowed and the
\* row read back.
GetOrCreateJobInstance == Autocommit(<<FindInstance, InsertInstance("nothing", TRUE, TRUE), ReadBack(FALSE)>>)

\* INSERT ... ON CONFLICT DO NOTHING, SELECT ... FOR UPDATE SKIP LOCKED, the
\* running check and the insert, in one transaction.
CreateExecutionAtomic ==
    Transaction(<<InsertInstance("nothing", FALSE, FALSE), LockSkipLocked, FindRunning,
                  InsertExecution>>)

\* One UPDATE for every column of the patch, outside any transaction.
UpdateJobExecution == Autocommit(<<UpdateColumns>>)

\* created_at is the database's NOW(), kept with its fraction of a second.
CreateStepExecution == Autocommit(<<InsertStep("database", "fine")>>)

\* One UPDATE for every column.
UpdateStepExecution == Autocommit(<<UpdateColumns>>)

\* The latest row: created_at descending, random id as the tie-break.
FindLatestStepExecution == Autocommit(<<LatestBy("createdAt")>>)

GetExecutionContext == Autocommit(<<SelectContext(NoCheckpoint)>>)

\* Two statements and no transaction around them; the first save stores
\* version 0, the version a missing context is read with.
SaveExecutionContext == Autocommit(<<SelectVersion, WriteContext(0)>>)

GetJobExecution == Autocommit(<<SelectRow>>)

GetJobInstance == Autocommit(<<SelectRow>>)

FindJobInstances == Autocommit(<<SelectAll("createdAt")>>)

\* Newest start first; the executions that have not started come last.
FindJobExecutions == Autocommit(<<SelectStarted("last")>>)

FindStepExecutions == Autocommit(<<SelectAll("createdAt")>>)

Methods ==
    [getOrCreateJobInstance |-> GetOrCreateJobInstance,
     createExecutionAtomic |-> CreateExecutionAtomic,
     updateJobExecution |-> UpdateJobExecution,
     createStepExecution |-> CreateStepExecution,
     updateStepExecution |-> UpdateStepExecution,
     findLatestStepExecution |-> FindLatestStepExecution,
     getExecutionContext |-> GetExecutionContext,
     saveExecutionContext |-> SaveExecutionContext,
     getJobExecution |-> GetJobExecution,
     getJobInstance |-> GetJobInstance,
     findJobInstances |-> FindJobInstances,
     findJobExecutions |-> FindJobExecutions,
     findStepExecutions |-> FindStepExecutions]
=============================================================================
