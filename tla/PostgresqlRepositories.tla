------------------------ MODULE PostgresqlRepositories ------------------------
(***************************************************************************)
(* The repositories of packages/postgresql, one section each.              *)
(***************************************************************************)
EXTENDS RepositoryScripts

-----------------------------------------------------------------------------
(***************************************************************************)
(* PostgresTypeOrmJobRepository (packages/postgresql): raw SQL through     *)
(* TypeORM.                                                                *)
(***************************************************************************)

\* Faulty variant: the instance row is selected without FOR UPDATE.
TypeormCreateExecutionAtomicUnlocked ==
    Transaction(<<InsertInstance("nothing", FALSE, FALSE), SelectUnlocked, FindRunning,
                  InsertExecution>>)

\* The row is read back whether the insert created it or not, and again when
\* the insert or the first read-back fails.
TypeormGetOrCreateJobInstance ==
    Autocommit(<<FindInstance, InsertInstance("nothing", TRUE, FALSE), ReadBack(TRUE), ReadBack(FALSE)>>)

\* INSERT ... ON CONFLICT DO NOTHING, SELECT ... FOR UPDATE SKIP LOCKED, the
\* running check and the insert, in one transaction.
TypeormCreateExecutionAtomic ==
    Transaction(<<InsertInstance("nothing", FALSE, FALSE), LockSkipLocked, FindRunning,
                  InsertExecution>>)

\* All columns of the patch in one UPDATE; an empty patch sends nothing.
TypeormUpdateJobExecution == Autocommit(<<UpdateTogether>>)

\* created_at is the database's NOW(), kept with its fraction of a second.
TypeormCreateStepExecution == Autocommit(<<InsertStep("database", "fine")>>)

\* One UPDATE, as for the job execution.
TypeormUpdateStepExecution == Autocommit(<<UpdateTogether>>)

\* The latest row: created_at descending, random id as the tie-break.
TypeormFindLatestStepExecution == Autocommit(<<LatestBy("createdAt")>>)

TypeormGetExecutionContext == Autocommit(<<SelectContext(NoCheckpoint)>>)

\* Two statements and no transaction around them; the first save stores
\* version 1.
TypeormSaveExecutionContext == Autocommit(<<SelectVersion, WriteContext(1)>>)

TypeormGetJobExecution == Autocommit(<<SelectRow>>)

TypeormGetJobInstance == Autocommit(<<SelectRow>>)

TypeormFindJobInstances == Autocommit(<<SelectAll("createdAt")>>)

\* Newest start first; the executions that have not started come last.
TypeormFindJobExecutions == Autocommit(<<SelectStarted("last")>>)

TypeormFindStepExecutions == Autocommit(<<SelectAll("createdAt")>>)

TypeormMethods ==
    [getOrCreateJobInstance |-> TypeormGetOrCreateJobInstance,
     createExecutionAtomic |-> TypeormCreateExecutionAtomic,
     updateJobExecution |-> TypeormUpdateJobExecution,
     createStepExecution |-> TypeormCreateStepExecution,
     updateStepExecution |-> TypeormUpdateStepExecution,
     findLatestStepExecution |-> TypeormFindLatestStepExecution,
     getExecutionContext |-> TypeormGetExecutionContext,
     saveExecutionContext |-> TypeormSaveExecutionContext,
     getJobExecution |-> TypeormGetJobExecution,
     getJobInstance |-> TypeormGetJobInstance,
     findJobInstances |-> TypeormFindJobInstances,
     findJobExecutions |-> TypeormFindJobExecutions,
     findStepExecutions |-> TypeormFindStepExecutions]

-----------------------------------------------------------------------------
(***************************************************************************)
(* PostgresDrizzleJobRepository (packages/postgresql): Drizzle's query     *)
(* builder.                                                                *)
(***************************************************************************)

\* A plain insert: the unique violation of the loser is caught and the
\* winner's row read.
DrizzleGetOrCreateJobInstance == Autocommit(<<FindInstance, InsertInstance("error", TRUE, TRUE), ReadBack(FALSE)>>)

\* INSERT ... ON CONFLICT DO NOTHING, SELECT ... FOR UPDATE SKIP LOCKED, the
\* running check and the insert, in one transaction.
DrizzleCreateExecutionAtomic ==
    Transaction(<<InsertInstance("nothing", FALSE, FALSE), LockSkipLocked, FindRunning,
                  InsertExecution>>)

\* All columns of the patch in one UPDATE; an empty patch sends nothing.
DrizzleUpdateJobExecution == Autocommit(<<UpdateTogether>>)

\* created_at is the writing process's clock.
DrizzleCreateStepExecution == Autocommit(<<InsertStep("process", "fine")>>)

\* One UPDATE, as for the job execution.
DrizzleUpdateStepExecution == Autocommit(<<UpdateTogether>>)

\* The latest row: created_at descending, random id as the tie-break.
DrizzleFindLatestStepExecution == Autocommit(<<LatestBy("createdAt")>>)

DrizzleGetExecutionContext == Autocommit(<<SelectContext(NoCheckpoint)>>)

\* Two statements and no transaction around them; the first save stores
\* version 1.
DrizzleSaveExecutionContext == Autocommit(<<SelectVersion, WriteContext(1)>>)

DrizzleGetJobExecution == Autocommit(<<SelectRow>>)

DrizzleGetJobInstance == Autocommit(<<SelectRow>>)

DrizzleFindJobInstances == Autocommit(<<SelectAll("createdAt")>>)

\* Newest start first; PostgreSQL puts a null, an execution that has not
\* started, before them.
DrizzleFindJobExecutions == Autocommit(<<SelectStarted("first")>>)

DrizzleFindStepExecutions == Autocommit(<<SelectAll("createdAt")>>)

DrizzleMethods ==
    [getOrCreateJobInstance |-> DrizzleGetOrCreateJobInstance,
     createExecutionAtomic |-> DrizzleCreateExecutionAtomic,
     updateJobExecution |-> DrizzleUpdateJobExecution,
     createStepExecution |-> DrizzleCreateStepExecution,
     updateStepExecution |-> DrizzleUpdateStepExecution,
     findLatestStepExecution |-> DrizzleFindLatestStepExecution,
     getExecutionContext |-> DrizzleGetExecutionContext,
     saveExecutionContext |-> DrizzleSaveExecutionContext,
     getJobExecution |-> DrizzleGetJobExecution,
     getJobInstance |-> DrizzleGetJobInstance,
     findJobInstances |-> DrizzleFindJobInstances,
     findJobExecutions |-> DrizzleFindJobExecutions,
     findStepExecutions |-> DrizzleFindStepExecutions]

-----------------------------------------------------------------------------
(***************************************************************************)
(* PostgresPrismaJobRepository (packages/postgresql): raw SQL through      *)
(* Prisma.                                                                 *)
(***************************************************************************)

\* The insert answers with the row it created; an error is swallowed and the
\* row read back.
PrismaGetOrCreateJobInstance == Autocommit(<<FindInstance, InsertInstance("nothing", TRUE, TRUE), ReadBack(FALSE)>>)

\* INSERT ... ON CONFLICT DO NOTHING, SELECT ... FOR UPDATE SKIP LOCKED, the
\* running check and the insert, in one transaction.
PrismaCreateExecutionAtomic ==
    Transaction(<<InsertInstance("nothing", FALSE, FALSE), LockSkipLocked, FindRunning,
                  InsertExecution>>)

\* One UPDATE for every column of the patch, outside any transaction.
PrismaUpdateJobExecution == Autocommit(<<UpdateColumns>>)

\* created_at is the database's NOW(), kept with its fraction of a second.
PrismaCreateStepExecution == Autocommit(<<InsertStep("database", "fine")>>)

\* One UPDATE for every column.
PrismaUpdateStepExecution == Autocommit(<<UpdateColumns>>)

\* The latest row: created_at descending, random id as the tie-break.
PrismaFindLatestStepExecution == Autocommit(<<LatestBy("createdAt")>>)

PrismaGetExecutionContext == Autocommit(<<SelectContext(NoCheckpoint)>>)

\* Two statements and no transaction around them; the first save stores
\* version 1.
PrismaSaveExecutionContext == Autocommit(<<SelectVersion, WriteContext(1)>>)

PrismaGetJobExecution == Autocommit(<<SelectRow>>)

PrismaGetJobInstance == Autocommit(<<SelectRow>>)

PrismaFindJobInstances == Autocommit(<<SelectAll("createdAt")>>)

\* Newest start first; the executions that have not started come last.
PrismaFindJobExecutions == Autocommit(<<SelectStarted("last")>>)

PrismaFindStepExecutions == Autocommit(<<SelectAll("createdAt")>>)

PrismaMethods ==
    [getOrCreateJobInstance |-> PrismaGetOrCreateJobInstance,
     createExecutionAtomic |-> PrismaCreateExecutionAtomic,
     updateJobExecution |-> PrismaUpdateJobExecution,
     createStepExecution |-> PrismaCreateStepExecution,
     updateStepExecution |-> PrismaUpdateStepExecution,
     findLatestStepExecution |-> PrismaFindLatestStepExecution,
     getExecutionContext |-> PrismaGetExecutionContext,
     saveExecutionContext |-> PrismaSaveExecutionContext,
     getJobExecution |-> PrismaGetJobExecution,
     getJobInstance |-> PrismaGetJobInstance,
     findJobInstances |-> PrismaFindJobInstances,
     findJobExecutions |-> PrismaFindJobExecutions,
     findStepExecutions |-> PrismaFindStepExecutions]
=============================================================================
