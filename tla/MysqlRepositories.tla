-------------------------- MODULE MysqlRepositories ---------------------------
(***************************************************************************)
(* The repositories of packages/mysql, one section each.                   *)
(***************************************************************************)
EXTENDS RepositoryScripts

-----------------------------------------------------------------------------
(***************************************************************************)
(* MysqlTypeOrmJobRepository (packages/mysql): raw SQL through TypeORM.    *)
(***************************************************************************)

\* The row is read back whether the insert created it or not, and again when
\* the insert or the first read-back fails.
TypeormGetOrCreateJobInstance ==
    Autocommit(<<FindInstance, InsertInstance("lock", TRUE, FALSE), ReadBack(TRUE), ReadBack(FALSE)>>)

\* INSERT ... ON DUPLICATE KEY UPDATE takes the row lock as it hits the row;
\* the rest as on PostgreSQL.
TypeormCreateExecutionAtomic ==
    Transaction(<<InsertInstance("lock", FALSE, FALSE), LockSkipLocked, FindRunning,
                  InsertExecution>>)

\* All columns of the patch in one UPDATE; an empty patch sends nothing.
TypeormUpdateJobExecution == Autocommit(<<UpdateTogether>>)

\* created_at is the database's NOW(), kept with its fraction of a second.
\* NOW(6) is stored in a DATETIME(6).
TypeormCreateStepExecution == Autocommit(<<InsertStep("database", "fine")>>)

\* One UPDATE, as for the job execution.
TypeormUpdateStepExecution == Autocommit(<<UpdateTogether>>)

\* The latest row: created_at descending, random id as the tie-break.
TypeormFindLatestStepExecution == Autocommit(<<LatestBy("createdAt")>>)

TypeormGetExecutionContext == Autocommit(<<SelectContext(NoCheckpoint)>>)

\* Two statements and no transaction around them; the first save stores
\* version 1.
TypeormSaveExecutionContext == Autocommit(<<SelectVersion, WriteContext(1)>>)

TypeormGetJobExecution == Autocommit(<<SelectRow>>)

TypeormGetJobInstance == Autocommit(<<SelectRow>>)

TypeormFindJobInstances == Autocommit(<<SelectAll("createdAt")>>)

\* Newest start first; to MySQL a null start is the smallest.
TypeormFindJobExecutions == Autocommit(<<SelectStarted("last")>>)

TypeormFindStepExecutions == Autocommit(<<SelectAll("createdAt")>>)

TypeormMethods ==
    [getOrCreateJobInstance |-> TypeormGetOrCreateJobInstance,
     createExecutionAtomic |-> TypeormCreateExecutionAtomic,
     updateJobExecution |-> TypeormUpdateJobExecution,
     createStepExecution |-> TypeormCreateStepExecution,
     updateStepExecution |-> TypeormUpdateStepExecution,
     findLatestStepExecution |-> TypeormFindLatestStepExecution,
     getExecutionContext |-> TypeormGetExecutionContext,
     saveExecutionContext |-> TypeormSaveExecutionContext,
     getJobExecution |-> TypeormGetJobExecution,
     getJobInstance |-> TypeormGetJobInstance,
     findJobInstances |-> TypeormFindJobInstances,
     findJobExecutions |-> TypeormFindJobExecutions,
     findStepExecutions |-> TypeormFindStepExecutions]

-----------------------------------------------------------------------------
(***************************************************************************)
(* MysqlDrizzleJobRepository (packages/mysql): Drizzle's query builder and *)
(* raw SQL for the launch.                                                 *)
(***************************************************************************)

\* A plain insert: the unique violation of the loser is caught and the
\* winner's row read.
DrizzleGetOrCreateJobInstance == Autocommit(<<FindInstance, InsertInstance("error", TRUE, TRUE), ReadBack(FALSE)>>)

\* INSERT ... ON DUPLICATE KEY UPDATE takes the row lock as it hits the row;
\* the rest as on PostgreSQL.
DrizzleCreateExecutionAtomic ==
    Transaction(<<InsertInstance("lock", FALSE, FALSE), LockSkipLocked, FindRunning,
                  InsertExecution>>)

\* All columns of the patch in one UPDATE; an empty patch sends nothing.
DrizzleUpdateJobExecution == Autocommit(<<UpdateTogether>>)

\* created_at is the writing process's clock. The schema's
\* timestamp('created_at') has no fraction of a second.
DrizzleCreateStepExecution == Autocommit(<<InsertStep("process", "second")>>)

\* One UPDATE, as for the job execution.
DrizzleUpdateStepExecution == Autocommit(<<UpdateTogether>>)

\* The latest row: created_at descending, random id as the tie-break.
DrizzleFindLatestStepExecution == Autocommit(<<LatestBy("createdAt")>>)

DrizzleGetExecutionContext == Autocommit(<<SelectContext(NoCheckpoint)>>)

\* Two statements and no transaction around them; the first save stores
\* version 1.
DrizzleSaveExecutionContext == Autocommit(<<SelectVersion, WriteContext(1)>>)

DrizzleGetJobExecution == Autocommit(<<SelectRow>>)

DrizzleGetJobInstance == Autocommit(<<SelectRow>>)

DrizzleFindJobInstances == Autocommit(<<SelectAll("createdAt")>>)

\* Newest start first; to MySQL a null start is the smallest.
DrizzleFindJobExecutions == Autocommit(<<SelectStarted("last")>>)

DrizzleFindStepExecutions == Autocommit(<<SelectAll("createdAt")>>)

DrizzleMethods ==
    [getOrCreateJobInstance |-> DrizzleGetOrCreateJobInstance,
     createExecutionAtomic |-> DrizzleCreateExecutionAtomic,
     updateJobExecution |-> DrizzleUpdateJobExecution,
     createStepExecution |-> DrizzleCreateStepExecution,
     updateStepExecution |-> DrizzleUpdateStepExecution,
     findLatestStepExecution |-> DrizzleFindLatestStepExecution,
     getExecutionContext |-> DrizzleGetExecutionContext,
     saveExecutionContext |-> DrizzleSaveExecutionContext,
     getJobExecution |-> DrizzleGetJobExecution,
     getJobInstance |-> DrizzleGetJobInstance,
     findJobInstances |-> DrizzleFindJobInstances,
     findJobExecutions |-> DrizzleFindJobExecutions,
     findStepExecutions |-> DrizzleFindStepExecutions]

-----------------------------------------------------------------------------
(***************************************************************************)
(* MysqlPrismaJobRepository (packages/mysql): Prisma's client, and raw SQL *)
(* for the launch.                                                         *)
(***************************************************************************)

\* A plain insert: the unique violation of the loser is caught and the
\* winner's row read.
PrismaGetOrCreateJobInstance == Autocommit(<<FindInstance, InsertInstance("error", TRUE, TRUE), ReadBack(FALSE)>>)

\* INSERT ... ON DUPLICATE KEY UPDATE takes the row lock as it hits the row;
\* the rest as on PostgreSQL.
PrismaCreateExecutionAtomic ==
    Transaction(<<InsertInstance("lock", FALSE, FALSE), LockSkipLocked, FindRunning,
                  InsertExecution>>)

\* Faulty variant: a statement for every column.
PrismaUpdateJobExecutionColumns == Autocommit(<<UpdateColumns>>)

\* All columns of the patch in one UPDATE; an empty patch sends nothing. A
\* missing row is an error.
PrismaUpdateJobExecution == Autocommit(<<UpdateTogether>>)

\* created_at is the writing process's clock.
PrismaCreateStepExecution == Autocommit(<<InsertStep("process", "fine")>>)

\* One UPDATE, as for the job execution.
PrismaUpdateStepExecution == Autocommit(<<UpdateTogether>>)

\* The latest row: created_at descending, random id as the tie-break.
PrismaFindLatestStepExecution == Autocommit(<<LatestBy("createdAt")>>)

PrismaGetExecutionContext == Autocommit(<<SelectContext(NoCheckpoint)>>)

\* Two statements and no transaction around them; the first save stores
\* version 1.
PrismaSaveExecutionContext == Autocommit(<<SelectVersion, WriteContext(1)>>)

PrismaGetJobExecution == Autocommit(<<SelectRow>>)

PrismaGetJobInstance == Autocommit(<<SelectRow>>)

PrismaFindJobInstances == Autocommit(<<SelectAll("createdAt")>>)

\* Newest start first; to MySQL a null start is the smallest.
PrismaFindJobExecutions == Autocommit(<<SelectStarted("last")>>)

PrismaFindStepExecutions == Autocommit(<<SelectAll("createdAt")>>)

PrismaMethods ==
    [getOrCreateJobInstance |-> PrismaGetOrCreateJobInstance,
     createExecutionAtomic |-> PrismaCreateExecutionAtomic,
     updateJobExecution |-> PrismaUpdateJobExecution,
     createStepExecution |-> PrismaCreateStepExecution,
     updateStepExecution |-> PrismaUpdateStepExecution,
     findLatestStepExecution |-> PrismaFindLatestStepExecution,
     getExecutionContext |-> PrismaGetExecutionContext,
     saveExecutionContext |-> PrismaSaveExecutionContext,
     getJobExecution |-> PrismaGetJobExecution,
     getJobInstance |-> PrismaGetJobInstance,
     findJobInstances |-> PrismaFindJobInstances,
     findJobExecutions |-> PrismaFindJobExecutions,
     findStepExecutions |-> PrismaFindStepExecutions]
=============================================================================
