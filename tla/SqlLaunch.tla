------------------------------- MODULE SqlLaunch -------------------------------
(***************************************************************************)
(* createExecutionAtomic of the SQL repositories (TypeORM, Drizzle, Prisma *)
(* and MikroORM, on PostgreSQL and MySQL): one database transaction of     *)
(* five statements, run by any number of launchers at once.                *)
(*                                                                         *)
(*   1. INSERT the instance row, doing nothing on a duplicate key          *)
(*   2. SELECT the instance row FOR UPDATE SKIP LOCKED                     *)
(*   3. SELECT a STARTING/STARTED execution of the instance                *)
(*   4. INSERT the execution row                                           *)
(*   5. COMMIT                                                             *)
(*                                                                         *)
(* A launcher may lose its connection after any statement; the database    *)
(* then rolls the transaction back.  Statement 3 sees what other           *)
(* transactions have committed by then.                                    *)
(***************************************************************************)
EXTENDS LaunchGate, Naturals

CONSTANTS
    Launchers,       \* concurrent callers of JobLauncher.launch
    NoOne,           \* "no transaction"
    UpsertLocks      \* MySQL: ON DUPLICATE KEY UPDATE locks the row it hits

ASSUME SqlAssumption ==
    /\ NoOne \notin Launchers
    /\ UpsertLocks \in BOOLEAN

VARIABLES
    committedRow,    \* instances whose row is committed
    rowLock,         \* [Instances -> Launchers \cup {NoOne}]: the row's lock holder
    pc,              \* [Launchers -> Statement]: the last statement executed
    target,          \* [Launchers -> Instances \cup {None}]: the instance launched
    drawn            \* [Launchers -> Execs \cup {None}]: the uncommitted execution row

txVars == <<committedRow, rowLock, pc, target, drawn>>
sqlVars == <<gateVars, txVars>>

Statement == {"idle", "begun", "inserted", "locked", "checked", "created"}

SqlInit ==
    /\ GateInit
    /\ committedRow = {}
    /\ rowLock = [i \in Instances |-> NoOne]
    /\ pc = [l \in Launchers |-> "idle"]
    /\ target = [l \in Launchers |-> None]
    /\ drawn = [l \in Launchers |-> None]

\* An uncommitted row is invisible to everyone but the transaction inserting
\* it, which holds its lock; the ids in flight are not drawn twice (randomUUID).
Free(l, i) == rowLock[i] \in {NoOne, l}
DrawnIds == {drawn[l] : l \in Launchers}

\* Bound: a launch begins only while an unused id is left for it in Execs.
IdsLeft ==
    Cardinality({l \in Launchers : pc[l] # "idle"}) < Cardinality({e \in Execs : status[e] = "ABSENT"})

Advance(l, s) == pc' = [pc EXCEPT ![l] = s]

Begin(l, i) ==
    /\ pc[l] = "idle"
    /\ IdsLeft
    /\ Advance(l, "begun")
    /\ target' = [target EXCEPT ![l] = i]
    /\ UNCHANGED <<gateVars, committedRow, rowLock, drawn>>

(***************************************************************************)
(* Statement 1.  With the row absent the insert creates and so locks it.   *)
(* Against another transaction's uncommitted row it waits for that         *)
(* transaction to end.  Against a committed row PostgreSQL does nothing,   *)
(* and MySQL's upsert waits for and takes the row lock.                    *)
(***************************************************************************)
InsertInstance(l) ==
    LET i == target[l] IN
    /\ pc[l] = "begun"
    /\ \/ /\ i \in committedRow /\ ~UpsertLocks
          /\ UNCHANGED rowLock
       \/ /\ i \in committedRow => UpsertLocks
          /\ Free(l, i)
          /\ rowLock' = [rowLock EXCEPT ![i] = l]
    /\ Advance(l, "inserted")
    /\ UNCHANGED <<gateVars, committedRow, target, drawn>>

\* The end of a transaction, either way: locks released, back to idle.
EndTransaction(l) ==
    /\ rowLock' = [i \in Instances |-> IF rowLock[i] = l THEN NoOne ELSE rowLock[i]]
    /\ Advance(l, "idle")
    /\ target' = [target EXCEPT ![l] = None]
    /\ drawn' = [drawn EXCEPT ![l] = None]

Rollback(l) ==
    /\ EndTransaction(l)
    /\ UNCHANGED <<gateVars, committedRow>>

(***************************************************************************)
(* Statement 2.  SKIP LOCKED does not wait: a row somebody else holds is   *)
(* left out of the result, and the launch is refused as already running.   *)
(***************************************************************************)
\* Faulty variant: the row is selected without FOR UPDATE.
LockInstanceUnlocked(l) ==
    /\ pc[l] = "inserted"
    /\ Advance(l, "locked")
    /\ UNCHANGED <<gateVars, committedRow, rowLock, target, drawn>>

LockInstance(l) ==
    LET i == target[l] IN
    /\ pc[l] = "inserted"
    /\ Free(l, i)
    /\ rowLock' = [rowLock EXCEPT ![i] = l]
    /\ Advance(l, "locked")
    /\ UNCHANGED <<gateVars, committedRow, target, drawn>>

RefuseLocked(l) ==
    /\ pc[l] = "inserted"
    /\ ~Free(l, target[l])
    /\ Rollback(l)

\* Faulty variant: only STARTED counts as running.
CheckRunningStartedOnly(l) ==
    /\ pc[l] = "locked"
    /\ \A e \in Running(target[l]) : status[e] # "STARTED"
    /\ Advance(l, "checked")
    /\ UNCHANGED <<gateVars, committedRow, rowLock, target, drawn>>

\* Statement 3, and the refusal when it finds a running execution.
CheckRunning(l) ==
    /\ pc[l] = "locked"
    /\ Running(target[l]) = {}
    /\ Advance(l, "checked")
    /\ UNCHANGED <<gateVars, committedRow, rowLock, target, drawn>>

RefuseRunning(l) ==
    /\ pc[l] = "locked"
    /\ Running(target[l]) # {}
    /\ Rollback(l)

\* Statement 4: the row exists for this transaction only, until it commits.
InsertExecution(l, e) ==
    /\ pc[l] = "checked"
    /\ status[e] = "ABSENT" /\ e \notin DrawnIds
    /\ drawn' = [drawn EXCEPT ![l] = e]
    /\ Advance(l, "created")
    /\ UNCHANGED <<gateVars, committedRow, rowLock, target>>

Commit(l) ==
    /\ pc[l] = "created"
    /\ instanceOf' = [instanceOf EXCEPT ![drawn[l]] = target[l]]
    /\ status' = [status EXCEPT ![drawn[l]] = "STARTING"]
    /\ committedRow' = committedRow \cup {target[l]}
    /\ EndTransaction(l)

\* The connection is lost, or a statement fails: the transaction is undone.
ConnectionLost(l) ==
    /\ pc[l] # "idle"
    /\ Rollback(l)

TransactionStep(l) ==
    \/ InsertInstance(l)
    \/ LockInstance(l) \/ RefuseLocked(l)
    \/ CheckRunning(l) \/ RefuseRunning(l)
    \/ \E e \in Execs : InsertExecution(l, e)
    \/ Commit(l)

SqlNext ==
    \/ \E l \in Launchers, i \in Instances : Begin(l, i)
    \/ \E l \in Launchers : TransactionStep(l) \/ ConnectionLost(l)
    \/ \E e \in Execs : UpdateJobExecution(e) /\ UNCHANGED txVars

SqlSpec == SqlInit /\ [][SqlNext]_sqlVars

-----------------------------------------------------------------------------
\* Rows, locks and transactions have their types.
SqlTypeOK ==
    /\ GateTypeOK
    /\ committedRow \subseteq Instances
    /\ rowLock \in [Instances -> Launchers \cup {NoOne}]
    /\ pc \in [Launchers -> Statement]
    /\ target \in [Launchers -> Instances \cup {None}]
    /\ drawn \in [Launchers -> Execs \cup {None}]

(***************************************************************************)
(* Concurrent launches never leave two executions of one instance fresh:   *)
(* two rows in STARTING, neither yet picked up, would run the job twice.   *)
(* Holds with restarts and redeliveries too.                               *)
(***************************************************************************)
AtMostOneStarting ==
    \A d, e \in Execs :
        /\ status[d] = "STARTING" /\ status[e] = "STARTING"
        /\ instanceOf[d] = instanceOf[e]
        => d = e

(***************************************************************************)
(* The guard createExecutionAtomic exists for: one running execution per   *)
(* instance, as long as nothing re-enters an execution that already left   *)
(* the running statuses (that write bypasses the gate).                    *)
(***************************************************************************)
AtMostOneRunning ==
    ReentryAllowed \/ \A i \in Instances : \A d, e \in Running(i) : d = e

(***************************************************************************)
(* The five statements implement the one atomic step of LaunchGate: what   *)
(* was checked under the row lock still holds when the row is committed.   *)
(* True as long as nothing re-enters a finished execution in between.      *)
(***************************************************************************)
ImplementsGate == GateSpec
=============================================================================
