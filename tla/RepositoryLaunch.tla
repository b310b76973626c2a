--------------------------- MODULE RepositoryLaunch ---------------------------
(***************************************************************************)
(* getOrCreateJobInstance and createExecutionAtomic of every repository    *)
(* adapter, run statement by statement by concurrent clients against one   *)
(* database.  The adapters contribute their scripts; this module says what *)
(* a statement does: row locks and uncommitted rows, the unique key on     *)
(* (job_name, job_key), rollback when a statement fails.  Each script is   *)
(* shown to implement LaunchGate, the adapters' common contract.           *)
(***************************************************************************)
EXTENDS RepositoryAdapters, FiniteSets

CONSTANTS
    Clients,         \* processes that share the database
    Keys,            \* (job_name, job_key) pairs
    Execs,           \* the ids an execution row may draw
    None,
    MaxFaults        \* bound: how many statements may fail

ASSUME RepositoryLaunchAssumption ==
    /\ None \notin Keys \cup Execs \cup Clients \cup (Keys \X Clients)
    /\ MaxFaults \in Nat

VARIABLES
    adapter,         \* the adapter every client uses
    instance,        \* [Keys -> id of the committed instance row, or None]
    holder,          \* [Keys -> who holds the row: its lock, or its uncommitted insert]
    mutex,           \* the in-memory repository's promise-chain lock
    jobInstanceId,   \* [Execs -> instance id]: committed execution rows
    status,          \* [Execs -> the row's status]
    call,            \* [Clients -> the method a client is in, its key and its place]
    answers,         \* [Keys -> ids getOrCreateJobInstance has answered]
    faults

tables == <<instance, jobInstanceId, status>>
vars == <<adapter, instance, holder, mutex, jobInstanceId, status, call, answers, faults>>

\* The id a client draws for a key: the client tells it from everyone else's.
Drawn(c, k) == <<k, c>>
InstanceIds == Keys \X Clients

\* failed: a statement of the call failed and was caught.
Idle == [op |-> "idle", key |-> None, at |-> 0, failed |-> FALSE]
Methods == {"getOrCreateJobInstance", "createExecutionAtomic"}

Script(c) == Adapters[adapter][call[c].op]
Stmt(c) == Script(c).does[call[c].at]
At(c, statement) == call[c].op # "idle" /\ Stmt(c).do = statement

GoOn(c) == call' = [call EXCEPT ![c].at = @ + 1]
GoToLast(c) == call' = [call EXCEPT ![c].at = Len(Script(c).does), ![c].failed = TRUE]

\* Faulty variant: the promise chain's lock is not released.
ReleaseRowsOnly(c) ==
    /\ holder' = [k \in Keys |-> IF holder[k] = c THEN None ELSE holder[k]]
    /\ UNCHANGED mutex
    /\ call' = [call EXCEPT ![c] = Idle]

\* Leaving the method drops the client's row locks and its mutex; without a
\* commit its uncommitted instance row goes with them.
Release(c) ==
    /\ holder' = [k \in Keys |-> IF holder[k] = c THEN None ELSE holder[k]]
    /\ mutex' = IF mutex = c THEN None ELSE mutex
    /\ call' = [call EXCEPT ![c] = Idle]

\* The instance row as c's own statements see it.
Seen(c, k) == IF instance[k] = None /\ holder[k] = c THEN Drawn(c, k) ELSE instance[k]

Init ==
    /\ adapter \in DOMAIN Adapters
    /\ instance = [k \in Keys |-> None]
    /\ holder = [k \in Keys |-> None]
    /\ mutex = None
    /\ jobInstanceId = [e \in Execs |-> None]
    /\ status = [e \in Execs |-> "ABSENT"]
    /\ call = [c \in Clients |-> Idle]
    /\ answers = [k \in Keys |-> {}]
    /\ faults = 0

\* Bound: ids are reserved for the launches in flight.
IdsLeft ==
    Cardinality({e \in Execs : status[e] = "ABSENT"})
        > Cardinality({c \in Clients : call[c].op = "createExecutionAtomic"})

Call(c, op, k) ==
    /\ call[c] = Idle
    /\ op = "createExecutionAtomic" => IdsLeft
    /\ call' = [call EXCEPT ![c] = [op |-> op, key |-> k, at |-> 1, failed |-> FALSE]]
    /\ UNCHANGED <<adapter, tables, holder, mutex, answers, faults>>

Answer(c, k, id) ==
    /\ answers' = [answers EXCEPT ![k] = @ \cup {id}]
    /\ Release(c)

DoTakeMutex(c) ==
    /\ At(c, "takeMutex")
    /\ mutex = None
    /\ mutex' = c
    /\ GoOn(c)
    /\ UNCHANGED <<adapter, tables, holder, answers, faults>>

DoFindInstance(c) ==
    LET k == call[c].key IN
    /\ At(c, "findInstance")
    /\ \/ /\ instance[k] # None
          /\ Answer(c, k, instance[k])
       \/ /\ instance[k] = None
          /\ GoOn(c)
          /\ UNCHANGED <<holder, mutex, answers>>
    /\ UNCHANGED <<adapter, tables, faults>>

\* An insert waits for another transaction's uncommitted row, and one that
\* takes the lock of the row it hits waits for its holder.
InsertWaits(c, k) ==
    /\ holder[k] \notin {None, c}
    /\ instance[k] = None \/ Stmt(c).onDuplicate = "lock"

DoInsertNew(c) ==
    LET k == call[c].key IN
    /\ At(c, "insertInstance")
    /\ ~InsertWaits(c, k)
    /\ instance[k] = None
    /\ IF Script(c).tx
       THEN /\ holder' = [holder EXCEPT ![k] = c]
            /\ GoOn(c)
            /\ UNCHANGED <<instance, mutex, answers>>
       ELSE /\ instance' = [instance EXCEPT ![k] = Drawn(c, k)]
            /\ IF Stmt(c).answers
               THEN Answer(c, k, Drawn(c, k))
               ELSE GoOn(c) /\ UNCHANGED <<holder, mutex, answers>>
    /\ UNCHANGED <<adapter, jobInstanceId, status, faults>>

\* Faulty variant: an insert that answers does so with the id it drew, also
\* when the row was there.
DoInsertDuplicateAnswers(c) ==
    LET k == call[c].key IN
    /\ At(c, "insertInstance")
    /\ ~InsertWaits(c, k)
    /\ instance[k] # None
    /\ IF Stmt(c).answers THEN Answer(c, k, Drawn(c, k))
       ELSE GoOn(c) /\ UNCHANGED <<holder, mutex, answers>>
    /\ UNCHANGED <<adapter, tables, faults>>

DoInsertDuplicate(c) ==
    LET k == call[c].key IN
    /\ At(c, "insertInstance")
    /\ ~InsertWaits(c, k)
    /\ instance[k] # None
    /\ \/ /\ Stmt(c).onDuplicate \in {"nothing", "lock"}
          /\ GoOn(c)
          /\ holder' = IF Script(c).tx /\ Stmt(c).onDuplicate = "lock"
                       THEN [holder EXCEPT ![k] = c] ELSE holder
       \/ /\ Stmt(c).onDuplicate = "error"
          /\ call' = [call EXCEPT ![c].at = Len(Script(c).does)]
          /\ UNCHANGED holder
    /\ UNCHANGED <<adapter, tables, mutex, answers, faults>>

\* A caught read-back that finds nothing throws into its own catch.
DoReadBack(c) ==
    LET k == call[c].key IN
    /\ At(c, "readBack")
    /\ \/ instance[k] # None /\ Answer(c, k, instance[k])
       \/ /\ instance[k] = None
          /\ UNCHANGED answers
          /\ IF Stmt(c).caught THEN GoToLast(c) /\ UNCHANGED <<holder, mutex>> ELSE Release(c)
    /\ UNCHANGED <<adapter, tables, faults>>

\* SKIP LOCKED returns no row while another transaction holds it: the caller
\* is told that the job is already running.
DoLockInstance(c) ==
    LET k == call[c].key
        hidden == Stmt(c).skipLocked /\ holder[k] \notin {None, c}
    IN
    /\ At(c, "lockInstance")
    /\ \/ /\ Seen(c, k) = None \/ hidden
          /\ Release(c)
       \/ /\ Seen(c, k) # None
          /\ ~hidden
          /\ holder' = IF Stmt(c).skipLocked THEN [holder EXCEPT ![k] = c] ELSE holder
          /\ GoOn(c)
          /\ UNCHANGED mutex
    /\ UNCHANGED <<adapter, tables, answers, faults>>

DoFindRunning(c) ==
    LET running == {e \in Execs : /\ jobInstanceId[e] = Seen(c, call[c].key)
                                  /\ status[e] \in {"STARTING", "STARTED"}}
    IN
    /\ At(c, "findRunning")
    /\ IF running # {} THEN Release(c) ELSE GoOn(c) /\ UNCHANGED <<holder, mutex>>
    /\ UNCHANGED <<adapter, tables, answers, faults>>

\* The last statement of createExecutionAtomic, and the commit.
DoInsertExecution(c, e) ==
    LET k == call[c].key IN
    /\ At(c, "insertExecution")
    /\ status[e] = "ABSENT"
    /\ jobInstanceId' = [jobInstanceId EXCEPT ![e] = Seen(c, k)]
    /\ status' = [status EXCEPT ![e] = "STARTING"]
    /\ instance' = [instance EXCEPT ![k] = Seen(c, k)]
    /\ Release(c)
    /\ UNCHANGED <<adapter, answers, faults>>

\* A statement's connection drops, or it is chosen as a deadlock victim.
Caught(c) == Stmt(c).do \in {"insertInstance", "readBack"} /\ Stmt(c).caught
StatementFails(c) ==
    /\ faults < MaxFaults
    /\ adapter # "inMemory"
    /\ call[c].op # "idle"
    /\ faults' = faults + 1
    /\ IF Caught(c) THEN GoToLast(c) /\ UNCHANGED <<holder, mutex>> ELSE Release(c)
    /\ UNCHANGED <<adapter, tables, answers>>

\* Executors and operators settle the rows.
UpdateStatus(e, s) ==
    /\ \/ status[e] = "STARTING" /\ s \in {"STARTED", "STOPPED"}
       \/ status[e] = "STARTED" /\ s \in {"COMPLETED", "STOPPED"}
    /\ status' = [status EXCEPT ![e] = s]
    /\ UNCHANGED <<adapter, instance, holder, mutex, jobInstanceId, call, answers, faults>>

Statement(c) ==
    \/ DoTakeMutex(c) \/ DoFindInstance(c) \/ DoInsertNew(c) \/ DoInsertDuplicate(c)
    \/ DoReadBack(c) \/ DoLockInstance(c) \/ DoFindRunning(c)
    \/ \E e \in Execs : DoInsertExecution(c, e)

Next ==
    \/ \E c \in Clients, op \in Methods, k \in Keys : Call(c, op, k)
    \/ \E c \in Clients : Statement(c) \/ StatementFails(c)
    \/ \E e \in Execs, s \in {"STARTED", "STOPPED", "COMPLETED"} : UpdateStatus(e, s)

\* Every statement sent is answered.  Strong fairness: waiters for a row lock,
\* and for the promise chain of withLock, are served in turn.
Fairness == \A c \in Clients : SF_vars(Statement(c))

Spec == Init /\ [][Next]_vars /\ Fairness

-----------------------------------------------------------------------------
\* Rows, locks and calls have their types: a row read back is never missing.
TypeOK ==
    /\ adapter \in DOMAIN Adapters
    /\ instance \in [Keys -> InstanceIds \cup {None}]
    /\ holder \in [Keys -> Clients \cup {None}]
    /\ mutex \in Clients \cup {None}
    /\ jobInstanceId \in [Execs -> InstanceIds \cup {None}]
    /\ DOMAIN call = Clients
    /\ answers \in [Keys -> SUBSET InstanceIds]
    /\ faults \in 0..MaxFaults

(***************************************************************************)
(* Every adapter's createExecutionAtomic is LaunchGate's one atomic step:  *)
(* the row it commits belongs to the key it was asked for, and no other    *)
(* row of that key runs.  An execution's key is that of its instance id.   *)
(***************************************************************************)
Gate == INSTANCE LaunchGate WITH
            Instances <- Keys,
            ReentryAllowed <- FALSE,
            instanceOf <- [e \in Execs |-> IF jobInstanceId[e] = None THEN None
                                           ELSE jobInstanceId[e][1]]

ImplementsGate == Gate!GateSpec

(***************************************************************************)
(* All processes agree on the instance of a key: whoever asked            *)
(* getOrCreateJobInstance, and every execution row, carries the id of the  *)
(* one committed row, whatever the race and whichever statement failed;    *)
(* and a client none of whose own statements failed never meets the "could *)
(* not read it back" error, since no rollback takes away the row that made *)
(* its insert do nothing.                                                  *)
(***************************************************************************)
InstanceAgreed ==
    \A k \in Keys :
        /\ answers[k] \subseteq {instance[k]}
        /\ \A e \in Execs : jobInstanceId[e] # None /\ jobInstanceId[e][1] = k
                                => jobInstanceId[e] = instance[k]
        /\ \A c \in Clients : At(c, "readBack") /\ call[c].key = k /\ ~call[c].failed
                                => instance[k] # None

(***************************************************************************)
(* No launch hangs: waiting for another client's insert or lock ends, also *)
(* when that client's transaction fails.                                   *)
(***************************************************************************)
EveryCallReturns == \A c \in Clients : call[c] # Idle ~> call[c] = Idle
=============================================================================
