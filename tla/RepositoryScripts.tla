--------------------------- MODULE RepositoryScripts ---------------------------
(***************************************************************************)
(* The vocabulary in which the repository adapters are written down.  An   *)
(* adapter method is a script: the statements it sends to its database, in *)
(* order, and whether they share a transaction.  What a statement does is  *)
(* the database's affair (JobRepository); what differs between adapters is *)
(* in the fields of its statements.                                        *)
(***************************************************************************)
EXTENDS Naturals, Sequences

Transaction(stmts) == [tx |-> TRUE, does |-> stmts]
Autocommit(stmts) == [tx |-> FALSE, does |-> stmts]

(***************************************************************************)
(* Instances and executions.  onDuplicate says what the insert does when   *)
(* the row is there: nothing, wait for and take its lock, or raise a       *)
(* unique violation.  A caught statement that fails sends the method to    *)
(* its last statement; an insert that answers ends it when it inserts.     *)
(***************************************************************************)
FindInstance == [do |-> "findInstance"]
InsertInstance(onDuplicate, caught, answers) ==
    [do |-> "insertInstance", onDuplicate |-> onDuplicate, caught |-> caught, answers |-> answers]
ReadBack(caught) == [do |-> "readBack", caught |-> caught]
LockSkipLocked == [do |-> "lockInstance", skipLocked |-> TRUE]
SelectUnlocked == [do |-> "lockInstance", skipLocked |-> FALSE]
TakeMutex == [do |-> "takeMutex"]
FindRunning == [do |-> "findRunning"]
InsertExecution == [do |-> "insertExecution"]

\* The columns of a patch in one UPDATE, one UPDATE for each column, or a
\* read of the row followed by a flush of what then differs.
UpdateTogether == [do |-> "updateTogether"]
UpdateColumns == [do |-> "updateColumns"]
ReadRow == [do |-> "readRow"]
FlushRow == [do |-> "flushRow"]

\* Step rows carry a creation time: whose clock, and in which resolution it
\* is stored.  "fine" tells any two runs apart, "second" need not.
InsertStep(clock, grain) == [do |-> "insertStep", clock |-> clock, grain |-> grain]
LatestBy(order) == [do |-> "findLatest", order |-> order]

\* A context is saved by a read of its version and then an UPDATE or an
\* INSERT; firstVersion is what the INSERT stores.  A context that is not
\* there is read as the empty one, which holds no checkpoint.
SelectVersion == [do |-> "selectVersion"]
WriteContext(firstVersion) == [do |-> "writeContext", firstVersion |-> firstVersion]
SelectContext(absent) == [do |-> "selectContext", absent |-> absent]
NoCheckpoint == 0

\* One row by its id; the rows of a table in an order; executions by their
\* start, the newest first, and where those without a start come.
SelectRow == [do |-> "selectRow"]
SelectAll(order) == [do |-> "selectAll", order |-> order]
SelectStarted(nulls) == [do |-> "selectAll", order |-> "startTime", nulls |-> nulls]
=============================================================================
