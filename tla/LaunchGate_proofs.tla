--------------------------- MODULE LaunchGate_proofs ---------------------------
(***************************************************************************)
(* Proofs about the two sides of the launch gate: the transaction that     *)
(* implements it (SqlLaunch) and the executions that live with what it     *)
(* let through (JobLifecycle).                                             *)
(***************************************************************************)
EXTENDS SqlLaunch, MCJobLifecycle, TLAPS

-----------------------------------------------------------------------------
(***************************************************************************)
(* Proofs about SqlLaunch for any number of launchers, instances and ids.  *)
(* The inductive invariant says what each transaction has earned by the    *)
(* statement it has reached: from statement 2 on it holds its instance's   *)
(* row lock, and from statement 3 on no other row of its instance is fresh *)
(* (nor running at all, if nothing re-enters).  Only the lock holder can   *)
(* commit a new row, which is what keeps that knowledge true.              *)
(***************************************************************************)
HoldsLock == {"locked", "checked", "created"}
Verified == {"checked", "created"}

LockInv ==
    \A l \in Launchers :
        /\ pc[l] # "idle" => target[l] \in Instances
        /\ pc[l] \in HoldsLock => rowLock[target[l]] = l

DrawnInv ==
    \A l \in Launchers :
        pc[l] = "created" =>
            /\ drawn[l] \in Execs
            /\ status[drawn[l]] = "ABSENT"
            /\ \A k \in Launchers \ {l} : drawn[k] # drawn[l]

VerifiedInv ==
    \A l \in Launchers, e \in Execs :
        pc[l] \in Verified /\ instanceOf[e] = target[l]
        => /\ status[e] # "STARTING"
           /\ ~ReentryAllowed => status[e] # "STARTED"

SqlIInv ==
    /\ SqlTypeOK
    /\ LockInv
    /\ DrawnInv
    /\ VerifiedInv
    /\ AtMostOneStarting
    /\ AtMostOneRunning

-----------------------------------------------------------------------------
(***************************************************************************)
(* Initially there are no rows and no transactions.                        *)
(***************************************************************************)
LEMMA InitIInv == SqlInit => SqlIInv
BY GateAssumption, SqlAssumption
   DEF SqlInit, GateInit, SqlIInv, SqlTypeOK, GateTypeOK, LockInv, DrawnInv, VerifiedInv,
       AtMostOneStarting, AtMostOneRunning, Running, RunningStatus, Statement, JobStatus,
       HoldsLock, Verified

(***************************************************************************)
(* Ending a transaction without a commit (refusal, lost connection) keeps  *)
(* the invariant: it gives up locks and knowledge and writes no row.       *)
(***************************************************************************)
LEMMA RollbackIInv ==
    ASSUME NEW l \in Launchers, SqlIInv, Rollback(l)
    PROVE  SqlIInv'
<1> USE GateAssumption, SqlAssumption
<1>1. SqlTypeOK'
    BY DEF SqlIInv, SqlTypeOK, GateTypeOK, Rollback, EndTransaction, Advance, gateVars, Statement
<1>2. LockInv'
    BY DEF SqlIInv, SqlTypeOK, LockInv, Rollback, EndTransaction, Advance, HoldsLock, Statement
<1>3. DrawnInv' /\ VerifiedInv'
    BY DEF SqlIInv, SqlTypeOK, DrawnInv, VerifiedInv, Rollback, EndTransaction, Advance,
           gateVars, Verified, Statement
<1>4. AtMostOneStarting' /\ AtMostOneRunning'
    BY DEF SqlIInv, AtMostOneStarting, AtMostOneRunning, Running, Rollback, gateVars
<1> QED BY <1>1, <1>2, <1>3, <1>4 DEF SqlIInv

(***************************************************************************)
(* The statements that write no execution row keep the invariant: each     *)
(* moves its own transaction one statement on and at most takes the lock.  *)
(***************************************************************************)
LEMMA StatementIInv ==
    ASSUME NEW l \in Launchers, SqlIInv,
           \/ \E i \in Instances : Begin(l, i)
           \/ InsertInstance(l)
           \/ LockInstance(l)
           \/ CheckRunning(l)
           \/ \E e \in Execs : InsertExecution(l, e)
    PROVE  SqlIInv'
<1> USE GateAssumption, SqlAssumption DEF Advance, gateVars
<1>1. SqlTypeOK'
    BY DEF SqlIInv, SqlTypeOK, GateTypeOK, Statement, Begin, InsertInstance, LockInstance,
           CheckRunning, InsertExecution
<1>2. LockInv'
    BY DEF SqlIInv, SqlTypeOK, LockInv, Statement, HoldsLock, Free, Begin, InsertInstance,
           LockInstance, CheckRunning, InsertExecution
<1>3. DrawnInv'
    BY DEF SqlIInv, SqlTypeOK, DrawnInv, DrawnIds, Statement, Begin, InsertInstance,
           LockInstance, CheckRunning, InsertExecution
<1>4. VerifiedInv'
    BY DEF SqlIInv, SqlTypeOK, VerifiedInv, Statement, Verified, Running, RunningStatus, Begin,
           InsertInstance, LockInstance, CheckRunning, InsertExecution
<1>5. UNCHANGED <<instanceOf, status>>
    BY DEF Begin, InsertInstance, LockInstance, CheckRunning, InsertExecution
<1>6. AtMostOneStarting' /\ AtMostOneRunning'
    BY <1>5 DEF SqlIInv, AtMostOneStarting, AtMostOneRunning, Running
<1> QED BY <1>1, <1>2, <1>3, <1>4, <1>6 DEF SqlIInv

(***************************************************************************)
(* A commit makes the row visible.  Its transaction is the only one that   *)
(* holds the instance's lock, so no other one relies on the instance       *)
(* having no fresh row.                                                    *)
(***************************************************************************)
LEMMA CommitIInv ==
    ASSUME NEW l \in Launchers, SqlIInv, Commit(l)
    PROVE  SqlIInv'
<1> USE GateAssumption, SqlAssumption DEF Commit, EndTransaction, Advance
<1>1. drawn[l] \in Execs /\ status[drawn[l]] = "ABSENT" /\ target[l] \in Instances
    BY DEF SqlIInv, DrawnInv, LockInv
<1>2. SqlTypeOK'
    BY <1>1 DEF SqlIInv, SqlTypeOK, GateTypeOK, Statement, JobStatus
<1>3. LockInv'
    BY DEF SqlIInv, SqlTypeOK, LockInv, HoldsLock, Statement
<1>4. ASSUME NEW k \in Launchers, k # l, pc[k] \in Verified
      PROVE  target[k] # target[l]
    BY <1>4 DEF SqlIInv, LockInv, HoldsLock, Verified
<1>5. VerifiedInv'
    BY <1>1, <1>4 DEF SqlIInv, SqlTypeOK, GateTypeOK, VerifiedInv, Verified, Statement
<1>6. \A e \in Execs : instanceOf[e] = target[l] =>
          status[e] # "STARTING" /\ (~ReentryAllowed => status[e] # "STARTED")
    BY DEF SqlIInv, VerifiedInv, Verified
<1>7. AtMostOneStarting'
    BY <1>1, <1>6 DEF SqlIInv, SqlTypeOK, GateTypeOK, AtMostOneStarting
<1>8. AtMostOneRunning'
    BY <1>1, <1>6 DEF SqlIInv, SqlTypeOK, GateTypeOK, AtMostOneRunning, Running, RunningStatus
<1>9. DrawnInv'
    BY <1>1 DEF SqlIInv, SqlTypeOK, GateTypeOK, DrawnInv, Statement
<1> QED BY <1>2, <1>3, <1>5, <1>7, <1>8, <1>9 DEF SqlIInv

(***************************************************************************)
(* The executors' and the operator's writes never make a row fresh, and    *)
(* make one running only out of STARTING unless re-entry is allowed.       *)
(***************************************************************************)
LEMMA UpdateIInv ==
    ASSUME NEW e \in Execs, SqlIInv, UpdateJobExecution(e), UNCHANGED txVars
    PROVE  SqlIInv'
<1> USE GateAssumption, SqlAssumption
        DEF UpdateJobExecution, WriteStarted, Finished, WriteTerminal, WriteStopped, txVars
<1>1. SqlTypeOK' /\ LockInv'
    BY DEF SqlIInv, SqlTypeOK, GateTypeOK, LockInv, JobStatus
<1>2. DrawnInv' /\ VerifiedInv'
    BY DEF SqlIInv, SqlTypeOK, GateTypeOK, DrawnInv, VerifiedInv, JobStatus
<1>3. AtMostOneStarting'
    BY DEF SqlIInv, SqlTypeOK, GateTypeOK, AtMostOneStarting, JobStatus
<1>4. AtMostOneRunning'
    BY DEF SqlIInv, SqlTypeOK, GateTypeOK, AtMostOneRunning, Running, RunningStatus, JobStatus
<1> QED BY <1>1, <1>2, <1>3, <1>4 DEF SqlIInv

\* Every step of SqlLaunch keeps the inductive invariant.
LEMMA NextIInv == SqlIInv /\ [SqlNext]_sqlVars => SqlIInv'
<1> SUFFICES ASSUME SqlIInv, [SqlNext]_sqlVars PROVE SqlIInv'
    OBVIOUS
<1>1. ASSUME NEW l \in Launchers, NEW i \in Instances, Begin(l, i) PROVE SqlIInv'
    BY <1>1, StatementIInv
<1>2. ASSUME NEW l \in Launchers, TransactionStep(l) PROVE SqlIInv'
    <2>1. CASE RefuseLocked(l) \/ RefuseRunning(l)
        BY <2>1, RollbackIInv DEF RefuseLocked, RefuseRunning
    <2>2. CASE Commit(l)
        BY <2>2, CommitIInv
    <2> QED BY <1>2, <2>1, <2>2, StatementIInv DEF TransactionStep
<1>3. ASSUME NEW l \in Launchers, ConnectionLost(l) PROVE SqlIInv'
    BY <1>3, RollbackIInv DEF ConnectionLost
<1>4. ASSUME NEW e \in Execs, UpdateJobExecution(e), UNCHANGED txVars PROVE SqlIInv'
    BY <1>4, UpdateIInv
<1>5. CASE UNCHANGED sqlVars
    BY <1>5 DEF sqlVars, gateVars, txVars, SqlIInv, SqlTypeOK, GateTypeOK, LockInv, DrawnInv,
                VerifiedInv, AtMostOneStarting, AtMostOneRunning, Running
<1> QED BY <1>1, <1>2, <1>3, <1>4, <1>5 DEF SqlNext

(***************************************************************************)
(* The inductive invariant of createExecutionAtomic's transactions holds   *)
(* in every reachable state; the theorems below read their claims off it.  *)
(***************************************************************************)
THEOREM InductiveInvariant == SqlSpec => []SqlIInv
BY InitIInv, NextIInv, PTL DEF SqlSpec

-----------------------------------------------------------------------------
(***************************************************************************)
(* Rows, locks and transactions always have their types, for any number of *)
(* launchers (createExecutionAtomic, updateJobExecution).                  *)
(***************************************************************************)
THEOREM TypeCorrect == SqlSpec => []SqlTypeOK
BY InductiveInvariant, PTL DEF SqlIInv

(***************************************************************************)
(* However many launchers call createExecutionAtomic at once, and whatever *)
(* restarts and redeliveries do to other rows, no instance ever has two    *)
(* fresh executions.                                                       *)
(***************************************************************************)
THEOREM OneStarting == SqlSpec => []AtMostOneStarting
BY InductiveInvariant, PTL DEF SqlIInv

(***************************************************************************)
(* Without re-entry no instance ever has two running executions.           *)
(***************************************************************************)
THEOREM OneRunning == SqlSpec => []AtMostOneRunning
BY InductiveInvariant, PTL DEF SqlIInv

(***************************************************************************)
(* Without re-entry the five-statement transaction of createExecutionAtomic*)
(* implements the single atomic step callers are promised: Commit is a     *)
(* CreateExecution, every other statement leaves the rows alone.           *)
(***************************************************************************)
THEOREM Refinement == ASSUME ~ReentryAllowed PROVE SqlSpec => ImplementsGate
<1>1. SqlInit => GateInit
    BY DEF SqlInit
<1>2. SqlIInv /\ [SqlNext]_sqlVars => [GateNext]_gateVars
    <2> SUFFICES ASSUME SqlIInv, [SqlNext]_sqlVars PROVE [GateNext]_gateVars
        OBVIOUS
    <2>1. ASSUME NEW l \in Launchers, Commit(l) PROVE GateNext
        <3>1. drawn[l] \in Execs /\ status[drawn[l]] = "ABSENT" /\ target[l] \in Instances
            BY <2>1 DEF Commit, SqlIInv, DrawnInv, LockInv
        <3>2. Running(target[l]) = {}
            BY <2>1 DEF Commit, SqlIInv, VerifiedInv, Verified, Running, RunningStatus
        <3>3. CreateExecution(target[l], drawn[l])
            BY <2>1, <3>1, <3>2 DEF Commit, CreateExecution
        <3> QED BY <3>1, <3>3 DEF GateNext
    <2>2. ASSUME NEW l \in Launchers, TransactionStep(l), ~Commit(l) PROVE UNCHANGED gateVars
        BY <2>2 DEF TransactionStep, InsertInstance, LockInstance, RefuseLocked, CheckRunning,
                    RefuseRunning, InsertExecution, Rollback
    <2>3. ASSUME NEW l \in Launchers, NEW i \in Instances, Begin(l, i) PROVE UNCHANGED gateVars
        BY <2>3 DEF Begin
    <2>4. ASSUME NEW l \in Launchers, ConnectionLost(l) PROVE UNCHANGED gateVars
        BY <2>4 DEF ConnectionLost, Rollback
    <2>5. CASE UNCHANGED sqlVars
        BY <2>5 DEF sqlVars
    <2> QED BY <2>1, <2>2, <2>3, <2>4, <2>5 DEF SqlNext, GateNext
<1> QED BY <1>1, <1>2, InductiveInvariant, PTL DEF SqlSpec, GateSpec, ImplementsGate

-----------------------------------------------------------------------------
(***************************************************************************)
(* Proofs about JobLifecycle for any number of instances, executions and   *)
(* workers, either kind of strategy, and any number of faults, crashes and *)
(* operator calls.  NoSilentOrphan is not inductive: when an executor      *)
(* returns, the claim needs to know that the row it leaves behind is       *)
(* running only if somebody other than a finished executor still owes it a *)
(* terminal write.  Owed says who that can be.                             *)
(***************************************************************************)
\* An executor that has not yet made its terminal write, or that will still
\* report an error.
Owing == {"entered", "started", "running", "thrown"}

Owed(e) ==
    \/ e \in surfaced
    \/ delivery[e] \in {"sending", "waiting"}
    \/ \E w \in Workers : runner[w].exec = e /\ runner[w].phase \in Owing

OwedInv == \A e \in Execs : status[e] \in RunningStatus => Owed(e)

\* A launch has a row once it is under way.
DeliveryInv == \A e \in Execs : delivery[e] # "none" => status[e] # "ABSENT"

\* An executor works on a row, which is past STARTING once it wrote STARTED.
RunnerInv ==
    \A w \in Workers :
        runner[w].phase # "free" =>
            /\ runner[w].exec \in Execs
            /\ status[runner[w].exec] # "ABSENT"
            /\ runner[w].phase \in {"started", "running", "ended"} =>
                   status[runner[w].exec] # "STARTING"

\* A delivery is handled by one executor at a time, and is active meanwhile.
ActiveInv ==
    \A w \in Workers :
        runner[w].via = "delivery" =>
            /\ runner[w].exec \in Execs
            /\ delivery[runner[w].exec] = "active"
            /\ \A v \in Workers \ {w} :
                   ~(runner[v].via = "delivery" /\ runner[v].exec = runner[w].exec)

\* The operator's pending call is on a row; an abandon on one past STARTING.
PendingInv ==
    pending # NoCall =>
        /\ pending.exec \in Execs
        /\ pending.call \in {"stop", "abandon"}
        /\ status[pending.exec] # "ABSENT"
        /\ pending.call = "abandon" => status[pending.exec] # "STARTING"

LifeIInv ==
    LifeTypeOK /\ OwedInv /\ DeliveryInv /\ RunnerInv /\ ActiveInv /\ PendingInv

-----------------------------------------------------------------------------
(***************************************************************************)
(* Initially there are no rows, deliveries, executors or operator calls.   *)
(***************************************************************************)
LEMMA LifeInitIInv == LifeInit => LifeIInv
BY GateAssumption, LifecycleAssumption
   DEF LifeInit, GateInit, LifeIInv, LifeTypeOK, GateTypeOK, OwedInv, Owed, DeliveryInv,
       RunnerInv, ActiveInv, PendingInv, JobStatus, RunningStatus, DeliveryState, Runner, Phase,
       Idle, NoCall

(***************************************************************************)
(* A launch makes a fresh row and owes it a delivery.                      *)
(***************************************************************************)
LEMMA LaunchIInv ==
    ASSUME LifeIInv, NEW i \in Instances, NEW e \in Execs, Launch(i, e)
    PROVE  LifeIInv'
<1> USE GateAssumption, LifecycleAssumption DEF Launch, CreateExecution, boundVars, LifeIInv
<1>1. LifeTypeOK'
    BY DEF LifeTypeOK, GateTypeOK, JobStatus, DeliveryState
<1>2. OwedInv'
    BY DEF LifeTypeOK, GateTypeOK, OwedInv, Owed
<1>3. DeliveryInv' /\ RunnerInv' /\ PendingInv'
    BY DEF LifeTypeOK, GateTypeOK, DeliveryInv, RunnerInv, PendingInv
<1>4. ActiveInv'
    BY DEF LifeTypeOK, GateTypeOK, DeliveryInv, RunnerInv, ActiveInv
<1> QED BY <1>1, <1>2, <1>3, <1>4

(***************************************************************************)
(* The steps of the strategy and the transport move the debt along: from   *)
(* the launch to the broker, the caller, or an executor.                   *)
(***************************************************************************)
LEMMA DeliveryIInv ==
    ASSUME LifeIInv, NEW e \in Execs,
           Send(e) \/ SendFails(e) \/ \E w \in Workers : Deliver(w, e)
    PROVE  LifeIInv'
<1> USE GateAssumption, LifecycleAssumption
        DEF Send, SendFails, Deliver, Enter, boundVars, gateVars, LifeIInv
<1>1. LifeTypeOK'
    BY DEF LifeTypeOK, GateTypeOK, DeliveryState, Runner, Phase
<1>2. OwedInv'
    BY DEF LifeTypeOK, OwedInv, Owed, Owing, Runner, Idle
<1>3. DeliveryInv' /\ RunnerInv' /\ PendingInv'
    BY DEF LifeTypeOK, DeliveryInv, RunnerInv, PendingInv, Runner
<1>4. ActiveInv'
    BY DEF LifeTypeOK, RunnerInv, ActiveInv, Runner
<1> QED BY <1>1, <1>2, <1>3, <1>4

(***************************************************************************)
(* An executor's writes and its failures: the debt stays with it until its *)
(* terminal write, or until the error has left it.                         *)
(***************************************************************************)
LEMMA ExecutorIInv ==
    ASSUME LifeIInv, NEW w \in Workers, Execute(w) \/ ExecuteThrows(w) \/ Crash(w)
    PROVE  LifeIInv'
<1> USE GateAssumption, LifecycleAssumption DEF boundVars, gateVars, LifeIInv
<1>1. CASE StartExecution(w)
    <2> USE <1>1 DEF StartExecution, Step, WriteStatus
    <2>1. runner[w].exec \in Execs /\ status[runner[w].exec] # "ABSENT"
        BY DEF RunnerInv
    <2>2. LifeTypeOK'
        BY <2>1 DEF LifeTypeOK, GateTypeOK, Runner, Phase, JobStatus
    <2>3. OwedInv'
        BY <2>1 DEF LifeTypeOK, GateTypeOK, OwedInv, Owed, Owing, Runner
    <2>4. DeliveryInv' /\ RunnerInv' /\ PendingInv'
        BY <2>1 DEF LifeTypeOK, GateTypeOK, DeliveryInv, RunnerInv, PendingInv, Runner
    <2>5. ActiveInv'
        BY <2>1 DEF LifeTypeOK, GateTypeOK, RunnerInv, ActiveInv, Runner
    <2> QED BY <2>2, <2>3, <2>4, <2>5
<1>2. CASE RefuseRestart(w) \/ RunSteps(w) \/ ExecuteThrows(w)
    <2> USE <1>2 DEF RefuseRestart, RunSteps, ExecuteThrows, Step
    <2>1. LifeTypeOK'
        BY DEF LifeTypeOK, GateTypeOK, Runner, Phase
    <2>2. OwedInv'
        <3>1. ASSUME NEW v \in Workers, runner[v].phase \in Owing
              PROVE  runner'[v].exec = runner[v].exec /\ runner'[v].phase \in Owing
            BY <3>1 DEF LifeTypeOK, Owing, Runner
        <3> QED BY <3>1 DEF OwedInv, Owed
    <2>3. DeliveryInv' /\ RunnerInv' /\ PendingInv'
        BY DEF LifeTypeOK, DeliveryInv, RunnerInv, PendingInv, Runner
    <2>4. ActiveInv'
        BY DEF LifeTypeOK, RunnerInv, ActiveInv, Runner
    <2> QED BY <2>1, <2>2, <2>3, <2>4
<1>3. CASE \E s \in {"COMPLETED", "FAILED"} : EndExecution(w, s)
    <2> USE <1>3 DEF EndExecution, Step, WriteStatus
    <2>1. runner[w].exec \in Execs /\ status[runner[w].exec] # "ABSENT"
        BY DEF RunnerInv
    <2>2. LifeTypeOK'
        BY <2>1 DEF LifeTypeOK, GateTypeOK, Runner, Phase, JobStatus
    <2>3. OwedInv'
        BY <2>1 DEF LifeTypeOK, GateTypeOK, OwedInv, Owed, Owing, Runner, RunningStatus
    <2>4. DeliveryInv' /\ RunnerInv' /\ PendingInv'
        BY <2>1 DEF LifeTypeOK, GateTypeOK, DeliveryInv, RunnerInv, PendingInv, Runner
    <2>5. ActiveInv'
        BY <2>1 DEF LifeTypeOK, GateTypeOK, RunnerInv, ActiveInv, Runner
    <2> QED BY <2>2, <2>3, <2>4, <2>5
<1>4. CASE Return(w)
    <2> USE <1>4 DEF Return, Settle
    <2>1. LifeTypeOK'
        BY DEF LifeTypeOK, GateTypeOK, Runner, Phase, Idle, DeliveryState, JobStatus
    <2>2. OwedInv'
        <3>1. ASSUME NEW v \in Workers, runner[v].phase \in Owing
              PROVE  runner'[v] = runner[v]
            BY <3>1 DEF LifeTypeOK, Owing, Runner
        <3>2. runner[w].via = "delivery" => delivery[runner[w].exec] \notin {"sending", "waiting"}
            BY DEF ActiveInv
        <3>3. ASSUME NEW e \in Execs, delivery[e] \in {"sending", "waiting"}
              PROVE  delivery'[e] = delivery[e]
            BY <3>2, <3>3 DEF LifeTypeOK
        <3> QED BY <3>1, <3>3 DEF OwedInv, Owed
    <2>3. DeliveryInv' /\ RunnerInv' /\ PendingInv'
        BY DEF LifeTypeOK, DeliveryInv, RunnerInv, PendingInv, Runner, Idle
    <2>4. ActiveInv'
        BY DEF LifeTypeOK, RunnerInv, ActiveInv, Runner, Idle
    <2> QED BY <2>1, <2>2, <2>3, <2>4
<1>5. CASE HandleThrow(w) \/ Crash(w)
    <2> USE <1>5 DEF HandleThrow, Crash, Settle
    <2>1. runner[w].exec \in Execs /\ status[runner[w].exec] # "ABSENT"
        BY DEF RunnerInv
    <2>2. LifeTypeOK'
        <3>1. GateTypeOK' /\ runner' \in [Workers -> Runner]
            BY DEF LifeTypeOK, GateTypeOK, Runner, Phase, Idle, JobStatus
        <3>2. delivery' \in [Execs -> DeliveryState] /\ surfaced' \subseteq Execs
            BY <2>1 DEF LifeTypeOK, DeliveryState
        <3>3. tries' \in [Execs -> 0..Attempts]
            <4>1. CASE UNCHANGED tries
                BY <4>1 DEF LifeTypeOK
            <4>2. CASE /\ tries[runner[w].exec] + 1 < Attempts
                       /\ tries' = [tries EXCEPT ![runner[w].exec] = tries[runner[w].exec] + 1]
                <5>1. tries[runner[w].exec] + 1 \in 0..Attempts
                    BY <2>1, <4>2 DEF LifeTypeOK
                <5> QED BY <4>2, <5>1 DEF LifeTypeOK
            <4> QED BY <4>1, <4>2
        <3>4. crashes' \in 0..MaxCrashes /\ faults' \in 0..MaxFaults /\ operations' \in 0..MaxOperations
            BY DEF LifeTypeOK
        <3>5. pending' = pending
            OBVIOUS
        <3> QED BY <3>1, <3>2, <3>3, <3>4, <3>5 DEF LifeTypeOK
    <2>3. OwedInv'
        <3>1. ASSUME NEW v \in Workers, v # w
              PROVE  runner'[v] = runner[v]
            BY <3>1 DEF LifeTypeOK
        <3>2. ASSUME NEW e \in Execs, e # runner[w].exec
              PROVE  delivery'[e] = delivery[e]
            BY <3>2 DEF LifeTypeOK
        <3>3. surfaced \subseteq surfaced' /\ status' = status
            OBVIOUS
        <3>4. \/ delivery'[runner[w].exec] = "waiting"
              \/ runner[w].exec \in surfaced'
            BY <2>1 DEF LifeTypeOK
        <3>5. ASSUME NEW e \in Execs, Owed(e)
              PROVE  Owed(e)'
            BY <3>1, <3>2, <3>3, <3>4, <3>5 DEF Owed
        <3> QED BY <3>3, <3>5 DEF OwedInv
    <2>4. DeliveryInv' /\ RunnerInv' /\ PendingInv'
        BY <2>1 DEF LifeTypeOK, DeliveryInv, RunnerInv, PendingInv, Runner, Idle
    <2>5. ActiveInv'
        BY <2>1 DEF LifeTypeOK, RunnerInv, ActiveInv, Runner, Idle
    <2> QED BY <2>2, <2>3, <2>4, <2>5
<1> QED BY <1>1, <1>2, <1>3, <1>4, <1>5 DEF Execute

(***************************************************************************)
(* The operator takes rows out of the running statuses, or starts an       *)
(* executor that owes the row its next terminal write.                     *)
(***************************************************************************)
LEMMA OperatorIInv ==
    ASSUME LifeIInv,
           \/ \E e \in Execs : RequestStop(e) \/ RequestAbandon(e)
           \/ \E w \in Workers, e \in Execs : Restart(w, e)
           \/ CompleteOperation
    PROVE  LifeIInv'
<1> USE GateAssumption, LifecycleAssumption DEF boundVars, gateVars, LifeIInv
<1>1. CASE \E e \in Execs : RequestStop(e) \/ RequestAbandon(e)
    <2> USE <1>1 DEF RequestStop, RequestAbandon, Operate
    <2>1. LifeTypeOK'
        BY DEF LifeTypeOK, GateTypeOK, RunningStatus
    <2>2. OwedInv' /\ DeliveryInv' /\ RunnerInv' /\ ActiveInv'
        BY DEF OwedInv, Owed, DeliveryInv, RunnerInv, ActiveInv
    <2>3. PendingInv'
        BY DEF PendingInv, RunningStatus, NoCall
    <2> QED BY <2>1, <2>2, <2>3
<1>2. ASSUME NEW w \in Workers, NEW e \in Execs, Restart(w, e) PROVE LifeIInv'
    <2> USE <1>2 DEF Restart, Operate, Enter
    <2>1. LifeTypeOK'
        BY DEF LifeTypeOK, GateTypeOK, Runner, Phase
    <2>2. OwedInv'
        BY DEF LifeTypeOK, OwedInv, Owed, Owing, Runner, Idle
    <2>3. DeliveryInv' /\ RunnerInv' /\ PendingInv'
        BY DEF LifeTypeOK, DeliveryInv, RunnerInv, PendingInv, Runner
    <2>4. ActiveInv'
        BY DEF LifeTypeOK, RunnerInv, ActiveInv, Runner
    <2> QED BY <2>1, <2>2, <2>3, <2>4
<1>3. CASE CompleteOperation
    <2> USE <1>3 DEF CompleteOperation
    <2>1. pending.exec \in Execs /\ status[pending.exec] # "ABSENT"
        BY DEF PendingInv
    <2>2. LifeTypeOK'
        BY <2>1 DEF LifeTypeOK, GateTypeOK, JobStatus, NoCall
    <2>3. OwedInv'
        BY <2>1 DEF LifeTypeOK, GateTypeOK, OwedInv, Owed, RunningStatus
    <2>4. DeliveryInv' /\ RunnerInv' /\ PendingInv'
        BY <2>1 DEF LifeTypeOK, GateTypeOK, DeliveryInv, RunnerInv, PendingInv, Runner
    <2>5. ActiveInv'
        BY <2>1 DEF LifeTypeOK, GateTypeOK, RunnerInv, ActiveInv, Runner
    <2> QED BY <2>2, <2>3, <2>4, <2>5
<1> QED BY <1>1, <1>2, <1>3

\* Every step of JobLifecycle keeps the inductive invariant.
LEMMA LifeNextIInv == LifeIInv /\ [LifeNext]_lifeVars => LifeIInv'
<1> SUFFICES ASSUME LifeIInv, [LifeNext]_lifeVars PROVE LifeIInv'
    OBVIOUS
<1>1. CASE LifeNext
    BY <1>1, LaunchIInv, DeliveryIInv, ExecutorIInv, OperatorIInv DEF LifeNext
<1>2. CASE UNCHANGED lifeVars
    BY <1>2 DEF lifeVars, gateVars, boundVars, LifeIInv, LifeTypeOK, GateTypeOK, OwedInv, Owed,
                DeliveryInv, RunnerInv, ActiveInv, PendingInv
<1> QED BY <1>1, <1>2

(***************************************************************************)
(* The inductive invariant of launches, deliveries, executors and operator *)
(* calls holds in every reachable state.                                   *)
(***************************************************************************)
THEOREM LifeInductiveInvariant == LifeSpec => []LifeIInv
BY LifeInitIInv, LifeNextIInv, PTL DEF LifeSpec

-----------------------------------------------------------------------------
(***************************************************************************)
(* However launches, redeliveries, thrown errors, crashes, stops and       *)
(* restarts interleave, an execution row left STARTING or STARTED with     *)
(* nobody working on it has had its error reported (JobLauncher.launch,    *)
(* JobExecutor.execute, the transports' retries).                          *)
(***************************************************************************)
THEOREM NoOrphanIsSilent == LifeSpec => []NoSilentOrphan
<1>1. LifeIInv => NoSilentOrphan
    BY DEF LifeIInv, OwedInv, Owed, NoSilentOrphan, Attended
<1> QED BY <1>1, LifeInductiveInvariant, PTL

(***************************************************************************)
(* Everything that executors, transports and the operator do to the rows   *)
(* is allowed by LaunchGate, the environment createExecutionAtomic is      *)
(* verified in: STARTED only from an existing row, a terminal status never *)
(* over a fresh one.                                                       *)
(***************************************************************************)
THEOREM RowsRefineGate == ASSUME ReentryAllowed PROVE LifeSpec => RowsFollowGate
<1>1. LifeInit => GateInit
    BY DEF LifeInit
<1>2. LifeIInv /\ [LifeNext]_lifeVars => [GateNext]_gateVars
    <2> SUFFICES ASSUME LifeIInv, [LifeNext]_lifeVars PROVE [GateNext]_gateVars
        OBVIOUS
    <2>1. ASSUME NEW w \in Workers, Execute(w) \/ ExecuteThrows(w) \/ Crash(w)
          PROVE  [GateNext]_gateVars
        <3>1. CASE StartExecution(w)
            <4>1. runner[w].exec \in Execs /\ status[runner[w].exec] # "ABSENT"
                BY <3>1 DEF StartExecution, Step, LifeIInv, RunnerInv
            <4>2. WriteStarted(runner[w].exec) \/ UNCHANGED gateVars
                BY <3>1, <4>1 DEF StartExecution, WriteStatus, WriteStarted, Finished, gateVars, LifeIInv,
                                  LifeTypeOK, GateTypeOK, JobStatus
            <4> QED BY <4>1, <4>2 DEF GateNext, UpdateJobExecution
        <3>2. ASSUME NEW s \in {"COMPLETED", "FAILED"}, EndExecution(w, s)
              PROVE  [GateNext]_gateVars
            <4>1. /\ runner[w].exec \in Execs
                  /\ status[runner[w].exec] \notin {"ABSENT", "STARTING"}
                BY <3>2 DEF EndExecution, Step, LifeIInv, RunnerInv
            <4>2. WriteTerminal(runner[w].exec)
                BY <3>2, <4>1 DEF EndExecution, WriteStatus, WriteTerminal
            <4> QED BY <4>1, <4>2 DEF GateNext, UpdateJobExecution
        <3>3. CASE RefuseRestart(w) \/ RunSteps(w) \/ Return(w) \/ HandleThrow(w)
                     \/ ExecuteThrows(w) \/ Crash(w)
            BY <3>3 DEF RefuseRestart, RunSteps, Return, HandleThrow, ExecuteThrows, Crash
        <3> QED BY <2>1, <3>1, <3>2, <3>3 DEF Execute
    <2>2. CASE CompleteOperation
        <3>1. /\ pending.exec \in Execs
              /\ pending.call \in {"stop", "abandon"}
              /\ status[pending.exec] # "ABSENT"
              /\ pending.call = "abandon" => status[pending.exec] # "STARTING"
            BY <2>2 DEF CompleteOperation, LifeIInv, PendingInv
        <3>2. WriteStopped(pending.exec) \/ WriteTerminal(pending.exec)
            BY <2>2, <3>1 DEF CompleteOperation, WriteStopped, WriteTerminal
        <3> QED BY <3>1, <3>2 DEF GateNext, UpdateJobExecution
    <2>3. ASSUME NEW i \in Instances, NEW e \in Execs, Launch(i, e) PROVE GateNext
        BY <2>3 DEF Launch, GateNext
    <2>4. ASSUME NEW e \in Execs,
                 \/ Send(e) \/ SendFails(e) \/ RequestStop(e) \/ RequestAbandon(e)
                 \/ \E w \in Workers : Deliver(w, e) \/ Restart(w, e)
          PROVE  UNCHANGED gateVars
        BY <2>4 DEF Send, SendFails, RequestStop, RequestAbandon, Deliver, Restart, Operate
    <2>5. CASE UNCHANGED lifeVars
        BY <2>5 DEF lifeVars
    <2> QED BY <2>1, <2>2, <2>3, <2>4, <2>5 DEF LifeNext
<1> QED BY <1>1, <1>2, LifeInductiveInvariant, PTL DEF LifeSpec, GateSpec, RowsFollowGate
-----------------------------------------------------------------------------
(***************************************************************************)
(* The in-process strategy.  OneLaunchInFlight speaks of executors, the    *)
(* gate of rows; what joins them is that an in-process executor is the     *)
(* only one its row ever has, so that until its terminal write the row has *)
(* the status the executor last gave it, and that status is a running one. *)
(***************************************************************************)
InProcessTyped ==
    /\ status \in [Execs -> JobStatus]
    /\ instanceOf \in [Execs -> Instances \cup {None}]
    /\ delivery \in [Execs -> DeliveryState]
    /\ runner \in [Workers -> Runner]

\* A launch that has not reached its executor yet has a fresh row.
SendingIsFresh == \A e \in Execs : delivery[e] = "sending" => status[e] = "STARTING"

\* An executor has its launch's call to itself, and its row says how far it is.
RowFollowsExecutor ==
    \A w \in Workers :
        runner[w].phase # "free" =>
            /\ runner[w].exec \in Execs
            /\ runner[w].via = "delivery"
            /\ delivery[runner[w].exec] = "active"
            /\ status[runner[w].exec] # "ABSENT"
            /\ runner[w].phase = "entered" => status[runner[w].exec] = "STARTING"
            /\ runner[w].phase \in {"started", "running"} => status[runner[w].exec] = "STARTED"
            /\ \A v \in Workers \ {w} :
                   runner[v].phase # "free" => runner[v].exec # runner[w].exec

\* What the gate guards: an instance has one execution that is not finished.
OneRunningRow ==
    \A d, e \in Execs :
        d # e /\ status[d] \in RunningStatus /\ status[e] \in RunningStatus
            => instanceOf[d] # instanceOf[e]

InProcessInv ==
    strategy = "inProcess" =>
        InProcessTyped /\ SendingIsFresh /\ RowFollowsExecutor /\ OneRunningRow

(***************************************************************************)
(* A launch passes the gate only when its instance has no running row, and *)
(* is carried to one executor, or fails before it has one.                 *)
(***************************************************************************)
LEMMA InProcessLaunchInv ==
    ASSUME InProcessTyped, SendingIsFresh, RowFollowsExecutor, OneRunningRow,
           NEW e \in Execs,
           \/ \E i \in Instances : InProcess!Launch(i, e)
           \/ InProcess!SendFails(e)
           \/ \E w \in Workers : InProcess!Deliver(w, e)
    PROVE  (InProcessTyped /\ SendingIsFresh /\ RowFollowsExecutor /\ OneRunningRow)'
<1> USE GateAssumption DEF InProcess!gateVars, InProcess!boundVars
<1>1. ASSUME NEW i \in Instances, InProcess!Launch(i, e)
      PROVE  (InProcessTyped /\ SendingIsFresh /\ RowFollowsExecutor /\ OneRunningRow)'
    <2> USE <1>1 DEF InProcess!Launch, InProcess!CreateExecution
    <2>1. InProcessTyped'
        BY DEF InProcessTyped, JobStatus, DeliveryState
    <2>2. SendingIsFresh' /\ RowFollowsExecutor'
        BY DEF InProcessTyped, SendingIsFresh, RowFollowsExecutor
    <2>3. OneRunningRow'
        BY DEF InProcessTyped, OneRunningRow, InProcess!Running, InProcess!RunningStatus, RunningStatus
    <2> QED BY <2>1, <2>2, <2>3
<1>2. CASE InProcess!SendFails(e)
    <2> USE <1>2 DEF InProcess!SendFails
    <2>1. InProcessTyped'
        BY DEF InProcessTyped, DeliveryState
    <2>2. SendingIsFresh' /\ RowFollowsExecutor' /\ OneRunningRow'
        BY DEF InProcessTyped, SendingIsFresh, RowFollowsExecutor, OneRunningRow
    <2> QED BY <2>1, <2>2
<1>3. ASSUME NEW w \in Workers, InProcess!Deliver(w, e)
      PROVE  (InProcessTyped /\ SendingIsFresh /\ RowFollowsExecutor /\ OneRunningRow)'
    <2> USE <1>3 DEF InProcess!Deliver, InProcess!Enter, InProcess!Idle
    <2>1. InProcessTyped'
        BY DEF InProcessTyped, DeliveryState, Runner, Phase
    <2>2. SendingIsFresh' /\ OneRunningRow'
        BY DEF InProcessTyped, SendingIsFresh, OneRunningRow
    <2>3. RowFollowsExecutor'
        BY DEF InProcessTyped, SendingIsFresh, RowFollowsExecutor, Runner
    <2> QED BY <2>1, <2>2, <2>3
<1> QED BY <1>1, <1>2, <1>3

(***************************************************************************)
(* The executor's writes: STARTED over its own fresh row, a terminal       *)
(* status over its own STARTED one; a thrown error or a crash ends it and  *)
(* leaves the row as it is, with the call that made it settled.            *)
(***************************************************************************)
LEMMA InProcessExecutorInv ==
    ASSUME InProcessTyped, SendingIsFresh, RowFollowsExecutor, OneRunningRow,
           NEW w \in Workers,
           Runs(w) \/ InProcess!ExecuteThrows(w) \/ InProcess!Crash(w)
    PROVE  (InProcessTyped /\ SendingIsFresh /\ RowFollowsExecutor /\ OneRunningRow)'
<1> USE GateAssumption DEF InProcess!gateVars, InProcess!boundVars
<1>1. CASE InProcess!StartExecution(w)
    <2> USE <1>1 DEF InProcess!StartExecution, InProcess!Step, InProcess!WriteStatus
    <2>1. runner[w].exec \in Execs /\ status[runner[w].exec] = "STARTING"
        BY DEF RowFollowsExecutor
    <2>2. InProcessTyped'
        BY <2>1 DEF InProcessTyped, JobStatus, Runner, Phase
    <2>3. SendingIsFresh'
        BY <2>1 DEF InProcessTyped, SendingIsFresh, RowFollowsExecutor
    <2>4. RowFollowsExecutor'
        BY <2>1 DEF InProcessTyped, RowFollowsExecutor, Runner
    <2>5. OneRunningRow'
        BY <2>1 DEF InProcessTyped, OneRunningRow, RunningStatus
    <2> QED BY <2>2, <2>3, <2>4, <2>5
<1>2. CASE \E s \in {"COMPLETED", "FAILED"} : InProcess!EndExecution(w, s)
    <2> USE <1>2 DEF InProcess!EndExecution, InProcess!Step, InProcess!WriteStatus
    <2>1. runner[w].exec \in Execs /\ status[runner[w].exec] = "STARTED"
        BY DEF RowFollowsExecutor
    <2>2. InProcessTyped'
        BY <2>1 DEF InProcessTyped, JobStatus, Runner, Phase
    <2>3. SendingIsFresh'
        BY <2>1 DEF InProcessTyped, SendingIsFresh
    <2>4. RowFollowsExecutor'
        BY <2>1 DEF InProcessTyped, RowFollowsExecutor, Runner
    <2>5. OneRunningRow'
        BY <2>1 DEF InProcessTyped, OneRunningRow, RunningStatus
    <2> QED BY <2>2, <2>3, <2>4, <2>5
<1>3. CASE InProcess!RunSteps(w) \/ InProcess!ExecuteThrows(w)
    <2> USE <1>3 DEF InProcess!RunSteps, InProcess!ExecuteThrows, InProcess!Step
    <2>1. InProcessTyped'
        BY DEF InProcessTyped, Runner, Phase
    <2>2. SendingIsFresh' /\ OneRunningRow'
        BY DEF SendingIsFresh, OneRunningRow
    <2>3. RowFollowsExecutor'
        BY DEF InProcessTyped, RowFollowsExecutor, Runner
    <2> QED BY <2>1, <2>2, <2>3
<1>4. CASE InProcess!Return(w) \/ InProcess!HandleThrow(w) \/ InProcess!Crash(w)
    <2> USE <1>4 DEF InProcess!Return, InProcess!HandleThrow, InProcess!Crash, InProcess!Settle
    <2>1. /\ runner[w].exec \in Execs /\ runner[w].via = "delivery"
          /\ delivery[runner[w].exec] = "active"
        BY DEF RowFollowsExecutor
    <2>2. /\ runner' = [runner EXCEPT ![w] = Idle]
          /\ delivery' = [delivery EXCEPT ![runner[w].exec] = "settled"]
          /\ UNCHANGED <<instanceOf, status>>
        BY <2>1 DEF InProcess!Idle, Idle
    <2>3. InProcessTyped'
        BY <2>1, <2>2 DEF InProcessTyped, JobStatus, Runner, Phase, Idle, DeliveryState
    <2>4. SendingIsFresh' /\ OneRunningRow'
        BY <2>1, <2>2 DEF InProcessTyped, SendingIsFresh, OneRunningRow
    <2>5. RowFollowsExecutor'
        BY <2>1, <2>2 DEF InProcessTyped, RowFollowsExecutor, Runner, Idle
    <2> QED BY <2>3, <2>4, <2>5
<1> QED BY <1>1, <1>2, <1>3, <1>4 DEF Runs

\* Every step keeps the in-process invariant; the strategy never changes.
LEMMA InProcessNextInv == InProcessInv /\ [MCNext]_mcVars => InProcessInv'
<1> SUFFICES ASSUME InProcessInv, [MCNext]_mcVars, strategy' = "inProcess"
             PROVE  (InProcessTyped /\ SendingIsFresh /\ RowFollowsExecutor /\ OneRunningRow)'
    BY DEF InProcessInv
<1>1. strategy = "inProcess"
    BY DEF MCNext, mcVars
<1>2. InProcessTyped /\ SendingIsFresh /\ RowFollowsExecutor /\ OneRunningRow
    BY <1>1 DEF InProcessInv
<1>3. CASE InProcessNext
    BY <1>2, <1>3, InProcessLaunchInv, InProcessExecutorInv DEF InProcessNext
<1>4. CASE UNCHANGED mcVars
    BY <1>2, <1>4 DEF mcVars, lifeVars, gateVars, InProcessTyped, SendingIsFresh,
                      RowFollowsExecutor, OneRunningRow
<1> QED BY <1>1, <1>3, <1>4 DEF MCNext

(***************************************************************************)
(* For any launchers, executors, thrown errors and crashes: with the       *)
(* in-process strategy and nobody operating on the rows, two launches of   *)
(* one instance never execute their steps at the same time, which is what  *)
(* createExecutionAtomic is there for (JobLauncher.launch,                 *)
(* InProcessExecutionStrategy.launch, JobExecutor.execute).                *)
(***************************************************************************)
THEOREM OneLaunchExecutes == MCSpec => []OneInFlightInProcess
<1>1. MCInit => InProcessInv
    BY GateAssumption
       DEF MCInit, LifeInit, GateInit, InProcessInv, InProcessTyped, SendingIsFresh,
           RowFollowsExecutor, OneRunningRow, JobStatus, RunningStatus, DeliveryState, Runner,
           Phase, Idle
<1>2. InProcessInv => OneInFlightInProcess
    BY DEF InProcessInv, RowFollowsExecutor, OneRunningRow, OneInFlightInProcess,
           OneLaunchInFlight, Executing, RunningStatus
<1> QED BY <1>1, <1>2, InProcessNextInv, PTL DEF MCSpec
=============================================================================
