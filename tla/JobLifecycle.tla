----------------------------- MODULE JobLifecycle -----------------------------
(***************************************************************************)
(* The life of the execution rows of a job: JobLauncher.launch and the     *)
(* execution strategy behind it, the worker that picks the execution up,   *)
(* JobExecutor.execute as far as it touches the row, and JobOperator.      *)
(*                                                                         *)
(* With Queued the strategy is a transport (BullMQ, Kafka): launch sends a *)
(* message, a worker reads the row and executes it, and a message whose    *)
(* handler throws or whose worker dies is delivered again.  Without it     *)
(* (InProcessExecutionStrategy) launch itself reads the row and executes.  *)
(*                                                                         *)
(* Every write to the row is unconditional and decided on a status that    *)
(* was read earlier: the executor's on the row it was handed, the          *)
(* operator's on the details it looked up.                                 *)
(***************************************************************************)
EXTENDS LaunchGate, Naturals

CONSTANTS
    Workers,         \* concurrent calls of JobExecutor.execute
    Queued,          \* the strategy is a transport, not in-process
    SendMayFail,     \* the strategy may throw once the row exists
    Restartable,     \* instances of jobs with jobDef.restartable
    Attempts,        \* deliveries of a message whose handler throws
    MaxFaults,       \* bound: errors thrown out of JobExecutor.execute
    MaxCrashes,      \* bound: worker processes lost
    MaxOperations    \* bound: JobOperator calls

ASSUME LifecycleAssumption ==
    /\ Queued \in BOOLEAN /\ SendMayFail \in BOOLEAN
    /\ Restartable \subseteq Instances
    /\ Attempts \in Nat \ {0}
    /\ MaxFaults \in Nat /\ MaxCrashes \in Nat /\ MaxOperations \in Nat

VARIABLES
    delivery,        \* [Execs -> DeliveryState]: the launch's message or call
    tries,           \* [Execs -> Nat]: deliveries whose handler threw
    runner,          \* [Workers -> Runner]: JobExecutor.execute in flight
    pending,         \* the operator's stop or abandon, between read and write
    surfaced,        \* executions whose caller or broker was told of a failure
    faults, crashes, operations

boundVars == <<faults, crashes, operations>>
lifeVars == <<gateVars, delivery, tries, runner, pending, surfaced, boundVars>>

DeliveryState == {"none", "sending", "waiting", "active", "settled"}
Phase == {"free", "entered", "started", "running", "ended", "thrown"}
Runner ==
    [exec : Execs \cup {None}, via : {"none", "delivery", "restart"},
     entry : JobStatus, phase : Phase]
Idle == [exec |-> None, via |-> "none", entry |-> "ABSENT", phase |-> "free"]
NoCall == [call |-> "none", exec |-> None]

LifeInit ==
    /\ GateInit
    /\ delivery = [e \in Execs |-> "none"]
    /\ tries = [e \in Execs |-> 0]
    /\ runner = [w \in Workers |-> Idle]
    /\ pending = NoCall
    /\ surfaced = {}
    /\ faults = 0 /\ crashes = 0 /\ operations = 0

-----------------------------------------------------------------------------
\* JobLauncher.launch: the row, through the gate; the strategy comes next.
Launch(i, e) ==
    /\ CreateExecution(i, e)
    /\ delivery' = [delivery EXCEPT ![e] = "sending"]
    /\ UNCHANGED <<tries, runner, pending, surfaced, boundVars>>

\* BullmqRuntime.launch, KafkaRuntime.launch: the message is with the broker.
Send(e) ==
    /\ Queued /\ delivery[e] = "sending"
    /\ delivery' = [delivery EXCEPT ![e] = "waiting"]
    /\ UNCHANGED <<gateVars, tries, runner, pending, surfaced, boundVars>>

(***************************************************************************)
(* The strategy throws after the row was created (broker unreachable,      *)
(* InProcessExecutionStrategy refusing a partitioned step), or the         *)
(* launching process dies.  The caller sees it; the row stays STARTING.    *)
(***************************************************************************)
SendFails(e) ==
    /\ SendMayFail /\ delivery[e] = "sending"
    /\ delivery' = [delivery EXCEPT ![e] = "settled"]
    /\ surfaced' = surfaced \cup {e}
    /\ UNCHANGED <<gateVars, tries, runner, pending, boundVars>>

Enter(w, e, via) ==
    /\ runner[w] = Idle
    /\ runner' = [runner EXCEPT ![w] =
                     [exec |-> e, via |-> via, entry |-> status[e], phase |-> "entered"]]

\* processJob, processMessage, or the in-process strategy: getJobExecution,
\* and the executor is called with what was read.
Deliver(w, e) ==
    /\ delivery[e] = IF Queued THEN "waiting" ELSE "sending"
    /\ Enter(w, e, "delivery")
    /\ delivery' = [delivery EXCEPT ![e] = "active"]
    /\ UNCHANGED <<gateVars, tries, pending, surfaced, boundVars>>

-----------------------------------------------------------------------------
\* JobExecutor.execute.
Step(w, from, to) ==
    /\ runner[w].phase = from
    /\ runner' = [runner EXCEPT ![w].phase = to]

IsRestart(w) == runner[w].entry \in {"FAILED", "STOPPED"}

MayRestart(w) == instanceOf[runner[w].exec] \in Restartable

WriteStatus(w, s) == status' = [status EXCEPT ![runner[w].exec] = s]

\* Faulty variant: the STARTED write is forgotten.
StartExecutionUnwritten(w) ==
    /\ IsRestart(w) => MayRestart(w)
    /\ Step(w, "entered", "started")
    /\ UNCHANGED <<gateVars, delivery, tries, pending, surfaced, boundVars>>

\* STARTED is written whatever the row holds by now.
StartExecution(w) ==
    /\ IsRestart(w) => MayRestart(w)
    /\ Step(w, "entered", "started")
    /\ WriteStatus(w, "STARTED")
    /\ UNCHANGED <<instanceOf, delivery, tries, pending, surfaced, boundVars>>

RefuseRestart(w) ==
    /\ IsRestart(w) /\ ~MayRestart(w)
    /\ Step(w, "entered", "thrown")
    /\ UNCHANGED <<gateVars, delivery, tries, pending, surfaced, boundVars>>

\* The before:job listeners have returned; the steps run.
RunSteps(w) ==
    /\ Step(w, "started", "running")
    /\ UNCHANGED <<gateVars, delivery, tries, pending, surfaced, boundVars>>

\* The terminal write, as unconditional as the first one.
EndExecution(w, s) ==
    /\ Step(w, "running", "ended")
    /\ WriteStatus(w, s)
    /\ UNCHANGED <<instanceOf, delivery, tries, pending, surfaced, boundVars>>

\* execute returns: the message is acknowledged, launch answers.
Settle(w) ==
    delivery' = IF runner[w].via = "delivery"
                THEN [delivery EXCEPT ![runner[w].exec] = "settled"]
                ELSE delivery

Return(w) ==
    /\ runner[w].phase = "ended"
    /\ runner' = [runner EXCEPT ![w] = Idle]
    /\ Settle(w)
    /\ UNCHANGED <<gateVars, tries, pending, surfaced, boundVars>>

(***************************************************************************)
(* What execute does not catch: the STARTED write, a critical before:job   *)
(* or after:job listener, and the FAILED write of its own catch block; or  *)
(* the worker does not know the job (JobRegistry.get).  The row keeps      *)
(* whatever status it has.                                                 *)
(***************************************************************************)
ExecuteThrows(w) ==
    /\ faults < MaxFaults /\ faults' = faults + 1
    /\ runner[w].phase \in {"entered", "started", "running", "ended"}
    /\ runner' = [runner EXCEPT ![w].phase = "thrown"]
    /\ UNCHANGED <<gateVars, delivery, tries, pending, surfaced, crashes, operations>>

\* Faulty variant: the handler swallows the error and the message is acknowledged.
HandleThrowSwallowed(w) ==
    /\ runner[w].phase = "thrown"
    /\ runner' = [runner EXCEPT ![w] = Idle]
    /\ Settle(w)
    /\ UNCHANGED <<gateVars, tries, pending, surfaced, boundVars>>

(***************************************************************************)
(* The error leaves the handler.  A transport delivers the message again   *)
(* until its attempts are used up; anybody else just sees the error.       *)
(***************************************************************************)
HandleThrow(w) ==
    LET e == runner[w].exec IN
    /\ runner[w].phase = "thrown"
    /\ runner' = [runner EXCEPT ![w] = Idle]
    /\ \/ /\ Queued /\ runner[w].via = "delivery" /\ tries[e] + 1 < Attempts
          /\ tries' = [tries EXCEPT ![e] = @ + 1]
          /\ delivery' = [delivery EXCEPT ![e] = "waiting"]
          /\ UNCHANGED surfaced
       \/ /\ ~(Queued /\ runner[w].via = "delivery" /\ tries[e] + 1 < Attempts)
          /\ surfaced' = surfaced \cup {e}
          /\ Settle(w)
          /\ UNCHANGED tries
    /\ UNCHANGED <<gateVars, pending, boundVars>>

\* The worker's process dies; a transport notices and delivers again.
Crash(w) ==
    LET e == runner[w].exec IN
    /\ crashes < MaxCrashes /\ crashes' = crashes + 1
    /\ runner[w].phase # "free"
    /\ runner' = [runner EXCEPT ![w] = Idle]
    /\ \/ /\ Queued /\ runner[w].via = "delivery"
          /\ delivery' = [delivery EXCEPT ![e] = "waiting"]
          /\ UNCHANGED surfaced
       \/ /\ ~(Queued /\ runner[w].via = "delivery")
          /\ surfaced' = surfaced \cup {e}
          /\ Settle(w)
    /\ UNCHANGED <<gateVars, tries, pending, faults, operations>>

-----------------------------------------------------------------------------
\* JobOperator: every operation reads the details first.
Operate ==
    /\ operations < MaxOperations
    /\ operations' = operations + 1
    /\ UNCHANGED <<gateVars, delivery, tries, surfaced, faults, crashes>>

RequestStop(e) ==
    /\ Operate
    /\ pending = NoCall /\ status[e] \in RunningStatus
    /\ pending' = [call |-> "stop", exec |-> e]
    /\ UNCHANGED runner

RequestAbandon(e) ==
    /\ Operate
    /\ pending = NoCall /\ status[e] \in {"FAILED", "STOPPED"}
    /\ pending' = [call |-> "abandon", exec |-> e]
    /\ UNCHANGED runner

\* JobOperator.restart and JobLauncher.run: straight into the executor,
\* past the gate and past the strategy.
Restart(w, e) ==
    /\ Operate
    /\ status[e] \in {"FAILED", "STOPPED"}
    /\ Enter(w, e, "restart")
    /\ UNCHANGED pending

CompleteOperation ==
    /\ pending # NoCall
    /\ status' = [status EXCEPT ![pending.exec] =
                     IF pending.call = "stop" THEN "STOPPED" ELSE "ABANDONED"]
    /\ pending' = NoCall
    /\ UNCHANGED <<instanceOf, delivery, tries, runner, surfaced, boundVars>>

-----------------------------------------------------------------------------
Execute(w) ==
    \/ StartExecution(w) \/ RefuseRestart(w) \/ RunSteps(w)
    \/ \E s \in {"COMPLETED", "FAILED"} : EndExecution(w, s)
    \/ Return(w) \/ HandleThrow(w)

LifeNext ==
    \/ \E i \in Instances, e \in Execs : Launch(i, e)
    \/ \E e \in Execs : Send(e) \/ SendFails(e) \/ RequestStop(e) \/ RequestAbandon(e)
    \/ \E w \in Workers, e \in Execs : Deliver(w, e) \/ Restart(w, e)
    \/ \E w \in Workers : Execute(w) \/ ExecuteThrows(w) \/ Crash(w)
    \/ CompleteOperation

LifeSpec == LifeInit /\ [][LifeNext]_lifeVars

\* Workers run what they hold, brokers deliver what they accepted.
LifeFairSpec ==
    /\ LifeSpec
    /\ \A w \in Workers : WF_lifeVars(Execute(w))
    /\ \A e \in Execs : WF_lifeVars(Send(e)) /\ WF_lifeVars(\E w \in Workers : Deliver(w, e))

-----------------------------------------------------------------------------
\* Rows, deliveries, executor calls and the operator's call have their types.
LifeTypeOK ==
    /\ GateTypeOK
    /\ delivery \in [Execs -> DeliveryState]
    /\ tries \in [Execs -> 0..Attempts]
    /\ runner \in [Workers -> Runner]
    /\ pending \in [call : {"none", "stop", "abandon"}, exec : Execs \cup {None}]
    /\ surfaced \subseteq Execs
    /\ faults \in 0..MaxFaults /\ crashes \in 0..MaxCrashes /\ operations \in 0..MaxOperations

(***************************************************************************)
(* No row is stuck in silence: an execution that is STARTING or STARTED    *)
(* with neither a launch, a message nor an executor behind it blocks every *)
(* later launch of its instance, so somebody must have seen an error.      *)
(***************************************************************************)
Attended(e) ==
    \/ delivery[e] \in {"sending", "waiting", "active"}
    \/ \E w \in Workers : runner[w].exec = e

NoSilentOrphan ==
    \A e \in Execs : status[e] \in RunningStatus => Attended(e) \/ e \in surfaced

(***************************************************************************)
(* While one launch of an instance is executing its job, no other launch   *)
(* of the same instance is: the reason createExecutionAtomic refuses.      *)
(***************************************************************************)
Executing(e) == \E w \in Workers : runner[w].exec = e /\ runner[w].phase \in {"started", "running"}

OneLaunchInFlight ==
    \A d, e \in Execs :
        d # e /\ Executing(d) /\ Executing(e) => instanceOf[d] # instanceOf[e]

(***************************************************************************)
(* The rows move only as LaunchGate says: what the launch transaction is   *)
(* verified against is all that executors, transports and operators do.    *)
(***************************************************************************)
RowsFollowGate == GateSpec

(***************************************************************************)
(* Every execution leaves the running statuses, so that its instance can   *)
(* be launched again, or its failure is reported, though handlers throw,   *)
(* workers die and operators interfere on the way.                         *)
(***************************************************************************)
ExecutionEnds ==
    \A e \in Execs :
        status[e] \in RunningStatus ~> (status[e] \notin RunningStatus \/ e \in surfaced)
=============================================================================
