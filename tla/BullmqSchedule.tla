----------------------------- MODULE BullmqSchedule -----------------------------
(***************************************************************************)
(* BullmqSchedule: cron entries kept in Redis as job schedulers that all   *)
(* replicas share, and each replica's schedule worker (one fire at a time) *)
(* turning a fire into JobLauncher.launch on the BullMQ strategy: create   *)
(* the execution row, then put it on the work queue, then acknowledge.     *)
(* A fire that throws is tried up to Attempts times; one whose worker died *)
(* stalls and is given to another worker.                                  *)
(***************************************************************************)
EXTENDS ScheduleRegistry, Sequences

CONSTANTS
    Replicas,
    Duplicates,      \* the schedules of jobs with allowDuplicateInstances
    Firing,          \* bound: the schedules whose fires are explored
    MaxFires,        \* bound: fires in a behaviour
    MaxFaults        \* bound: process deaths and failed calls in a behaviour

ASSUME BullmqScheduleAssumption == Duplicates \subseteq Schedules

Attempts == 3        \* attempts of a schedule fire
MaxStalled == 1      \* BullMQ's default for a worker

\* A fire makes one row, and another only when a fault hid the first one's fate.
MaxRows == MaxFires + MaxFaults

VARIABLES
    replica,         \* [Replicas -> {"none", "up", "closed"}]
    schedulers,      \* keys upserted into Redis
    fires,           \* Seq of [schedule, status, attempts, stalls]
    rows,            \* Seq of [fire, key, status]: executions created by fires
    worker,          \* [Replicas -> [phase, fire]]: 0 is no fire
    bullFaults

bullVars == <<replica, schedulers, fires, rows, worker, bullFaults>>

Idle == [phase |-> "idle", fire |-> 0]

BullInit ==
    /\ replica = [r \in Replicas |-> "none"]
    /\ schedulers = {}
    /\ fires = <<>> /\ rows = <<>>
    /\ worker = [r \in Replicas |-> Idle]
    /\ bullFaults = 0

Fault == bullFaults < MaxFaults /\ bullFaults' = bullFaults + 1

Goto(r, phase) == worker' = [worker EXCEPT ![r].phase = phase]

\* onApplicationBootstrap and installSchedule: each entry is upserted on its own;
\* one that fails, for its cron or for Redis, is logged and the next is tried.
BootReplica(r) ==
    LET valid == {s \in Schedules \ Inert : CronParses(s)} IN
    /\ replica[r] = "none"
    /\ replica' = [replica EXCEPT ![r] = "up"]
    /\ \E upserted \in SUBSET valid :
           /\ schedulers' = schedulers \cup upserted
           /\ IF upserted = valid THEN UNCHANGED bullFaults ELSE Fault
    /\ UNCHANGED <<fires, rows, worker>>

\* onApplicationShutdown: the worker finishes its fire and takes no other; the
\* schedulers stay in Redis.
CloseReplica(r) ==
    /\ replica[r] = "up"
    /\ replica' = [replica EXCEPT ![r] = "closed"]
    /\ UNCHANGED <<schedulers, fires, rows, worker, bullFaults>>

\* BullMQ adds the job of a scheduler whose time has come.
SchedulerFires(s) ==
    /\ s \in schedulers \cap Firing /\ Len(fires) < MaxFires
    /\ fires' = Append(fires, [schedule |-> s, status |-> "waiting", attempts |-> 0, stalls |-> 0])
    /\ UNCHANGED <<replica, schedulers, rows, worker, bullFaults>>

TakeFire(r, f) ==
    /\ replica[r] = "up" /\ worker[r] = Idle
    /\ f \in DOMAIN fires /\ fires[f].status = "waiting"
    /\ fires' = [fires EXCEPT ![f].status = "active"]
    /\ worker' = [worker EXCEPT ![r] = [phase |-> "launch", fire |-> f]]
    /\ UNCHANGED <<replica, schedulers, rows, bullFaults>>

(***************************************************************************)
(* processScheduleFire and JobLauncher.launch.  Under "skip" the instance  *)
(* is the schedule's; any other policy identifies it by all parameters,    *)
(* the fire's id and time among them, which a retried fire keeps.  A job   *)
(* that allows duplicate instances gets a new UUID into its key at every   *)
(* launch, whatever the policy: here, the number of the row.               *)
(***************************************************************************)
\* Faulty variant: every attempt of a fire has an identity of its own.
IdentityPerAttempt(f) ==
    IF Overlap[fires[f].schedule] = "skip" THEN <<fires[f].schedule, 0, 0>>
    ELSE <<fires[f].schedule, f, fires[f].attempts>>

Identity(f) ==
    <<fires[f].schedule,
      IF Overlap[fires[f].schedule] = "skip" THEN 0 ELSE f,
      IF fires[f].schedule \in Duplicates THEN Len(rows) + 1 ELSE 0>>

AlreadyRunning(f) == \E i \in DOMAIN rows : rows[i].key = Identity(f) /\ rows[i].status # "ended"

\* createExecutionAtomic inserts a STARTING row.
CreateRow(r) ==
    LET f == worker[r].fire IN
    /\ worker[r].phase = "launch" /\ ~AlreadyRunning(f)
    /\ rows' = Append(rows, [fire |-> f, key |-> Identity(f), status |-> "STARTING"])
    /\ Goto(r, "enqueue")
    /\ UNCHANGED <<replica, schedulers, fires, bullFaults>>

\* Faulty variant: the overlap error is swallowed whatever the policy.
RefusedSwallowed(r) ==
    /\ worker[r].phase = "launch" /\ AlreadyRunning(worker[r].fire)
    /\ Goto(r, "return")
    /\ UNCHANGED <<replica, schedulers, fires, rows, bullFaults>>

\* The catch block: JobExecutionAlreadyRunningError is an overlap under "skip"
\* and an error of the attempt under any other policy.
Refused(r) ==
    LET f == worker[r].fire IN
    /\ worker[r].phase = "launch" /\ AlreadyRunning(f)
    /\ Goto(r, IF Overlap[fires[f].schedule] = "skip" THEN "return" ELSE "throw")
    /\ UNCHANGED <<replica, schedulers, fires, rows, bullFaults>>

\* The database does not answer createExecutionAtomic.
CreateFails(r) ==
    /\ worker[r].phase = "launch" /\ Fault
    /\ Goto(r, "throw")
    /\ UNCHANGED <<replica, schedulers, fires, rows>>

LastRow(r) == CHOOSE i \in DOMAIN rows :
    rows[i].fire = worker[r].fire /\ \A j \in DOMAIN rows : rows[j].fire = worker[r].fire => j <= i

Enqueue(r) ==
    /\ worker[r].phase = "enqueue"
    /\ rows' = [rows EXCEPT ![LastRow(r)].status = "queued"]
    /\ Goto(r, "return")
    /\ UNCHANGED <<replica, schedulers, fires, bullFaults>>

\* The add fails, before or after Redis took the message, or the row cannot
\* be read back after it.
EnqueueFails(r) ==
    /\ worker[r].phase = "enqueue" /\ Fault
    /\ \E taken \in BOOLEAN :
           rows' = IF taken THEN [rows EXCEPT ![LastRow(r)].status = "queued"] ELSE rows
    /\ Goto(r, "throw")
    /\ UNCHANGED <<replica, schedulers, fires>>

Settle(r, fire) ==
    /\ fires' = [fires EXCEPT ![worker[r].fire] = fire]
    /\ worker' = [worker EXCEPT ![r] = Idle]

Acknowledge(r) ==
    /\ worker[r].phase = "return"
    /\ Settle(r, [fires[worker[r].fire] EXCEPT !.status = "completed"])
    /\ UNCHANGED <<replica, schedulers, rows, bullFaults>>

\* The attempt threw: back to the queue until the attempts are used up.
AttemptFails(r) ==
    LET fire == fires[worker[r].fire] IN
    /\ worker[r].phase = "throw"
    /\ Settle(r, [fire EXCEPT !.attempts = @ + 1,
                              !.status = IF fire.attempts + 1 < Attempts THEN "waiting" ELSE "failed"])
    /\ UNCHANGED <<replica, schedulers, rows, bullFaults>>

\* The process dies with a fire in hand, which BullMQ finds stalled.  It may
\* start again.  (A death between two fires loses nothing.)
ReplicaDies(r) ==
    LET fire == fires[worker[r].fire] IN
    /\ worker[r] # Idle /\ Fault
    /\ replica' = [replica EXCEPT ![r] = "none"]
    /\ Settle(r, [fire EXCEPT !.stalls = @ + 1,
                              !.status = IF fire.stalls < MaxStalled THEN "waiting" ELSE "failed"])
    /\ UNCHANGED <<schedulers, rows>>

\* The worker of the work queue runs a queued execution to its end.
RowEnds(i) ==
    /\ i \in DOMAIN rows /\ rows[i].status = "queued"
    /\ rows' = [rows EXCEPT ![i].status = "ended"]
    /\ UNCHANGED <<replica, schedulers, fires, worker, bullFaults>>

ReplicaStep(r) ==
    \/ CreateRow(r) \/ Refused(r) \/ Enqueue(r) \/ Acknowledge(r) \/ AttemptFails(r)
    \/ \E f \in 1..MaxFires : TakeFire(r, f)

BullNext ==
    \/ \E r \in Replicas : \/ BootReplica(r) \/ CloseReplica(r) \/ ReplicaDies(r)
                           \/ ReplicaStep(r) \/ CreateFails(r) \/ EnqueueFails(r)
    \/ \E s \in Schedules : SchedulerFires(s)
    \/ \E i \in 1..MaxRows : RowEnds(i)

-----------------------------------------------------------------------------
BullTypeOK ==
    /\ replica \in [Replicas -> {"none", "up", "closed"}]
    /\ schedulers \subseteq Schedules
    /\ \A f \in DOMAIN fires :
           /\ fires[f].schedule \in Schedules
           /\ fires[f].status \in {"waiting", "active", "completed", "failed"}
           /\ fires[f].attempts \in 0..Attempts /\ fires[f].stalls \in 0..(MaxStalled + 1)
    /\ Len(rows) <= MaxRows
    /\ \A i \in DOMAIN rows :
           rows[i].fire \in DOMAIN fires /\ rows[i].status \in {"STARTING", "queued", "ended"}
    /\ \A r \in Replicas :
           worker[r].phase \in {"idle", "launch", "enqueue", "return", "throw"}
           /\ worker[r].fire \in {0} \cup DOMAIN fires

(***************************************************************************)
(* A fire is never executed beside itself, and a fire of a "skip" schedule *)
(* never beside another fire of it: retries, stalled fires and several     *)
(* replicas included.  The schedules of a job that allows duplicate        *)
(* instances are the exception, to both: a retried fire of theirs runs     *)
(* beside itself, and "skip" skips none.                                   *)
(***************************************************************************)
FiresRunAlone ==
    \A i, j \in DOMAIN rows :
        LET schedule == fires[rows[i].fire].schedule IN
        (/\ i # j /\ rows[i].status # "ended" /\ rows[j].status # "ended"
         /\ schedule \notin Duplicates /\ schedule = fires[rows[j].fire].schedule)
            => rows[i].fire # rows[j].fire /\ Overlap[schedule] # "skip"

(***************************************************************************)
(* An acknowledged fire was handled: its own execution reached the work    *)
(* queue, or its schedule's policy is "skip" and an execution of the       *)
(* schedule was there.  (That execution may be the row of a failed launch, *)
(* which nobody runs: see the README.)                                     *)
(***************************************************************************)
AcknowledgedIsHandled ==
    \A f \in DOMAIN fires : fires[f].status = "completed" =>
        \E i \in DOMAIN rows :
            \/ rows[i].fire = f /\ rows[i].status # "STARTING"
            \/ /\ Overlap[fires[f].schedule] = "skip"
               /\ fires[rows[i].fire].schedule = fires[f].schedule
=============================================================================
