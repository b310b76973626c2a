------------------------------ MODULE Application ------------------------------
(***************************************************************************)
(* One application with a queueing transport (BullMQ or Kafka), from its   *)
(* start to its shutdown and again: the module is wired, the explorer runs *)
(* on module init, then the bootstrap hooks of the core module (compile    *)
(* and register) and of the transport module (queue and worker), in the    *)
(* order Nest gives them.  Launches come at any time the process lives,    *)
(* the worker takes messages as soon as it is there, their handlers return *)
(* or throw, a shutdown may come before Kafka's consumer has started, and  *)
(* the process may die between any two steps; the next one may run another *)
(* deployment.                                                             *)
(***************************************************************************)
EXTENDS Discovery

CONSTANTS
    Deployments,     \* what may be deployed, each [classes, config, worker]
    JobIds,          \* the jobs that may be launched
    Launches,        \* bound: launches that are made
    MaxBoots,        \* bound: times the process is started
    MaxDeployed,     \* bound: starts that may each run another deployment
    Attempts,        \* BullMQ: attempts of a message
    MaxStalled       \* BullMQ: times a message may be found stalled

ASSUME ApplicationAssumption ==
    /\ {MaxBoots, MaxDeployed, Attempts} \subseteq Nat \ {0} /\ MaxStalled \in Nat
    /\ IsFiniteSet(Launches)

VARIABLES
    phase,           \* of the process: down, init, boot, up, closing, closed
    deployed,        \* what runs
    boots,           \* starts so far
    hooks,           \* bootstrap hooks still to run, in Nest's order
    registry,        \* JobRegistry: the ids registered
    schedules,       \* BatchScheduleRegistry: its entries
    queue,           \* the producer: it is not null
    closeError,      \* worker.close() rejected
    stray,           \* close() began while the consumer was still starting
    worker,          \* null, starting, idle, busy, closing
    caller,          \* [Launches -> none, or created, enqueued, error]
    asked,           \* [Launches -> the job it asked for]
    row,             \* [Launches -> its execution row: none, open, ended]
    message,         \* [Launches -> [at, tries, stalls]]
    thrown,          \* [Launches -> why its handler threw]
    order            \* the order of the two bootstrap hooks

processVars == <<phase, deployed, boots, hooks, registry, schedules>>
transportVars == <<queue, worker, closeError, stray>>
workVars == <<caller, asked, row, message, thrown>>
vars == <<processVars, transportVars, workVars, order>>

Classes == deployed.classes
Config == deployed.config
HasWorker == deployed.worker
Kafka == Wired(Config) = "kafka"
Alive == phase \in {"boot", "up", "closing", "closed"}
DeployedIds == {Classes[i].id : i \in DOMAIN Classes}

-----------------------------------------------------------------------------
(***************************************************************************)
(* The process ends, however it comes to that: what it held in memory is   *)
(* gone, and a caller that waits is cut off.  A message that was being     *)
(* worked on is delivered again; BullMQ's stalled check gives it up once   *)
(* it has stalled too often.                                               *)
(***************************************************************************)
Stalled(m) ==
    IF Kafka THEN [m EXCEPT !.at = "waiting"]
    ELSE [m EXCEPT !.stalls = @ + 1, !.at = IF m.stalls < MaxStalled THEN "waiting" ELSE "dead"]

ProcessEnds ==
    /\ phase' = "down"
    /\ registry' = {} /\ schedules' = {} /\ hooks' = <<>>
    /\ queue' = FALSE /\ worker' = None /\ closeError' = FALSE /\ stray' = FALSE
    /\ caller' = [l \in Launches |-> IF caller[l] = "created" THEN "error" ELSE caller[l]]
    /\ message' = [l \in Launches |->
                      IF message[l].at = "active" THEN Stalled(message[l]) ELSE message[l]]
    /\ UNCHANGED <<deployed, boots, asked, row, thrown>>

Crash == Alive /\ boots < MaxBoots /\ ProcessEnds

\* Nest calls the hooks module by module; which of the two global modules
\* comes first depends on its version and on the imports.
CoreFirst == <<"core", "transport">>
TransportFirst == <<"transport", "core">>

\* NestBatchModule.forRoot or forRootAsync, and Nest's container.
Start(d) ==
    /\ phase = "down" /\ boots < MaxBoots
    /\ boots' = boots + 1 /\ deployed' = d
    /\ phase' = IF Builds(d.config) THEN "init" ELSE "down"
    /\ hooks' = order
    /\ UNCHANGED <<registry, schedules, transportVars, workVars>>

\* BatchExplorer.onModuleInit: jobs are only collected, schedules registered;
\* the second schedule of the same name throws, in whichever class it is.
SchedulesOf(i) == CollectSchedules(Classes[i])

DuplicateSchedule ==
    \E i, j \in DOMAIN Classes :
        LET ours == SchedulesOf(i)
            theirs == SchedulesOf(j)
        IN  \E m \in DOMAIN ours, n \in DOMAIN theirs : <<i, m>> # <<j, n>> /\ ours[m] = theirs[n]

OnModuleInit ==
    /\ phase = "init"
    /\ \/ DuplicateSchedule /\ ProcessEnds
       \/ /\ ~DuplicateSchedule
          /\ schedules' = UNION {ToSet(SchedulesOf(i)) : i \in DOMAIN Classes}
          /\ phase' = "boot"
          /\ UNCHANGED <<deployed, boots, hooks, registry, transportVars, workVars>>

\* The jobs BatchBootstrapper gets to register before one throws.
Registrable ==
    LET good(i) == /\ Compiles(DiscoverFromProviders(Classes[i]))
                   /\ \A j \in 1..(i - 1) : Classes[j].id # Classes[i].id
    IN  {i \in DOMAIN Classes : \A j \in 1..i : good(j)}

HookDone == /\ hooks' = Tail(hooks)
            /\ phase' = IF Tail(hooks) = <<>> THEN "up" ELSE "boot"

\* Faulty variant: the error is logged and the next job tried.
BootstrapCoreOn ==
    LET good == Registrable IN
    /\ phase = "boot" /\ Head(hooks) = "core"
    /\ registry' = {Classes[i].id : i \in good} /\ HookDone
    /\ UNCHANGED <<deployed, boots, schedules, transportVars, workVars>>

BootstrapCore ==
    LET good == Registrable IN
    /\ phase = "boot" /\ Head(hooks) = "core"
    /\ \/ good # DOMAIN Classes /\ ProcessEnds
       \/ /\ good = DOMAIN Classes
          /\ registry' = {Classes[i].id : i \in good} /\ HookDone
          /\ UNCHANGED <<deployed, boots, schedules, transportVars, workVars>>

\* The runtime's onApplicationBootstrap: the producer, and a worker if asked
\* for.  Kafka's consumer is started without waiting for it.
BootstrapTransport ==
    /\ phase = "boot" /\ Head(hooks) = "transport"
    /\ queue' = TRUE
    /\ worker' = IF ~HasWorker THEN None ELSE IF Kafka THEN "starting" ELSE "idle"
    /\ HookDone
    /\ UNCHANGED <<deployed, boots, registry, schedules, closeError, stray, workVars>>

\* startConsumer has connected, subscribed and runs.  It does not look
\* whether close() has begun, or is over, meanwhile.
ConsumerRuns ==
    /\ worker = "starting"
    /\ worker' = "idle"
    /\ UNCHANGED <<processVars, queue, closeError, stray, workVars>>

\* It rejects, as it does when it finds the field empty that close() cleared;
\* nobody catches that, and Node ends the process.
ConsumerRejects ==
    /\ worker = "starting" /\ boots < MaxBoots
    /\ ProcessEnds

-----------------------------------------------------------------------------
\* JobLauncher.launch up to the row: an unknown job leaves no trace.
Launch(l, id) ==
    /\ Alive /\ caller[l] = None
    /\ asked' = [asked EXCEPT ![l] = id]
    /\ \/ /\ id \in registry
          /\ row' = [row EXCEPT ![l] = "open"] /\ caller' = [caller EXCEPT ![l] = "created"]
       \/ id \notin registry /\ caller' = [caller EXCEPT ![l] = "error"] /\ UNCHANGED row
    /\ UNCHANGED <<processVars, transportVars, message, thrown>>

\* strategy.launch: a producer that is null, or that fails, is an error to
\* the caller; the row stays.
Enqueue(l) ==
    /\ Alive /\ caller[l] = "created"
    /\ \/ /\ queue
          /\ message' = [message EXCEPT ![l].at = "waiting"]
          /\ caller' = [caller EXCEPT ![l] = "enqueued"]
       \/ caller' = [caller EXCEPT ![l] = "error"] /\ UNCHANGED message
    /\ UNCHANGED <<processVars, transportVars, asked, row, thrown>>

Known(l) == asked[l] \in registry

\* Kafka's topic has one partition: its messages come in their order.
Takes(l) ==
    /\ message[l].at = "waiting"
    /\ Kafka => \A k \in Launches : k < l => message[k].at # "waiting"

\* Faulty variant: the message is acknowledged when it is taken.
DeliverAcked(l) ==
    /\ worker = "idle" /\ Takes(l)
    /\ worker' = "busy" /\ message' = [message EXCEPT ![l].at = "done"]
    /\ UNCHANGED <<processVars, queue, closeError, stray, caller, asked, row, thrown>>

Deliver(l) ==
    /\ worker = "idle" /\ Takes(l)
    /\ worker' = "busy" /\ message' = [message EXCEPT ![l].at = "active"]
    /\ UNCHANGED <<processVars, queue, closeError, stray, caller, asked, row, thrown>>

\* A worker that was given up while it closed stays null.
Resting ==
    IF worker # "busy" THEN worker
    ELSE IF phase = "closing" /\ ~stray THEN "closing" ELSE "idle"

\* processJob: execute returns whether the job completed or failed.
Handle(l) ==
    /\ Alive /\ message[l].at = "active" /\ Known(l)
    /\ row' = [row EXCEPT ![l] = "ended"]
    /\ message' = [message EXCEPT ![l].at = "done"]
    /\ worker' = Resting
    /\ UNCHANGED <<processVars, queue, closeError, stray, caller, asked, thrown>>

\* The message of a handler that threw: BullMQ retries until the attempts are
\* used up, Kafka redelivers from the same offset.
Thrown(m) ==
    IF Kafka THEN [m EXCEPT !.at = "waiting"]
    ELSE [m EXCEPT !.tries = @ + 1, !.at = IF m.tries + 1 < Attempts THEN "waiting" ELSE "dead"]

\* The row when execute throws: as it was (a row that may not be restarted,
\* or cannot be read or written), open (a critical before:job listener),
\* or ended (a critical after:job listener).
LeftBy(l) == IF Known(l) THEN {row[l], "open", "ended"} ELSE {row[l]}

Reason(l) == IF Known(l) THEN "execute" ELSE IF asked[l] \in DeployedIds THEN "early" ELSE "unknown"

\* Faulty variant: the worker does not survive the error.
HandleThrowsStuck(l) ==
    /\ Alive /\ message[l].at = "active"
    /\ \E left \in LeftBy(l) : row' = [row EXCEPT ![l] = left]
    /\ message' = [message EXCEPT ![l] = Thrown(@)]
    /\ thrown' = [thrown EXCEPT ![l] = @ \cup {Reason(l)}]
    /\ UNCHANGED <<processVars, transportVars, caller, asked>>

\* registry.get throws, or execute itself.
HandleThrows(l) ==
    /\ Alive /\ message[l].at = "active"
    /\ \E left \in LeftBy(l) : row' = [row EXCEPT ![l] = left]
    /\ message' = [message EXCEPT ![l] = Thrown(@)]
    /\ thrown' = [thrown EXCEPT ![l] = @ \cup {Reason(l)}]
    /\ worker' = Resting
    /\ UNCHANGED <<processVars, queue, closeError, stray, caller, asked>>

-----------------------------------------------------------------------------
\* onApplicationShutdown: close() once, however often it is called.  Nothing
\* waits for a consumer that is still starting: there is nothing yet for its
\* disconnect to stop, and it may come to run when close() is long over.
OnApplicationShutdown ==
    /\ phase = "up" /\ boots < MaxBoots
    /\ phase' = "closing"
    /\ worker' = IF worker = "idle" THEN "closing" ELSE worker
    /\ stray' = (worker = "starting")
    /\ UNCHANGED <<deployed, boots, hooks, registry, schedules, queue, closeError, workVars>>

\* Faulty variant: close() does not wait for the worker.
CloseWorkerAtOnce ==
    /\ phase = "closing" /\ queue /\ worker # None /\ ~stray
    /\ worker' = None
    /\ UNCHANGED <<processVars, queue, closeError, stray, workVars>>

\* worker.close() waits for the handler.
CloseWorker ==
    /\ phase = "closing" /\ queue /\ worker = "closing"
    /\ worker' = None
    /\ UNCHANGED <<processVars, queue, closeError, stray, workVars>>

\* It rejects: the error is logged and the worker forgotten all the same.
CloseWorkerFails ==
    /\ phase = "closing" /\ queue /\ worker # None /\ ~stray
    /\ worker' = None /\ closeError' = TRUE
    /\ UNCHANGED <<processVars, queue, stray, workVars>>

\* The producer is the last to be closed; then the process exits.
CloseQueue ==
    /\ phase = "closing" /\ (worker = None \/ stray)
    /\ queue' = FALSE /\ phase' = "closed"
    /\ UNCHANGED <<deployed, boots, hooks, registry, schedules, worker, closeError, stray, workVars>>

Exit == phase = "closed" /\ ProcessEnds

-----------------------------------------------------------------------------
Init ==
    /\ phase = "down" /\ boots = 0 /\ deployed \in Deployments
    /\ hooks = <<>> /\ registry = {} /\ schedules = {}
    /\ queue = FALSE /\ worker = None /\ closeError = FALSE /\ stray = FALSE
    /\ caller = [l \in Launches |-> None]
    /\ asked = [l \in Launches |-> None]
    /\ row = [l \in Launches |-> None]
    /\ message = [l \in Launches |-> [at |-> None, tries |-> 0, stalls |-> 0]]
    /\ thrown = [l \in Launches |-> {}]
    /\ order \in {CoreFirst, TransportFirst}

\* The transport is not changed while messages of the old one are waiting.
SameTransport(d) == Wired(d.config) = Wired(Config) \/ boots = 0

MayDeploy(d) == SameTransport(d) /\ (boots < MaxDeployed \/ d = deployed)

Lifecycle ==
    \/ phase = "down" /\ \E d \in Deployments : MayDeploy(d) /\ Start(d)
    \/ OnModuleInit \/ BootstrapCore \/ BootstrapTransport \/ ConsumerRuns

Work == \E l \in Launches : Enqueue(l) \/ Deliver(l) \/ Handle(l) \/ HandleThrows(l)

Closing == CloseWorker \/ CloseQueue \/ Exit

Next ==
    \/ Lifecycle \/ Work \/ Closing
    \/ Crash \/ ConsumerRejects \/ OnApplicationShutdown \/ CloseWorkerFails
    \/ \E l \in Launches, id \in JobIds : Launch(l, id)

Live == Next /\ UNCHANGED order

(***************************************************************************)
(* What has begun goes on: Nest runs its hooks, the worker takes messages  *)
(* and its handlers return, a shutdown comes to its end, and whoever runs  *)
(* the application starts it again.                                        *)
(***************************************************************************)
Spec ==
    /\ Init /\ [][Live]_vars
    /\ WF_vars(Lifecycle /\ UNCHANGED order) /\ WF_vars(Closing /\ UNCHANGED order)
    /\ WF_vars(Work /\ UNCHANGED order)

-----------------------------------------------------------------------------
\* The parts of the process and of the messages have their types.
TypeOK ==
    /\ phase \in {"down", "init", "boot", "up", "closing", "closed"}
    /\ registry \subseteq DeployedIds /\ boots \in 0..MaxBoots
    /\ worker \in {None, "starting", "idle", "busy", "closing"}
    /\ \A l \in Launches :
        /\ message[l].at \in {None, "waiting", "active", "done", "dead"}
        /\ message[l].tries \in 0..Attempts /\ message[l].stalls \in 0..(MaxStalled + 1)

(***************************************************************************)
(* An application that is up has registered every job it was deployed      *)
(* with, no schedule fires for a job it does not know, and none was lost   *)
(* to another of its name: one job that does not compile, or is there      *)
(* twice, keeps the whole of it down, and so does a second schedule.  Its  *)
(* launches go to the transport the options name, unless forRootAsync was  *)
(* given a dependency that is not a plain value.                           *)
(***************************************************************************)
UpIsComplete ==
    phase = "up" =>
        /\ registry = DeployedIds /\ \A s \in schedules : s.jobId \in registry
        /\ ~DuplicateSchedule
        /\ Config.mode = "forRoot" \/ Config.inject = "useValue" => Wired(Config) = ModuleOptions(Config)

(***************************************************************************)
(* A launch that was accepted does not vanish: until its row says that the *)
(* job ended, its message is waiting, being worked on, or in the dead      *)
(* letters, whatever the process does meanwhile.  Where Nest runs the core *)
(* module's hook first no message is taken before the registry is filled,  *)
(* so dead letters are messages that stalled too often, whose job some     *)
(* deployment did not have, or whose execute threw.  (In the other order a *)
(* message can use up its attempts while the application boots.)           *)
(***************************************************************************)
AcceptedIsKept ==
    \A l \in Launches :
        /\ caller[l] = "enqueued" /\ row[l] # "ended" => message[l].at \in {"waiting", "active", "dead"}
        /\ message[l].at = "dead" => message[l].stalls > MaxStalled \/ thrown[l] # {}
        /\ order = CoreFirst => thrown[l] \subseteq {"unknown", "execute"}

(***************************************************************************)
(* When the producer is closed no handler is running: shutdown drains the  *)
(* worker before it lets go of the rest.  (Two kinds are not drained: a    *)
(* worker whose close() fails is given up with its handler, and a Kafka    *)
(* consumer that was still starting when the shutdown began goes on.)      *)
(***************************************************************************)
ClosedIsQuiet ==
    phase = "closed" /\ ~closeError /\ ~stray => \A l \in Launches : message[l].at # "active"

\* A message that Kafka can never get past: its job is not deployed.
Poison(l) == Kafka /\ \E k \in Launches : k <= l /\ message[k].at # "done" /\ asked[k] \notin DeployedIds

\* On Kafka, execute itself throws for a message.
ThrowsOnKafka(l) == Kafka /\ Known(l) /\ HandleThrows(l)

(***************************************************************************)
(* Every launch that was accepted is settled at last: its message is done  *)
(* or in the dead letters, if only the application comes up with a worker. *)
(* (Kafka has no dead letters: a message nobody can handle, or for which   *)
(* execute throws again and again, blocks the one partition.)              *)
(***************************************************************************)
AcceptedSettles ==
    \A l \in Launches :
        /\ []<>(phase = "up" /\ HasWorker /\ ~Poison(l))
        /\ \A k \in Launches : k <= l => <>[][~ThrowsOnKafka(k)]_vars
        => (caller[l] = "enqueued" ~> message[l].at \in {"done", "dead"})
=============================================================================
