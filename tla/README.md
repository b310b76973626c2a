# nest-batch: formal verification

TLA+ models of [nest-batch](../src/README.md), a Spring-Batch-like job framework for
NestJS, with TLC model checking of small instances and TLAPS proofs for all of them.
Paths below are relative to `src/packages/`; `core/…` stands for `core/src/…`.

- [Inventory of the system](#inventory-of-the-system)
- [Modules](#modules)
- [Runs](#runs)
- [What the violation run shows](#what-the-violation-run-shows)
- [Proofs](#proofs)
- [Fairness](#fairness)
- [Abstractions](#abstractions)
- [Disagreements found without a run](#disagreements-found-without-a-run)
- [Not modelled](#not-modelled)
- [Plan](#plan)

## Inventory of the system

A caller launches a job by name and parameters. `JobLauncher.launch` derives the job key,
asks the repository to create an execution row for the job instance
(`createExecutionAtomic`, the *launch gate*) and hands the execution id to an execution
strategy. The in-process strategy calls `JobExecutor.execute` in the same process. The
BullMQ and Kafka strategies put a message on a queue whose worker reads the row and calls
the executor; the cloud strategies start a task whose `BatchWorkerRunner` does the same.
The executor writes STARTED, runs the steps along the job's flow, and writes COMPLETED or
FAILED. `JobOperator` stops, abandons and restarts executions by rewriting their row or
calling the executor again. Schedules turn cron ticks into launches. Everything the parts
share is in the repository's rows; there is no other coordination between processes.

| Component | State | Operations | What makes it correct | Hard part |
|---|---|---|---|---|
| Launch gate: `createExecutionAtomic` of the in-memory and the SQL repositories | instance rows, execution rows and their status, row locks | get-or-create instance, lock, check for a running execution, insert | one running execution per instance; every launch is answered | two launchers between any two of the five statements; lost connections; writers that bypass the gate |
| Job executor (`core/execution/job-executor.ts`) | status of the job row, step rows, the current step | execute: STARTED, listeners, steps, terminal status | an execution ends or somebody is told; a failed step is not passed over | unconditional writes on stale reads; crash between two writes; throwing listeners |
| Execution strategies and transports (`in-process-execution-strategy.ts`, `bullmq-runtime.ts`, `kafka-runtime.ts`, `external-task-execution-strategy.ts`, `batch-worker-runner.ts`) | messages, delivery attempts | launch, deliver, redeliver, acknowledge | no row is left running in silence | redelivery of an execution that already ran; attempts used up; a strategy that throws after the row exists |
| Job operator (`core/execution/job-operator.ts`) | none; reads and writes rows | stop, abandon, restart, startNextInstance | acts only on executions in the right status | check, then act, with an executor in between |
| Chunk step executor (`core/execution/chunk-step-executor.ts`, `core/policies/*`) | reader position, chunk, skip counter, saved checkpoint | drain, read, process, write, checkpoint, skip, retry | nothing lost, restarts resume behind the checkpoint, skip limits hold | checkpoint outside the write's transaction; chunk count turned back into records; crash or error anywhere |
| Flow: `flow-evaluator.ts`, `definition-validator.ts`, the executor's routing | job definition, current step | validate; evaluate; decide; fall back on declaration order | stays inside the job, follows the most specific transition | four sources of a routing status; the fallback's edges are not validated |
| In-process schedule (`core/execution/in-process-schedule.ts`) | running count, one kept tick, stopped flag | bootstrap, tick, end of launch, shutdown | no overlap, order, no launch after shutdown, kept tick starts | a tick, an end and the shutdown hook in any order |
| BullMQ schedule (`bullmq-schedule.ts`) | schedulers in Redis, fires, attempts | install, fire, launch, retry | a fire runs at most once at a time; an acknowledged fire was handled | replicas, stalled fires, a launch that fails after its row exists |
| Kafka schedule (`kafka-schedule.ts`) | timers | install, fire, shut down | fires as often as cron would | an interval counted from the bootstrap |
| Repository adapters (`typeorm`, `drizzle`, `prisma`, `mikro-orm`, `postgresql`, `mysql`, in-memory) | instance, execution, step and context rows | the methods of `JobRepository` | every adapter keeps the same contract | statements without a transaction; per-column updates; ordering by clocks and ids |
| Partition helpers and fan-out (`partition-helpers.ts`, the runtimes' `launch`) | one row, several messages | ranges, one message per partition | ranges cover the input once; nothing lost in silence | several handlers write one row; sends that fail half-way |
| External tasks (`external-task-execution-strategy.ts`, `batch-worker-runner.ts`, `aws-*`, `kubernetes`) | tasks at a provider | launch, parse the command line, run, exit | the worker runs the row that was launched | unnamed tasks; tasks that are run again |
| Item readers and writers (`core/io/*`) | buffers, positions, headers, objects | open, read, write, update, close | restore to the saved position; nothing unaccounted for | read-ahead against the saved position; writes of unknown outcome |
| Listeners, events, webhook (`listener-invoker.ts`, `webhook-batch.observer.ts`) | resolver maps, deliveries | invoke, emit, deliver, retry, dead-letter | rows, events and listeners tell the same story | a throw at any of thirty places; late answers |
| Builders and compiler (`core/builder/*`, `core/compiler/*`) | the sentence being said | from, on, to, useFlow, build | a job runs as it was declared | calls in any order |
| Discovery, registry, module wiring (`batch-explorer.ts`, `job-registry.ts`, `nest-batch.module.ts`) | registry, wired adapters | discover, compile, register, hooks | an application is up complete or not at all | the order of hooks; a factory called twice |
| Job explorer (`job-explorer.ts`) | none | list, details | what is shown was once true | statement by statement beside running executions |
| Job key, admin routes, deployment recipes | none | canonical form, HTTP, manifests | equal parameters share an instance | none at run time |

The hazards these raise are listed one by one, each at its source line, in
`PROJECT.json` under `hazards`, with the properties that would catch them.

## Modules

```
LaunchGate              what createExecutionAtomic promises, one atomic step
  ├─ SqlLaunch          the five-statement SQL transaction; implements LaunchGate
  ├─ RepositoryLaunch   every adapter's statements; each implements LaunchGate
  └─ JobLifecycle       launch, transport, executor and operator on the same rows;
       │                implements LaunchGate (with re-entry)
       └─ MCJobLifecycle     a transport, or the in-process strategy
LaunchGate_proofs       about SqlLaunch and MCJobLifecycle
RepositoryScripts       statements as data
  ├─ <Adapter>Repository     one adapter each: its methods as scripts
  ├─ PostgresqlRepositories, MysqlRepositories   the three adapters of each package
  └─ RepositoryAdapters      all of them
       ├─ RepositoryLaunch   instances and executions
       └─ RepositoryRows     updates and restarts
            └─ RepositoryReads    JobExplorer's reads
RepositoryAdapters_proofs     about RepositoryLaunch and RepositoryReads
ChunkStep               one chunk step over all its runs      ── MCChunkStep, ChunkStep_proofs
ItemStreams             the shipped readers and writers       ── MCItemStreams, ItemStreams_proofs
WorkerArgs ── FanOut    partitions and tasks on a shared row  ── MCFanOut, FanOut_proofs
JobFlow ── JobBuilder   declaration, validation and routing   ── MCJobFlow, Application_proofs
JobEvents               listeners, events and webhooks        ── MCJobEvents, JobEvents_proofs
ScheduleRegistry        the entries every scheduler reads
  ├─ InProcessSchedule, BullmqSchedule, KafkaSchedule
  └─ ScheduleRuntimes   the one an application binds          ── MCScheduleRuntimes,
                                                                 ScheduleRuntimes_proofs
Discovery ── Application     wiring, boot, work, shutdown     ── MCApplication, Application_proofs
```

**LaunchGate** is the abstract specification. `instanceOf` and `status` are the
`job_instance_id` and `status` columns of the execution rows. `CreateExecution` is the
promise of the gate. `WriteStarted`, `WriteTerminal` and `WriteStopped` are all that
anybody does to a row afterwards: the executor's two writes and the operator's. The
constant `ReentryAllowed` says whether STARTED may be written over a row that had already
left the running statuses, which is what a restart or a redelivery does.

**SqlLaunch** runs one transaction per launcher: `Begin`, `InsertInstance`,
`LockInstance` (SKIP LOCKED, so a held row refuses at once: `RefuseLocked`),
`CheckRunning` or `RefuseRunning`, `InsertExecution`, `Commit`. `ConnectionLost` may end
it anywhere. PostgreSQL and MySQL differ in whether the insert of an existing row takes
its lock (`UpsertLocks`). An uncommitted row is private to its transaction; what the check
reads is what is committed at that moment (READ COMMITTED, and the read under the row lock
is each transaction's first consistent read on MySQL).

**RepositoryScripts** and the adapter modules. An adapter method is a *script*: the
statements it sends, in order, whether they share a transaction, and the options that
differ between adapters (what an insert of an existing row does, which error is caught,
whose clock stamps a row and how finely, what a query orders by). Each adapter has one
definition per method, named after it (with the ORM's name in front in the two modules that
hold a package's three adapters). **RepositoryLaunch** executes the scripts of
`getOrCreateJobInstance` and `createExecutionAtomic` for concurrent clients; its `Do…`
actions say what a statement does to the rows and locks. **RepositoryRows** executes
`updateJobExecution` and `updateStepExecution` (an executor, a redelivery's executor and an
operator on one row) and the step rows and contexts of a step that fails and is restarted.
**RepositoryReads** adds executions that are launched, fail, die, are stopped and entered
again (by a restart, a redelivery or another partition, also beside an executor at work and
also after COMPLETED) while `JobExplorer` lists them or collects their details. A behaviour
follows one workload.

**JobLifecycle** has one record per concurrent call of `JobExecutor.execute`: the row it
was handed (`entry` is the status it read then), whether it came from a delivery or from
an operator's restart, and how far it is. `StartExecution`, `RunSteps`, `EndExecution`,
`Return` are the phases of `execute`; `ExecuteThrows` is what leaves it uncaught (the
STARTED write, a critical listener, the FAILED write of its own catch block);
`HandleThrow` and `Crash` are what a transport makes of it. The operator's stop and
abandon are two steps, `RequestStop`/`RequestAbandon` (read) and `CompleteOperation`
(write), since the code awaits in between. `surfaced` records executions whose failure
reached a caller or ended up in the broker's failed set; a dying in-process server is
counted among them, as its caller's call breaks off.

**ChunkStep** follows one step over all its runs. `pc` is the place in the chunk loop;
`pos` is the reader's position, `steps` the persisted step rows with `lastChunkIndex` and
the stream's position; `streamReader` says whether the reader restores its own.
`FindCheckpoint` is the executor's lookup on restart; `DrainChunk` is how a plain reader is
advanced past committed chunks; `ReadItem`, `ProcessItem`, `WriteChunk`, `SaveCheckpoint`
and their `…Throws` counterparts are the phases, with `Verdict` for what `runPhase`
decides. `StepOutcome` and `FinishJob` are the two separate writes after the loop.
`written` and `dropped` are history: what the writer made durable and what was given up on
purpose.

**ItemStreams** drives each shipped reader (line, CSV and JSONL files, S3, paging and
cursor tables) and writer (CSV, JSONL, S3 objects, database batches) with the same chunk
loop, now with their own positions and buffers: `rd` is the reader in memory, `wr` the
writer, `saved` what `update()` put into the context. Lines are good, bad, blank or null;
rows may be deleted while the step runs; a write that is reported failed may have happened.

**FanOut** has the messages of one launch: `Send` sends one per partition, `Deliver` to
`SettleRow` are the handler of one, and all handlers share `row` and `steps`. `Slice` is
what the reader of a message delivers, `Cap` the range Kafka's handler gives the executor.
`MayRepeat` is who delivers again after a throw or a death: BullMQ and the providers up to
their attempts, Kafka for ever, in the order of the partition of the topic (`lane`).
With a task provider there is one task (`LaunchTask`), its answer is judged as the
provider's launcher judges it (**WorkerArgs**), and `ExitFailed` is the worker's exit code.
WorkerArgs also has the command line the strategies compose and the parser that reads it.

**JobBuilder** is the declaration of a job: `From`, `On`, `To`, `AddDecider`, `UseFlow` and
`Build` in any order a caller may write them, or `CompileFromDiscovered` for a decorated
class. What comes out is checked by `Valid` (`DefinitionValidator.validate`) and run by
**JobFlow**: `RunStep` is one iteration of the executor's loop with any verdict a step can
report (also after a listener has rewritten its status) and any answer of a decider.

**JobEvents** begins with which listeners exist and are called where, and whether a throw
propagates; then it is one `execute` of a tasklet step and a chunk step seen from
outside: `place` is the listener call the executor is in, each `After…` action the code
that follows it; `Emit` starts the deliveries of an event, which retry independently
(`Send`, `Accepted`, `Rejected`, `ServerError`, `TimedOut`, `LateArrival`), and the executor
goes on when the last of them is settled.

**InProcessSchedule** keeps `ScheduleState` per schedule as the code does, names each
tick by its number, and records what was launched. Node runs callbacks one at a time, so
`OnTick`, `LaunchEnds`, `Bootstrap` and `Shutdown` are single steps. **BullmqSchedule** has
schedulers shared by replicas and each replica's worker between creating a row, enqueueing
it and acknowledging the fire. **KafkaSchedule** counts minutes. **ScheduleRuntimes** binds
one of the three to the same entries.

**Discovery** computes what a decorated class compiles to and which adapters the module
wires; **Application** is the process around it: boot hooks in either order, launches,
the worker and its messages, shutdown, crash, and the next boot with another deployment.
`HandleThrows` is a handler that throws, since its job is unknown or for any reason
`execute` has; a shutdown that begins while Kafka's consumer still starts leaves it behind
(`stray`).

In every module, a definition commented *Faulty variant* is a plausible mistake in the
definition that follows it. The specifications do not use them; each shows that a
property notices the mistake.

## Runs

| Run | Properties | Bounds, and why they suffice |
|---|---|---|
| `sql_gate` | `AtMostOneRunning`, `ImplementsGate` | 3 launchers, 2 instances, 3 ids: a third execution can follow a finished one while two launchers are inside their transactions; PostgreSQL's locking |
| `repo_launch` | `InstanceAgreed`, `ImplementsGate`, `EveryCallReturns` | all 12 adapter variants, 2 clients on one key, each calling either method, one failing statement: every pair of statements meets |
| `repo_rows` | `NoTornRow`, `ResumesWhereStopped`, `ExplorerCoherent` | all adapters; 4 runs of a step with 2 chunks, each of which may die between its row and the context it copies; lists of 2 executions, or details of 1 with 2 step rows, 2 calls of `execute` each: a row can be entered again beside its executor or after COMPLETED |
| `life_strategies` | `NoSilentOrphan`, `OneInFlightInProcess`, `RowsFollowGate`, `ExecutionEnds` | 2 workers, 2 executions of 2 instances, one of a restartable job; one thrown error, one crash, one operator call, 3 attempts: each pair of them meets |
| `chunk_readers` | `CheckpointCovers`, `NoLostRecord`, `RestartResumes`, `JobCompletes` | 5 records in chunks of 2 (a short last chunk), one filtered and one refused record, skip and retry limit 1, 3 errors and a crash, 5 runs (one more than can fail) |
| `io` | `EveryRecordAccounted`, `RestartRepeatsNothing`, `OneObjectPerRecord` | 7 lines with one of each kind, 5 rows in pages of 3 and chunks of 2 (pages and chunks do not align), 2 errors, a deletion, 3 runs |
| `fanout` | `TaskNamesItsRow`, `OnlyItsRange`, `NoSilentLoss`, `EveryPartitionEnds` | readers that know their slice; 1 or 2 partitions of 0 or 3 records (an uneven split, empty ranges), restartable jobs and others, 3 deliveries on BullMQ and the providers (Kafka has no limit), 2 faults; commands of up to 2 words; ranges up to 6 by 6 in an ASSUME of `MCFanOut` |
| `fanout_bullmq` | `OnlyItsRange` (violated) | no faults, BullMQ with a reader that knows no slice |
| `flow_routing` | `FailureIsRouted`, `ValidatedWalk`, `BuiltAsSaid` | up to 5 builder calls, flows of up to 3 transitions, 3 steps, exact and wildcard patterns; 4 visits, one more than steps |
| `events` | `OutcomeReported`, `FailureHasCause`, `CheckpointMatchesWrites`, `DeliveryVerdictTrue` | a tasklet and a chunk step; any one listener or any two lifecycle listeners, each returning, throwing or rewriting; or up to 2 URLs with up to 4 attempts |
| `schedules` | `TicksTakeTurns`, `FiresRunAlone`, `AcknowledgedIsHandled`, `TimerKeepsUp`, `KeptTickStarts` | one schedule of each policy, one whose job allows duplicate instances, one inert, one with a cron expression that does not parse, one that Kafka's timers do not support; 3 ticks (one runs, one is kept, one dropped); 2 replicas, 2 fires of any of them, one fault; 130 minutes, two full hours from any minute up to 12 |
| `application` | `UpIsComplete`, `AcceptedIsKept`, `ClosedIsQuiet`, `AcceptedSettles` | 13 deployments, each with one thing changed, and one change of deployment; 2 launches, 3 boots, 2 attempts, 1 stall, both hook orders: a message can throw and stall, and be left behind by a deployment without its job |

What the properties say:

- *The gate.* `ImplementsGate`: seen from outside, the statements are one atomic step; in
  `sql_gate` for the common transaction, in `repo_launch` for each adapter's own statements.
  `AtMostOneRunning` is the reason it exists. (What is left of it when restarts and
  redeliveries write behind its back is `AtMostOneStarting`, a theorem below.)
  `InstanceAgreed`: all clients see one instance per key, and the "could not read it back"
  branch is never reached by a client none of whose own statements failed. `EveryCallReturns`:
  nobody waits for ever behind another launcher.
- *The rows.* `NoTornRow`: a terminal row was written by one update. `ResumesWhereStopped`:
  a restart whose prior run FAILED finds the last saved checkpoint, also when an earlier run
  died between its step row and the context it copies; one whose prior run died starts over,
  as `job-executor.ts:180` makes it. `ExplorerCoherent`: details that show COMPLETED show the
  last step ended, with its context, and rows come in order. It excepts the two cases in which
  the code does not give that: executors that ever shared the row (the partitions of
  `bullmq-runtime.ts:269`, a handler taken for dead), and a COMPLETED row that was entered
  again while it was read (a redelivery, `job-executor.ts:118`). A redelivery before the read
  is not excepted. Where an adapter does not give one of the three, the property names the
  adapter and the comment says why.
- *The lifecycle.* `NoSilentOrphan`: a row that is STARTING or STARTED (and so blocks its
  instance) has a message, a launch or an executor behind it, or its failure was reported.
  `ExecutionEnds`: it leaves those statuses or is reported. `RowsFollowGate`: executors,
  transports and operators do to the rows only what `LaunchGate` lets them do, so the
  environment `SqlLaunch` is verified in is the real one. `OneInFlightInProcess`:
  with the in-process strategy and no operator, two launches of an instance never execute
  together.
- *The chunk step and its streams.* `CheckpointCovers`: everything a restart would pass
  over was written or dropped on purpose. `NoLostRecord`: COMPLETED means every record was.
  `RestartResumes`: after a FAILED run, nothing below its checkpoint is written again.
  `JobCompletes`: when errors stop, restarting gets there. `EveryRecordAccounted`,
  `RestartRepeatsNothing`, `OneObjectPerRecord` say the same of the shipped readers and
  writers, each with the exceptions the code has.
- *Partitions and tasks.* `OnlyItsRange`: a record is written at most once per delivery of
  the message whose slice holds it. `NoSilentLoss`: when all is settled and a record is
  missing, a thrown launch, a dead message or a FAILED step says so. It holds for readers
  that know their slice (with BullMQ and the task providers for any reader); with a plain
  reader on Kafka it is false: `chunk-step-executor.ts:283-300` ends every partition after as
  many records as its range has, each counted from the first of the input, and the tail is
  lost without a trace.
  `TaskNamesItsRow`: the command line a worker parses names the row that was launched.
  `EveryPartitionEnds`: every message is acknowledged or given up, or Kafka delivers it (or
  one before it) again and again to a FAILED row that a job which is not restartable refuses
  (`job-executor.ts:114`); there is no third way to get stuck.
- *The flow.* `BuiltAsSaid`: the transitions are those the calls said. `FailureIsRouted`:
  the job goes on after a FAILED step only by a transition that asked for it.
  `ValidatedWalk`: a validated job never sends the executor to a missing step, and one whose
  transitions follow the declaration order never repeats a step.
- *Events.* `OutcomeReported`: one end event per job and step, agreeing with the rows and with
  what listeners last heard. `FailureHasCause`: nothing fails because of a nonCritical
  listener, except where its mark is lost. `CheckpointMatchesWrites`: listeners between write
  and checkpoint are the only thing that can part them. `DeliveryVerdictTrue`: delivered and
  dead-lettered mean what they say, and no URL gets more requests than configured. That
  `execute` settles whatever the URLs answer is the deadlock check of this run: no behaviour
  of the model is infinite, and only `Finished` may be the last step.
- *Schedules.* `TicksTakeTurns`: launches of a schedule do not overlap, repeat or overtake
  each other. `KeptTickStarts`: the kept tick starts when the running launch ends.
  `FiresRunAlone`: a fire never runs beside itself, a `skip` schedule's never beside another,
  unless the job allows duplicate instances: then every launch has a key of its own
  (`job-launcher.ts:97`) and the gate stops neither.
  `AcknowledgedIsHandled`: what an acknowledged fire is worth. `TimerKeepsUp`: a Kafka timer
  fires as often as cron.
- *The application.* `UpIsComplete`: every job registered, every schedule's job known and no
  schedule's name there twice, the transport the options name. `AcceptedIsKept`: an accepted
  launch does not vanish: until its row ends its message waits, is worked on or is a dead
  letter; a dead letter stalled too often or its handler threw, and if the core's hook runs
  first it threw because no such job is deployed or because `execute` did, never because the
  registry was still empty. `ClosedIsQuiet`: when the producer is closed no handler is at
  work, unless closing the worker failed or the shutdown began while Kafka's consumer was
  still starting, which nothing waits for. `AcceptedSettles`: what was accepted is done or a
  dead letter at last, if the application comes up with a worker again and again; on Kafka
  only behind messages whose job is deployed and for which `execute` does not throw for ever.

Each module's type invariant (`TypeOK`, `LifeTypeOK`, …) documents its state and is no
property of a run; `SqlTypeOK` is proved, and each of the inductive invariants below begins
with the types its proof needs.

Deadlock is checked in `sql_gate` and `events`. The other systems may really
stop: a job ends, a schedule shuts down, an application is closed.

## What the violation run shows

`fanout_bullmq`: `packages/bullmq/tests/partition-invariant.test.ts:10` says that the worker
body "drives the chunk executor to process ONLY the partition's range", and
`core/partition-helpers.ts:140` that BullMQ's `processJob` checks the payload's index. In
`bullmq-runtime.ts:412-431` the index of the payload is not used: `execute(execution,
jobDef)` runs the whole step for each message, and every record is written once per
partition. (The test's readers know their slice by other means.) Kafka's handler passes the
index, but the executor makes a number of records of it: the property holds in `fanout`, on
both transports, because the readers of that run know their slice.

## Proofs

Each theorem holds for every value of the constants that satisfies the ASSUMEs of its
modules: any sets of instances, launchers, workers, replicas, listeners and deployments, any
number of records, steps, ticks and minutes, any bounds. The ASSUMEs give the constants
their types and say that bounds are numbers; the theorems about
`ChunkStep`, two of those about `FanOut` and two of those about the rows have
hypotheses besides, named below. Every inductive invariant was first checked by TLC on the
run of its component. A module of proofs may be about two components that read the same
part of the code: `LaunchGate_proofs` is about both users of the gate, and
`Application_proofs` about how a job is declared and how an application boots with it.

`LaunchGate_proofs`, the SQL transaction:

| Theorem | Statement |
|---|---|
| `TypeCorrect` | `SqlSpec => []SqlTypeOK` |
| `OneStarting` | `SqlSpec => []AtMostOneStarting`, with and without re-entry, PostgreSQL and MySQL |
| `OneRunning` | `SqlSpec => []AtMostOneRunning` |
| `Refinement` | without re-entry, `SqlSpec => ImplementsGate` |

`AtMostOneRunning` is not inductive: a state in which two launchers have both passed the
check would satisfy it. `SqlIInv` adds what a transaction has earned by its position:
`LockInv` (from statement 2 on it holds the row lock), `VerifiedInv` (from statement 3 on
no execution of its instance is fresh, or running at all without re-entry) and `DrawnInv`
(the id it inserted is its own). The lock makes `VerifiedInv` stable, since only a commit
adds a row and only the lock's holder commits; `VerifiedInv` at the commit is the guard of
`LaunchGate!CreateExecution`, which gives the refinement.

`LaunchGate_proofs`, the lifecycle:

| Theorem | Statement |
|---|---|
| `NoOrphanIsSilent` | `LifeSpec => []NoSilentOrphan` |
| `RowsRefineGate` | with re-entry, `LifeSpec => RowsFollowGate` |
| `OneLaunchExecutes` | `MCSpec => []OneInFlightInProcess` |

`NoSilentOrphan` is not inductive: an executor that returns would leave a running row
behind if its terminal write could have been overwritten by a STARTED nobody answers for.
`LifeIInv` replaces it by `OwedInv`: every running row is owed a terminal write by an
executor that has not made one (or will report an error), by a message still to be
delivered, or was reported. `RunnerInv`, `ActiveInv` and `DeliveryInv` say that executors
and messages belong to rows that exist and that a delivery has one executor at a time;
`PendingInv` says on which rows the operator's half-done call may still write.

`sql_gate` is without re-entry and with PostgreSQL's locking. `OneStarting` covers all four
combinations, `OneRunning` and `Refinement` both databases without re-entry, as with it they
are false. `OneStarting` says more than `OneRunning` only with re-entry: two executions of an
instance may then run, but never are two of them fresh. No run checks it, since without
re-entry it follows from `AtMostOneRunning`; with `ReentryAllowed = TRUE` and
`UpsertLocks = TRUE` in `SqlLaunch_gate.cfg` and `AtMostOneStarting` as the only property TLC
agrees with it.

`OneInFlightInProcess` speaks of executors, the gate of rows. `InProcessInv` joins them:
`SendingIsFresh` (a launch that has not reached its executor has a fresh row),
`RowFollowsExecutor` (an executor is the only one its row ever has, so until its terminal
write the row has the status it gave it) and `OneRunningRow` (what the gate guards). None of
the three survives an operator's call, which is why the property is about a launch mode.

`RepositoryAdapters_proofs`, the launch side:

| Theorem | Statement |
|---|---|
| `InstancesAgree` | `Spec => []InstanceAgreed` |
| `AdaptersImplementGate` | `Spec => ImplementsGate` |

Both are about all twelve adapter variants, any clients and keys and any failing statements.
What the argument needs of an adapter is the shape of its two scripts (`Fits`:
`LookupScript` ends by reading back, `LaunchScript` has the instance locked, or the mutex
taken, before it looks for a running execution), and `EveryAdapterFits` checks the twelve
against it, so that a new adapter, or a changed one, is one lemma. `LaunchInv` then says what
a client has earned by the statement it is at (`Earned`): it holds the instance's lock or the
mutex (`Holds`), nothing is running any more (`Checked`), the row it will read back exists
(`Finds`). The subtle place is between the first two statements of a transaction: an insert
of an existing row may or may not lock it, so a transaction that found the row holds nothing
yet, and two clients may both be there; `SKIP LOCKED` and the lock decide between them.
`RowsKeyed` (an instance belongs to its key, whoever was answered) and `HolderLaunches` (only
transactions of a key lock its instance) complete it.

`RepositoryAdapters_proofs`, the rows:

| Theorem | Statement |
|---|---|
| `RowsAreWhole` | `ReadsSpec => []NoTornRow` |
| `RestartsResume` | with `ClocksAgree` and `SlotsGrow`, `ReadsSpec => []ResumesWhereStopped` |
| `ExplorerIsCoherent` | with `ClocksAgree`, `ReadsSpec => []ExplorerCoherent` |

`ClocksAgree` says that the clocks of two processes differ, the resolution of `created_at`
included, by at most the time between two runs; an order by a process's time means nothing
otherwise, and TLC finds a restart that takes up an older row. `SlotsGrow` says that
MikroORM is not used, or PostgreSQL uses no place of the table again (see *Rows* under
[Disagreements](#disagreements-found-without-a-run)). The constants of `repo_rows` satisfy
both (`Gap` 3, `Second` 2, clocks 0 or 1 ahead). As on the launch side, the adapters enter by
what their statements have in common (`EveryAdapterBehaves`). `WritersInv`: of the adapters
that update in one statement, what a writer still has to write are whole patches.
`RestartInv` has `NewestIsLatest` (the newest step row is after all others by whatever the
adapter orders by, and before any row still to come) and `RunInv` (a FAILED newest row holds
all that its run had committed; from the lookup on, the run itself carries it, whether it dies
before its context is copied or not). `ReadsInv` has, for every execution row, `RowInv`:
unless two executors ever shared it, it is `Alone`: at most one is at work, on the last step
row, and if the row says COMPLETED that step has ended, whatever came before. `StartsApart`
says that two executions of an instance start at least `Gap` apart, and `ReaderInv` that what
the explorer has read of a COMPLETED row is still so, unless the row was `entered` since.

`ChunkStep_proofs`:

| Theorem | Statement |
|---|---|
| `CheckpointsCover` | `ReaderKeepsCount /\ Spec => []CheckpointCovers` |
| `NothingLost` | `SkipsLeaveARecord /\ ReaderKeepsCount /\ Spec => []NoLostRecord` |
| `RestartsResume` | `ReaderKeepsCount /\ Spec => RestartResumes` |

A checkpoint is a chunk number, a record a position in the input: what relates them is
`PassedInv` (whatever the reader is past is settled or in the chunk in hand), `CountInv` (a
plain reader is past `ChunkSize` records for each chunk of the loop, or at the end of the
input), `ResumeInv` (a run that resumes is behind the row it took its checkpoint from) and
`EndInv` (past the last chunk, all is settled). The two hypotheses are exactly what the code
lacks (*All skipped*, *Drain* and *Readers and writers* under
[Disagreements](#disagreements-found-without-a-run)): `ReaderKeepsCount` asks that a retried
read delivers the record it failed on and that a plain reader is past a record it skips;
`SkipsLeaveARecord` that the skip limit is below the chunk size, so that skips cannot empty a
chunk. Both are up to the application's reader and policy, `MCChunkStep` assumes them of the
run, and without any one of these conditions TLC finds the loss.

`ItemStreams_proofs`:

| Theorem | Statement |
|---|---|
| `StreamsInOrder` | `Spec => []StreamInv` |
| `RecordsAreAccounted` | `Spec => []EveryRecordAccounted` |
| `RestartsDoNotRepeat` | `Spec => []RestartRepeatsNothing` |
| `RecordsHaveOneObject` | `Spec => []OneObjectPerRecord` |

For any lines, any table, any page and chunk size and any errors. A position means something
different to each reader: a line number, the id after which a cursor goes on, a number of
rows. `StreamInv` gives them one reading, the id of the last record read, as long as they
are `Aligned` (no row was deleted under a paging reader), and says that the buffer holds the
rows after it and the chunk those between checkpoint and position. Then `AccountInv`:
records up to the checkpoint are accounted for by the chunks before it, those up to the
reader too or they are in the chunk. `FileInv`: what a file or table holds lies below the
checkpoint, so that what is read after it is not there yet. `OneObjectPerRecord` speaks of
several runs, which need not see the same errors. `CutsInv` has one sequence of cuts of the
input for all of them: whatever was put as object *k* lies between the *k*-th and the next
cut. It is preserved because `EndsOnce`: a start and the input determine where a chunk ends,
at the record that fills it, at a null line of an S3 object or at the end. That is a statement
about the number of records that take a slot (`SlotInv`), and the property's premise,
`SameChunks`, is what it takes for the records that take a slot to be the same in each run.

`FanOut_proofs`:

| Theorem | Statement |
|---|---|
| `OnlyTheirRanges` | `KnownSlices /\ Spec => []OnlyItsRange` |
| `LossIsNeverSilent` | `EveryRecordRead /\ Spec => []NoSilentLoss` |
| `TasksNameTheirRow` | `Spec => []TaskNamesItsRow` |

The hypothesis `KnownSlices` says that the reader of a partitioned step knows its slice, or
that nothing is partitioned; `fanout_bullmq` shows why it is needed. `EveryRecordRead` is
weaker: `KnownSlices`, or Kafka is not among the transports. On BullMQ and with a task
provider a plain reader delivers too much, but never too little. `RangeBounds` and
`RangesCover` show for any size and count that the ranges of `defaultRange` lie within the
input, do not overlap and cover it. `FanInv` counts
deliveries: `OnceInv` says that a record of a slice has been written at most once per
delivery of its message, one less while the running handler is still ahead of it; `WroteInv`
that, as long as no step failed, a record behind a handler or in an acknowledged slice is
written. `StepsInv` keeps a FAILED step row for good, although the job's row may be
overwritten by a partition that completes later. `TasksNameTheirRow` is about
commands of any length with any flags in them: the parser is a recursion along the words,
and `LastWordsWin`, again by a least counterexample, says that what it answers from the
strategy's words on is what it answers from the first.

`Application_proofs`, declared jobs:

| Theorem | Statement |
|---|---|
| `FailuresAreRouted` | `BuilderSpec => []FailureIsRouted` |
| `ValidatedIsWalked` | `BuilderSpec => []ValidatedWalk` |
| `BuiltIsSaid` | `BuilderSpec => []BuiltAsSaid` |

They are about every job that the builders or a decorated class can declare and
`DefinitionValidator` lets pass. `WalkForward` strengthens "no step twice" to "the trail
increases and the current step is ahead of it", which the fallback on the declaration order
keeps as well as a forward transition does. `BuiltIsSaid` has to relate the builder's
variables to the whole history of calls: `PendingInv` says that the builder has pending what
the last sentence that was begun and not ended has said with its last `on()`, and
`SaidInv` that what is committed is what the ended sentences say. The
property counts transitions with a recursive sum, for which there is no induction; that such
a sum is not changed by a call that adds nothing follows from a least counterexample.

`JobEvents_proofs`:

| Theorem | Statement |
|---|---|
| `OutcomesAreReported` | `Spec => []OutcomeReported` |
| `FailuresHaveCauses` | `Spec => []FailureHasCause` |
| `CheckpointsMatchWrites` | `Spec => []CheckpointMatchesWrites` |
| `VerdictsAreTrue` | `Spec => []DeliveryVerdictTrue` |

`BaseInv` is shared by the four: `ControlInv` says in which part of `execute` each place and
each awaited event belongs, `CallsInv` that the listeners still to be called are registered
for that place and carry their own `nonCritical` flag, except at the step places of tasklet
steps. On it rest `FailureInv` (whoever is on the way to a failure has a cause),
`CheckpointInv` (only the after:item-write listeners lie between the commit and the
checkpoint, only after:chunk between the checkpoint and the count), `VerdictInv` and
`PendingInv` (a delivery's tries are the requests in its URL's log; only the last event may
have deliveries under way, since the executor waits for it), and `StepRowsInv`,
`StepEndsInv`, `JobEndInv` and `ToldInv`, which say for every step and for the job which end
events there are at each place, and that a listener not in the queue any more has heard the
result that the row is about to get, although all of them are called again after one has
thrown.

`ScheduleRuntimes_proofs`:

| Theorem | Statement |
|---|---|
| `TicksInTurn` | `RuntimesSpec => []TicksTakeTurns` |
| `FiresAlone` | `RuntimesSpec => []FiresRunAlone` |
| `AcknowledgedHandled` | `RuntimesSpec => []AcknowledgedIsHandled` |
| `TimersKeepUp` | `RuntimesSpec => []TimerKeepsUp` |

`TicksInv` says that a tick is kept only while a launch runs, and is later than every launched
one. `FiresInv` has one worker per fire (`HandsInv`), one running row per identity (`KeysInv`:
the identity is that of the job key, the UUID of a job that allows duplicate instances
included, so that "skip" is a property of the key and fails where the key is new each time)
and, in `HandledInv`, what a worker must have seen before it returns. `TimersInv` replaces the
two counts that `TimerKeepsUp` compares by quotients of the clock, equal up to one when the
step divides the hour.

`Application_proofs`, the process:

| Theorem | Statement |
|---|---|
| `UpApplicationsAreComplete` | `Spec => []UpIsComplete` |
| `AcceptedLaunchesAreKept` | `Spec => []AcceptedIsKept` |
| `ClosedApplicationsAreQuiet` | `Spec => []ClosedIsQuiet` |

`AppInv` follows the hooks (`HooksInv`), what is registered by then (`RegistryInv`) and the
worker (`WorkerInv`: a message it works on keeps it busy, it has one at a time, and it is
there while the application is closed only if it was `stray`). `AcceptedIsKept` is inductive
with these; it needs `RegistryInv` where a handler throws, since with the core's hook first a
worker runs only when every deployed job is registered.

### Only model-checked

- Liveness (`EveryCallReturns`, `ExecutionEnds`, `JobCompletes`, `EveryPartitionEnds`,
  `KeptTickStarts`, `AcceptedSettles`): fairness and ENABLED are outside what the proof
  system supports.

Every invariant and every safety property of the passing runs is stated by a theorem.

## Fairness

- `RepositoryLaunch`: a database executes the statements it is given and hands a lock to a
  waiting statement when the holder ends: strong fairness of each client's statements, since
  the lock may be taken and released many times meanwhile. Both databases queue waiters, and
  the promise chain of the in-memory repository is a queue too.
- `LifeFairSpec`, `MCSpec` of `MCJobLifecycle`: an executor's call runs on, and a broker
  delivers what it accepted when a worker is free. Errors, crashes and operator calls are
  never obliged to happen.
- `FairSpec` of `ChunkStep`: the executor runs on; somebody restarts a failed job and
  stops an orphaned one. The code does neither by itself: `JobCompletes` is a statement
  about what restarting achieves, not that anybody does it.
- `FanOut`: the launcher's loop and every handler that has a message run on.
- `ScheduleRuntimes`: launched jobs end. Nothing obliges a tick to come.
- `Application`: the process goes on with its hooks, the worker with its message, the
  shutdown with its closes. `AcceptedSettles` asks in addition that the application comes up
  with a worker again and again and, of Kafka, that `execute` throws for a message and those
  before it only finitely often.

## Abstractions

- Job parameters, contexts, names and messages are absent; an instance stands for one
  `(name, jobKey)` pair, an execution for its id. Delays and log lines are left out, times
  too except where rows are ordered by them (`RepositoryRows`) or timers run
  (`KafkaSchedule`).
- An error is skippable, retryable or neither; a predicate-based policy that classifies
  by attempt number is not distinguished. Backoff is a delay without a visible effect.
- In `ChunkStep` a read error happened before or after the reader moved past its record;
  `ItemStreams` has what each reader really does. `chunk_readers` leaves out a skippable
  error that does not move a plain reader; see below.
- The write of a chunk is all or nothing in `ChunkStep`, as with the database transaction
  managers. `ItemStreams` has files and objects, where it is not.
- An onStatus pattern is known by what it matches and how specific it is.
- `STOPPING` and `UNKNOWN` are never written to a job row, and are left out there.
- The order in which Nest runs the bootstrap hooks of two modules is external; both orders
  are explored.
- In `FanOut` an "aware" reader knows its slice by itself, since no reader is handed one.
- A word of a command line is a flag or not; a job id that begins with "--" would be taken
  for a flag and is left out.
- Kafka's offsets are committed with the acknowledgement in `FanOut` and `Application`; a
  crash between the two delivers a finished message again, which `JobLifecycle` and
  `RepositoryReads` have as a redelivery to a COMPLETED row.
- The bounds (`Max…`, the number of ids) only cut behaviours short; each is named where
  its constant is declared.

## Disagreements found without a run

Met while modelling, and reproducible with the modules here where settings are named:

- *Gate.* Restart or redelivery between a launcher's check and its commit leaves two
  running executions of an instance, although `core/repository/job-repository.ts:19` calls
  the check and the creation atomic (`ImplementsGate` with `ReentryAllowed = TRUE`).
- *Stop.* `job-launcher.ts:87` promises `JobExecutionAlreadyRunningError` while a launch is
  in flight; `stop` rewrites the row (`job-operator.ts:61`) and nothing stops the executor, so
  the next launch passes (`OneLaunchInFlight` as an invariant of `JobLifecycle`). `abandon`
  (81, 86) likewise overwrites an execution restarted between its read and its write.
- *Crash.* `chunk-step-executor.ts:464` promises that the next restart skips every committed
  chunk; after a crash the latest step row is STARTING, `job-executor.ts:180` finds no
  checkpoint, and the chunks are written again. `RestartResumes` speaks of FAILED runs only.
- *All skipped.* `chunk-step-executor.ts:236` reads "until reader returns null", but a chunk
  whose reads were all skipped breaks the loop at 342 and the step is COMPLETED with records
  unread (`NoLostRecord` with `SkipLimit >= ChunkSize`).
- *Drain.* A skipped read that consumed no record shortens a chunk, and the drain of a
  restart counts full chunks (`chunk-step-executor.ts:262`): a record is passed over. A
  filtered item uses up the skip policy's budget (400 against 658).
- *Routing.* `job-executor.ts:49` says that routing sees a status rewritten by an after:step
  listener; routing asks for the exit code first (310) and follows a COMPLETED transition
  after a step that is now FAILED. The fallback to the next step in declaration order adds
  edges that `definition-validator.ts:33` does not see: with a backward transition they form
  a cycle. Step ids that look like integers are reordered by `Object.keys` (147).
- *Builders.* `.to()` without `.on()` drops the transition in silence, where `FlowBuilder`
  throws; a custom code in `@OnTransition` becomes UNKNOWN (`definition-compiler.ts:95`);
  the listeners of a `StepBuilder` are never emitted (`step-builder.ts:145`); several steps
  without transitions are refused as unreachable although the executor would run them.
- *Rows.* The generic and PostgreSQL Prisma adapters update column by column
  (`prisma-job-repository.ts:246`) and MikroORM flushes differences
  (`mikroorm-job-repository.ts:206`): rows can be torn (drop the exception of `NoTornRow`).
  MikroORM calls `ctid` "monotonic per insert" (344): it is not once places are reused
  (`ResumesWhereStopped` with `SlotReuse = TRUE`). `created_at` has no fraction in
  `mysql/src/drizzle/schema.ts:69`. MikroORM lists steps by a random id; the in-memory
  repository lists executions oldest first, the others newest first.
- *Readers and writers.* A retried read leaves the line behind that threw
  (`chunk-step-executor.ts:676`); an S3 line `null` ends the input; the CSV writer takes its
  header for written before the append; paging by offset passes over rows when others are
  deleted.
- *Listeners and events.* `nonCritical` is lost for step listeners of tasklet steps
  (`job-executor.ts:513`); a throwing before:job listener leaves a STARTED row and no end
  event (138), a throwing after:job listener suppresses the end event (387), a step executor
  that throws has no STEP_FAILED; an after:write listener that throws makes a restart write
  the chunk again (`chunk-step-executor.ts:433`), an after:chunk listener leaves
  `commitCount` one short (480).
- *Webhook.* `module-options.ts:183` says that `events: []` is honoured; 213 falls back to the
  defaults. A timed-out request may still arrive, and the envelope carries no id to
  recognise it by.
- *Duplicates and overlap.* `core/scheduling/batch-scheduled.ts:11` says that `skip` drops a
  tick while a launch of the schedule runs; on BullMQ it does so by the job key, and a job
  with `allowDuplicateInstances` gets a new one at each launch (`job-launcher.ts:97`): its
  fires overlap, and a fire that is tried again may run beside itself (drop `Duplicates` from
  `FiresRunAlone`). BullMQ runs `queue` like `parallel`, although line 12 of the same comment
  says otherwise.
- *Schedules.* The Kafka schedule topic is read by nobody, although `kafka-schedule.ts:36` says
  the runtime's consumer processes it; its timers drift where the step does not divide the
  hour, every replica fires, and overlap policies are not consulted. `startAt` and `endAt`
  are never read. Under `skip`, the STARTING row of a launch that failed silences a BullMQ
  schedule for good (`bullmq-schedule.ts:293`). The in-process `queue` policy keeps one tick
  (`batch-scheduled.ts:12` against `in-process-schedule.ts:105`).
- *Start-up.* Where the transport's hook runs first, a worker takes messages before the
  registry is filled and uses up their attempts (`bullmq-runtime.ts:424`).
  `kafka-runtime.ts:181` says the topic is ensured BEFORE connecting; nothing awaits it. A
  rejected `startConsumer` (201) ends the process. `forRootAsync` calls its factory once
  before dependencies exist (`nest-batch.module.ts:467`).
- *Shutdown.* `startConsumer` is not awaited (`kafka-runtime.ts:201`, 358), and `close` (215,
  503) does not wait for it: a shutdown in between disconnects a consumer that is not yet
  there, and the start goes on to subscribe and run. A handler can then be at work after
  `close` (drop `~stray` from `ClosedIsQuiet`).
- *Poison messages.* The comment at `kafka-runtime.ts:381` expects "retry / dead-letter" from
  KafkaJS, which has no dead letters. A message whose handler always throws is delivered for
  ever and blocks its partition: its job is not deployed, a critical before:job listener
  throws, or its row is FAILED and the job not restartable (`job-executor.ts:114`).
- *Partitions on Kafka.* A reader that does not know its slice reads from the first record in
  every partition and is stopped after as many as the partition's range has
  (`chunk-step-executor.ts:283-300`): the tail of the input is read by nobody, and every step
  is COMPLETED (`NoSilentLoss` with `Reader = "plain"`).
- *Explorer.* The row of a COMPLETED execution whose message comes again is set back to
  STARTED (`job-executor.ts:118`), and with partitions it says COMPLETED when the first of
  them is done: details may then show COMPLETED and a step that still runs (drop the
  exceptions of `ExplorerCoherent`).
- *Tasks.* The children of an AWS Batch array job all run the same row; a Kubernetes job
  name is cut to 63 characters, so that a long prefix can make two executions collide.

## Not modelled

- The BullMQ event bridge (`bullmq-runtime.ts:366`), which reports queue events as batch
  events: it changes no row and nothing in the repository depends on it.
- `createJobExecution` and `getRunningJobExecution` of the adapters, which the core does not
  call; `findJobInstances` and `getJobInstance`, reads of rows that never change.
- `BatchWorkerRunner.run` without an execution id, which is a launch and an execution in one
  process: the in-process strategy of `JobLifecycle`.
- The canonical job key: a recursive conversion into a hash of which only equality matters.
- Built-in listeners, admin routes, deployment recipes, EventBridge requests, cloud API
  requests beyond their command line, signing: no state that a model checker would tell
  apart. Cron arithmetic is the cron library's.

## Plan

Modelling is complete as far as the list above goes, and the safety properties of the
passing runs are proved. What could be added:

1. The BullMQ event bridge, if something comes to depend on what it reports.
2. `RestartResumes` of `ChunkStep` with `ItemStreams` in the place of its plain reader, which
   would discharge `ReaderKeepsCount` for the shipped readers that keep count.
3. `LaunchInv` for adapters that are added: a lemma `Fits` each.
