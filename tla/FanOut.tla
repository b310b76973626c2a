-------------------------------- MODULE FanOut --------------------------------
(***************************************************************************)
(* A partitioned chunk step on a queue: BullmqRuntime.launch and           *)
(* KafkaRuntime.launch send one message per partition, workers take them   *)
(* in any order and concurrently, and every handler runs JobExecutor on    *)
(* the same execution row.  Sends fail half-way, workers die, chunks fail. *)
(* The task providers get one task whatever the job's partitions say, and  *)
(* may run it again when the worker's process ends with a code other than  *)
(* zero.                                                                   *)
(*                                                                         *)
(* A reader is handed no partition.  An "aware" one knows its slice by     *)
(* other means, as the readers of the partition tests do; a "plain" one    *)
(* starts at the beginning of the input whoever runs it.                   *)
(***************************************************************************)
EXTENDS WorkerArgs, Integers, FiniteSets, FiniteSetsExt

CONSTANTS
    Transports,      \* subset of {"bullmq", "kafka"} and TaskProviders
    Commands,        \* the workerCommands considered
    Reader,          \* "aware" or "plain"
    Counts,          \* the values of partitions.count considered
    Totals,          \* the sizes of the input considered
    MaxDeliveries,   \* attempts (3 in BullmqRuntime.launch), shortened
    MaxFaults        \* bound: failing sends, failing chunks, dying workers

ASSUME FanOutAssumption ==
    /\ Transports \subseteq {"bullmq", "kafka"} \cup TaskProviders
    /\ Commands \subseteq Seq([kind : {"flag", "flagWith", "word"}, name : STRING, value : STRING])
    /\ Reader \in {"aware", "plain"}
    /\ Counts \subseteq Nat \ {0} /\ \E c \in Counts : \A d \in Counts : d <= c
    /\ Totals \subseteq Nat
    /\ MaxDeliveries \in Nat \ {0}
    /\ MaxFaults \in Nat

VARIABLES
    transport, count, total,
    restartable,     \* jobDef.restartable
    lane,            \* Kafka: [ordinal -> the partition of the topic its key leads to]
    row,             \* status of the execution row all partitions share
    launch,          \* ordinals sent so far, and how the launch ended
    msg,             \* [ordinal -> the message's state and deliveries]
    handler,         \* [ordinal -> the handler of its current delivery]
    steps,           \* step rows in creation order
    written,         \* [record -> times the writer got it]
    faults

vars == <<transport, count, total, restartable, lane, row, launch, msg, handler, steps, written,
          faults>>
fixed == <<transport, count, total, restartable, lane>>

Terminal == {"COMPLETED", "FAILED"}

\* defaultRange(i, n, total): the records from first to last - 1.
DefaultRange(i, n, all) == <<(i * all) \div n, ((i + 1) * all) \div n>>

\* enforcePartitionIndex.
IndexInRange(i, n) == i \in 0 .. n - 1

\* One message per partition from count 2 on, else one for the whole step.
Messages == 0 .. Max(Counts) - 1
Partitioned == count >= 2 /\ transport \in {"bullmq", "kafka"}
Ordinals == IF Partitioned THEN 0 .. count - 1 ELSE {0}

\* Faulty variant: every handler is given the whole input.
SliceAll(m) == <<0, total>>

\* The part of the input that the reader of message m delivers when it is
\* read to its end.
Slice(m) ==
    IF Partitioned /\ Reader = "aware" THEN DefaultRange(m, count, total) ELSE <<0, total>>

\* Only Kafka's processMessage hands index and count to the executor, which
\* then caps the number of records read by the size of the range.
Capped == transport = "kafka" /\ Partitioned
Cap(m) == DefaultRange(m, count, total)[2] - DefaultRange(m, count, total)[1]
Length(m) ==
    LET size == Slice(m)[2] - Slice(m)[1] IN IF Capped THEN Min({size, Cap(m)}) ELSE size

\* A capped step reads its whole share as one chunk; otherwise chunkSize,
\* which is 1 here, is the size of a chunk.
ChunkLength(m) == IF Capped THEN Cap(m) ELSE 1

-----------------------------------------------------------------------------
Asleep == [at |-> "none", entry |-> "STARTING", step |-> 0, pos |-> 0]

Init ==
    /\ transport \in Transports
    /\ count \in Counts
    /\ total \in Totals
    /\ restartable \in BOOLEAN
    /\ lane \in IF transport = "kafka" THEN [Messages -> Messages] ELSE {[m \in Messages |-> m]}
    /\ row = "STARTING"
    /\ launch = [sent |-> 0, end |-> "none"]
    /\ msg = [m \in Messages |-> [state |-> "unsent", deliveries |-> 0]]
    /\ handler = [m \in Messages |-> Asleep]
    /\ steps = <<>>
    /\ written = [r \in 0 .. total - 1 |-> 0]
    /\ faults = 0

Send ==
    /\ transport \in {"bullmq", "kafka"}
    /\ launch.end = "none"
    /\ launch.sent \in Ordinals
    /\ msg' = [msg EXCEPT ![launch.sent].state = "queued"]
    /\ launch' = [sent |-> launch.sent + 1,
                  end |-> IF launch.sent + 1 \in Ordinals THEN "none" ELSE "returned"]
    /\ UNCHANGED <<fixed, row, handler, steps, written, faults>>

\* The producer throws: what was sent before stays in the queue.
SendFails ==
    /\ faults < MaxFaults
    /\ launch.end = "none"
    /\ launch' = [launch EXCEPT !.end = "thrown"]
    /\ faults' = faults + 1
    /\ UNCHANGED <<fixed, row, msg, handler, steps, written>>

\* The provider takes the task or not, and the launcher judges its answer: a
\* task without a name runs although the launch threw.
LaunchTask(answer) ==
    /\ transport \in TaskProviders
    /\ launch.end = "none"
    /\ answer # "id" => faults < MaxFaults
    /\ faults' = IF answer # "id" THEN faults + 1 ELSE faults
    /\ msg' = IF answer = "failures" THEN msg ELSE [msg EXCEPT ![0].state = "queued"]
    /\ launch' = [sent |-> 1, end |-> TaskLaunch(transport, answer)]
    /\ UNCHANGED <<fixed, row, handler, steps, written>>

\* A partition of a topic hands out a message when those before it are done.
InOrder(m) ==
    \A q \in Ordinals : q < m /\ lane[q] = lane[m] => msg[q].state \notin {"queued", "running"}

\* processJob, processMessage and BatchWorkerRunner.run begin by reading the row.
Deliver(m) ==
    /\ msg[m].state = "queued"
    /\ InOrder(m)
    /\ Partitioned => IndexInRange(m, count)
    /\ msg' = [msg EXCEPT ![m] = [state |-> "running", deliveries |-> @.deliveries + 1]]
    /\ handler' = [handler EXCEPT ![m] = [Asleep EXCEPT !.at = "read", !.entry = row]]
    /\ UNCHANGED <<fixed, row, launch, steps, written, faults>>

\* Fargate runs a task once; BullMQ and the other providers repeat it as they
\* are configured to; Kafka redelivers for ever and has no dead letter.
MayRepeat(m) ==
    CASE transport = "kafka" -> TRUE
      [] transport = "aws-ecs" -> FALSE
      [] OTHER -> msg[m].deliveries < MaxDeliveries

\* The delivery ends without an acknowledgement: another attempt, or none.
Requeue(m) ==
    /\ msg' = [msg EXCEPT ![m].state = IF MayRepeat(m) THEN "queued" ELSE "dead"]
    /\ handler' = [handler EXCEPT ![m] = Asleep]

\* Faulty variant: a throwing handler leaves its message where it is.
RefuseForgotten(m) ==
    /\ handler[m].at = "read"
    /\ handler[m].entry = "FAILED" /\ ~restartable
    /\ handler' = [handler EXCEPT ![m] = Asleep]
    /\ UNCHANGED <<fixed, row, launch, msg, steps, written, faults>>

\* A partition that enters after another one failed counts as a restart.  What
\* Kafka delivers without end is not counted: nothing was done with it.
Refuse(m) ==
    /\ handler[m].at = "read"
    /\ handler[m].entry = "FAILED" /\ ~restartable
    /\ IF transport = "kafka"
       THEN /\ msg' = [msg EXCEPT ![m] = [state |-> "queued", deliveries |-> @.deliveries - 1]]
            /\ handler' = [handler EXCEPT ![m] = Asleep]
       ELSE Requeue(m)
    /\ UNCHANGED <<fixed, row, launch, steps, written, faults>>

Enter(m) ==
    /\ handler[m].at = "read"
    /\ handler[m].entry = "FAILED" => restartable
    /\ row' = "STARTED"
    /\ handler' = [handler EXCEPT ![m].at = "started"]
    /\ UNCHANGED <<fixed, launch, msg, steps, written, faults>>

\* The step row, after a look at the latest one on a restart.  A checkpoint
\* found there makes the plain loop drain chunks before it writes any.
OpenStep(m) ==
    LET prior == IF handler[m].entry = "FAILED" /\ steps # <<>> THEN steps[Len(steps)]
                 ELSE [status |-> "none", chunks |-> 0]
        chunks == IF prior.status = "FAILED" THEN prior.chunks ELSE 0
    IN
    /\ handler[m].at = "started"
    /\ steps' = Append(steps, [status |-> "STARTING", chunks |-> chunks])
    /\ handler' = [handler EXCEPT ![m].at = "chunks", ![m].step = Len(steps) + 1,
                                  ![m].pos = Min({Length(m), chunks * ChunkLength(m)})]
    /\ UNCHANGED <<fixed, row, launch, msg, written, faults>>

\* One chunk: read, written, committed and checkpointed.
RunChunk(m) ==
    LET from == handler[m].pos
        to == Min({Length(m), from + ChunkLength(m)})
    IN
    /\ handler[m].at = "chunks"
    /\ from < Length(m)
    /\ written' = [r \in DOMAIN written |->
                       IF r - Slice(m)[1] \in from .. to - 1 THEN written[r] + 1 ELSE written[r]]
    /\ handler' = [handler EXCEPT ![m].pos = to]
    /\ steps' = [steps EXCEPT ![handler[m].step].chunks = @ + 1]
    /\ UNCHANGED <<fixed, row, launch, msg, faults>>

EndStep(m, s) ==
    /\ steps' = [steps EXCEPT ![handler[m].step].status = s]
    /\ handler' = [handler EXCEPT ![m].at = s]

CompleteStep(m) ==
    /\ handler[m].at = "chunks"
    /\ handler[m].pos = Length(m)
    /\ EndStep(m, "COMPLETED")
    /\ UNCHANGED <<fixed, row, launch, msg, written, faults>>

FailStep(m) ==
    /\ faults < MaxFaults
    /\ handler[m].at = "chunks"
    /\ handler[m].pos < Length(m)
    /\ EndStep(m, "FAILED")
    /\ faults' = faults + 1
    /\ UNCHANGED <<fixed, row, launch, msg, written>>

\* The terminal write, without a look at the row, and the acknowledgement:
\* execute returns normally also when the job failed.
SettleRow(m) ==
    /\ handler[m].at \in Terminal
    /\ transport \in TaskProviders => handler[m].at = "COMPLETED"
    /\ row' = handler[m].at
    /\ msg' = [msg EXCEPT ![m].state = "acked"]
    /\ handler' = [handler EXCEPT ![m] = Asleep]
    /\ UNCHANGED <<fixed, launch, steps, written, faults>>

\* The worker of a failed job ends with processExitCode 1: the provider sees
\* a failed task.
ExitFailed(m) ==
    /\ transport \in TaskProviders
    /\ handler[m].at = "FAILED"
    /\ row' = "FAILED"
    /\ Requeue(m)
    /\ UNCHANGED <<fixed, launch, steps, written, faults>>

\* Faulty variant: a message is acknowledged when it is taken.
WorkerDiesAcked(m) ==
    /\ faults < MaxFaults
    /\ msg[m].state = "running"
    /\ msg' = [msg EXCEPT ![m].state = "acked"]
    /\ handler' = [handler EXCEPT ![m] = Asleep]
    /\ faults' = faults + 1
    /\ UNCHANGED <<fixed, row, launch, steps, written>>

\* The worker dies: the stalled job, or the uncommitted offset, comes back.
WorkerDies(m) ==
    /\ faults < MaxFaults
    /\ msg[m].state = "running"
    /\ Requeue(m)
    /\ faults' = faults + 1
    /\ UNCHANGED <<fixed, row, launch, steps, written>>

Handle(m) ==
    \/ Deliver(m) \/ Refuse(m) \/ Enter(m) \/ OpenStep(m) \/ RunChunk(m)
    \/ CompleteStep(m) \/ SettleRow(m) \/ ExitFailed(m)

Next ==
    \/ Send \/ SendFails
    \/ \E answer \in Answers(transport) : LaunchTask(answer)
    \/ \E m \in Messages : Handle(m) \/ FailStep(m) \/ WorkerDies(m)

\* The launcher's loop runs on, and so does a worker that has a message.
Fairness == WF_vars(Send \/ LaunchTask("id")) /\ \A m \in Messages : WF_vars(Handle(m))

Spec == Init /\ [][Next]_vars /\ Fairness

-----------------------------------------------------------------------------
\* Row, messages, handlers and step rows have their types; no message is
\* delivered more often than its attempts, or Kafka's dying workers, allow.
TypeOK ==
    /\ row \in {"STARTING", "STARTED"} \cup Terminal
    /\ launch.sent \in 0 .. Cardinality(Ordinals)
    /\ \A m \in Messages :
        /\ msg[m].state \in {"unsent", "queued", "running", "acked", "dead"}
        /\ msg[m].deliveries \in 0 .. IF transport = "kafka" THEN MaxFaults + 1 ELSE MaxDeliveries
        /\ handler[m].pos \in 0..Length(m)
    /\ \A i \in DOMAIN steps : steps[i].status \in {"STARTING"} \cup Terminal
    /\ faults \in 0..MaxFaults

(***************************************************************************)
(* A worker started by a provider runs the row that was launched, whatever *)
(* command the words of the strategy are appended to.                      *)
(***************************************************************************)
TaskNamesItsRow ==
    transport \in TaskProviders => \A command \in Commands :
        LET argv == BuildWorkerArgs(command, "job", "execution", "params")
        IN  /\ ExecutionOf(argv) = "execution"
            /\ ParseBatchWorkerArgs(argv, "job-id") = "job"
            /\ ParseBatchWorkerArgs(argv, "params-json") = "params"

(***************************************************************************)
(* "process ONLY the partition's range": however deliveries interleave and *)
(* restart each other, a record is written at most once for each delivery  *)
(* of the message whose slice holds it.                                    *)
(***************************************************************************)
OnlyItsRange ==
    \A r \in DOMAIN written :
        \E m \in Ordinals :
            /\ Partitioned => /\ DefaultRange(m, count, total)[1] <= r
                              /\ r < DefaultRange(m, count, total)[2]
            /\ written[r] <= msg[m].deliveries

\* A job that is not restartable throws on its FAILED row whenever Kafka hands
\* it the message again, and the messages behind it in the lane never come.
RefusedForEver(m) ==
    /\ transport = "kafka" /\ ~restartable /\ row = "FAILED"
    /\ \/ handler[m].at = "none"
       \/ handler[m].at = "read" /\ handler[m].entry = "FAILED"

\* The launch has ended and no message is left that anything will come of.
Settled ==
    /\ launch.end # "none"
    /\ \A m \in Messages : msg[m].state \in {"unsent", "acked", "dead"} \/ RefusedForEver(m)

(***************************************************************************)
(* A record that nobody wrote is never silent, although the partitions     *)
(* overwrite each other's status on the shared row and a failed send keeps *)
(* the messages before it: the launch threw, or a message ran out of       *)
(* attempts, or a FAILED step row says so.  This is so for readers that    *)
(* know their slice: a plain one on Kafka starts at the first record       *)
(* whatever its partition, the executor ends it after as many records as   *)
(* the partition's range has, and nobody reads the others.                 *)
(***************************************************************************)
NoSilentLoss ==
    Settled /\ (\E r \in DOMAIN written : written[r] = 0) =>
        \/ launch.end = "thrown"
        \/ \E m \in Messages : msg[m].state = "dead"
        \/ \E i \in DOMAIN steps : steps[i].status = "FAILED"

(***************************************************************************)
(* Every message that was sent is acknowledged or given up, or Kafka       *)
(* redelivers it, or one before it, to a FAILED row that refuses it for    *)
(* ever; and the row the partitions share ends in a terminal status unless *)
(* the launch threw or a message was given up.                             *)
(***************************************************************************)
EveryPartitionEnds ==
    <>[](/\ Settled
         /\ row \in Terminal \/ launch.end = "thrown" \/ \E m \in Messages : msg[m].state = "dead")
=============================================================================
