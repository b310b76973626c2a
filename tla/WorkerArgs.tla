------------------------------ MODULE WorkerArgs ------------------------------
(***************************************************************************)
(* Launching an execution as a task of a cloud provider: the command line  *)
(* ExternalTaskExecutionStrategy and SqsExecutionStrategy compose, how the *)
(* worker parses it, and what each launcher makes of the provider's        *)
(* answer.  A word of the command line is a flag ("--name"), a flag with   *)
(* its value ("--name=value"), or anything else.                           *)
(***************************************************************************)
EXTENDS Naturals, Sequences

Flag(name) == [kind |-> "flag", name |-> name, value |-> "true"]
FlagWith(name, value) == [kind |-> "flagWith", name |-> name, value |-> value]
Word(value) == [kind |-> "word", name |-> "", value |-> value]

\* buildWorkerArgs and the workerArgs of buildMessage, after the command.
BuildWorkerArgs(command, job, execution, params) ==
    command \o <<Flag("job-id"), Word(job), Flag("job-execution-id"), Word(execution),
                 Flag("params-json"), Word(params)>>

\* Faulty variant: the word after a flag is its value, whatever it is.
ParsedAtGreedy(argv, i) ==
    IF argv[i].kind = "flag" /\ i < Len(argv)
    THEN [value |-> argv[i + 1].value, words |-> 2]
    ELSE [value |-> argv[i].value, words |-> 1]

\* What the loop of parseBatchWorkerArgs takes from argv at i: the value and
\* the number of words it consumes.
ParsedAt(argv, i) ==
    IF argv[i].kind = "flag" /\ i < Len(argv) /\ argv[i + 1].kind = "word"
    THEN [value |-> argv[i + 1].value, words |-> 2]
    ELSE [value |-> argv[i].value, words |-> 1]

\* parseBatchWorkerArgs: the value of a flag, or "undefined"; the last wins.
\* A leading "batch-worker" is dropped, as every other stray word is.
ParseBatchWorkerArgs(argv, name) ==
    LET from[i \in Nat] ==
            IF i > Len(argv) THEN "undefined"
            ELSE LET found == from[i + ParsedAt(argv, i).words]
                 IN  IF found = "undefined" /\ argv[i].kind # "word" /\ argv[i].name = name
                     THEN ParsedAt(argv, i).value
                     ELSE found
    IN  from[1]

\* The execution the worker is to run: an --execution-id is overridden by a
\* --job-execution-id.
ExecutionOf(argv) ==
    IF ParseBatchWorkerArgs(argv, "job-execution-id") # "undefined"
    THEN ParseBatchWorkerArgs(argv, "job-execution-id")
    ELSE ParseBatchWorkerArgs(argv, "execution-id")

-----------------------------------------------------------------------------
(***************************************************************************)
(* A provider's answer: it took the task and names it ("id"), took it and  *)
(* does not name it ("noId"), or could not place it ("failures", ECS).     *)
(***************************************************************************)
TaskProviders == {"aws-sqs", "aws-batch", "aws-ecs", "kubernetes"}

Answers(provider) == {"id", "noId"} \cup IF provider = "aws-ecs" THEN {"failures"} ELSE {}

\* Both fall back to a name of their own.
SqsLaunch(answer) == "returned"
KubernetesLaunch(answer) == "returned"

AwsBatchLaunch(answer) == IF answer = "noId" THEN "thrown" ELSE "returned"

EcsLaunch(answer) == IF answer = "id" THEN "returned" ELSE "thrown"

TaskLaunch(provider, answer) ==
    CASE provider = "aws-sqs" -> SqsLaunch(answer)
      [] provider = "aws-batch" -> AwsBatchLaunch(answer)
      [] provider = "aws-ecs" -> EcsLaunch(answer)
      [] provider = "kubernetes" -> KubernetesLaunch(answer)
=============================================================================
