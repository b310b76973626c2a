----------------------------- MODULE KafkaSchedule ------------------------------
(***************************************************************************)
(* KafkaSchedule of one process: setInterval timers that produce to the    *)
(* schedule topic.  Time is in minutes; a timer counts from the bootstrap, *)
(* not from the clock.  Overlap policies are not consulted, and every      *)
(* process fires on its own.                                               *)
(***************************************************************************)
EXTENDS ScheduleRegistry, FiniteSets

CONSTANTS
    BootBy,          \* bound: latest minute of the hour of the bootstrap
    Horizon,         \* bound: last minute of a behaviour
    MaxDropped       \* bound: sends that fail in a behaviour

VARIABLES
    minute,          \* the wall clock, from the start of an hour
    kafkaHook,       \* "none", "bootstrap", "shutdown"
    bootedAt,        \* minute of onApplicationBootstrap
    intervals,       \* schedules with a timer
    fired,           \* [Schedules -> Nat]: calls of fireSchedule
    topic,           \* [Schedules -> Nat]: messages on the schedule topic
    dropped          \* sends that failed

kafkaVars == <<minute, kafkaHook, bootedAt, intervals, fired, topic, dropped>>

KafkaInit ==
    /\ minute = 0 /\ kafkaHook = "none" /\ bootedAt = 0
    /\ intervals = {}
    /\ fired = [s \in Schedules |-> 0] /\ topic = [s \in Schedules |-> 0]
    /\ dropped = 0

\* No interval: the pattern is not supported.
NoInterval == 0

\* Faulty variant: only the minute field is looked at.
ParseCronToIntervalMinuteOnly(cron) ==
    IF cron.minute = "step" /\ cron.n \in 1..60 THEN cron.n ELSE NoInterval

\* parseCronToIntervalMs, in minutes.
ParseCronToInterval(cron) ==
    IF cron.daily /\ cron.minute = "step" /\ cron.n \in 1..60 THEN cron.n ELSE NoInterval

\* onApplicationBootstrap and installSchedule.
KafkaBootstrap ==
    /\ kafkaHook = "none" /\ minute <= BootBy
    /\ kafkaHook' = "bootstrap" /\ bootedAt' = minute
    /\ intervals' = {s \in Schedules \ Inert : ParseCronToInterval(Cron[s]) # NoInterval}
    /\ UNCHANGED <<minute, fired, topic, dropped>>

Due == {s \in intervals : (minute + 1 - bootedAt) % ParseCronToInterval(Cron[s]) = 0}

Counted(count, S) == [s \in Schedules |-> IF s \in S THEN count[s] + 1 ELSE count[s]]

\* A minute passes.  fireSchedule of the timers that are due: a send that
\* fails is logged and dropped.
Minute ==
    /\ minute < Horizon /\ kafkaHook # "shutdown"
    /\ minute' = minute + 1
    /\ fired' = Counted(fired, Due)
    /\ \E lost \in SUBSET Due :
           /\ Cardinality(lost) + dropped <= MaxDropped
           /\ topic' = Counted(topic, Due \ lost)
           /\ dropped' = dropped + Cardinality(lost)
    /\ UNCHANGED <<kafkaHook, bootedAt, intervals>>

\* onApplicationShutdown, close: the timers are cleared.
KafkaShutdown ==
    /\ kafkaHook = "bootstrap"
    /\ kafkaHook' = "shutdown" /\ intervals' = {}
    /\ UNCHANGED <<minute, bootedAt, fired, topic, dropped>>

KafkaNext == KafkaBootstrap \/ Minute \/ KafkaShutdown

-----------------------------------------------------------------------------
KafkaTypeOK ==
    /\ minute \in 0..Horizon /\ bootedAt \in 0..BootBy
    /\ kafkaHook \in {"none", "bootstrap", "shutdown"}
    /\ intervals \subseteq Schedules
    /\ fired \in [Schedules -> 0..Horizon] /\ topic \in [Schedules -> 0..Horizon]
    /\ dropped \in 0..MaxDropped

\* The minutes at which the cron expression itself is due (its other fields
\* taken to match no minute of the horizon unless they are all "*").
CronDue(s) ==
    IF ~Cron[s].daily THEN {}
    ELSE {m \in (bootedAt + 1)..minute :
              IF Cron[s].minute = "step" THEN (m % 60) % Cron[s].n = 0 ELSE m % 60 = Cron[s].n}

(***************************************************************************)
(* A timer keeps up with the cron expression it stands for: since the      *)
(* bootstrap it has fired as often as cron would have, give or take one,   *)
(* when the step divides the hour; and an expression that is not supported *)
(* does not fire at all rather than at another time.                       *)
(***************************************************************************)
TimerKeepsUp ==
    \A s \in Schedules :
        LET n == ParseCronToInterval(Cron[s]) IN
        IF ~Cron[s].daily \/ Cron[s].minute # "step" THEN fired[s] = 0
        ELSE (s \in intervals /\ 60 % n = 0) =>
                 /\ fired[s] <= Cardinality(CronDue(s)) + 1
                 /\ Cardinality(CronDue(s)) <= fired[s] + 1
=============================================================================
