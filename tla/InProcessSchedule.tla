--------------------------- MODULE InProcessSchedule ---------------------------
(***************************************************************************)
(* InProcessSchedule: cron ticks turned into JobLauncher.launch calls in   *)
(* the server's own process, under the overlap policy of each schedule.    *)
(* Node runs one callback at a time, so a tick, the end of a launch and    *)
(* the shutdown hook are one step each; a launch is in flight in between.  *)
(* A launch always ends the same way here: errors are logged and dropped.  *)
(***************************************************************************)
EXTENDS ScheduleRegistry, Sequences, FiniteSets

CONSTANT
    MaxTicks         \* bound: ticks of a schedule in a behaviour

ASSUME ScheduleAssumption == MaxTicks \in Nat

\* The entries onApplicationBootstrap starts a cron job for.
Installed == {s \in Schedules \ Inert : CronParses(s)}

VARIABLES
    hook,            \* the last application hook: "none", "bootstrap", "shutdown"
    tick,            \* [Schedules -> Nat]: ticks so far; a tick is named by its number
    state,           \* [Schedules -> ScheduleState]
    launched         \* [Schedules -> Seq(Nat)]: the ticks launched, in order

scheduleVars == <<hook, tick, state, launched>>

\* No tick: queuedAt = null.
Null == 0

\* inFlight holds the launches the runningCount counts.
ScheduleState ==
    [runningCount : Nat, queued : BOOLEAN, queuedAt : 0..MaxTicks, inFlight : SUBSET (1..MaxTicks)]

Stopped == hook # "bootstrap"

ScheduleInit ==
    /\ hook = "none"
    /\ tick = [s \in Schedules |-> 0]
    /\ state = [s \in Schedules |->
                   [runningCount |-> 0, queued |-> FALSE, queuedAt |-> Null, inFlight |-> {}]]
    /\ launched = [s \in Schedules |-> <<>>]

\* onApplicationBootstrap: the jobs of the entries that can be installed start.
Bootstrap ==
    /\ hook = "none"
    /\ hook' = "bootstrap"
    /\ UNCHANGED <<tick, state, launched>>

\* onApplicationShutdown: the cron jobs stop, launches in flight go on.
Shutdown ==
    /\ hook = "bootstrap"
    /\ hook' = "shutdown"
    /\ UNCHANGED <<tick, state, launched>>

(***************************************************************************)
(* dispatch.  While a launch runs, "skip" drops the tick and "queue" keeps *)
(* it unless one is kept already; otherwise the job is launched at once.   *)
(***************************************************************************)
Held(s, st) == st.runningCount > 0 /\ Overlap[s] \in {"skip", "queue"}

Hold(s, st, at) ==
    IF Overlap[s] = "skip" THEN st
    ELSE [st EXCEPT !.queued = TRUE, !.queuedAt = IF @ = Null THEN at ELSE @]

StartLaunch(st, at) == [st EXCEPT !.runningCount = @ + 1, !.inFlight = @ \cup {at}]

Dispatch(s, st, at) ==
    IF Held(s, st)
    THEN /\ state' = [state EXCEPT ![s] = Hold(s, st, at)]
         /\ UNCHANGED launched
    ELSE /\ state' = [state EXCEPT ![s] = StartLaunch(st, at)]
         /\ launched' = [launched EXCEPT ![s] = Append(@, at)]

\* onTick of an installed cron job.
OnTick(s) ==
    /\ ~Stopped /\ s \in Installed
    /\ tick[s] < MaxTicks
    /\ tick' = [tick EXCEPT ![s] = @ + 1]
    /\ Dispatch(s, state[s], tick[s] + 1)
    /\ UNCHANGED hook

\* The launch's promise settles: its finally callback.
Ended(s, at) == [state[s] EXCEPT !.runningCount = @ - 1, !.inFlight = @ \ {at}]

\* Faulty variant: the time of the kept tick is not cleared.
TakeQueuedStale(st) == [st EXCEPT !.queued = FALSE]

TakeQueued(st) == [st EXCEPT !.queued = FALSE, !.queuedAt = Null]

\* Faulty variant: a kept tick waits for the next tick, not for the end.
LaunchEndsOnly(s, at) ==
    /\ at \in state[s].inFlight
    /\ state' = [state EXCEPT ![s] = Ended(s, at)]
    /\ UNCHANGED <<hook, tick, launched>>

LaunchEnds(s, at) ==
    /\ at \in state[s].inFlight
    /\ IF ~Stopped /\ Ended(s, at).runningCount = 0 /\ state[s].queued
       THEN Dispatch(s, TakeQueued(Ended(s, at)), state[s].queuedAt)
       ELSE state' = [state EXCEPT ![s] = Ended(s, at)] /\ UNCHANGED launched
    /\ UNCHANGED <<hook, tick>>

ScheduleNext ==
    \/ Bootstrap \/ Shutdown
    \/ \E s \in Schedules : OnTick(s) \/ \E at \in 1..MaxTicks : LaunchEnds(s, at)

ScheduleSpec == ScheduleInit /\ [][ScheduleNext]_scheduleVars

-----------------------------------------------------------------------------
\* The scheduler's state has its type.
ScheduleTypeOK ==
    /\ hook \in {"none", "bootstrap", "shutdown"}
    /\ tick \in [Schedules -> 0..MaxTicks]
    /\ state \in [Schedules -> ScheduleState]
    /\ launched \in [Schedules -> Seq(1..MaxTicks)]

(***************************************************************************)
(* "skip" and "queue" never run a schedule's job beside itself, and a tick *)
(* is launched at most once and never after a later one, in whatever order *)
(* ticks, ends of launches and the kept tick meet: a kept tick does not    *)
(* come back, nor does its time stick to a later one.                      *)
(***************************************************************************)
TicksTakeTurns ==
    \A s \in Schedules :
        /\ Overlap[s] # "parallel" => Cardinality(state[s].inFlight) <= 1
        /\ \A i, j \in DOMAIN launched[s] : i < j => launched[s][i] < launched[s][j]

(***************************************************************************)
(* A kept tick is not forgotten: once the running launch ends it starts,   *)
(* unless the application shuts down first.                                *)
(***************************************************************************)
KeptTickStarts ==
    \A s \in {e \in Installed : Overlap[e] = "queue"}, t \in 1..MaxTicks :
        (state[s].queued /\ state[s].queuedAt = t)
            ~> (hook = "shutdown" \/ t \in {launched[s][i] : i \in DOMAIN launched[s]})
=============================================================================
