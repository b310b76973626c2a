---------------------------- MODULE ScheduleRegistry ----------------------------
(***************************************************************************)
(* The entries the explorer has put into the BatchScheduleRegistry by the  *)
(* time a schedule runtime bootstraps.  Every runtime reads the same ones. *)
(***************************************************************************)
EXTENDS Naturals

CONSTANTS
    Schedules,       \* entries, each a (jobId, scheduleName) pair
    Overlap,         \* [Schedules -> Policy]; a missing policy is "skip"
    Cron,            \* [Schedules -> CronExpression]
    Inert            \* entries decorated under BATCH_SCHEDULED_DISABLE=1

Policy == {"skip", "queue", "parallel"}

\* A cron expression of the right shape: the minute field is "*/n", another
\* minute list ("at") or no cron field at all ("bad", which only the cron
\* library notices); daily says whether the four other fields are "*".
CronExpression == [minute : {"step", "at", "bad"}, n : Nat, daily : BOOLEAN]

ASSUME RegistryAssumption ==
    /\ Overlap \in [Schedules -> Policy]
    /\ \A s \in Schedules : Cron[s] \in CronExpression
    /\ Inert \subseteq Schedules

\* What the cron library accepts: CronJob.from, upsertJobScheduler.
CronParses(s) == Cron[s].minute # "bad" /\ (Cron[s].minute = "step" => Cron[s].n \in 1..60)
=============================================================================
