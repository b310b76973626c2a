-------------------------- MODULE MCScheduleRuntimes ---------------------------
(***************************************************************************)
(* One schedule of each overlap policy, one that is inert and two whose    *)
(* cron expression a runtime cannot install.  The job of "nightly" allows  *)
(* duplicate instances.                                                    *)
(***************************************************************************)
EXTENDS ScheduleRuntimes

Entries == {"skip", "queue", "parallel", "inert", "bad", "nightly"}
ByName == [s \in Schedules |-> IF s \in Policy THEN s ELSE "skip"]
Crons == [s \in Schedules |->
    CASE s = "skip"   -> [minute |-> "step", n |-> 20, daily |-> TRUE]
      [] s = "queue"  -> [minute |-> "step", n |-> 60, daily |-> TRUE]
      [] s = "nightly" -> [minute |-> "step", n |-> 10, daily |-> FALSE]
      [] s = "bad"    -> [minute |-> "step", n |-> 0, daily |-> TRUE]
      [] OTHER        -> [minute |-> "step", n |-> 15, daily |-> TRUE]]
OnlyInert == {"inert"}
OnlyNightly == {"nightly"}
=============================================================================
