------------------------------- MODULE MCJobFlow -------------------------------
(***************************************************************************)
(* Job definitions for TLC.  A reusable flow has 1 to 3 transitions over   *)
(* the patterns below, and a decider after the first step or none.  Step 0 *)
(* exists in no job, so the validator has something to refuse.             *)
(***************************************************************************)
EXTENDS JobBuilder

Exits == {"COMPLETED", "FAILED", "UNKNOWN", "NO_DATA"}
SomePatterns == {"COMPLETED", "FAILED", "UNKNOWN", "*", "*ED"}
FlowPatterns == {"COMPLETED", "FAILED", "*", "*ED"}

Matches ==
    [p \in SomePatterns |->
        CASE p = "*"   -> Exits
          [] p = "*ED" -> {"COMPLETED", "FAILED"}
          [] OTHER     -> {p}]

\* Literal characters of the pattern, and 1000 more without a wildcard.
Weights ==
    [p \in SomePatterns |->
        CASE p = "*"         -> 0
          [] p = "*ED"       -> 2
          [] p = "COMPLETED" -> 1009
          [] p = "UNKNOWN"   -> 1007
          [] OTHER           -> 1006]

SomeTransitions == {t \in [from : Steps, on : FlowPatterns, to : 0..End] : t.from # t.to}

\* What steps report: as they are, a custom exit code, a rewritten status.
AnyVerdict ==
    {[status |-> s, exitCode |-> s] : s \in {"COMPLETED", "FAILED"}}
    \cup {[status |-> "COMPLETED", exitCode |-> "NO_DATA"],
          [status |-> "FAILED", exitCode |-> "COMPLETED"],
          [status |-> "UNKNOWN", exitCode |-> "COMPLETED"]}
=============================================================================
