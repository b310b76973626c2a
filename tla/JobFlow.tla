-------------------------------- MODULE JobFlow --------------------------------
(***************************************************************************)
(* The flow of a job: which step JobExecutor.execute runs next, and how    *)
(* the job ends.  A job definition is registered if DefinitionValidator    *)
(* accepts it; a step's outcome may be rewritten by its after:step         *)
(* listeners and re-labelled by a decider.                                 *)
(*                                                                         *)
(* Steps are numbered in declaration order; both ways to define a job      *)
(* (DefinitionCompiler, JobBuilder) start it at the first one.             *)
(* An onStatus pattern is known by the exit statuses it matches and by its *)
(* specificity, as matchesPattern and patternSpecificity compute them.     *)
(***************************************************************************)
EXTENDS Naturals, FiniteSets, Sequences, Bags, Functions

CONSTANTS
    NSteps,          \* number of steps of the job
    ExitStatuses,    \* exit codes and decider answers
    Patterns,        \* onStatus patterns
    MatchedBy,       \* [Patterns -> SUBSET ExitStatuses]
    Specificity,     \* [Patterns -> Nat]; above every wildcard's when exact
    Verdicts,        \* what a step may report: [status : StepStatuses, exitCode : ExitStatuses]
    DeciderStatuses, \* what a decider may answer, besides the empty string
    MaxVisits        \* bound: steps run in a behaviour

Steps == 1..NSteps
StartStep == 1
End == NSteps + 1            \* toStepId: null, or no step left
StepStatuses == {"COMPLETED", "FAILED", "UNKNOWN"}
NoAnswer == "none"

ASSUME FlowAssumption ==
    /\ NSteps \in Nat /\ MaxVisits \in Nat
    /\ MatchedBy \in [Patterns -> SUBSET ExitStatuses]
    /\ Specificity \in [Patterns -> Nat]
    /\ StepStatuses \subseteq ExitStatuses /\ NoAnswer \notin ExitStatuses
    /\ Verdicts \subseteq [status : StepStatuses, exitCode : ExitStatuses]
    /\ DeciderStatuses \subseteq ExitStatuses

VARIABLES
    job,             \* the registered definition: [transitions : a bag, deciders : a sequence]
    current,         \* currentStepId
    outcome,         \* "declared"; "refused" or "running"; COMPLETED, FAILED, NO_SUCH_STEP
    trail            \* the steps run, each with what routed it on

flowVars == <<job, current, outcome, trail>>

\* A transition may be declared twice, which makes it ambiguous.
TransitionsOf(j) == BagToSet(j.transitions)
DecidedSteps(j) == Range(j.deciders)

-----------------------------------------------------------------------------
\* DefinitionValidator.validate.
EndpointsExist(j) ==
    /\ \A t \in TransitionsOf(j) : t.from \in Steps /\ t.to \in Steps \cup {End}
    /\ DecidedSteps(j) \subseteq Steps
    /\ IsInjective(j.deciders)

\* The steps that the transitions of these lead to.
Targets(j, from) == {t.to : t \in {u \in TransitionsOf(j) : u.from \in from}} \ {End}

\* collectReachable: the steps that transitions lead to from these.
Reached(j, from) ==
    LET reach[n \in 0..NSteps] ==
            IF n = 0 THEN from ELSE LET r == reach[n - 1] IN r \cup Targets(j, r)
    IN  reach[NSteps]

\* The graph starts at the first step, and assertAcyclic: no step reaches itself.
Within(j) == Reached(j, {StartStep})
After(j, s) == Reached(j, Targets(j, {s}))

Valid(j) ==
    /\ NSteps > 0
    /\ EndpointsExist(j)
    /\ Steps \subseteq Within(j)
    /\ \A s \in Steps : s \notin After(j, s)

FlowInit ==
    /\ job = [transitions |-> EmptyBag, deciders |-> <<>>]
    /\ current = StartStep
    /\ outcome = "declared"
    /\ trail = <<>>

\* JobRegistry.register, once the compiler has validated the same definition.
Register(j) ==
    /\ outcome = "declared" /\ Valid(j)
    /\ job' = j /\ outcome' = "running"
    /\ UNCHANGED <<current, trail>>

Refuse(j) ==
    /\ outcome = "declared" /\ ~Valid(j)
    /\ outcome' = "refused"
    /\ UNCHANGED <<job, current, trail>>

-----------------------------------------------------------------------------
\* FlowEvaluator.evaluate: of the matching transitions, the most specific.
Matching(s, exit) == {t \in TransitionsOf(job) : t.from = s /\ exit \in MatchedBy[t.on]}

Best(ts) == {t \in ts : \A u \in ts : Specificity[u.on] <= Specificity[t.on]}

\* evaluate throws when more than one transition is best.
Ambiguous(ts) ==
    Cardinality(Best(ts)) > 1 \/ \E t \in Best(ts) : job.transitions[t] > 1

(***************************************************************************)
(* The exit status that routes a step: the decider's answer, else the exit *)
(* code; if no transition knows it, the step's status.                     *)
(***************************************************************************)
RoutedBy(s, verdict, answer) ==
    LET first == IF answer # NoAnswer THEN answer ELSE verdict.exitCode
    IN  IF Matching(s, first) # {} THEN first ELSE verdict.status

\* A decider after this step may answer anything; blank means no answer.
Answers(s) == IF s \in DecidedSteps(job) THEN DeciderStatuses \cup {NoAnswer} ELSE {NoAnswer}

Visit(s, verdict, exit) ==
    [step |-> s, status |-> verdict.status, exitCode |-> verdict.exitCode, exit |-> exit]

\* The head of the loop: null ends it and the job is COMPLETED; a step that
\* jobDef.steps does not have fails the job.
GoTo(s) ==
    /\ current' = s
    /\ outcome' = CASE s = End -> "COMPLETED"
                    [] s \in Steps -> "running"
                    [] OTHER -> "NO_SUCH_STEP"

JobFails ==
    /\ outcome' = "FAILED"
    /\ UNCHANGED current

\* Faulty variant: a failed step without a transition goes on in order.
RouteOnFailed(s, verdict, exit) ==
    LET ts == Matching(s, exit) IN
    \/ \E t \in Best(ts) : ~Ambiguous(ts) /\ GoTo(t.to)
    \/ Ambiguous(ts) /\ JobFails
    \/ ts = {} /\ GoTo(s + 1)

\* Faulty variant: the step without a transition is its own successor.
RouteInPlace(s, verdict, exit) ==
    LET ts == Matching(s, exit) IN
    \/ \E t \in Best(ts) : ~Ambiguous(ts) /\ GoTo(t.to)
    \/ Ambiguous(ts) /\ JobFails
    \/ ts = {} /\ verdict.status = "FAILED" /\ JobFails
    \/ ts = {} /\ verdict.status # "FAILED" /\ GoTo(s)

(***************************************************************************)
(* A transition that matches is followed, an ambiguous one throws.         *)
(* Without a match a FAILED step fails the job, and any other step is      *)
(* followed by the next one in declaration order.                          *)
(***************************************************************************)
Route(s, verdict, exit) ==
    LET ts == Matching(s, exit) IN
    \/ \E t \in Best(ts) : ~Ambiguous(ts) /\ GoTo(t.to)
    \/ Ambiguous(ts) /\ JobFails
    \/ ts = {} /\ verdict.status = "FAILED" /\ JobFails
    \/ ts = {} /\ verdict.status # "FAILED" /\ GoTo(s + 1)

RunStep(verdict, answer) ==
    LET exit == RoutedBy(current, verdict, answer) IN
    /\ outcome = "running" /\ current \in Steps
    /\ Len(trail) < MaxVisits
    /\ answer \in Answers(current)
    /\ trail' = Append(trail, Visit(current, verdict, exit))
    /\ Route(current, verdict, exit)
    /\ UNCHANGED job

\* The step executor or the decider throws: the catch block fails the job.
StepThrows ==
    /\ outcome = "running" /\ current \in Steps
    /\ Len(trail) < MaxVisits
    /\ JobFails
    /\ UNCHANGED <<job, trail>>

RunJob ==
    \/ \E v \in Verdicts, a \in DeciderStatuses \cup {NoAnswer} : RunStep(v, a)
    \/ StepThrows

-----------------------------------------------------------------------------
\* The executor's position and the trail have their types.
FlowTypeOK ==
    /\ TransitionsOf(job) \subseteq [from : Steps, on : Patterns, to : Nat]
    /\ job.deciders \in Seq(Steps)
    /\ current \in Nat
    /\ outcome \in {"declared", "refused", "running", "COMPLETED", "FAILED", "NO_SUCH_STEP"}
    /\ trail \in Seq([step : Steps, status : StepStatuses, exitCode : ExitStatuses,
                      exit : ExitStatuses])

\* Where the executor went after the k-th step it ran.
Successor(k) == IF k < Len(trail) THEN trail[k + 1].step ELSE current

\* The executor went on, or ended the job, after the k-th step it ran.
WentOn(k) == k < Len(trail) \/ outcome \in {"running", "COMPLETED"}

(***************************************************************************)
(* A FAILED step is never passed over: if the job went on after it, or     *)
(* ended COMPLETED, a transition of that step asked for it.                *)
(***************************************************************************)
FailureIsRouted ==
    \A k \in DOMAIN trail :
        trail[k].status = "FAILED" /\ WentOn(k) =>
            \E t \in TransitionsOf(job) :
                t.from = trail[k].step /\ trail[k].exit \in MatchedBy[t.on] /\ t.to = Successor(k)

\* Every transition of the job leads to a later step, or ends the job.
Forward(j) == \A t \in TransitionsOf(j) : t.from < t.to

(***************************************************************************)
(* What the validator accepted can be walked: no transition, decider or    *)
(* fall back on the declaration order leads to a step that is not there,   *)
(* and a job whose transitions follow the declaration order never comes    *)
(* back to a step it has run.  (The validator accepts backward             *)
(* transitions too; with those the fall back can close a cycle.)           *)
(***************************************************************************)
ValidatedWalk ==
    /\ outcome # "NO_SUCH_STEP"
    /\ Forward(job) => \A k, m \in DOMAIN trail : trail[k].step = trail[m].step => k = m
=============================================================================
