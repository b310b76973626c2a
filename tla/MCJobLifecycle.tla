---------------------------- MODULE MCJobLifecycle ----------------------------
(***************************************************************************)
(* Both kinds of execution strategy in one instance of JobLifecycle: a     *)
(* behaviour follows a transport, with the operator at work, or the        *)
(* in-process strategy, where rows are entered once and nobody operates.   *)
(***************************************************************************)
EXTENDS JobLifecycle

VARIABLE strategy

mcVars == <<lifeVars, strategy>>

InProcess == INSTANCE JobLifecycle WITH Queued <- FALSE, ReentryAllowed <- FALSE, MaxOperations <- 0

Runs(w) == InProcess!StartExecution(w) \/ InProcess!RunSteps(w) \/ InProcess!Return(w) \/ InProcess!HandleThrow(w)
           \/ \E s \in {"COMPLETED", "FAILED"} : InProcess!EndExecution(w, s)

InProcessNext ==
    \/ \E i \in Instances, e \in Execs : InProcess!Launch(i, e)
    \/ \E e \in Execs : InProcess!SendFails(e) \/ \E w \in Workers : InProcess!Deliver(w, e)
    \/ \E w \in Workers : Runs(w) \/ InProcess!ExecuteThrows(w) \/ InProcess!Crash(w)

MCInit == LifeInit /\ strategy \in {"transport", "inProcess"}

MCNext ==
    \/ strategy = "transport" /\ LifeNext /\ UNCHANGED strategy
    \/ strategy = "inProcess" /\ InProcessNext /\ UNCHANGED strategy

\* The fairness of JobLifecycle, for either strategy.
MCSpec ==
    /\ MCInit /\ [][MCNext]_mcVars
    /\ \A w \in Workers : WF_lifeVars(strategy = "transport" /\ Execute(w))
                          /\ WF_lifeVars(strategy = "inProcess" /\ Runs(w))
    /\ \A e \in Execs :
           /\ WF_lifeVars(strategy = "transport" /\ Send(e))
           /\ WF_lifeVars(strategy = "transport" /\ \E w \in Workers : Deliver(w, e))
           /\ WF_lifeVars(strategy = "inProcess" /\ \E w \in Workers : InProcess!Deliver(w, e))

-----------------------------------------------------------------------------
(***************************************************************************)
(* With the in-process strategy two launches of an instance never execute  *)
(* at once, though launches throw and processes die between row and call.  *)
(* A transport does not give this once an operator has stopped a row.      *)
(***************************************************************************)
OneInFlightInProcess == strategy = "inProcess" => OneLaunchInFlight
=============================================================================
