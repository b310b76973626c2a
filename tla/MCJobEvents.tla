----------------------------- MODULE MCJobEvents -----------------------------
(***************************************************************************)
(* A tasklet step and a chunk step of one record.  Either two listeners    *)
(* and no webhook, or one job listener and two URLs.                       *)
(***************************************************************************)
EXTENDS JobEvents

Lambda(at, optional) == [place |-> at, ref |-> "builder-lambda", nonCritical |-> optional]

OneListener == {<<Lambda(at, optional)>> : at \in Places, optional \in BOOLEAN}

TwoListeners ==
    {<<Lambda(a, FALSE), Lambda(b, optional)>> :
        a \in LifecyclePlaces, b \in LifecyclePlaces, optional \in BOOLEAN}

Unresolved == {<<[place |-> <<"before", "job">>, ref |-> "provider-token", nonCritical |-> FALSE]>>}

JobListeners == {<<>>} \cup OneListener \cup TwoListeners \cup Unresolved

WebhookOptions ==
    {[urls |-> {}, events |-> {}, attempts |-> 4],
     [urls |-> {"u1", "u2"}, events |-> {}, attempts |-> 0],
     [urls |-> {"u1", "u2"}, events |-> {"JOB_FAILED"}, attempts |-> 2],
     [urls |-> {"u1"}, events |-> {"STEP_COMPLETED", "JOB_FAILED"}, attempts |-> 9]}

\* With a webhook, at most one listener, of the job.
FewCombinations ==
    options.urls = {} \/ (Len(listeners) <= 1 /\ \A i \in DOMAIN listeners : listeners[i].place[2] = "job")

JobSteps == <<"tasklet", "chunk">>

MCInit == Init /\ FewCombinations

MCSpec == MCInit /\ [][Next]_vars
=============================================================================
