------------------------------- MODULE JobEvents -------------------------------
(***************************************************************************)
(* One JobExecutor.execute seen from outside: the rows it leaves, the      *)
(* listeners it calls, the events it emits, and what the webhook observer  *)
(* makes of the events.  The steps run in declaration order (JobFlow has   *)
(* the transitions); a chunk holds one record.                             *)
(***************************************************************************)
EXTENDS Naturals, Sequences, Functions, FiniteSets, FiniteSetsExt

(***************************************************************************)
(* Listeners as JobExecutor builds them and ListenerInvoker dispatches     *)
(* them.  A definition carries its phase, its kind, the kind of its ref    *)
(* and its nonCritical flag; a place is a <<phase, kind>> pair, the prefix *)
(* of the resolver keys an invoke* method matches.                         *)
(***************************************************************************)
ItemKinds == {"item-read", "item-process", "item-write"}

\* The places invokeBefore, invokeAfter and invokeOnError are called for.
LifecyclePlaces ==
    {<<phase, kind>> : phase \in {"before", "after"}, kind \in {"job", "step", "chunk"}}
      \cup {<<"on-error", "step">>, <<"on-error", "chunk">>}

\* The places of invokeBeforeRead, invokeAfterRead, invokeOnReadError and of their
\* process and write counterparts.
ItemPlaces == {"before", "after", "on-error"} \X ItemKinds

\* The places of invokeOnSkipRead, invokeOnSkipProcess and invokeOnSkipWrite.
SkipPlaces == {"on-skip"} \X ItemKinds

Places == LifecyclePlaces \cup ItemPlaces \cup SkipPlaces

ListenerDefinitions ==
    [place : Places, ref : {"builder-lambda", "provider-token"}, nonCritical : BOOLEAN]

\* JobExecutor.resolveListenerRef: only a lambda (a builder function, or a decorated
\* method the compiler has bound) resolves; any other ref is passed over.
ResolveListenerRef(def) == def.ref = "builder-lambda"

\* JobExecutor.buildResolverMap: what resolves, under its place in registration order;
\* no two lambdas share a key.
BuildResolverMap(defs) == Restrict(defs, {i \in DOMAIN defs : ResolveListenerRef(defs[i])})

\* JobExecutor.buildLegacyStepResolvers: the map a tasklet step is given.  Only step
\* listeners are in it, and a bare function carries no flag.
BuildLegacyStepResolvers(resolvers) ==
    [i \in {j \in DOMAIN resolvers : resolvers[j].place[2] = "step"} |->
        [resolvers[i] EXCEPT !.nonCritical = FALSE]]

\* ListenerInvoker.invokeMatching, its choice: the entries of one place, called in
\* registration order.
Matching(resolvers, place) == Restrict(resolvers, {i \in DOMAIN resolvers : resolvers[i].place = place})

First(entries) == Min(DOMAIN entries)

Rest(entries) == Restrict(entries, DOMAIN entries \ {First(entries)})

\* Faulty variant: every listener that throws aborts the executor.
PropagatesAlways(entry) == TRUE

\* ListenerInvoker.invokeMatching, its failure policy.
Propagates(entry) == ~entry.nonCritical

-----------------------------------------------------------------------------

CONSTANTS
    Steps,           \* Seq({"tasklet", "chunk"}): the kinds of the job's steps
    Items,           \* records the reader of a chunk step has
    RetryLimit,
    Registered,      \* set of Seq(ListenerDefinitions): what a job may register
    RawOptions       \* set of [urls, events, attempts]: what forRoot may be given

EventTypes == {"JOB_STARTED", "JOB_COMPLETED", "JOB_FAILED",
               "STEP_STARTED", "STEP_COMPLETED", "STEP_FAILED"}

DefaultWebhookEvents == {"JOB_COMPLETED", "JOB_FAILED", "STEP_FAILED"}

MaxAttempts == 4

Urls == UNION {raw.urls : raw \in RawOptions}

ASSUME JobEventsAssumption ==
    /\ Steps \in Seq({"tasklet", "chunk"}) /\ Steps # <<>>
    /\ Items \in Nat /\ RetryLimit \in Nat
    /\ \A defs \in Registered : defs \in Seq(ListenerDefinitions)
    /\ RawOptions \subseteq [urls : SUBSET Urls, events : SUBSET EventTypes, attempts : Nat]

VARIABLES
    listeners,       \* the job's listeners, fixed
    options,         \* the resolved webhook options, fixed
    pc,
    place, queue,    \* the place being invoked and the listeners still to call
    step,            \* index of the current step, 0 before the first
    row, stepRow,    \* the persisted statuses
    result,          \* the step result handed to after:step
    input, attempt,  \* records left to read, attempt of the current phase
    chunk,           \* "none" | "read" | "processed" | "dropped": the chunk in hand
    commitCount, checkpoint,
    written,         \* [step index -> chunks whose transaction committed]
    events,          \* Seq of [type, step, to], to : what became of it at each URL
    next,            \* where the executor goes on once the observer has returned
    inflight,        \* [url -> events whose aborted request may still arrive]
    \* History, for the properties.
    received,        \* [url -> events the receiver has processed]
    sent,            \* [url -> Seq of events, one per request]
    told,            \* [step index -> statuses after:step listeners last heard]
    rewritten,       \* steps whose result an after:step listener has rewritten
    raised,          \* the listener failures that left the invoker
    workFailed       \* the job's own code failed beyond its policies

config == <<listeners, options>>
rows == <<row, stepRow>>
chunkState == <<input, attempt, chunk, commitCount, checkpoint, written>>
delivery == <<inflight, received, sent>>
history == <<told, rewritten, raised, workFailed>>
vars == <<config, pc, place, queue, step, rows, result, chunkState, events, next, delivery, history>>

(***************************************************************************)
(* resolveWebhookOptions: an empty event list falls back to the default,   *)
(* the number of attempts is clamped to 1..MaxAttempts.                    *)
(***************************************************************************)
ResolveWebhookOptions(raw) ==
    [raw EXCEPT !.events = IF @ = {} THEN DefaultWebhookEvents ELSE @,
                !.attempts = IF @ < 1 THEN 1 ELSE IF @ > MaxAttempts THEN MaxAttempts ELSE @]

StepIds == DOMAIN Steps

Init ==
    /\ listeners \in Registered
    /\ \E raw \in RawOptions : options = ResolveWebhookOptions(raw)
    /\ pc = "launched" /\ place = <<"before", "job">> /\ queue = <<>> /\ step = 0
    /\ row = "STARTING" /\ stepRow = [s \in StepIds |-> "none"] /\ result = "none"
    /\ input = Items /\ attempt = 1 /\ chunk = "none"
    /\ commitCount = 0 /\ checkpoint = 0 /\ written = [s \in StepIds |-> 0]
    /\ events = <<>> /\ next = "none" /\ inflight = [u \in Urls |-> {}]
    /\ received = [u \in Urls |-> {}] /\ sent = [u \in Urls |-> <<>>]
    /\ told = [s \in StepIds |-> {}] /\ rewritten = {} /\ raised = {}
    /\ workFailed = FALSE

IsChunk == step > 0 /\ Steps[step] = "chunk"

\* The executor calls the invoker: the resolvers of a tasklet step are the legacy ones.
Invoke(at) ==
    /\ pc' = "hook" /\ place' = at
    /\ queue' = LET all == BuildResolverMap(listeners) IN
                Matching(IF step > 0 /\ Steps[step] = "tasklet" /\ at[2] = "step"
                         THEN BuildLegacyStepResolvers(all) ELSE all, at)

-----------------------------------------------------------------------------
(***************************************************************************)
(* JobExecutor.emit and WebhookBatchObserver.onEvent: the executor waits   *)
(* for the observer, the observer for every URL.                           *)
(***************************************************************************)
Event(type) ==
    [type |-> type, step |-> step,
     to |-> [u \in options.urls |->
               IF type \in options.events THEN [state |-> "sending", tries |-> 0]
               ELSE [state |-> "ignored", tries |-> 0]]]

Emit(type, continue) ==
    /\ events' = Append(events, Event(type))
    /\ pc' = "emit" /\ next' = continue /\ UNCHANGED <<place, queue>>

Settled(e) == \A u \in options.urls : e.to[u].state # "sending"

\* JobExecutor.execute once an event is out: the before:job listeners, the step's
\* executor (whose first act is before:step), the next step, or the end.
Continue ==
    \/ /\ next = "beforeJob" /\ Invoke(<<"before", "job">>)
    \/ /\ next = "runStep" /\ Invoke(<<"before", "step">>)
    \/ /\ next = "route" /\ pc' = "route" /\ UNCHANGED <<place, queue>>
    \/ /\ next = "return" /\ pc' = "returned" /\ UNCHANGED <<place, queue>>

ObserverReturns ==
    /\ pc = "emit" /\ Settled(events[Len(events)])
    /\ Continue
    /\ UNCHANGED <<config, step, rows, result, chunkState, events, next, delivery, history>>

(***************************************************************************)
(* deliverToUrl and attemptOnce.  2xx ends the delivery, 4xx ends it as a  *)
(* dead letter, 5xx and a failed or aborted request use up an attempt.  A  *)
(* request that is aborted at the timeout may have been processed, or may  *)
(* be processed later.                                                     *)
(***************************************************************************)
Send(e, u) ==
    /\ e \in DOMAIN events /\ u \in options.urls /\ events[e].to[u].state = "sending"
    /\ events[e].to[u].tries < options.attempts
    /\ sent' = [sent EXCEPT ![u] = Append(@, e)]
    /\ UNCHANGED <<config, pc, place, queue, step, rows, result, chunkState, next, history>>

EndDelivery(e, u, state) ==
    events' = [events EXCEPT ![e].to[u] = [state |-> state, tries |-> @.tries + 1]]

\* One more attempt is used; the last one makes the delivery a dead letter.
UseAttempt(e, u) ==
    EndDelivery(e, u, IF events[e].to[u].tries + 1 = options.attempts THEN "dead-letter"
                      ELSE "sending")

Accepted(e, u) ==
    /\ Send(e, u) /\ EndDelivery(e, u, "delivered")
    /\ received' = [received EXCEPT ![u] = @ \cup {e}] /\ UNCHANGED inflight

Rejected(e, u) ==
    /\ Send(e, u) /\ EndDelivery(e, u, "refused") /\ UNCHANGED <<inflight, received>>

ServerError(e, u) ==
    /\ Send(e, u) /\ UseAttempt(e, u) /\ UNCHANGED <<inflight, received>>

\* Faulty variant: a request without an answer counts as delivered.
TimedOutAccepted(e, u) ==
    /\ Send(e, u) /\ EndDelivery(e, u, "delivered")
    /\ inflight' = [inflight EXCEPT ![u] = @ \cup {e}] /\ UNCHANGED received

TimedOut(e, u) ==
    /\ Send(e, u) /\ UseAttempt(e, u)
    /\ inflight' = [inflight EXCEPT ![u] = @ \cup {e}] /\ UNCHANGED received

\* The receiver gets to an aborted request, however late, or never does.
LateArrival(e, u) ==
    /\ e \in inflight[u]
    /\ inflight' = [inflight EXCEPT ![u] = @ \ {e}]
    /\ received' = [received EXCEPT ![u] = @ \cup {e}]
    /\ UNCHANGED <<config, pc, place, queue, step, rows, result, chunkState, events, next, sent,
                   history>>

Attempt(e, u) == Accepted(e, u) \/ Rejected(e, u) \/ ServerError(e, u) \/ TimedOut(e, u)

-----------------------------------------------------------------------------
(***************************************************************************)
(* JobExecutor.execute up to the first step.                               *)
(***************************************************************************)
Start ==
    /\ pc = "launched"
    /\ row' = "STARTED" /\ Emit("JOB_STARTED", "beforeJob")
    /\ UNCHANGED <<config, step, stepRow, result, chunkState, delivery, history>>

\* The next step of the job in declaration order: its row, its event.
CreateStep(s) ==
    /\ step' = s /\ stepRow' = [stepRow EXCEPT ![s] = "STARTING"]
    /\ result' = "none" /\ input' = Items /\ attempt' = 1 /\ chunk' = "none"
    /\ commitCount' = 0 /\ checkpoint' = 0 /\ written' = written
    /\ events' = Append(events, [Event("STEP_STARTED") EXCEPT !.step = s])
    /\ pc' = "emit" /\ next' = "runStep" /\ UNCHANGED <<place, queue, row>>

\* The job's row is written, then after:job listeners are called.
EndJob(status) ==
    /\ row' = status /\ Invoke(<<"after", "job">>)
    /\ UNCHANGED <<step, stepRow, result, chunkState, events, next>>

\* No transition is declared: a failed step ends the job, else the next one runs.
Route ==
    /\ pc = "route"
    /\ IF result = "FAILED" THEN EndJob("FAILED")
       ELSE IF step < Len(Steps) THEN CreateStep(step + 1)
       ELSE EndJob("COMPLETED")
    /\ UNCHANGED <<config, delivery, history>>

\* A step executor has returned its result.
EndStep(status) ==
    /\ stepRow' = [stepRow EXCEPT ![step] = status]
    /\ Emit(IF status = "FAILED" THEN "STEP_FAILED" ELSE "STEP_COMPLETED", "route")
    /\ UNCHANGED row

\* Faulty variant: the job is left COMPLETED when a step's executor throws.
StepThrowsAsIs ==
    /\ stepRow' = [stepRow EXCEPT ![step] = "FAILED"]
    /\ row' = "COMPLETED" /\ Invoke(<<"after", "job">>)
    /\ UNCHANGED <<events, next>>

\* A step executor has thrown: the step's row is FAILED, no step event is emitted,
\* and the job fails without being routed.
StepThrows ==
    /\ stepRow' = [stepRow EXCEPT ![step] = "FAILED"]
    /\ row' = "FAILED" /\ Invoke(<<"after", "job">>)
    /\ UNCHANGED <<events, next>>

-----------------------------------------------------------------------------
(***************************************************************************)
(* A listener is called.  It returns; or, at after:step, it returns having *)
(* rewritten the status of the live result; or it throws.                  *)
(***************************************************************************)
Hear == told' = IF place = <<"after", "step">>
                THEN [told EXCEPT ![step] = {t \in @ : t[1] # First(queue)} \cup {<<First(queue), result>>}]
                ELSE told

ListenerReturns ==
    /\ pc = "hook" /\ DOMAIN queue # {}
    /\ queue' = Rest(queue) /\ Hear
    /\ UNCHANGED <<config, pc, place, step, rows, result, chunkState, events, next, delivery,
                   rewritten, raised, workFailed>>

ListenerRewrites ==
    /\ pc = "hook" /\ DOMAIN queue # {} /\ place = <<"after", "step">>
    /\ queue' = Rest(queue) /\ told' = [told EXCEPT ![step] = {}]
    /\ rewritten' = rewritten \cup {step}
    /\ \E status \in {"COMPLETED", "FAILED"} \ {result} : result' = status
    /\ UNCHANGED <<config, pc, place, step, rows, chunkState, events, next, delivery, raised,
                   workFailed>>

ListenerIgnored ==
    /\ pc = "hook" /\ DOMAIN queue # {} /\ ~Propagates(queue[First(queue)])
    /\ queue' = Rest(queue) /\ Hear
    /\ UNCHANGED <<config, pc, place, step, rows, result, chunkState, events, next, delivery,
                   rewritten, raised, workFailed>>

\* Where a failure that leaves the invoker is caught.  The chunk executor's try spans
\* everything between before:step and the after:step of a completed step.
InChunkTry ==
    /\ IsChunk /\ place # <<"after", "job">>
    /\ \/ place[2] = "chunk" /\ place[1] # "on-error"
       \/ place[2] \in ItemKinds
       \/ place = <<"after", "step">> /\ chunk # "caught"

\* The definition behind the listener being called.
Registration == listeners[First(queue)]

InStepExecutor == step > 0 /\ place[2] # "job"

ListenerThrows ==
    /\ pc = "hook" /\ DOMAIN queue # {} /\ Propagates(queue[First(queue)])
    /\ Hear
    /\ raised' = raised \cup {[place |-> place, step |-> step,
                               nonCritical |-> Registration.nonCritical]}
    /\ \/ /\ InChunkTry
          /\ chunk' = "caught" /\ Invoke(<<"on-error", "chunk">>)
          /\ UNCHANGED <<rows, events, next>>
       \/ /\ ~InChunkTry /\ InStepExecutor
          /\ StepThrows /\ UNCHANGED chunk
       \/ /\ ~InStepExecutor
          /\ pc' = "rejected" /\ UNCHANGED <<place, queue, rows, chunk, events, next>>
    /\ UNCHANGED <<config, step, result, input, attempt, commitCount, checkpoint, written, delivery,
                   rewritten, workFailed>>

(***************************************************************************)
(* The listeners of a place have all been called.                          *)
(***************************************************************************)
HookDone(at) == pc = "hook" /\ DOMAIN queue = {} /\ place = at

AfterBeforeJob ==
    /\ HookDone(<<"before", "job">>)
    /\ CreateStep(1)
    /\ UNCHANGED <<config, delivery, history>>

AfterAfterJob ==
    /\ HookDone(<<"after", "job">>)
    /\ Emit(IF row = "COMPLETED" THEN "JOB_COMPLETED" ELSE "JOB_FAILED", "return")
    /\ UNCHANGED <<config, step, rows, result, chunkState, delivery, history>>

AfterBeforeStep ==
    /\ HookDone(<<"before", "step">>)
    /\ IF IsChunk THEN Invoke(<<"before", "chunk">>)
       ELSE pc' = "tasklet" /\ UNCHANGED <<place, queue>>
    /\ UNCHANGED <<config, step, rows, result, chunkState, events, next, delivery, history>>

\* after:step is over in either executor, and the result is returned.
AfterAfterStep ==
    /\ HookDone(<<"after", "step">>)
    /\ EndStep(result)
    /\ UNCHANGED <<config, step, result, chunkState, delivery, history>>

(***************************************************************************)
(* TaskletStepExecutor.execute.                                            *)
(***************************************************************************)
TaskletSucceeds ==
    /\ pc = "tasklet"
    /\ result' = "COMPLETED" /\ Invoke(<<"after", "step">>)
    /\ UNCHANGED <<config, step, rows, chunkState, events, next, delivery, history>>

TaskletFails ==
    /\ pc = "tasklet"
    /\ workFailed' = TRUE /\ Invoke(<<"on-error", "step">>)
    /\ UNCHANGED <<config, step, rows, result, chunkState, events, next, delivery, told, rewritten, raised>>

AfterErrorStep ==
    /\ HookDone(<<"on-error", "step">>)
    /\ result' = "FAILED" /\ Invoke(<<"after", "step">>)
    /\ UNCHANGED <<config, step, rows, chunkState, events, next, delivery, history>>

(***************************************************************************)
(* ChunkStepExecutor.execute and runPhase around one record: read,         *)
(* process, write, each before / work / after or on-error, the policies'   *)
(* answer, on-skip.                                                        *)
(***************************************************************************)
PhaseKind == place[2]

AfterBeforeChunk ==
    /\ HookDone(<<"before", "chunk">>)
    /\ attempt' = 1 /\ chunk' = "none" /\ Invoke(<<"before", "item-read">>)
    /\ UNCHANGED <<config, step, rows, result, input, commitCount, checkpoint, written, events, next,
                   delivery, history>>

AfterBeforeItem ==
    /\ \E kind \in ItemKinds : HookDone(<<"before", kind>>)
    /\ pc' = "work"
    /\ UNCHANGED <<config, place, queue, step, rows, result, chunkState, events, next, delivery,
                   history>>

\* The reader is at its end: no after:item-read, and the loop ends with an empty chunk.
EndOfInput ==
    /\ pc = "work" /\ PhaseKind = "item-read" /\ input = 0
    /\ Invoke(<<"after", "chunk">>)
    /\ UNCHANGED <<config, step, rows, result, chunkState, events, next, delivery, history>>

\* The writer's transaction commits before after:item-write is called.
WorkDone ==
    /\ pc = "work" /\ (PhaseKind = "item-read" => input > 0)
    /\ input' = IF PhaseKind = "item-read" THEN input - 1 ELSE input
    /\ chunk' = IF PhaseKind = "item-read" THEN "read" ELSE "processed"
    /\ written' = IF PhaseKind = "item-write" THEN [written EXCEPT ![step] = @ + 1] ELSE written
    /\ Invoke(<<"after", PhaseKind>>)
    /\ UNCHANGED <<config, step, rows, result, attempt, commitCount, checkpoint, events, next,
                   delivery, history>>

\* The processor returns null: the record is filtered out.
Filtered ==
    /\ pc = "work" /\ PhaseKind = "item-process"
    /\ chunk' = "dropped" /\ Invoke(<<"after", PhaseKind>>)
    /\ UNCHANGED <<config, step, rows, result, input, attempt, commitCount, checkpoint, written,
                   events, next, delivery, history>>

WorkFails ==
    /\ pc = "work" /\ (PhaseKind = "item-read" => input > 0)
    /\ Invoke(<<"on-error", PhaseKind>>)
    /\ UNCHANGED <<config, step, rows, result, chunkState, events, next, delivery, history>>

\* Faulty variant: the checkpoint is left to the end of the chunk.
SaveCheckpointLater == checkpoint' = checkpoint /\ Invoke(<<"after", "chunk">>)

\* withLastChunkIndex and saveExecutionContext, then after:chunk.
SaveCheckpoint == checkpoint' = checkpoint + 1 /\ Invoke(<<"after", "chunk">>)

AfterAfterItem ==
    /\ \E kind \in ItemKinds : HookDone(<<"after", kind>>)
    /\ attempt' = 1
    /\ \/ /\ PhaseKind = "item-read"
          /\ Invoke(<<"before", "item-process">>) /\ UNCHANGED checkpoint
       \/ /\ PhaseKind = "item-process" /\ chunk = "processed"
          /\ Invoke(<<"before", "item-write">>) /\ UNCHANGED checkpoint
       \/ /\ PhaseKind = "item-write" \/ chunk = "dropped"
          /\ SaveCheckpoint
    /\ UNCHANGED <<config, step, rows, result, input, chunk, commitCount, written, events, next,
                   delivery, history>>

\* The error is skipped: the on-skip listeners are called.
PolicySkips ==
    /\ \E kind \in ItemKinds : HookDone(<<"on-error", kind>>)
    /\ input' = IF PhaseKind = "item-read" THEN input - 1 ELSE input
    /\ Invoke(<<"on-skip", PhaseKind>>)
    /\ UNCHANGED <<config, step, rows, result, attempt, chunk, commitCount, checkpoint, written,
                   events, next, delivery, history>>

\* The error is retried, from the phase's before listeners on.
PolicyRetries ==
    /\ \E kind \in ItemKinds : HookDone(<<"on-error", kind>>)
    /\ attempt <= RetryLimit /\ attempt' = attempt + 1
    /\ Invoke(<<"before", PhaseKind>>)
    /\ UNCHANGED <<config, step, rows, result, input, chunk, commitCount, checkpoint, written, events,
                   next, delivery, history>>

PolicyGivesUp ==
    /\ \E kind \in ItemKinds : HookDone(<<"on-error", kind>>)
    /\ workFailed' = TRUE /\ chunk' = "caught" /\ Invoke(<<"on-error", "chunk">>)
    /\ UNCHANGED <<config, step, rows, result, input, attempt, commitCount, checkpoint, written,
                   events, next, delivery, told, rewritten, raised>>

\* A skipped read leaves a chunk of one record empty, which ends the loop; a skipped
\* process or write is a chunk that has been moved past.
AfterSkip ==
    /\ \E kind \in ItemKinds : HookDone(<<"on-skip", kind>>)
    /\ IF PhaseKind = "item-read"
       THEN Invoke(<<"after", "chunk">>) /\ UNCHANGED <<checkpoint, chunk>>
       ELSE SaveCheckpoint /\ chunk' = "dropped"
    /\ UNCHANGED <<config, step, rows, result, input, attempt, commitCount, written, events, next,
                   delivery, history>>

\* after:chunk is over: the next chunk, or, after an empty one, the end of the step.
AfterAfterChunk ==
    /\ HookDone(<<"after", "chunk">>)
    /\ IF chunk = "none"
       THEN /\ result' = "COMPLETED" /\ Invoke(<<"after", "step">>) /\ UNCHANGED commitCount
       ELSE /\ commitCount' = commitCount + 1 /\ Invoke(<<"before", "chunk">>) /\ UNCHANGED result
    /\ UNCHANGED <<config, step, rows, input, attempt, chunk, checkpoint, written, events, next,
                   delivery, history>>

AfterErrorChunk ==
    /\ HookDone(<<"on-error", "chunk">>)
    /\ Invoke(<<"on-error", "step">>)
    /\ UNCHANGED <<config, step, rows, result, chunkState, events, next, delivery, history>>

-----------------------------------------------------------------------------
Deliver == \E e \in DOMAIN events, u \in options.urls : Attempt(e, u)

Late == \E e \in DOMAIN events, u \in options.urls : LateArrival(e, u)

CallListener == ListenerReturns \/ ListenerRewrites \/ ListenerIgnored \/ ListenerThrows

ChunkStepRuns ==
    \/ AfterBeforeChunk \/ AfterBeforeItem \/ EndOfInput \/ WorkDone \/ Filtered \/ WorkFails
    \/ AfterAfterItem \/ PolicySkips \/ PolicyRetries \/ PolicyGivesUp \/ AfterSkip
    \/ AfterAfterChunk \/ AfterErrorChunk

ExecutorRuns ==
    \/ Start \/ ObserverReturns \/ Route
    \/ AfterBeforeJob \/ AfterAfterJob \/ AfterBeforeStep \/ AfterAfterStep
    \/ TaskletSucceeds \/ TaskletFails \/ AfterErrorStep
    \/ CallListener \/ ChunkStepRuns

\* execute has settled.
Over == pc \in {"returned", "rejected"}

\* The one state that may be final: a state without another step is one in which the
\* executor waits for ever, which TLC reports as a deadlock.
Finished == Over /\ UNCHANGED vars

Next == ExecutorRuns \/ Deliver \/ Late \/ Finished

Spec == Init /\ [][Next]_vars

-----------------------------------------------------------------------------
JobEnd == {"JOB_COMPLETED", "JOB_FAILED"}

\* The executor, the rows and the deliveries stay within their domains, and no URL is
\* tried more often than the four times the delay schedule provides for.
TypeOK ==
    /\ pc \in {"launched", "emit", "hook", "route", "tasklet", "work", "returned", "rejected"}
    /\ place \in Places /\ step \in 0..Len(Steps)
    /\ row \in {"STARTING", "STARTED", "COMPLETED", "FAILED"}
    /\ stepRow \in [StepIds -> {"none", "STARTING", "COMPLETED", "FAILED"}]
    /\ input \in 0..Items /\ attempt \in 1..(RetryLimit + 1)
    /\ \A e \in DOMAIN events : \A u \in options.urls :
         /\ events[e].to[u].tries \in 0..MaxAttempts
         /\ events[e].to[u].state \in {"ignored", "sending", "delivered", "refused", "dead-letter"}

\* When JobExecutor.execute is over, the events tell the rows: one job end event, the
\* last one, with the row's status, and for every step its end event with its row's
\* status.  The exceptions: a step whose executor threw (a listener did) has no end
\* event, and its job is FAILED; an after:job listener that throws suppresses the job's
\* end event; a before:job listener that throws leaves the row STARTED and no step.  What
\* an after:step listener of a chunk step last heard is that status too, although the
\* listeners are called again when one of them throws at COMPLETED; only a listener that
\* rewrites the result may leave the others with another.
OutcomeReported ==
    Over =>
      LET last == events[Len(events)]
          ends(s) == {e \in DOMAIN events : events[e].step = s
                                            /\ events[e].type \in {"STEP_COMPLETED", "STEP_FAILED"}}
          threw(s) == \E r \in raised : r.step = s /\ r.place[2] # "job"
      IN /\ Cardinality({e \in DOMAIN events : events[e].type \in JobEnd})
              = (IF pc = "returned" THEN 1 ELSE 0)
         /\ pc = "returned" => last.type = (IF row = "COMPLETED" THEN "JOB_COMPLETED" ELSE "JOB_FAILED")
         /\ row = "STARTED" => \E r \in raised : r.place = <<"before", "job">>
         /\ row = "COMPLETED" => \A s \in StepIds : stepRow[s] = "COMPLETED"
         /\ \A s \in StepIds :
              \/ stepRow[s] = "none"
              \/ \E e \in ends(s) : /\ ends(s) = {e}
                                    /\ events[e].type = (IF stepRow[s] = "FAILED" THEN "STEP_FAILED"
                                                         ELSE "STEP_COMPLETED")
              \/ ends(s) = {} /\ threw(s) /\ stepRow[s] = "FAILED" /\ row = "FAILED"
         /\ \A s \in StepIds : (Steps[s] = "chunk" /\ ends(s) # {} /\ s \notin rewritten) =>
              \A t \in told[s] : t[2] = stepRow[s]

\* A job fails, or execute rejects, only because its own code failed beyond its
\* policies, an after:step listener rewrote a result, or a listener that is not marked
\* nonCritical threw; the one exception is a step listener of a tasklet step, whose
\* mark is lost on the way.
FailureHasCause ==
    (row = "FAILED" \/ pc = "rejected") =>
      \/ workFailed
      \/ rewritten # {}
      \/ \E r \in raised : ~r.nonCritical \/ (r.place[2] = "step" /\ Steps[r.step] = "tasklet")

\* Once a chunk step has ended, every chunk whose write committed is covered by the
\* checkpoint, so a restart repeats none, and the step counts it as committed; unless an
\* after:item-write listener threw (the write stands, the checkpoint is not saved) or an
\* after:chunk listener did (the checkpoint is saved, the chunk is not counted).
CheckpointMatchesWrites ==
    (IsChunk /\ stepRow[step] \in {"COMPLETED", "FAILED"}) =>
      /\ written[step] <= checkpoint \/ \E r \in raised : r.place = <<"after", "item-write">>
      /\ checkpoint = commitCount \/ \E r \in raised : r.place = <<"after", "chunk">>

\* The observer's verdict on a delivery is true: a delivered event has been processed by
\* the receiver, a dead letter has had all its attempts, an event the URL did not ask for
\* was never sent, no URL gets more requests than configured, and nothing is left pending
\* once execute is over (deliverToUrl, deliverToAll).
DeliveryVerdictTrue ==
    \A e \in DOMAIN events : \A u \in options.urls :
      LET d == events[e].to[u]
          requests == Cardinality({i \in DOMAIN sent[u] : sent[u][i] = e})
      IN /\ d.state = "delivered" => e \in received[u]
         /\ d.state = "dead-letter" => requests = options.attempts
         /\ d.state = "ignored" => requests = 0
         /\ requests <= options.attempts
         /\ Over => d.state # "sending"
=============================================================================
