---------------------------- MODULE JobEvents_proofs ----------------------------
(***************************************************************************)
(* Proofs about JobEvents for any job, any listeners at any places and any *)
(* webhook options.  None of the four properties is inductive: each speaks *)
(* of the end of a step or of the run, and follows from what is true at    *)
(* each place on the way.  ControlInv says what the rows and the step      *)
(* result are wherever the executor can be, CallsInv which listeners are   *)
(* still to be called; the other invariants rest on these two.             *)
(***************************************************************************)
EXTENDS JobEvents, FiniteSetTheorems, SequenceTheorems, WellFoundedInduction, TLAPS

Ended == {"COMPLETED", "FAILED"}
DeliveryStates == {"ignored", "sending", "delivered", "refused", "dead-letter"}
Deliveries == [options.urls -> [state : DeliveryStates, tries : Nat]]
Events == [type : EventTypes, step : 0..Len(Steps), to : Deliveries]

RowsTyped ==
    /\ listeners \in Seq(ListenerDefinitions)
    /\ options \in [urls : SUBSET Urls, events : SUBSET EventTypes, attempts : Nat \ {0}]
    /\ step \in 0..Len(Steps)
    /\ row \in {"STARTING", "STARTED"} \cup Ended
    /\ stepRow \in [StepIds -> {"none", "STARTING"} \cup Ended]
    /\ result \in {"none"} \cup Ended
    /\ commitCount \in Nat /\ checkpoint \in Nat /\ written \in [StepIds -> Nat]
    /\ told \in [StepIds -> SUBSET (Nat \X ({"none"} \cup Ended))]
    /\ raised \subseteq [place : Places, step : 0..Len(Steps), nonCritical : BOOLEAN]

EventsTyped ==
    /\ events \in Seq(Events)
    /\ received \in [Urls -> SUBSET Nat]
    /\ sent \in [Urls -> Seq(1..Len(events))]

JobTyped == RowsTyped /\ EventsTyped

-----------------------------------------------------------------------------
\* The executor is inside a step executor, or waits to enter it.
InStep ==
    \/ pc \in {"tasklet", "work"}
    \/ pc = "hook" /\ place[2] # "job"
    \/ pc = "emit" /\ next = "runStep"

\* The step has returned its result, and the executor goes on with it.
StepOver == pc = "route" \/ (pc = "emit" /\ next = "route")

\* The job's row is in its final state.
JobOver ==
    \/ pc = "hook" /\ place = <<"after", "job">>
    \/ pc = "emit" /\ next = "return"
    \/ pc = "returned"
    \/ pc = "rejected" /\ step > 0

\* No step has been created yet.
NoStepYet ==
    \/ pc = "launched"
    \/ pc = "hook" /\ place = <<"before", "job">>
    \/ pc = "emit" /\ next = "beforeJob"
    \/ pc = "rejected" /\ step = 0

ControlInv ==
    /\ InStep \/ StepOver \/ JobOver \/ NoStepYet
    /\ pc = "launched" => events = <<>>
    /\ pc # "hook" \/ place \in Places
    /\ InStep => step > 0 /\ stepRow[step] = "STARTING" /\ row = "STARTED"
    /\ StepOver => step > 0 /\ stepRow[step] = result /\ result \in Ended /\ row = "STARTED"
    /\ JobOver => step > 0 /\ row \in Ended
    /\ NoStepYet => step = 0 /\ row = IF pc = "launched" THEN "STARTING" ELSE "STARTED"
    /\ pc = "rejected" /\ step = 0 => \E r \in raised : r.place = <<"before", "job">>
    /\ pc = "tasklet" => ~IsChunk
    /\ pc = "hook" /\ place[2] \in {"chunk"} \cup ItemKinds => IsChunk
    /\ pc = "work" => IsChunk /\ place \in {"before"} \X ItemKinds
    /\ pc = "hook" /\ place = <<"after", "step">> => result \in Ended

\* Listeners still to be called are registered for the place; their flag is the
\* registered one, except at the step places of a tasklet step.
CallsInv ==
    pc = "hook" =>
        /\ DOMAIN queue \subseteq DOMAIN listeners
        /\ \A i \in DOMAIN queue :
              /\ ResolveListenerRef(listeners[i]) /\ listeners[i].place = place
              /\ \/ queue[i].nonCritical = listeners[i].nonCritical
                 \/ step > 0 /\ Steps[step] = "tasklet" /\ place[2] = "step"

BaseInv == JobTyped /\ ControlInv /\ CallsInv

-----------------------------------------------------------------------------
\* The job's failure, or the way to it, has a cause.
Cause ==
    \/ workFailed
    \/ rewritten # {}
    \/ \E r \in raised : ~r.nonCritical \/ (r.place[2] = "step" /\ Steps[r.step] = "tasklet")

FailureInv ==
    \/ Cause
    \/ /\ row # "FAILED" /\ result # "FAILED" /\ pc # "rejected"
       /\ ~(pc = "hook" /\ place \in {<<"on-error", "step">>, <<"on-error", "chunk">>})

-----------------------------------------------------------------------------
\* A chunk is in hand once its record has been read.
InHandInv ==
    /\ (pc = "work" \/ pc = "hook") /\ place \in {"before", "on-error", "on-skip"} \X {"item-read"}
         => chunk = "none"
    /\ pc = "hook" /\ place \in {"after"} \X ItemKinds => chunk # "none"

WriteListenerThrew == \E r \in raised : r.place = <<"after", "item-write">>
ChunkListenerThrew == \E r \in raised : r.place = <<"after", "chunk">>

\* Between the writer's commit and the checkpoint lies only after:item-write; between
\* the checkpoint and the count only after:chunk.
CheckpointInv ==
    /\ \A s \in StepIds : s > step => written[s] = 0
    /\ IsChunk =>
         /\ \/ WriteListenerThrew
            \/ written[step] <= checkpoint
            \/ /\ pc = "hook" /\ place = <<"after", "item-write">>
               /\ written[step] <= checkpoint + 1
         /\ \/ ChunkListenerThrew
            \/ checkpoint = IF pc = "hook" /\ place = <<"after", "chunk">> /\ chunk # "none"
                            THEN commitCount + 1 ELSE commitCount

-----------------------------------------------------------------------------
Occurrences(s, e) == Cardinality({i \in DOMAIN s : s[i] = e})

Requests(e, u) == Occurrences(sent[u], e)

\* The tries an observer counts are the requests it has sent.
VerdictHolds(e, u, d) ==
    /\ Requests(e, u) = d.tries /\ d.tries <= options.attempts
    /\ d.state = "sending" => d.tries < options.attempts
    /\ d.state = "delivered" => e \in received[u]
    /\ d.state = "dead-letter" => d.tries = options.attempts
    /\ d.state = "ignored" => d.tries = 0

VerdictInv ==
    \A e \in DOMAIN events : \A u \in options.urls : VerdictHolds(e, u, events[e].to[u])

\* Only the event the executor waits for may have deliveries under way.
PendingInv ==
    /\ \A e \in DOMAIN events : Settled(events[e]) \/ (pc = "emit" /\ e = Len(events))
    /\ pc = "emit" => events # <<>>

-----------------------------------------------------------------------------
StepEnds(s) ==
    {e \in DOMAIN events : events[e].step = s /\ events[e].type \in {"STEP_COMPLETED", "STEP_FAILED"}}

Threw(s) == \E r \in raised : r.step = s /\ r.place[2] # "job"

JobEnds == {e \in DOMAIN events : events[e].type \in JobEnd}

\* The job's end has been told, or is being told.
EndTold == pc = "returned" \/ (pc = "emit" /\ next = "return")

\* The job's end event is the last one, and says what its row says.
JobEndInv ==
    /\ JobEnds = IF EndTold THEN {Len(events)} ELSE {}
    /\ EndTold => events[Len(events)].type = IF row = "COMPLETED" THEN "JOB_COMPLETED" ELSE "JOB_FAILED"

\* Steps before the current one are completed, steps after it not begun.
StepRowsInv ==
    /\ \A s \in StepIds : s > step => stepRow[s] = "none"
    /\ \A s \in StepIds : s < step => stepRow[s] = "COMPLETED"
    /\ JobOver => stepRow[step] \in Ended
    /\ row = "COMPLETED" => step = Len(Steps) /\ stepRow[step] = "COMPLETED"

\* An ended step has one end event, which says what its row says, or its executor threw.
Reported(s) ==
    \E e \in StepEnds(s) :
        /\ StepEnds(s) = {e}
        /\ events[e].type = IF stepRow[s] = "FAILED" THEN "STEP_FAILED" ELSE "STEP_COMPLETED"

ThrewOnly(s) == StepEnds(s) = {} /\ Threw(s) /\ stepRow[s] = "FAILED" /\ row = "FAILED"

StepEndsInv ==
    \A s \in StepIds :
        IF stepRow[s] \in Ended THEN Reported(s) \/ ThrewOnly(s) ELSE StepEnds(s) = {}

\* The registered after:step listeners.
AfterStepListeners ==
    {i \in DOMAIN listeners : ResolveListenerRef(listeners[i]) /\ listeners[i].place = <<"after", "step">>}

\* A listener that is not still to be called has heard the result, and the result it
\* heard is what the row is given, though all are called again after one has thrown.
ToldInv ==
    /\ \A s \in StepIds : \A t \in told[s] : t[1] \in AfterStepListeners
    /\ pc = "hook" /\ place = <<"after", "step">> /\ step \notin rewritten =>
         \A t \in told[step] : t[1] \in DOMAIN queue \/ t[2] = result
    /\ \A s \in StepIds : s \notin rewritten /\ StepEnds(s) # {} =>
         \A t \in told[s] : t[2] = stepRow[s]
-----------------------------------------------------------------------------
\* The listeners an executor calls at a place.
CallsAt(at) == {i \in DOMAIN listeners : ResolveListenerRef(listeners[i]) /\ listeners[i].place = at}

(***************************************************************************)
(* The least registration number of a non-empty map of listeners is in it. *)
(***************************************************************************)
LEMMA FirstIsACall ==
    ASSUME NEW q, DOMAIN q \subseteq Nat, DOMAIN q # {}
    PROVE  First(q) \in DOMAIN q
<1>1. PICK i \in DOMAIN q : \A j \in DOMAIN q : ~(<<j, i>> \in OpToRel(<, Nat))
    BY NatLessThanWellFounded, WFMin
<1>2. \A j \in DOMAIN q : i <= j
    <2>1. ASSUME NEW j \in DOMAIN q, j < i PROVE <<j, i>> \in OpToRel(<, Nat)
        BY <2>1, <<j, i>> \in Nat \X Nat DEF OpToRel
    <2>2. \A j \in DOMAIN q : ~(j < i)
        BY <1>1, <2>1
    <2> QED BY <2>2
<1> QED BY <1>2 DEF First, Min

(***************************************************************************)
(* When a place is invoked, the listeners registered for it are to be      *)
(* called: ListenerInvoker.invokeMatching on either resolver map.          *)
(***************************************************************************)
LEMMA InvokeCalls ==
    ASSUME JobTyped, NEW at, Invoke(at), UNCHANGED <<listeners, step>>
    PROVE  CallsInv' /\ DOMAIN queue' = CallsAt(at)
<1> DEFINE all == BuildResolverMap(listeners)
           legacy == BuildLegacyStepResolvers(all)
<1>1. /\ DOMAIN all = {i \in DOMAIN listeners : ResolveListenerRef(listeners[i])}
      /\ \A i \in DOMAIN all : all[i] = listeners[i]
    BY DEF BuildResolverMap, Restrict
<1>2. /\ DOMAIN legacy = {i \in DOMAIN all : all[i].place[2] = "step"}
      /\ \A i \in DOMAIN legacy : legacy[i] = [all[i] EXCEPT !.nonCritical = FALSE]
    BY DEF BuildLegacyStepResolvers
<1>3. \A i \in DOMAIN all : all[i] \in ListenerDefinitions
    BY <1>1 DEF JobTyped, RowsTyped
<1>4. \A i \in DOMAIN legacy : legacy[i].place = all[i].place
    BY <1>2, <1>3 DEF ListenerDefinitions
<1>5. pc' = "hook" /\ place' = at
    BY DEF Invoke
<1> HIDE DEF all, legacy
<1>6. CASE step > 0 /\ Steps[step] = "tasklet" /\ at[2] = "step"
    <2>1. queue' = Restrict(legacy, {i \in DOMAIN legacy : legacy[i].place = at})
        BY <1>6 DEF Invoke, Matching, all, legacy
    <2>2. DOMAIN queue' = {i \in DOMAIN legacy : legacy[i].place = at}
        BY <2>1 DEF Restrict
    <2>3. DOMAIN queue' = CallsAt(at)
        BY <1>1, <1>2, <1>4, <1>6, <2>2 DEF CallsAt
    <2> QED BY <1>5, <1>6, <2>3 DEF CallsInv, CallsAt
<1>7. CASE ~(step > 0 /\ Steps[step] = "tasklet" /\ at[2] = "step")
    <2>1. queue' = Restrict(all, {i \in DOMAIN all : all[i].place = at})
        BY <1>7 DEF Invoke, Matching, all, legacy
    <2>2. /\ DOMAIN queue' = {i \in DOMAIN all : all[i].place = at}
          /\ \A i \in DOMAIN queue' : queue'[i] = all[i]
        BY <2>1 DEF Restrict
    <2>3. DOMAIN queue' = CallsAt(at)
        BY <1>1, <2>2 DEF CallsAt
    <2> QED BY <1>1, <1>5, <2>2, <2>3 DEF CallsInv, CallsAt
<1> QED BY <1>6, <1>7

(***************************************************************************)
(* The listener being called is one of those to be called, and is the only *)
(* one that no longer is afterwards.                                       *)
(***************************************************************************)
LEMMA ListenerCalled ==
    ASSUME JobTyped, CallsInv, pc = "hook", DOMAIN queue # {}
    PROVE  /\ First(queue) \in DOMAIN queue /\ First(queue) \in DOMAIN listeners
           /\ First(queue) \in Nat
           /\ DOMAIN Rest(queue) = DOMAIN queue \ {First(queue)}
           /\ \A i \in DOMAIN Rest(queue) : Rest(queue)[i] = queue[i]
<1>1. DOMAIN queue \subseteq DOMAIN listeners /\ DOMAIN listeners \subseteq Nat
    BY DEF CallsInv, JobTyped, RowsTyped
<1>2. First(queue) \in DOMAIN queue
    BY <1>1, FirstIsACall
<1>3. /\ DOMAIN Rest(queue) = DOMAIN queue \ {First(queue)}
      /\ \A i \in DOMAIN Rest(queue) : Rest(queue)[i] = queue[i]
    BY DEF Rest, Restrict
<1> QED BY <1>1, <1>2, <1>3

-----------------------------------------------------------------------------
\* An event of a known type is an event, for the current step or the next one.
LEMMA EventIsTyped ==
    ASSUME JobTyped, NEW type \in EventTypes, NEW s \in 0..Len(Steps)
    PROVE  /\ Event(type) \in Events
           /\ [Event(type) EXCEPT !.step = s] \in Events
<1> DEFINE to == Event(type).to
<1>1. to \in Deliveries
    BY DEF Event, Deliveries, DeliveryStates
<1>2. Event(type) = [type |-> type, step |-> step, to |-> to]
    BY DEF Event
<1>3. [Event(type) EXCEPT !.step = s] = [type |-> type, step |-> s, to |-> to]
    BY <1>2
<1> HIDE DEF to
<1> QED BY <1>1, <1>2, <1>3 DEF JobTyped, RowsTyped, Events

\* The executor emits at most one event in a step, and leaves the deliveries alone.
LEMMA EmitKeepsTypes ==
    ASSUME JobTyped, UNCHANGED <<options, delivery>>,
           events' = events \/ \E ev \in Events : events' = Append(events, ev)
    PROVE  EventsTyped'
<1>1. Events' = Events
    BY DEF Events, Deliveries, EventTypes, DeliveryStates
<1>2. events' \in Seq(Events) /\ Len(events') \in Nat /\ Len(events) \in Nat /\ Len(events) <= Len(events')
    <2>1. events \in Seq(Events)
        BY DEF JobTyped, EventsTyped
    <2>2. CASE events' = events
        BY <2>1, <2>2
    <2>3. ASSUME NEW ev \in Events, events' = Append(events, ev)
          PROVE  events' \in Seq(Events) /\ Len(events') = Len(events) + 1
        BY <2>1, <2>3
    <2>4. Len(events) \in Nat
        BY <2>1
    <2> QED BY <2>2, <2>3, <2>4
<1>3. \A s \in Seq(1..Len(events)) : s \in Seq(1..Len(events'))
    BY <1>2
<1>4. sent' = sent /\ received' = received
    BY DEF delivery
<1> QED BY <1>1, <1>2, <1>3, <1>4 DEF JobTyped, EventsTyped

\* What JobExecutor.execute does around the steps keeps the types.
LEMMA JobKeepsTypes ==
    ASSUME BaseInv, Start \/ ObserverReturns \/ Route \/ AfterBeforeJob \/ AfterAfterJob
    PROVE  JobTyped'
<1> USE JobEventsAssumption DEF BaseInv, config, rows, chunkState, history
<1>1. CASE Start
    <2>1. RowsTyped'
        BY <1>1 DEF Start, JobTyped, RowsTyped
    <2>2. EventsTyped'
        BY <1>1, EventIsTyped, EmitKeepsTypes DEF Start, Emit, EventTypes, JobTyped, RowsTyped
    <2> QED BY <2>1, <2>2 DEF JobTyped
<1>2. CASE ObserverReturns
    <2>1. RowsTyped'
        BY <1>2 DEF ObserverReturns, JobTyped, RowsTyped
    <2>2. EventsTyped'
        BY <1>2, EmitKeepsTypes DEF ObserverReturns
    <2> QED BY <2>1, <2>2 DEF JobTyped
<1>3. CASE AfterAfterJob
    <2>1. RowsTyped'
        BY <1>3 DEF AfterAfterJob, JobTyped, RowsTyped
    <2>2. EventsTyped'
        BY <1>3, EventIsTyped, EmitKeepsTypes DEF AfterAfterJob, Emit, EventTypes, JobTyped, RowsTyped
    <2> QED BY <2>1, <2>2 DEF JobTyped
<1>4. ASSUME NEW s \in StepIds, CreateStep(s), UNCHANGED <<config, delivery, history>> PROVE JobTyped'
    <2>1. s \in 0..Len(Steps)
        BY DEF StepIds
    <2>2. RowsTyped'
        BY <1>4, <2>1 DEF CreateStep, JobTyped, RowsTyped
    <2>3. EventsTyped'
        BY <1>4, <2>1, EventIsTyped, EmitKeepsTypes DEF CreateStep, EventTypes
    <2> QED BY <2>2, <2>3 DEF JobTyped
<1>5. ASSUME NEW status \in Ended, EndJob(status), UNCHANGED <<config, delivery, history>>
      PROVE  JobTyped'
    <2>1. RowsTyped'
        BY <1>5 DEF EndJob, JobTyped, RowsTyped
    <2>2. EventsTyped'
        BY <1>5, EmitKeepsTypes DEF EndJob
    <2> QED BY <2>1, <2>2 DEF JobTyped
<1>6. CASE AfterBeforeJob
    BY <1>4, <1>6 DEF AfterBeforeJob, StepIds
<1>7. CASE Route
    <2>1. step < Len(Steps) => step + 1 \in StepIds
        BY DEF StepIds, JobTyped, RowsTyped
    <2> QED BY <1>4, <1>5, <1>7, <2>1 DEF Route, Ended
<1> QED BY <1>1, <1>2, <1>3, <1>6, <1>7

\* Both step executors keep the types.
LEMMA StepKeepsTypes ==
    ASSUME BaseInv,
           \/ AfterBeforeStep \/ AfterAfterStep \/ TaskletSucceeds \/ TaskletFails \/ AfterErrorStep
           \/ ChunkStepRuns
    PROVE  JobTyped'
<1> USE JobEventsAssumption DEF BaseInv, config, rows, chunkState, history, Ended
<1>1. CASE AfterAfterStep
    <2>1. step \in StepIds /\ result \in Ended
        BY <1>1 DEF AfterAfterStep, HookDone, ControlInv, InStep, StepIds, JobTyped, RowsTyped
    <2>2. RowsTyped'
        BY <1>1, <2>1 DEF AfterAfterStep, EndStep, JobTyped, RowsTyped
    <2>3. EventsTyped'
        BY <1>1, EventIsTyped, EmitKeepsTypes
           DEF AfterAfterStep, EndStep, Emit, EventTypes, JobTyped, RowsTyped
    <2> QED BY <2>2, <2>3 DEF JobTyped
<1>2. CASE AfterBeforeStep \/ TaskletSucceeds \/ TaskletFails \/ AfterErrorStep
    <2>1. RowsTyped'
        BY <1>2 DEF AfterBeforeStep, TaskletSucceeds, TaskletFails, AfterErrorStep, JobTyped, RowsTyped
    <2>2. EventsTyped'
        BY <1>2, EmitKeepsTypes DEF AfterBeforeStep, TaskletSucceeds, TaskletFails, AfterErrorStep
    <2> QED BY <2>1, <2>2 DEF JobTyped
<1>3. CASE ChunkStepRuns
    <2> USE <1>3 DEF ChunkStepRuns, AfterBeforeChunk, AfterBeforeItem, EndOfInput, WorkDone,
            Filtered, WorkFails, AfterAfterItem, PolicySkips, PolicyRetries, PolicyGivesUp,
            AfterSkip, AfterAfterChunk, AfterErrorChunk, SaveCheckpoint
    <2>1. commitCount' \in Nat /\ checkpoint' \in Nat
        BY DEF JobTyped, RowsTyped
    <2>2. written' \in [StepIds -> Nat]
        BY DEF JobTyped, RowsTyped
    <2>3. result' \in {"none"} \cup Ended
        BY DEF JobTyped, RowsTyped
    <2>4. UNCHANGED <<listeners, options, step, row, stepRow, told, raised, events, delivery>>
        OBVIOUS
    <2>5. RowsTyped'
        BY <2>1, <2>2, <2>3, <2>4 DEF JobTyped, RowsTyped
    <2>6. EventsTyped'
        BY <2>4, EmitKeepsTypes
    <2> QED BY <2>5, <2>6 DEF JobTyped
<1> QED BY <1>1, <1>2, <1>3

\* Calling a listener keeps the types.
LEMMA ListenerKeepsTypes ==
    ASSUME BaseInv, CallListener
    PROVE  JobTyped'
<1> USE JobEventsAssumption DEF BaseInv, config, rows, chunkState, history
<1>1. pc = "hook" /\ DOMAIN queue # {}
    BY DEF CallListener, ListenerReturns, ListenerRewrites, ListenerIgnored, ListenerThrows
<1>2. First(queue) \in Nat /\ First(queue) \in DOMAIN listeners
    BY <1>1, ListenerCalled
<1>3. place[2] # "job" => step \in StepIds
    BY <1>1 DEF ControlInv, InStep, StepIds, JobTyped, RowsTyped
<1>4. ASSUME Hear PROVE told' \in [StepIds -> SUBSET (Nat \X ({"none"} \cup Ended))]
    <2>1. CASE place = <<"after", "step">>
        <3> DEFINE heard == {t \in told[step] : t[1] # First(queue)} \cup {<<First(queue), result>>}
        <3>1. heard \in SUBSET (Nat \X ({"none"} \cup Ended))
            BY <1>2, <1>3, <2>1 DEF JobTyped, RowsTyped
        <3>2. told' = [told EXCEPT ![step] = heard]
            BY <1>4, <2>1 DEF Hear
        <3> HIDE DEF heard
        <3> QED BY <1>3, <2>1, <3>1, <3>2 DEF JobTyped, RowsTyped
    <2>2. CASE place # <<"after", "step">>
        BY <1>4, <2>2 DEF Hear, JobTyped, RowsTyped
    <2> QED BY <2>1, <2>2
<1>5. CASE ListenerReturns \/ ListenerIgnored
    <2>1. RowsTyped'
        BY <1>4, <1>5 DEF ListenerReturns, ListenerIgnored, JobTyped, RowsTyped
    <2>2. EventsTyped'
        BY <1>5, EmitKeepsTypes DEF ListenerReturns, ListenerIgnored
    <2> QED BY <2>1, <2>2 DEF JobTyped
<1>6. CASE ListenerRewrites
    <2>1. RowsTyped'
        BY <1>3, <1>6 DEF ListenerRewrites, JobTyped, RowsTyped, Ended
    <2>2. EventsTyped'
        BY <1>6, EmitKeepsTypes DEF ListenerRewrites
    <2> QED BY <2>1, <2>2 DEF JobTyped
<1>7. CASE ListenerThrows
    <2>1. [place |-> place, step |-> step, nonCritical |-> Registration.nonCritical]
            \in [place : Places, step : 0..Len(Steps), nonCritical : BOOLEAN]
        <3>1. listeners[First(queue)] \in ListenerDefinitions
            BY <1>2 DEF JobTyped, RowsTyped
        <3>2. place \in Places
            BY <1>1 DEF ControlInv
        <3> QED BY <3>1, <3>2 DEF Registration, ListenerDefinitions, JobTyped, RowsTyped
    <2>2. raised' \subseteq [place : Places, step : 0..Len(Steps), nonCritical : BOOLEAN]
        BY <1>7, <2>1 DEF ListenerThrows, JobTyped, RowsTyped
    <2>3. row' \in {"STARTING", "STARTED"} \cup Ended /\ stepRow' \in [StepIds -> {"none", "STARTING"} \cup Ended]
        BY <1>3, <1>7 DEF ListenerThrows, InStepExecutor, StepThrows, JobTyped, RowsTyped, Ended
    <2>4. RowsTyped'
        BY <1>4, <1>7, <2>2, <2>3 DEF ListenerThrows, JobTyped, RowsTyped
    <2>5. EventsTyped'
        BY <1>7, EmitKeepsTypes DEF ListenerThrows, StepThrows
    <2> QED BY <2>4, <2>5 DEF JobTyped
<1> QED BY <1>5, <1>6, <1>7 DEF CallListener

(***************************************************************************)
(* A request changes the observer's view of one event at one URL, and      *)
(* nothing else about the events.                                          *)
(***************************************************************************)
LEMMA EndDeliveryEffect ==
    ASSUME JobTyped, NEW e \in DOMAIN events, NEW u \in options.urls, NEW state \in DeliveryStates,
           EndDelivery(e, u, state)
    PROVE  /\ events' \in Seq(Events) /\ Len(events') = Len(events)
           /\ \A x \in DOMAIN events :
                 /\ events'[x].type = events[x].type /\ events'[x].step = events[x].step
                 /\ \A v \in options.urls :
                       x # e \/ v # u => events'[x].to[v] = events[x].to[v]
           /\ events'[e].to[u].state = state
           /\ events'[e].to[u].tries = events[e].to[u].tries + 1
<1> DEFINE d == [state |-> state, tries |-> events[e].to[u].tries + 1]
           to == [events[e].to EXCEPT ![u] = d]
           ev == [events[e] EXCEPT !.to = to]
<1>1. events[e] \in Events /\ events \in Seq(Events)
    BY DEF JobTyped, EventsTyped
<1>2. events[e].to \in Deliveries /\ events[e].to[u].tries \in Nat
    BY <1>1 DEF Events, Deliveries
<1>3. d \in [state : DeliveryStates, tries : Nat]
    BY <1>2
<1>4. events' = [events EXCEPT ![e] = ev]
    BY DEF EndDelivery
<1> HIDE DEF d
<1>5. to \in Deliveries /\ to[u] = d /\ \A v \in options.urls : v # u => to[v] = events[e].to[v]
    BY <1>2, <1>3 DEF Deliveries
<1> HIDE DEF to
<1>6. ev \in Events /\ ev.to = to /\ ev.type = events[e].type /\ ev.step = events[e].step
    BY <1>1, <1>5 DEF Events
<1> HIDE DEF ev
<1>7. events' \in Seq(Events) /\ Len(events') = Len(events)
    BY <1>1, <1>4, <1>6
<1>8. events'[e] = ev /\ \A x \in DOMAIN events : x # e => events'[x] = events[x]
    BY <1>1, <1>4
<1>9. d.state = state /\ d.tries = events[e].to[u].tries + 1
    BY DEF d
<1> QED BY <1>5, <1>6, <1>7, <1>8, <1>9

\* What one attempt does, whatever the receiver answers.
LEMMA AttemptEffect ==
    ASSUME JobTyped, NEW e \in DOMAIN events, NEW u \in options.urls, Attempt(e, u)
    PROVE  /\ sent' = [sent EXCEPT ![u] = Append(@, e)]
           /\ events[e].to[u].state = "sending"
           /\ received' = [received EXCEPT ![u] = @ \cup {e}] \/ received' = received
           /\ \E state \in DeliveryStates :
                 /\ EndDelivery(e, u, state)
                 /\ state # "ignored"
                 /\ state = "sending" => events[e].to[u].tries + 1 < options.attempts
                 /\ state = "delivered" => received' = [received EXCEPT ![u] = @ \cup {e}]
                 /\ state = "dead-letter" => events[e].to[u].tries + 1 = options.attempts
           /\ events[e].to[u].tries + 1 <= options.attempts
<1> DEFINE n == events[e].to[u].tries
<1>1. events[e] \in Events
    BY DEF JobTyped, EventsTyped
<1>2. n \in Nat /\ options.attempts \in Nat
    BY <1>1 DEF Events, Deliveries, JobTyped, RowsTyped
<1>3. Send(e, u) /\ events[e].to[u].state = "sending" /\ n < options.attempts
    BY DEF Attempt, Accepted, Rejected, ServerError, TimedOut, Send
<1>4. sent' = [sent EXCEPT ![u] = Append(@, e)]
    BY <1>3 DEF Send
<1>5. n + 1 <= options.attempts
    BY <1>2, <1>3
<1>6. CASE Accepted(e, u)
    BY <1>3, <1>4, <1>5, <1>6 DEF Accepted, DeliveryStates
<1>7. CASE Rejected(e, u)
    BY <1>3, <1>4, <1>5, <1>7 DEF Rejected, DeliveryStates
<1>8. CASE ServerError(e, u) \/ TimedOut(e, u)
    <2>1. EndDelivery(e, u, IF n + 1 = options.attempts THEN "dead-letter" ELSE "sending")
          /\ received' = received
        BY <1>8 DEF ServerError, TimedOut, UseAttempt
    <2>2. n + 1 = options.attempts \/ n + 1 < options.attempts
        BY <1>2, <1>5
    <2> HIDE DEF n
    <2> QED BY <1>3, <1>4, <1>5, <2>1, <2>2 DEF DeliveryStates, n
<1> QED BY <1>6, <1>7, <1>8 DEF Attempt

\* Requests and late arrivals keep the types.
LEMMA DeliveryKeepsTypes ==
    ASSUME JobTyped, Deliver \/ Late
    PROVE  JobTyped'
<1> USE DEF config, rows, chunkState, history
<1>1. options.urls \subseteq Urls /\ DOMAIN events = 1..Len(events) /\ Len(events) \in Nat
    BY DEF JobTyped, RowsTyped, EventsTyped
<1>2. ASSUME NEW e \in DOMAIN events, NEW u \in options.urls, Attempt(e, u) PROVE JobTyped'
    <2>1. Send(e, u)
        BY <1>2 DEF Attempt, Accepted, Rejected, ServerError, TimedOut
    <2>2. RowsTyped'
        BY <2>1 DEF Send, JobTyped, RowsTyped
    <2>3. Events' = Events
        BY <2>1 DEF Send, Events, Deliveries, EventTypes, DeliveryStates
    <2>4. events' \in Seq(Events) /\ Len(events') = Len(events)
        BY <1>2, AttemptEffect, EndDeliveryEffect
    <2>5. sent' \in [Urls -> Seq(1..Len(events))]
        <3>1. sent[u] \in Seq(1..Len(events)) /\ e \in 1..Len(events)
            BY <1>1 DEF JobTyped, EventsTyped
        <3>2. Append(sent[u], e) \in Seq(1..Len(events))
            BY <3>1
        <3>3. sent' = [sent EXCEPT ![u] = Append(sent[u], e)]
            BY <1>2, AttemptEffect
        <3> QED BY <1>1, <3>2, <3>3 DEF JobTyped, EventsTyped
    <2>6. received' \in [Urls -> SUBSET Nat]
        BY <1>1, <1>2, AttemptEffect DEF JobTyped, EventsTyped
    <2> QED BY <2>2, <2>3, <2>4, <2>5, <2>6 DEF JobTyped, EventsTyped
<1>3. ASSUME NEW e \in DOMAIN events, NEW u \in options.urls, LateArrival(e, u) PROVE JobTyped'
    <2>1. RowsTyped'
        BY <1>3 DEF LateArrival, JobTyped, RowsTyped
    <2>2. Events' = Events
        BY <1>3 DEF LateArrival, Events, Deliveries, EventTypes, DeliveryStates
    <2>3. events' = events /\ sent' = sent
        BY <1>3 DEF LateArrival
    <2>4. received' \in [Urls -> SUBSET Nat]
        BY <1>1, <1>3 DEF LateArrival, JobTyped, EventsTyped
    <2> QED BY <2>1, <2>2, <2>3, <2>4 DEF JobTyped, EventsTyped
<1> QED BY <1>2, <1>3 DEF Deliver, Late

-----------------------------------------------------------------------------
\* JobExecutor.execute around the steps goes where ControlInv says.
LEMMA JobKeepsControl ==
    ASSUME BaseInv, Start \/ ObserverReturns \/ Route \/ AfterBeforeJob \/ AfterAfterJob
    PROVE  ControlInv'
<1> USE JobEventsAssumption
        DEF BaseInv, config, rows, chunkState, history, ControlInv, InStep, StepOver, JobOver,
            NoStepYet, HookDone, Places, LifecyclePlaces, ItemKinds
<1>1. CASE Start
    BY <1>1 DEF Start, Emit
<1>2. CASE ObserverReturns
    BY <1>2 DEF ObserverReturns, Continue, Invoke, IsChunk
<1>3. CASE AfterAfterJob
    BY <1>3 DEF AfterAfterJob, Emit
<1>4. ASSUME NEW s \in StepIds, CreateStep(s), row = "STARTED", UNCHANGED <<config, delivery, history>>
      PROVE ControlInv'
    <2>1. stepRow'[s] = "STARTING"
        BY <1>4 DEF CreateStep, JobTyped, RowsTyped
    <2>2. s > 0
        BY DEF StepIds
    <2> QED BY <1>4, <2>1, <2>2 DEF CreateStep
<1>5. ASSUME NEW status \in Ended, EndJob(status), step > 0, UNCHANGED <<config, delivery, history>>
      PROVE  ControlInv'
    BY <1>5 DEF EndJob, Invoke
<1>6. CASE AfterBeforeJob
    BY <1>4, <1>6 DEF AfterBeforeJob, StepIds
<1>7. CASE Route
    <2>1. step < Len(Steps) => step + 1 \in StepIds
        BY DEF StepIds, JobTyped, RowsTyped
    <2> QED BY <1>4, <1>5, <1>7, <2>1 DEF Route, Ended
<1> QED BY <1>1, <1>2, <1>3, <1>6, <1>7

\* So do the tasklet executor and the frame of the chunk executor.
LEMMA StepKeepsControl ==
    ASSUME BaseInv,
           AfterBeforeStep \/ AfterAfterStep \/ TaskletSucceeds \/ TaskletFails \/ AfterErrorStep
    PROVE  ControlInv'
<1> USE JobEventsAssumption
        DEF BaseInv, config, rows, chunkState, history, ControlInv, InStep, StepOver, JobOver,
            NoStepYet, HookDone, Places, LifecyclePlaces, ItemKinds, IsChunk, Ended
<1>1. CASE AfterBeforeStep
    BY <1>1 DEF AfterBeforeStep, Invoke
<1>2. CASE AfterAfterStep
    <2>1. step \in StepIds /\ result \in Ended /\ row = "STARTED"
        BY <1>2 DEF AfterAfterStep, JobTyped, RowsTyped, StepIds
    <2>2. stepRow'[step] = result
        BY <1>2, <2>1 DEF AfterAfterStep, EndStep, JobTyped, RowsTyped
    <2> QED BY <1>2, <2>1, <2>2 DEF AfterAfterStep, EndStep, Emit, StepIds
<1>3. CASE TaskletSucceeds \/ TaskletFails \/ AfterErrorStep
    BY <1>3 DEF TaskletSucceeds, TaskletFails, AfterErrorStep, Invoke
<1> QED BY <1>1, <1>2, <1>3

\* A place invoked within the step.
LEMMA InvokeKeepsControl ==
    ASSUME BaseInv, InStep, NEW at \in Places, Invoke(at), UNCHANGED <<step, row, stepRow, events>>,
           at[2] # "job", at[2] # "step" => IsChunk, at = <<"after", "step">> => result' \in Ended
    PROVE  ControlInv'
BY DEF BaseInv, ControlInv, InStep, StepOver, JobOver, NoStepYet, Invoke, IsChunk, ItemKinds

\* The listener and item places, by name.
LEMMA PlacesOfItems ==
    \A kind \in ItemKinds :
        /\ <<"before", kind>> \in Places /\ <<"after", kind>> \in Places
        /\ <<"on-error", kind>> \in Places /\ <<"on-skip", kind>> \in Places
        /\ kind # "job" /\ kind # "step"
BY DEF Places, ItemPlaces, SkipPlaces, ItemKinds

\* Nor does the chunk loop leave the step executor.
LEMMA ChunkKeepsControl ==
    ASSUME BaseInv, ChunkStepRuns
    PROVE  ControlInv'
<1> USE DEF BaseInv, config, rows, chunkState, history
<1>1. CASE AfterBeforeItem
    <2>1. PICK kind \in ItemKinds : pc = "hook" /\ place = <<"before", kind>>
        BY <1>1 DEF AfterBeforeItem, HookDone
    <2>2. InStep /\ IsChunk
        BY <2>1, PlacesOfItems DEF InStep, ControlInv
    <2> QED BY <1>1, <2>1, <2>2 DEF AfterBeforeItem, ControlInv, InStep, StepOver, JobOver, NoStepYet, IsChunk
<1>2. ASSUME pc = "work" PROVE InStep /\ IsChunk /\ PhaseKind \in ItemKinds
    BY <1>2 DEF ControlInv, InStep, PhaseKind
<1>3. ASSUME NEW phase, NEW kind \in ItemKinds, HookDone(<<phase, kind>>)
      PROVE  InStep /\ IsChunk /\ PhaseKind = kind
    BY <1>3, PlacesOfItems DEF HookDone, ControlInv, InStep, PhaseKind
<1>4. ASSUME NEW phase, HookDone(<<phase, "chunk">>) PROVE InStep /\ IsChunk
    BY <1>4 DEF HookDone, ControlInv, InStep
<1>5. \A phase \in {"before", "after", "on-error"} : <<phase, "chunk">> \in Places /\ <<phase, "step">> \in Places
    BY DEF Places, LifecyclePlaces
<1>6. CASE EndOfInput \/ WorkDone \/ Filtered \/ WorkFails
    BY <1>2, <1>5, <1>6, PlacesOfItems, InvokeKeepsControl DEF EndOfInput, WorkDone, Filtered, WorkFails
<1>7. CASE AfterAfterItem
    <2>1. "item-process" \in ItemKinds /\ "item-write" \in ItemKinds
        BY DEF ItemKinds
    <2> QED BY <1>3, <1>5, <1>7, <2>1, PlacesOfItems, InvokeKeepsControl DEF AfterAfterItem, SaveCheckpoint
<1>8. CASE PolicySkips \/ PolicyRetries \/ PolicyGivesUp \/ AfterSkip
    BY <1>3, <1>5, <1>8, PlacesOfItems, InvokeKeepsControl
       DEF PolicySkips, PolicyRetries, PolicyGivesUp, AfterSkip, SaveCheckpoint
<1>9. CASE AfterBeforeChunk
    <2>1. "item-read" \in ItemKinds
        BY DEF ItemKinds
    <2> QED BY <1>4, <1>9, <2>1, PlacesOfItems, InvokeKeepsControl DEF AfterBeforeChunk
<1>10. CASE AfterAfterChunk
    BY <1>4, <1>5, <1>10, InvokeKeepsControl DEF AfterAfterChunk, Ended
<1>11. CASE AfterErrorChunk
    BY <1>4, <1>5, <1>11, InvokeKeepsControl DEF AfterErrorChunk
<1> QED BY <1>1, <1>6, <1>7, <1>8, <1>9, <1>10, <1>11 DEF ChunkStepRuns

(***************************************************************************)
(* Where a listener's failure goes: the chunk executor's catch block, the  *)
(* end of the job, or the caller of execute.                               *)
(***************************************************************************)
LEMMA ListenerKeepsControl ==
    ASSUME BaseInv, CallListener
    PROVE  ControlInv'
<1> USE JobEventsAssumption DEF BaseInv, config, rows, chunkState, history
<1>1. pc = "hook"
    BY DEF CallListener, ListenerReturns, ListenerRewrites, ListenerIgnored, ListenerThrows
<1>2. CASE ListenerReturns \/ ListenerIgnored \/ ListenerRewrites
    BY <1>2 DEF ListenerReturns, ListenerIgnored, ListenerRewrites, ControlInv, InStep, StepOver, JobOver,
                NoStepYet, IsChunk, Ended
<1>3. CASE ListenerThrows
    <2>1. CASE InChunkTry /\ Invoke(<<"on-error", "chunk">>) /\ UNCHANGED <<rows, events, next>>
        <3>1. InStep /\ IsChunk
            BY <1>1, <2>1 DEF InChunkTry, InStep, ItemKinds
        <3>2. <<"on-error", "chunk">> \in Places
            BY DEF Places, LifecyclePlaces
        <3> QED BY <1>3, <2>1, <3>1, <3>2, InvokeKeepsControl DEF ListenerThrows
    <2>2. CASE InStepExecutor /\ StepThrows
        BY <1>3, <2>2 DEF ListenerThrows, InStepExecutor, StepThrows, Invoke, ControlInv, InStep, StepOver,
                          JobOver, NoStepYet, Places, LifecyclePlaces, ItemKinds, Ended
    <2>3. CASE ~InStepExecutor /\ pc' = "rejected" /\ UNCHANGED <<place, queue, rows, chunk, events, next>>
        <3>1. place = <<"before", "job">> \/ place = <<"after", "job">>
            <4>1. place[2] = "job"
                BY <1>1, <2>3 DEF InStepExecutor, ControlInv, InStep, JobTyped, RowsTyped
            <4>2. place \in Places
                BY <1>1 DEF ControlInv
            <4> QED BY <4>1, <4>2 DEF Places, LifecyclePlaces, ItemPlaces, SkipPlaces, ItemKinds
        <3>2. step = 0 => \E r \in raised' : r.place = <<"before", "job">>
            <4>1. step = 0 => place = <<"before", "job">>
                BY <1>1, <3>1 DEF ControlInv, JobOver
            <4> DEFINE failure == [place |-> place, step |-> step, nonCritical |-> Registration.nonCritical]
            <4>2. failure \in raised' /\ failure.place = place
                BY <1>3 DEF ListenerThrows
            <4> QED BY <4>1, <4>2
        <3>3. step' = step /\ row' = row
            BY <1>3, <2>3 DEF ListenerThrows
        <3> QED BY <1>1, <2>3, <3>1, <3>2, <3>3 DEF ControlInv, InStep, StepOver, JobOver, NoStepYet
    <2> QED BY <1>3, <2>1, <2>2, <2>3 DEF ListenerThrows
<1> QED BY <1>2, <1>3 DEF CallListener

\* Deliveries do not move the executor.
LEMMA DeliveryKeepsControl ==
    ASSUME BaseInv, Deliver \/ Late
    PROVE  ControlInv' /\ CallsInv'
<1> USE DEF BaseInv, config, rows, chunkState, history
<1>1. events # <<>>
    BY DEF Deliver, Late, JobTyped, EventsTyped
<1>2. UNCHANGED <<config, pc, place, queue, step, rows, result, next, history>>
    BY DEF Deliver, Late, Attempt, Accepted, Rejected, ServerError, TimedOut, Send, LateArrival
<1>3. pc # "launched"
    BY <1>1 DEF ControlInv
<1> QED BY <1>2, <1>3 DEF ControlInv, InStep, StepOver, JobOver, NoStepYet, IsChunk, CallsInv

-----------------------------------------------------------------------------
\* Listeners to be called are registered for the place, whoever invoked it.
LEMMA CallsStep ==
    ASSUME BaseInv, ExecutorRuns
    PROVE  CallsInv'
<1> USE DEF BaseInv, config, rows, chunkState, history
<1>1. CASE ListenerReturns \/ ListenerRewrites \/ ListenerIgnored
    <2>1. pc = "hook" /\ DOMAIN queue # {} /\ queue' = Rest(queue) /\ UNCHANGED <<listeners, step, place>>
        BY <1>1 DEF ListenerReturns, ListenerRewrites, ListenerIgnored
    <2> QED BY <2>1, ListenerCalled DEF CallsInv
<1>2. CASE \E at \in Places : Invoke(at) /\ UNCHANGED <<listeners, step>>
    BY <1>2, InvokeCalls
<1>3. CASE pc' # "hook"
    BY <1>3 DEF CallsInv
<1>4. CASE Start \/ ObserverReturns \/ Route \/ AfterBeforeJob \/ AfterAfterJob
    <2>1. <<"before", "job">> \in Places /\ <<"after", "job">> \in Places /\ <<"before", "step">> \in Places
        BY DEF Places, LifecyclePlaces
    <2> QED BY <1>2, <1>3, <1>4, <2>1
            DEF Start, ObserverReturns, Continue, Route, AfterBeforeJob, AfterAfterJob, Emit, CreateStep, EndJob
<1>5. \A phase \in {"before", "after", "on-error"} : <<phase, "chunk">> \in Places /\ <<phase, "step">> \in Places
    BY DEF Places, LifecyclePlaces
<1>6. CASE AfterBeforeStep \/ AfterAfterStep \/ TaskletSucceeds \/ TaskletFails \/ AfterErrorStep
    BY <1>2, <1>3, <1>5, <1>6
       DEF AfterBeforeStep, AfterAfterStep, EndStep, Emit, TaskletSucceeds, TaskletFails, AfterErrorStep
<1>7. CASE ListenerThrows
    <2>1. <<"after", "job">> \in Places
        BY DEF Places, LifecyclePlaces
    <2> QED BY <1>2, <1>3, <1>5, <1>7, <2>1 DEF ListenerThrows, StepThrows
<1>8. CASE ChunkStepRuns
    <2>1. CASE AfterBeforeItem
        BY <1>3, <2>1 DEF AfterBeforeItem
    <2>2. CASE EndOfInput \/ WorkDone \/ Filtered \/ WorkFails
        <3>1. PhaseKind \in ItemKinds
            BY <2>2 DEF EndOfInput, WorkDone, Filtered, WorkFails, PhaseKind, ControlInv
        <3> QED BY <1>2, <1>5, <2>2, <3>1, PlacesOfItems DEF EndOfInput, WorkDone, Filtered, WorkFails
    <2>3. CASE AfterAfterItem \/ PolicySkips \/ PolicyRetries \/ PolicyGivesUp \/ AfterSkip
        <3>1. PhaseKind \in ItemKinds
            BY <2>3 DEF AfterAfterItem, PolicySkips, PolicyRetries, PolicyGivesUp, AfterSkip, HookDone, PhaseKind
        <3>2. "item-process" \in ItemKinds /\ "item-write" \in ItemKinds
            BY DEF ItemKinds
        <3> QED BY <1>2, <1>5, <2>3, <3>1, <3>2, PlacesOfItems
                DEF AfterAfterItem, PolicySkips, PolicyRetries, PolicyGivesUp, AfterSkip, SaveCheckpoint
    <2>4. CASE AfterBeforeChunk \/ AfterAfterChunk \/ AfterErrorChunk
        <3>1. "item-read" \in ItemKinds
            BY DEF ItemKinds
        <3> QED BY <1>2, <1>5, <2>4, <3>1, PlacesOfItems DEF AfterBeforeChunk, AfterAfterChunk, AfterErrorChunk
    <2> QED BY <1>8, <2>1, <2>2, <2>3, <2>4 DEF ChunkStepRuns
<1> QED BY <1>1, <1>4, <1>6, <1>7, <1>8 DEF ExecutorRuns, CallListener

\* Every step keeps the types, the control and the calls.
LEMMA BaseStep == ASSUME BaseInv, [Next]_vars PROVE BaseInv'
<1>1. CASE ExecutorRuns
    <2>1. JobTyped'
        BY <1>1, JobKeepsTypes, StepKeepsTypes, ListenerKeepsTypes DEF ExecutorRuns
    <2>2. ControlInv'
        BY <1>1, JobKeepsControl, StepKeepsControl, ChunkKeepsControl, ListenerKeepsControl DEF ExecutorRuns
    <2>3. CallsInv'
        BY <1>1, CallsStep
    <2> QED BY <2>1, <2>2, <2>3 DEF BaseInv
<1>2. CASE Deliver \/ Late
    BY <1>2, DeliveryKeepsTypes, DeliveryKeepsControl DEF BaseInv
<1>3. CASE UNCHANGED vars
    <2>1. Events' = Events
        BY <1>3 DEF vars, config, Events, Deliveries, EventTypes, DeliveryStates
    <2> QED BY <1>3, <2>1 DEF vars, config, rows, chunkState, delivery, history, BaseInv, JobTyped, RowsTyped,
                  EventsTyped, ControlInv, InStep, StepOver, JobOver, NoStepYet, IsChunk, CallsInv
<1> QED BY <1>1, <1>2, <1>3 DEF Next, Finished

\* The resolved options have an attempt or more, whatever forRoot was given.
LEMMA OptionsAreTyped ==
    ASSUME NEW raw \in RawOptions
    PROVE  ResolveWebhookOptions(raw) \in [urls : SUBSET Urls, events : SUBSET EventTypes, attempts : Nat \ {0}]
<1>1. raw \in [urls : SUBSET Urls, events : SUBSET EventTypes, attempts : Nat]
    BY JobEventsAssumption
<1> DEFINE chosen == IF raw.events = {} THEN DefaultWebhookEvents ELSE raw.events
           clamped == IF raw.attempts < 1 THEN 1
                      ELSE IF raw.attempts > MaxAttempts THEN MaxAttempts ELSE raw.attempts
<1>2. chosen \in SUBSET EventTypes /\ clamped \in Nat \ {0}
    BY <1>1 DEF DefaultWebhookEvents, EventTypes, MaxAttempts
<1>3. ResolveWebhookOptions(raw) = [raw EXCEPT !.events = chosen, !.attempts = clamped]
    BY DEF ResolveWebhookOptions
<1> HIDE DEF chosen, clamped
<1> QED BY <1>1, <1>2, <1>3

\* Nothing has happened in the initial states.
LEMMA BaseInit == ASSUME Init PROVE BaseInv
<1>1. RowsTyped
    <2>1. listeners \in Seq(ListenerDefinitions)
        BY JobEventsAssumption DEF Init
    <2>2. options \in [urls : SUBSET Urls, events : SUBSET EventTypes, attempts : Nat \ {0}]
        BY OptionsAreTyped DEF Init
    <2> QED BY JobEventsAssumption, <2>1, <2>2 DEF Init, RowsTyped
<1>2. EventsTyped
    BY DEF Init, EventsTyped
<1>3. ControlInv /\ CallsInv
    BY DEF Init, ControlInv, InStep, StepOver, JobOver, NoStepYet, CallsInv
<1> QED BY <1>1, <1>2, <1>3 DEF BaseInv, JobTyped

\* The executor is always somewhere ControlInv knows of.
THEOREM BaseInvariant == Spec => []BaseInv
BY BaseInit, BaseStep, PTL DEF Spec

-----------------------------------------------------------------------------
\* What has been recorded stays recorded.
LEMMA HistoryGrows ==
    ASSUME [Next]_vars
    PROVE  /\ raised \subseteq raised' /\ rewritten \subseteq rewritten' /\ (workFailed => workFailed')
           /\ UNCHANGED config
<1> USE DEF history, config
<1>1. CASE Start \/ ObserverReturns \/ Route \/ AfterBeforeJob \/ AfterAfterJob
    BY <1>1 DEF Start, ObserverReturns, Route, AfterBeforeJob, AfterAfterJob
<1>2. CASE AfterBeforeStep \/ AfterAfterStep \/ TaskletSucceeds \/ TaskletFails \/ AfterErrorStep
    BY <1>2 DEF AfterBeforeStep, AfterAfterStep, TaskletSucceeds, TaskletFails, AfterErrorStep
<1>3. CASE CallListener
    BY <1>3 DEF CallListener, ListenerReturns, ListenerRewrites, ListenerIgnored, ListenerThrows
<1>4. CASE ChunkStepRuns
    BY <1>4 DEF ChunkStepRuns, AfterBeforeChunk, AfterBeforeItem, EndOfInput, WorkDone,
            Filtered, WorkFails, AfterAfterItem, PolicySkips, PolicyRetries, PolicyGivesUp,
            AfterSkip, AfterAfterChunk, AfterErrorChunk
<1>5. CASE Deliver \/ Late
    BY <1>5 DEF Deliver, Late, Attempt, Accepted, Rejected, ServerError, TimedOut, Send, LateArrival
<1>6. CASE UNCHANGED vars
    BY <1>6 DEF vars
<1> QED BY <1>1, <1>2, <1>3, <1>4, <1>5, <1>6 DEF Next, ExecutorRuns, Finished

\* A job is on its way to failure only for one of the causes.
LEMMA FailureStep ==
    ASSUME BaseInv, FailureInv, [Next]_vars
    PROVE  FailureInv'
<1> USE DEF config, rows, chunkState, history
<1>1. CASE Cause
    BY <1>1, HistoryGrows DEF Cause, FailureInv
<1>2. CASE ~Cause
    <2>1. /\ row # "FAILED" /\ result # "FAILED" /\ pc # "rejected"
          /\ ~(pc = "hook" /\ place \in {<<"on-error", "step">>, <<"on-error", "chunk">>})
        BY <1>2 DEF FailureInv
    <2>2. CASE ListenerThrows
        <3> DEFINE failure == [place |-> place, step |-> step, nonCritical |-> Registration.nonCritical]
        <3>1. pc = "hook" /\ DOMAIN queue # {} /\ Propagates(queue[First(queue)]) /\ failure \in raised'
            BY <2>2 DEF ListenerThrows
        <3>2. First(queue) \in DOMAIN queue
            BY <3>1, ListenerCalled DEF BaseInv
        <3>3. ~failure.nonCritical \/ (failure.place[2] = "step" /\ Steps[failure.step] = "tasklet")
            BY <3>1, <3>2 DEF BaseInv, CallsInv, Registration, Propagates
        <3> HIDE DEF failure
        <3> QED BY <3>1, <3>3 DEF FailureInv, Cause
    <2>3. CASE ListenerReturns \/ ListenerIgnored \/ ListenerRewrites
        BY <2>1, <2>3 DEF ListenerReturns, ListenerIgnored, ListenerRewrites, FailureInv, Cause
    <2>4. CASE Start \/ ObserverReturns \/ Route \/ AfterBeforeJob \/ AfterAfterJob
        BY <2>1, <2>4 DEF Start, ObserverReturns, Continue, Route, AfterBeforeJob, AfterAfterJob, Emit, Invoke,
                          CreateStep, EndJob, FailureInv
    <2>5. CASE AfterBeforeStep \/ AfterAfterStep \/ TaskletSucceeds \/ TaskletFails \/ AfterErrorStep
        BY <2>1, <2>5 DEF AfterBeforeStep, AfterAfterStep, EndStep, Emit, TaskletSucceeds, TaskletFails,
                          AfterErrorStep, HookDone, Invoke, FailureInv, Cause
    <2>6. CASE ChunkStepRuns
        <3>1. CASE PolicyGivesUp
            BY <3>1 DEF PolicyGivesUp, FailureInv, Cause
        <3>2. CASE AfterErrorChunk
            BY <2>1, <3>2 DEF AfterErrorChunk, HookDone
        <3>3. CASE AfterBeforeChunk \/ AfterBeforeItem \/ EndOfInput \/ AfterAfterChunk
            BY <2>1, <3>3 DEF AfterBeforeChunk, AfterBeforeItem, EndOfInput, AfterAfterChunk, HookDone, Invoke,
                              FailureInv
        <3>4. CASE WorkDone \/ Filtered \/ WorkFails
            <4>1. PhaseKind \in ItemKinds
                BY <3>4 DEF WorkDone, Filtered, WorkFails, PhaseKind, BaseInv, ControlInv
            <4> QED BY <2>1, <3>4, <4>1 DEF WorkDone, Filtered, WorkFails, Invoke, FailureInv, ItemKinds
        <3>5. CASE AfterAfterItem \/ PolicySkips \/ PolicyRetries \/ AfterSkip
            <4>1. PhaseKind \in ItemKinds
                BY <3>5 DEF AfterAfterItem, PolicySkips, PolicyRetries, AfterSkip, HookDone, PhaseKind
            <4> QED BY <2>1, <3>5, <4>1 DEF AfterAfterItem, PolicySkips, PolicyRetries, AfterSkip, SaveCheckpoint,
                              Invoke, FailureInv, ItemKinds
        <3> QED BY <2>6, <3>1, <3>2, <3>3, <3>4, <3>5 DEF ChunkStepRuns
    <2>7. CASE Deliver \/ Late \/ UNCHANGED vars
        BY <2>1, <2>7 DEF Deliver, Late, Attempt, Accepted, Rejected, ServerError, TimedOut, Send, LateArrival,
                          vars, FailureInv
    <2> QED BY <2>2, <2>3, <2>4, <2>5, <2>6, <2>7 DEF Next, ExecutorRuns, CallListener, Finished
<1> QED BY <1>1, <1>2

(***************************************************************************)
(* For any job, listeners and interleaving of deliveries: a job fails, or  *)
(* execute rejects, only because the job's own code failed beyond its      *)
(* policies, an after:step listener rewrote a result, or a listener that   *)
(* is not nonCritical threw; the flag is lost only for the step listeners  *)
(* of a tasklet step (buildLegacyStepResolvers).                           *)
(***************************************************************************)
THEOREM FailuresHaveCauses == Spec => []FailureHasCause
<1>1. Init => FailureInv
    BY DEF Init, FailureInv
<1>2. FailureInv => FailureHasCause
    BY DEF FailureInv, FailureHasCause, Cause
<1> QED BY <1>1, <1>2, BaseInvariant, FailureStep, PTL DEF Spec

-----------------------------------------------------------------------------
\* The chunk loop has a chunk in hand from the read to the commit.
LEMMA InHandStep ==
    ASSUME BaseInv, InHandInv, [Next]_vars
    PROVE  InHandInv'
<1> USE DEF config, rows, chunkState, history, ItemKinds
<1>1. CASE Start \/ ObserverReturns \/ Route \/ AfterBeforeJob \/ AfterAfterJob
    BY <1>1 DEF Start, ObserverReturns, Continue, Route, AfterBeforeJob, AfterAfterJob, Emit, Invoke, CreateStep,
                EndJob, InHandInv
<1>2. CASE AfterBeforeStep \/ AfterAfterStep \/ TaskletSucceeds \/ TaskletFails \/ AfterErrorStep
    BY <1>2 DEF AfterBeforeStep, AfterAfterStep, EndStep, Emit, TaskletSucceeds, TaskletFails, AfterErrorStep,
                Invoke, InHandInv
<1>3. CASE CallListener
    BY <1>3 DEF CallListener, ListenerReturns, ListenerRewrites, ListenerIgnored, ListenerThrows, StepThrows,
                Invoke, InHandInv
<1>4. CASE ChunkStepRuns
    <2>1. CASE AfterBeforeChunk \/ EndOfInput \/ AfterAfterChunk \/ AfterErrorChunk \/ PolicyGivesUp
        BY <2>1 DEF AfterBeforeChunk, EndOfInput, AfterAfterChunk, AfterErrorChunk, PolicyGivesUp, Invoke,
                    InHandInv
    <2>2. CASE AfterBeforeItem
        BY <2>2 DEF AfterBeforeItem, HookDone, InHandInv
    <2>3. CASE WorkDone \/ Filtered \/ WorkFails
        <3>1. place = <<"before", PhaseKind>> /\ PhaseKind \in ItemKinds
            BY <2>3 DEF WorkDone, Filtered, WorkFails, PhaseKind, BaseInv, ControlInv
        <3> QED BY <2>3, <3>1 DEF WorkDone, Filtered, WorkFails, Invoke, InHandInv
    <2>4. CASE AfterAfterItem \/ PolicySkips \/ PolicyRetries \/ AfterSkip
        <3>1. PhaseKind \in ItemKinds
            BY <2>4 DEF AfterAfterItem, PolicySkips, PolicyRetries, AfterSkip, HookDone, PhaseKind
        <3>2. CASE AfterAfterItem
            BY <3>1, <3>2 DEF AfterAfterItem, SaveCheckpoint, Invoke, InHandInv
        <3>3. CASE PolicySkips \/ PolicyRetries
            <4>1. pc = "hook" /\ place = <<"on-error", PhaseKind>> /\ chunk' = chunk
                BY <3>3 DEF PolicySkips, PolicyRetries, HookDone, PhaseKind
            <4> QED BY <3>1, <3>3, <4>1 DEF PolicySkips, PolicyRetries, Invoke, InHandInv
        <3>4. CASE AfterSkip
            BY <3>1, <3>4 DEF AfterSkip, SaveCheckpoint, Invoke, InHandInv
        <3> QED BY <2>4, <3>2, <3>3, <3>4
    <2> QED BY <1>4, <2>1, <2>2, <2>3, <2>4 DEF ChunkStepRuns
<1>5. CASE Deliver \/ Late \/ UNCHANGED vars
    BY <1>5 DEF Deliver, Late, Attempt, Accepted, Rejected, ServerError, TimedOut, Send, LateArrival, vars,
                InHandInv
<1> QED BY <1>1, <1>2, <1>3, <1>4, <1>5 DEF Next, ExecutorRuns, Finished

\* A step in which neither the writes nor the checkpoint move, nor the executor from
\* or to the two places between them.
CheckpointUntouched ==
    /\ UNCHANGED <<step, commitCount, checkpoint, written>>
    /\ ~(pc = "hook" /\ place \in {<<"after", "item-write">>, <<"after", "chunk">>})
    /\ ~(pc' = "hook" /\ place' \in {<<"after", "item-write">>, <<"after", "chunk">>})

\* Such a step keeps the checkpoint's invariant.
LEMMA UntouchedKeepsCheckpoint ==
    ASSUME BaseInv, CheckpointInv, [Next]_vars, CheckpointUntouched
    PROVE  CheckpointInv'
BY HistoryGrows DEF CheckpointUntouched, CheckpointInv, IsChunk, WriteListenerThrew, ChunkListenerThrew

(***************************************************************************)
(* The writer's commit, the checkpoint and the count move one after the    *)
(* other, with only listeners in between.                                  *)
(***************************************************************************)
LEMMA CheckpointStep ==
    ASSUME BaseInv, InHandInv, CheckpointInv, [Next]_vars
    PROVE  CheckpointInv'
<1> USE DEF config, rows, chunkState, history, ItemKinds
<1>1. JobTyped
    BY DEF BaseInv
<1>2. ASSUME NEW s \in StepIds, s > step, CreateStep(s) PROVE CheckpointInv'
    <2>1. written'[s] = 0 /\ checkpoint' = 0 /\ commitCount' = 0 /\ step' = s /\ pc' = "emit"
          /\ written' = written
        BY <1>2 DEF CreateStep, CheckpointInv
    <2>2. \A r \in StepIds : r > s => written[r] = 0
        BY JobEventsAssumption, <1>1, <1>2 DEF CheckpointInv, JobTyped, RowsTyped, StepIds
    <2> QED BY <2>1, <2>2 DEF CheckpointInv, IsChunk
<1>3. CASE Start \/ ObserverReturns \/ AfterAfterJob
    <2>1. CheckpointUntouched
        BY <1>3 DEF Start, ObserverReturns, Continue, AfterAfterJob, Emit, Invoke, HookDone, CheckpointUntouched
    <2> QED BY <2>1, UntouchedKeepsCheckpoint
<1>4. CASE AfterBeforeJob
    <2>1. step = 0 /\ 1 \in StepIds
        BY JobEventsAssumption, <1>4 DEF AfterBeforeJob, HookDone, BaseInv, ControlInv, NoStepYet, StepIds
    <2> QED BY <1>2, <1>4, <2>1 DEF AfterBeforeJob
<1>5. CASE Route
    <2>1. CASE CreateStep(step + 1) /\ step < Len(Steps)
        <3>1. step + 1 \in StepIds /\ step + 1 > step
            BY JobEventsAssumption, <1>1, <2>1 DEF StepIds, JobTyped, RowsTyped
        <3> QED BY <1>2, <2>1, <3>1
    <2>2. CASE \E status \in Ended : EndJob(status)
        <3>1. CheckpointUntouched
            BY <1>5, <2>2 DEF Route, EndJob, Invoke, CheckpointUntouched
        <3> QED BY <3>1, UntouchedKeepsCheckpoint
    <2> QED BY <1>5, <2>1, <2>2 DEF Route, Ended
<1>6. CASE AfterBeforeStep \/ AfterAfterStep \/ TaskletSucceeds \/ TaskletFails \/ AfterErrorStep
    <2>1. CheckpointUntouched
        BY <1>6 DEF AfterBeforeStep, AfterAfterStep, EndStep, Emit, TaskletSucceeds, TaskletFails,
                    AfterErrorStep, HookDone, Invoke, CheckpointUntouched
    <2> QED BY <2>1, UntouchedKeepsCheckpoint
<1>7. CASE ListenerReturns \/ ListenerRewrites \/ ListenerIgnored
    BY <1>7, HistoryGrows DEF ListenerReturns, ListenerRewrites, ListenerIgnored, CheckpointInv, IsChunk,
       WriteListenerThrew, ChunkListenerThrew
<1>8. CASE ListenerThrows
    <2> DEFINE failure == [place |-> place, step |-> step, nonCritical |-> Registration.nonCritical]
    <2>1. failure \in raised' /\ failure.place = place
        BY <1>8 DEF ListenerThrows
    <2>2. pc = "hook" /\ (pc' = "rejected" \/ place' \in {<<"on-error", "chunk">>, <<"after", "job">>})
        BY <1>8 DEF ListenerThrows, StepThrows, Invoke
    <2>3. UNCHANGED <<step, commitCount, checkpoint, written>>
        BY <1>8 DEF ListenerThrows
    <2> HIDE DEF failure
    <2> QED BY <2>1, <2>2, <2>3, HistoryGrows DEF CheckpointInv, IsChunk, WriteListenerThrew, ChunkListenerThrew
<1>9. CASE ChunkStepRuns
    <2>1. CASE AfterBeforeChunk \/ AfterBeforeItem \/ AfterErrorChunk \/ WorkFails \/ PolicyGivesUp
               \/ PolicySkips \/ PolicyRetries \/ Filtered
        <3>1. CheckpointUntouched
            BY <2>1 DEF AfterBeforeChunk, AfterBeforeItem, AfterErrorChunk, WorkFails, PolicyGivesUp, PolicySkips,
                        PolicyRetries, Filtered, HookDone, Invoke, CheckpointUntouched
        <3> QED BY <3>1, UntouchedKeepsCheckpoint
    <2>2. CASE EndOfInput
        BY <2>2
           DEF EndOfInput, Invoke, CheckpointInv, IsChunk, WriteListenerThrew, ChunkListenerThrew, InHandInv,
               PhaseKind, BaseInv, ControlInv
    <2>3. CASE WorkDone
        BY <2>3, <1>1
           DEF WorkDone, Invoke, CheckpointInv, IsChunk, WriteListenerThrew, ChunkListenerThrew,
               PhaseKind, BaseInv, ControlInv, JobTyped, RowsTyped, StepIds
    <2>4. CASE AfterAfterItem
        BY <2>4, <1>1
           DEF AfterAfterItem, SaveCheckpoint, HookDone, Invoke, CheckpointInv, IsChunk, WriteListenerThrew,
               ChunkListenerThrew, PhaseKind, InHandInv, JobTyped, RowsTyped, StepIds
    <2>5. CASE AfterSkip
        BY <2>5, <1>1
           DEF AfterSkip, SaveCheckpoint, HookDone, Invoke, CheckpointInv, IsChunk, WriteListenerThrew,
               ChunkListenerThrew, PhaseKind, InHandInv, JobTyped, RowsTyped, StepIds
    <2>6. CASE AfterAfterChunk
        <3>1. /\ pc = "hook" /\ place = <<"after", "chunk">> /\ pc' = "hook"
              /\ place' \in {<<"after", "step">>, <<"before", "chunk">>}
              /\ commitCount' = IF chunk = "none" THEN commitCount ELSE commitCount + 1
              /\ UNCHANGED <<step, checkpoint, written, raised>>
            BY <2>6 DEF AfterAfterChunk, HookDone, Invoke
        <3> QED BY <1>1, <3>1
                DEF CheckpointInv, IsChunk, WriteListenerThrew, ChunkListenerThrew, JobTyped, RowsTyped
    <2> QED BY <1>9, <2>1, <2>2, <2>3, <2>4, <2>5, <2>6 DEF ChunkStepRuns
<1>10. CASE Deliver \/ Late \/ UNCHANGED vars
    BY <1>10, HistoryGrows
       DEF Deliver, Late, Attempt, Accepted, Rejected, ServerError, TimedOut, Send, LateArrival, vars,
           CheckpointInv, IsChunk, WriteListenerThrew, ChunkListenerThrew
<1> QED BY <1>3, <1>4, <1>5, <1>6, <1>7, <1>8, <1>9, <1>10 DEF Next, ExecutorRuns, CallListener, Finished

(***************************************************************************)
(* For any chunk size in records, listeners and faults: once a chunk step  *)
(* has ended, the saved checkpoint covers every chunk whose transaction    *)
(* committed and counts no other, unless an after:item-write or an         *)
(* after:chunk listener threw (ChunkStepExecutor.execute).                 *)
(***************************************************************************)
THEOREM CheckpointsMatchWrites == Spec => []CheckpointMatchesWrites
<1>1. Init => InHandInv /\ CheckpointInv
    BY DEF Init, InHandInv, CheckpointInv, IsChunk
<1>2. BaseInv /\ CheckpointInv => CheckpointMatchesWrites
    BY DEF BaseInv, ControlInv, InStep, CheckpointInv, CheckpointMatchesWrites, WriteListenerThrew,
           ChunkListenerThrew
<1> QED BY <1>1, <1>2, BaseInvariant, InHandStep, CheckpointStep, PTL DEF Spec

-----------------------------------------------------------------------------
\* One more request for an event is counted once, and for no other event.
LEMMA RequestCounted ==
    ASSUME NEW n \in Nat, NEW s \in Seq(1..n), NEW e \in 1..n, NEW x
    PROVE  /\ Occurrences(s, x) \in Nat
           /\ Occurrences(Append(s, e), x) = Occurrences(s, x) + IF x = e THEN 1 ELSE 0
<1> DEFINE Old == {i \in DOMAIN s : s[i] = x}
           New == {i \in DOMAIN Append(s, e) : Append(s, e)[i] = x}
           m == Len(s) + 1
<1>1. IsFiniteSet(Old)
    <2>1. IsFiniteSet(1..Len(s)) /\ Old \subseteq 1..Len(s)
        BY FS_Interval
    <2> QED BY <2>1, FS_Subset
<1>2. New = IF x = e THEN Old \cup {m} ELSE Old
    OBVIOUS
<1>3. m \notin Old
    OBVIOUS
<1> HIDE DEF Old, New, m
<1>4. Cardinality(Old) \in Nat
    BY <1>1, FS_CardinalityType
<1>5. Cardinality(Old \cup {m}) = Cardinality(Old) + 1
    BY <1>1, <1>3, FS_AddElement
<1>6. Cardinality(New) = Cardinality(Old) + IF x = e THEN 1 ELSE 0
    BY <1>2, <1>4, <1>5
<1>7. Occurrences(s, x) = Cardinality(Old) /\ Occurrences(Append(s, e), x) = Cardinality(New)
    BY DEF Old, New, Occurrences
<1> QED BY <1>4, <1>6, <1>7

\* An event is requested nowhere before it is emitted.
LEMMA NewEventUnsent ==
    ASSUME JobTyped, NEW u \in Urls, NEW x, x \notin DOMAIN events
    PROVE  Requests(x, u) = 0
<1>1. sent[u] \in Seq(1..Len(events)) /\ DOMAIN events = 1..Len(events)
    BY DEF JobTyped, EventsTyped
<1>2. {i \in DOMAIN sent[u] : sent[u][i] = x} = {}
    BY <1>1
<1> QED BY <1>2, FS_EmptySet DEF Requests, Occurrences

(***************************************************************************)
(* The executor's part: it emits a fresh event and waits, or emits none;   *)
(* it goes on when the last event is settled; it touches no delivery.      *)
(***************************************************************************)
Quiet == events' = events /\ pc' # "emit" /\ (pc = "emit" => Settled(events[Len(events)]))

EmitsOne ==
    /\ pc # "emit" /\ pc' = "emit"
    /\ \E type \in EventTypes, s \in 0..Len(Steps) :
          events' = Append(events, [Event(type) EXCEPT !.step = s])

\* A step of the executor is quiet or emits exactly one event, and leaves the
\* webhook observer's requests and options alone.
LEMMA ExecutorEmits ==
    ASSUME BaseInv, ExecutorRuns
    PROVE  (Quiet \/ EmitsOne) /\ UNCHANGED <<sent, received, options>>
<1> USE DEF config, delivery
<1>1. ASSUME NEW type \in EventTypes, events' = Append(events, Event(type)), pc # "emit", pc' = "emit"
      PROVE  EmitsOne
    <2>1. Event(type) = [Event(type) EXCEPT !.step = step]
        BY DEF Event
    <2> QED BY <1>1, <2>1 DEF EmitsOne, BaseInv, JobTyped, RowsTyped
<1>2. CASE Start \/ AfterAfterJob \/ AfterAfterStep
    BY <1>1, <1>2 DEF Start, AfterAfterJob, AfterAfterStep, HookDone, EndStep, Emit, EventTypes
<1>3. CASE AfterBeforeJob
    <2>1. 1 \in 0..Len(Steps) /\ "STEP_STARTED" \in EventTypes
        BY JobEventsAssumption DEF EventTypes
    <2> QED BY <1>3, <2>1 DEF AfterBeforeJob, HookDone, CreateStep, EmitsOne
<1>4. CASE Route
    <2>1. step < Len(Steps) => step + 1 \in 0..Len(Steps)
        BY JobEventsAssumption DEF BaseInv, JobTyped, RowsTyped
    <2>2. "STEP_STARTED" \in EventTypes
        BY DEF EventTypes
    <2> QED BY <1>4, <2>1, <2>2 DEF Route, CreateStep, EndJob, Invoke, Quiet, EmitsOne
<1>5. CASE ObserverReturns \/ AfterBeforeStep \/ TaskletSucceeds \/ TaskletFails \/ AfterErrorStep
    BY <1>5 DEF ObserverReturns, Continue, AfterBeforeStep, TaskletSucceeds, TaskletFails, AfterErrorStep, HookDone,
                Invoke, Quiet
<1>6. CASE CallListener
    BY <1>6 DEF CallListener, ListenerReturns, ListenerRewrites, ListenerIgnored, ListenerThrows, StepThrows,
                Invoke, Quiet
<1>7. CASE ChunkStepRuns
    BY <1>7 DEF ChunkStepRuns, AfterBeforeChunk, AfterBeforeItem, EndOfInput, WorkDone, Filtered, WorkFails,
                AfterAfterItem, PolicySkips, PolicyRetries, PolicyGivesUp, AfterSkip, AfterAfterChunk,
                AfterErrorChunk, SaveCheckpoint, HookDone, Invoke, Quiet
<1> QED BY <1>2, <1>3, <1>4, <1>5, <1>6, <1>7 DEF ExecutorRuns

\* The last event is the new one; the others are what they were.
LEMMA EmittedEvent ==
    ASSUME BaseInv, NEW type \in EventTypes, NEW s \in 0..Len(Steps),
           events' = Append(events, [Event(type) EXCEPT !.step = s])
    PROVE  /\ Len(events') = Len(events) + 1 /\ DOMAIN events' = 1..Len(events')
           /\ DOMAIN events = 1..Len(events) /\ Len(events) \in Nat
           /\ \A e \in DOMAIN events : events'[e] = events[e]
           /\ events'[Len(events')].type = type /\ events'[Len(events')].step = s
           /\ \A u \in options.urls :
                 /\ events'[Len(events')].to[u].tries = 0
                 /\ events'[Len(events')].to[u].state \in {"ignored", "sending"}
<1> DEFINE ev == [Event(type) EXCEPT !.step = s]
<1>1. ev \in Events
    BY EventIsTyped DEF BaseInv
<1>2. ev.type = type /\ ev.step = s /\ ev.to = Event(type).to
    BY DEF Event
<1>3. \A u \in options.urls : ev.to[u].tries = 0 /\ ev.to[u].state \in {"ignored", "sending"}
    BY <1>2 DEF Event
<1>4. events \in Seq(Events)
    BY DEF BaseInv, JobTyped, EventsTyped
<1> HIDE DEF ev
<1>5. events' = Append(events, ev)
    BY DEF ev
<1>6. /\ Len(events') = Len(events) + 1 /\ DOMAIN events' = 1..Len(events') /\ Len(events) \in Nat
      /\ DOMAIN events = 1..Len(events)
      /\ \A e \in DOMAIN events : events'[e] = events[e]
      /\ events'[Len(events')] = ev
    BY <1>1, <1>4, <1>5
<1> QED BY <1>2, <1>3, <1>6

(***************************************************************************)
(* The observer's count of tries stays the number of requests sent, and    *)
(* its verdict true, through every answer, timeout and late arrival.       *)
(***************************************************************************)
LEMMA VerdictStep ==
    ASSUME BaseInv, VerdictInv, [Next]_vars
    PROVE  VerdictInv'
<1>1. /\ JobTyped /\ options' = options /\ options.urls \subseteq Urls /\ options.attempts \in Nat \ {0}
      /\ DOMAIN events = 1..Len(events) /\ Len(events) \in Nat
    BY HistoryGrows DEF BaseInv, JobTyped, RowsTyped, EventsTyped, config
<1>2. CASE ExecutorRuns
    <2>1. sent' = sent /\ received' = received /\ (Quiet \/ EmitsOne)
        BY <1>2, ExecutorEmits
    <2>2. \A e, u : Requests(e, u)' = Requests(e, u)
        BY <2>1 DEF Requests
    <2>3. ASSUME NEW e \in DOMAIN events, NEW u \in options.urls, events'[e] = events[e]
          PROVE  VerdictHolds(e, u, events[e].to[u])'
        BY <1>1, <2>1, <2>2, <2>3 DEF VerdictInv, VerdictHolds
    <2>4. CASE Quiet
        BY <1>1, <2>3, <2>4 DEF Quiet, VerdictInv
    <2>5. CASE EmitsOne
        <3>1. PICK type \in EventTypes, s \in 0..Len(Steps) :
                 events' = Append(events, [Event(type) EXCEPT !.step = s])
            BY <2>5 DEF EmitsOne
        <3>2. PICK n \in Nat : n = Len(events')
            BY <1>1, <3>1, EmittedEvent
        <3>3. /\ DOMAIN events' = DOMAIN events \cup {n} /\ n \notin DOMAIN events
              /\ \A e \in DOMAIN events : events'[e] = events[e]
              /\ \A u \in options.urls :
                    events'[n].to[u].tries = 0 /\ events'[n].to[u].state \in {"ignored", "sending"}
            BY <1>1, <3>1, <3>2, EmittedEvent
        <3>4. \A u \in options.urls : Requests(n, u) = 0
            BY <1>1, <3>3, NewEventUnsent
        <3>5. \A u \in options.urls : VerdictHolds(n, u, events[n].to[u])'
            BY <1>1, <2>2, <3>3, <3>4 DEF VerdictHolds
        <3> QED BY <1>1, <2>3, <3>3, <3>5 DEF VerdictInv
    <2> QED BY <2>1, <2>4, <2>5
<1>3. ASSUME NEW e \in DOMAIN events, NEW u \in options.urls, Attempt(e, u) PROVE VerdictInv'
    <2>1. PICK state \in DeliveryStates :
             /\ EndDelivery(e, u, state)
             /\ state # "ignored"
             /\ state = "sending" => events[e].to[u].tries + 1 < options.attempts
             /\ state = "delivered" => received' = [received EXCEPT ![u] = @ \cup {e}]
             /\ state = "dead-letter" => events[e].to[u].tries + 1 = options.attempts
        BY <1>1, <1>3, AttemptEffect
    <2>2. /\ Len(events') = Len(events) /\ events' \in Seq(Events)
          /\ \A x \in DOMAIN events, v \in options.urls :
                x # e \/ v # u => events'[x].to[v] = events[x].to[v]
          /\ events'[e].to[u].state = state
          /\ events'[e].to[u].tries = events[e].to[u].tries + 1
        BY <1>1, <2>1, EndDeliveryEffect
    <2>3. DOMAIN events' = DOMAIN events
        BY <1>1, <2>2
    <2>4. sent' = [sent EXCEPT ![u] = Append(sent[u], e)] /\ events[e].to[u].tries + 1 <= options.attempts
        BY <1>1, <1>3, AttemptEffect
    <2>5. \A v \in Urls : received[v] \subseteq received'[v]
        <3>1. received' = [received EXCEPT ![u] = received[u] \cup {e}] \/ received' = received
            BY <1>1, <1>3, AttemptEffect
        <3> QED BY <1>1, <3>1 DEF JobTyped, EventsTyped
    <2>6. ASSUME NEW x \in DOMAIN events, NEW v \in options.urls
          PROVE  Requests(x, v)' = Requests(x, v) + IF x = e /\ v = u THEN 1 ELSE 0
        <3>1. sent[v] \in Seq(1..Len(events)) /\ sent[u] \in Seq(1..Len(events)) /\ DOMAIN sent = Urls
            BY <1>1 DEF JobTyped, EventsTyped
        <3>2. CASE v # u
            <4>1. sent'[v] = sent[v]
                BY <1>1, <2>4, <3>1, <3>2
            <4>2. Requests(x, v) \in Nat
                BY <1>1, <3>1, RequestCounted DEF Requests
            <4> QED BY <3>2, <4>1, <4>2 DEF Requests
        <3>3. CASE v = u
            <4>1. sent'[v] = Append(sent[v], e)
                BY <1>1, <2>4, <3>1, <3>3
            <4> QED BY <1>1, <3>1, <3>3, <4>1, RequestCounted DEF Requests
        <3> QED BY <3>2, <3>3
    <2>7. ASSUME NEW x \in DOMAIN events, NEW v \in options.urls
          PROVE  VerdictHolds(x, v, events[x].to[v])'
        <3>1. VerdictHolds(x, v, events[x].to[v]) /\ Requests(x, v) \in Nat
            <4>1. sent[v] \in Seq(1..Len(events))
                BY <1>1 DEF JobTyped, EventsTyped
            <4> QED BY <1>1, <4>1, RequestCounted DEF VerdictInv, Requests
        <3>2. CASE x # e \/ v # u
            <4>1. Requests(x, v)' = Requests(x, v) /\ events'[x].to[v] = events[x].to[v]
                BY <2>2, <2>6, <3>1, <3>2
            <4> QED BY <1>1, <2>5, <3>1, <4>1 DEF VerdictHolds
        <3>3. CASE x = e /\ v = u
            <4>1. Requests(x, v)' = events'[x].to[v].tries
                BY <2>2, <2>6, <3>1, <3>3 DEF VerdictHolds
            <4>2. state = "delivered" => e \in received'[u]
                BY <1>1, <2>1 DEF JobTyped, EventsTyped
            <4> QED BY <1>1, <2>1, <2>2, <2>4, <3>3, <4>1, <4>2 DEF VerdictHolds
        <3> QED BY <3>2, <3>3
    <2> QED BY <1>1, <2>3, <2>7 DEF VerdictInv
<1>4. ASSUME NEW e \in DOMAIN events, NEW u \in options.urls, LateArrival(e, u) PROVE VerdictInv'
    <2>1. events' = events /\ sent' = sent /\ \A v \in Urls : received[v] \subseteq received'[v]
        BY <1>1, <1>4 DEF LateArrival, JobTyped, EventsTyped
    <2>2. \A x, v : Requests(x, v)' = Requests(x, v)
        BY <2>1 DEF Requests
    <2> QED BY <1>1, <2>1, <2>2 DEF VerdictInv, VerdictHolds
<1>5. CASE UNCHANGED vars
    <2>1. events' = events /\ sent' = sent /\ received' = received
        BY <1>5 DEF vars, delivery
    <2>2. \A x, v : Requests(x, v)' = Requests(x, v)
        BY <2>1 DEF Requests
    <2> QED BY <1>1, <2>1, <2>2 DEF VerdictInv, VerdictHolds
<1> QED BY <1>2, <1>3, <1>4, <1>5 DEF Next, Deliver, Late, Finished

\* While the executor goes on, no delivery is under way.
LEMMA PendingStep ==
    ASSUME BaseInv, PendingInv, [Next]_vars
    PROVE  PendingInv'
<1>1. options' = options /\ JobTyped /\ DOMAIN events = 1..Len(events) /\ Len(events) \in Nat
    BY HistoryGrows DEF BaseInv, config, JobTyped, EventsTyped
<1>2. CASE ExecutorRuns
    <2>1. CASE Quiet
        <3>1. \A e \in DOMAIN events : Settled(events[e])
            BY <2>1 DEF Quiet, PendingInv
        <3> QED BY <1>1, <2>1, <3>1 DEF Quiet, PendingInv, Settled
    <2>2. CASE EmitsOne
        <3>1. PICK type \in EventTypes, s \in 0..Len(Steps) :
                 events' = Append(events, [Event(type) EXCEPT !.step = s])
            BY <2>2 DEF EmitsOne
        <3>2. /\ DOMAIN events' = DOMAIN events \cup {Len(events')} /\ Len(events') > 0
              /\ \A e \in DOMAIN events : events'[e] = events[e]
            BY <1>1, <3>1, EmittedEvent
        <3>3. pc # "emit" /\ pc' = "emit"
            BY <2>2 DEF EmitsOne
        <3>4. events' # <<>>
            BY <3>2
        <3> QED BY <1>1, <3>2, <3>3, <3>4 DEF PendingInv, Settled
    <2> QED BY <1>2, <2>1, <2>2, ExecutorEmits
<1>3. ASSUME NEW e \in DOMAIN events, NEW u \in options.urls, Attempt(e, u) PROVE PendingInv'
    <2>1. events[e].to[u].state = "sending" /\ UNCHANGED <<pc, next>>
        BY <1>1, <1>3, AttemptEffect DEF Attempt, Accepted, Rejected, ServerError, TimedOut, Send
    <2>2. pc = "emit" /\ e = Len(events)
        BY <2>1 DEF PendingInv, Settled
    <2>3. /\ Len(events') = Len(events) /\ events' \in Seq(Events)
          /\ \A x \in DOMAIN events, v \in options.urls :
                x # e => events'[x].to[v] = events[x].to[v]
        BY <1>1, <1>3, AttemptEffect, EndDeliveryEffect
    <2>4. DOMAIN events' = DOMAIN events /\ events' # <<>>
        BY <1>1, <2>3
    <2> QED BY <1>1, <2>1, <2>2, <2>3, <2>4 DEF PendingInv, Settled
<1>4. CASE Late \/ UNCHANGED vars
    <2>1. UNCHANGED <<events, pc>>
        BY <1>4 DEF Late, LateArrival, vars
    <2> QED BY <1>1, <2>1 DEF PendingInv, Settled
<1> QED BY <1>2, <1>3, <1>4 DEF Next, Deliver, Finished

(***************************************************************************)
(* For any webhook options and any answers of the receivers: an event the  *)
(* observer counts as delivered was processed, a dead letter had all its   *)
(* attempts, no URL is sent an event more often than configured, and no    *)
(* delivery is pending when execute is over (WebhookBatchObserver.onEvent, *)
(* deliverToUrl).                                                          *)
(***************************************************************************)
THEOREM VerdictsAreTrue == Spec => []DeliveryVerdictTrue
<1>1. Init => VerdictInv /\ PendingInv
    BY DEF Init, VerdictInv, PendingInv
<1>2. VerdictInv /\ PendingInv => DeliveryVerdictTrue
    BY DEF VerdictInv, VerdictHolds, PendingInv, DeliveryVerdictTrue, Requests, Occurrences, Over, Settled
<1> QED BY <1>1, <1>2, BaseInvariant, VerdictStep, PendingStep, PTL DEF Spec

-----------------------------------------------------------------------------
\* Deliveries change neither what the events are about nor where the executor is.
LEMMA DeliveryKeepsEvents ==
    ASSUME BaseInv, Deliver \/ Late \/ UNCHANGED vars
    PROVE  /\ DOMAIN events' = DOMAIN events /\ Len(events') = Len(events)
           /\ \A x \in DOMAIN events : events'[x].type = events[x].type /\ events'[x].step = events[x].step
           /\ UNCHANGED <<listeners, pc, place, queue, step, row, stepRow, result, next, told, rewritten, raised>>
<1> USE DEF config, rows, history
<1>1. UNCHANGED <<listeners, pc, place, queue, step, row, stepRow, result, next, told, rewritten, raised>>
    BY DEF Deliver, Late, Attempt, Accepted, Rejected, ServerError, TimedOut, Send, LateArrival, vars
<1>2. CASE Late \/ UNCHANGED vars
    BY <1>1, <1>2 DEF Late, LateArrival, vars
<1>3. CASE Deliver
    <2>1. PICK e \in DOMAIN events, u \in options.urls : Attempt(e, u)
        BY <1>3 DEF Deliver
    <2>2. /\ events' \in Seq(Events) /\ Len(events') = Len(events)
          /\ \A x \in DOMAIN events : events'[x].type = events[x].type /\ events'[x].step = events[x].step
        BY <2>1, AttemptEffect, EndDeliveryEffect DEF BaseInv
    <2>3. DOMAIN events' = DOMAIN events
        BY <2>2 DEF BaseInv, JobTyped, EventsTyped
    <2> QED BY <1>1, <2>2, <2>3
<1> QED BY <1>2, <1>3

\* A new event joins the end events of its step or of the job, if it is one.
LEMMA EmittedEnds ==
    ASSUME BaseInv, NEW type \in EventTypes, NEW s \in 0..Len(Steps),
           events' = Append(events, [Event(type) EXCEPT !.step = s])
    PROVE  /\ \A x : StepEnds(x)' = StepEnds(x) \cup IF x = s /\ type \in {"STEP_COMPLETED", "STEP_FAILED"}
                                                   THEN {Len(events')} ELSE {}
           /\ JobEnds' = JobEnds \cup IF type \in JobEnd THEN {Len(events')} ELSE {}
<1>1. /\ DOMAIN events' = DOMAIN events \cup {Len(events')} /\ Len(events') \notin DOMAIN events
      /\ \A e \in DOMAIN events : events'[e] = events[e]
      /\ events'[Len(events')].type = type /\ events'[Len(events')].step = s
    BY EmittedEvent
<1> QED BY <1>1 DEF StepEnds, JobEnds

\* Events emitted by JobExecutor.execute, and when.
LEMMA WhatIsEmitted ==
    ASSUME BaseInv, ExecutorRuns
    PROVE  \/ events' = events
           \/ \E type \in EventTypes, s \in 0..Len(Steps) :
                 /\ events' = Append(events, [Event(type) EXCEPT !.step = s])
                 /\ type \in JobEnd => AfterAfterJob
                 /\ type \in {"STEP_COMPLETED", "STEP_FAILED"} => AfterAfterStep
<1>1. \A type : Event(type) = [Event(type) EXCEPT !.step = step]
    BY DEF Event
<1>2. step \in 0..Len(Steps) /\ (step < Len(Steps) => step + 1 \in 0..Len(Steps)) /\ 1 \in 0..Len(Steps)
    BY JobEventsAssumption DEF BaseInv, JobTyped, RowsTyped
<1>3. CASE Start
    BY <1>1, <1>2, <1>3 DEF Start, Emit, EventTypes, JobEnd
<1>4. CASE AfterAfterJob
    BY <1>1, <1>2, <1>4 DEF AfterAfterJob, Emit, EventTypes, JobEnd
<1>5. CASE AfterAfterStep
    BY <1>1, <1>2, <1>5 DEF AfterAfterStep, EndStep, Emit, EventTypes, JobEnd
<1>6. CASE AfterBeforeJob \/ Route
    BY <1>2, <1>6 DEF AfterBeforeJob, Route, CreateStep, EndJob, EventTypes, JobEnd
<1>7. CASE ObserverReturns \/ AfterBeforeStep \/ TaskletSucceeds \/ TaskletFails \/ AfterErrorStep
    BY <1>7 DEF ObserverReturns, AfterBeforeStep, TaskletSucceeds, TaskletFails, AfterErrorStep
<1>8. CASE CallListener
    BY <1>8 DEF CallListener, ListenerReturns, ListenerRewrites, ListenerIgnored, ListenerThrows, StepThrows
<1>9. CASE ChunkStepRuns
    BY <1>9 DEF ChunkStepRuns, AfterBeforeChunk, AfterBeforeItem, EndOfInput, WorkDone, Filtered, WorkFails,
                AfterAfterItem, PolicySkips, PolicyRetries, PolicyGivesUp, AfterSkip, AfterAfterChunk,
                AfterErrorChunk
<1> QED BY <1>3, <1>4, <1>5, <1>6, <1>7, <1>8, <1>9 DEF ExecutorRuns

\* End events are recorded by the end of a step and the end of the job only.
LEMMA EndsUnchanged ==
    ASSUME BaseInv, ExecutorRuns
    PROVE  /\ ~AfterAfterStep => \A x : StepEnds(x)' = StepEnds(x)
           /\ ~AfterAfterJob => JobEnds' = JobEnds
           /\ \A e \in DOMAIN events : events'[e] = events[e]
           /\ DOMAIN events \subseteq DOMAIN events'
<1>1. CASE events' = events
    BY <1>1 DEF StepEnds, JobEnds
<1>2. ASSUME NEW type \in EventTypes, NEW s \in 0..Len(Steps),
             /\ events' = Append(events, [Event(type) EXCEPT !.step = s])
             /\ type \in JobEnd => AfterAfterJob
             /\ type \in {"STEP_COMPLETED", "STEP_FAILED"} => AfterAfterStep
      PROVE  /\ ~AfterAfterStep => \A x : StepEnds(x)' = StepEnds(x)
             /\ ~AfterAfterJob => JobEnds' = JobEnds
             /\ \A e \in DOMAIN events : events'[e] = events[e]
             /\ DOMAIN events \subseteq DOMAIN events'
    <2>1. \A e \in DOMAIN events : events'[e] = events[e]
        BY <1>2, EmittedEvent
    <2>2. DOMAIN events \subseteq DOMAIN events'
        BY <1>2, EmittedEvent
    <2>3. ASSUME NEW x, ~AfterAfterStep PROVE StepEnds(x)' = StepEnds(x)
        <3>1. StepEnds(x)' = StepEnds(x) \cup IF x = s /\ type \in {"STEP_COMPLETED", "STEP_FAILED"}
                                              THEN {Len(events')} ELSE {}
            BY <1>2, EmittedEnds, Zenon
        <3>2. type \notin {"STEP_COMPLETED", "STEP_FAILED"}
            BY <1>2, <2>3
        <3> QED BY <3>1, <3>2
    <2>4. ASSUME ~AfterAfterJob PROVE JobEnds' = JobEnds
        BY <1>2, <2>4, EmittedEnds
    <2> QED BY <2>1, <2>2, <2>3, <2>4
<1> QED BY <1>1, <1>2, WhatIsEmitted

\* The step rows: completed before the current step, not begun after it.
LEMMA StepRowsStep ==
    ASSUME BaseInv, StepRowsInv, [Next]_vars
    PROVE  StepRowsInv'
<1> USE DEF config, rows, chunkState, history
<1>1. /\ JobTyped /\ step \in 0..Len(Steps) /\ Len(Steps) \in Nat \ {0} /\ StepIds = 1..Len(Steps)
      /\ stepRow \in [StepIds -> {"none", "STARTING"} \cup Ended]
    BY JobEventsAssumption DEF BaseInv, JobTyped, RowsTyped, StepIds
<1>2. ASSUME NEW s \in StepIds, s = step + 1, CreateStep(s), row = "STARTED",
             step > 0 => stepRow[step] = "COMPLETED"
      PROVE  StepRowsInv'
    <2>1. /\ step' = s /\ row' = "STARTED" /\ pc' = "emit" /\ next' = "runStep"
          /\ \A r \in StepIds : stepRow'[r] = IF r = s THEN "STARTING" ELSE stepRow[r]
        BY <1>1, <1>2 DEF CreateStep
    <2> QED BY <1>1, <1>2, <2>1 DEF StepRowsInv, JobOver
<1>3. CASE AfterBeforeJob
    <2>1. step = 0 /\ row = "STARTED"
        BY <1>3 DEF AfterBeforeJob, HookDone, BaseInv, ControlInv, NoStepYet
    <2> QED BY <1>1, <1>2, <1>3, <2>1 DEF AfterBeforeJob
<1>4. CASE Route
    <2>1. step > 0 /\ stepRow[step] = result /\ result \in Ended /\ row = "STARTED"
        BY <1>4 DEF Route, BaseInv, ControlInv, StepOver
    <2>2. CASE result = "FAILED" /\ EndJob("FAILED")
        BY <1>1, <2>1, <2>2 DEF EndJob, Invoke, StepRowsInv, Ended
    <2>3. CASE result # "FAILED" /\ step < Len(Steps) /\ CreateStep(step + 1)
        BY <1>1, <1>2, <2>1, <2>3 DEF Ended
    <2>4. CASE result # "FAILED" /\ ~(step < Len(Steps)) /\ EndJob("COMPLETED")
        BY <1>1, <2>1, <2>4 DEF EndJob, Invoke, StepRowsInv, Ended
    <2> QED BY <1>4, <2>2, <2>3, <2>4 DEF Route
<1>5. CASE AfterAfterStep
    <2>1. pc = "hook" /\ place = <<"after", "step">> /\ step > 0 /\ row = "STARTED"
        BY <1>5 DEF AfterAfterStep, HookDone, BaseInv, ControlInv, InStep
    <2>2. /\ step' = step /\ row' = row /\ pc' = "emit" /\ next' = "route"
          /\ \A r \in StepIds : r # step => stepRow'[r] = stepRow[r]
        BY <1>1, <1>5 DEF AfterAfterStep, EndStep, Emit
    <2> QED BY <1>1, <2>1, <2>2 DEF StepRowsInv, JobOver
<1>6. CASE ListenerThrows
    <2>1. CASE InStepExecutor /\ StepThrows
        <3>1. step > 0 /\ row' = "FAILED" /\ step' = step
              /\ \A r \in StepIds : stepRow'[r] = IF r = step THEN "FAILED" ELSE stepRow[r]
            BY <1>1, <1>6, <2>1 DEF ListenerThrows, InStepExecutor, StepThrows
        <3> QED BY <1>1, <3>1 DEF StepRowsInv, Ended
    <2>2. CASE Invoke(<<"on-error", "chunk">>) /\ UNCHANGED rows
        BY <1>6, <2>2 DEF ListenerThrows, StepRowsInv, JobOver, Invoke
    <2>3. CASE ~InStepExecutor /\ pc' = "rejected" /\ UNCHANGED rows
        <3>1. pc = "hook" /\ step' = step
            BY <1>6 DEF ListenerThrows
        <3>2. step > 0 => place = <<"after", "job">>
            <4>1. step > 0 => place[2] = "job"
                BY <2>3 DEF InStepExecutor
            <4>2. place \in Places /\ (step > 0 => place # <<"before", "job">>)
                BY <1>1, <3>1 DEF BaseInv, ControlInv, NoStepYet
            <4> QED BY <4>1, <4>2 DEF Places, LifecyclePlaces, ItemPlaces, SkipPlaces, ItemKinds
        <3> QED BY <2>3, <3>1, <3>2 DEF StepRowsInv, JobOver
    <2> QED BY <1>6, <2>1, <2>2, <2>3 DEF ListenerThrows
<1>7. CASE Start \/ ObserverReturns \/ AfterAfterJob \/ ListenerReturns \/ ListenerRewrites \/ ListenerIgnored
    BY <1>7 DEF Start, ObserverReturns, Continue, AfterAfterJob, ListenerReturns, ListenerRewrites, ListenerIgnored,
                Emit, Invoke, HookDone, StepRowsInv, JobOver, BaseInv, ControlInv, NoStepYet
<1>8. CASE AfterBeforeStep \/ TaskletSucceeds \/ TaskletFails \/ AfterErrorStep
    BY <1>8 DEF AfterBeforeStep, TaskletSucceeds, TaskletFails, AfterErrorStep, Invoke, HookDone, StepRowsInv,
                JobOver
<1>9. CASE ChunkStepRuns
    <2>1. UNCHANGED <<step, row, stepRow>> /\ (pc' = "work" \/ (pc' = "hook" /\ place' # <<"after", "job">>))
        BY <1>9 DEF ChunkStepRuns, AfterBeforeChunk, AfterBeforeItem, EndOfInput, WorkDone, Filtered, WorkFails,
                AfterAfterItem, PolicySkips, PolicyRetries, PolicyGivesUp, AfterSkip, AfterAfterChunk,
                AfterErrorChunk, SaveCheckpoint, Invoke, HookDone, PhaseKind, BaseInv, ControlInv, ItemKinds
    <2> QED BY <2>1 DEF StepRowsInv, JobOver
<1>10. CASE Deliver \/ Late \/ UNCHANGED vars
    BY <1>10, DeliveryKeepsEvents DEF StepRowsInv, JobOver
<1> QED BY <1>3, <1>4, <1>5, <1>6, <1>7, <1>8, <1>9, <1>10 DEF Next, ExecutorRuns, CallListener, Finished

\* What a step has to its name stays true while its row and its end events stay.
LEMMA StepEndKept ==
    ASSUME BaseInv, NEW s \in StepIds, StepEnds(s)' = StepEnds(s), stepRow'[s] = stepRow[s],
           \A e \in DOMAIN events : events'[e].type = events[e].type,
           raised \subseteq raised', row = "FAILED" => row' = "FAILED",
           IF stepRow[s] \in Ended THEN Reported(s) \/ ThrewOnly(s) ELSE StepEnds(s) = {}
    PROVE  IF stepRow'[s] \in Ended THEN Reported(s)' \/ ThrewOnly(s)' ELSE StepEnds(s)' = {}
<1>1. Reported(s) => Reported(s)'
    <2> SUFFICES ASSUME Reported(s) PROVE Reported(s)'
        OBVIOUS
    <2>1. PICK e \in StepEnds(s) :
             /\ StepEnds(s) = {e}
             /\ events[e].type = IF stepRow[s] = "FAILED" THEN "STEP_FAILED" ELSE "STEP_COMPLETED"
        BY DEF Reported
    <2>2. e \in DOMAIN events
        BY DEF StepEnds
    <2>3. e \in StepEnds(s)' /\ StepEnds(s)' = {e}
        BY <2>1
    <2> QED BY <2>1, <2>2, <2>3 DEF Reported
<1>2. ThrewOnly(s) => ThrewOnly(s)'
    BY DEF ThrewOnly, Threw
<1> QED BY <1>1, <1>2

(***************************************************************************)
(* Every step that ends is reported once, with its row's status, unless    *)
(* its executor threw, which fails the job.                                *)
(***************************************************************************)
LEMMA StepEndsStep ==
    ASSUME BaseInv, StepRowsInv, StepEndsInv, [Next]_vars
    PROVE  StepEndsInv'
<1> USE DEF config, rows, chunkState, history
<1>1. /\ JobTyped /\ step \in 0..Len(Steps) /\ Len(Steps) \in Nat \ {0} /\ StepIds = 1..Len(Steps)
      /\ stepRow \in [StepIds -> {"none", "STARTING"} \cup Ended] /\ raised \subseteq raised'
    BY JobEventsAssumption, HistoryGrows DEF BaseInv, JobTyped, RowsTyped, StepIds
<1>2. ASSUME ExecutorRuns, ~AfterAfterStep, row = "FAILED" => row' = "FAILED",
             NEW s \in StepIds, stepRow'[s] = stepRow[s]
      PROVE  IF stepRow'[s] \in Ended THEN Reported(s)' \/ ThrewOnly(s)' ELSE StepEnds(s)' = {}
    <2>1. StepEnds(s)' = StepEnds(s)
        BY <1>2, EndsUnchanged, Zenon
    <2>2. \A e \in DOMAIN events : events'[e].type = events[e].type
        BY <1>2, EndsUnchanged
    <2> QED BY <1>1, <1>2, <2>1, <2>2, StepEndKept DEF StepEndsInv
<1>3. ASSUME NEW s \in StepIds, s = step + 1, CreateStep(s), row = "STARTED", ExecutorRuns, ~AfterAfterStep
      PROVE  StepEndsInv'
    <2>1. StepEnds(s)' = StepEnds(s)
        BY <1>3, EndsUnchanged, Zenon
    <2>2. StepEnds(s) = {}
        BY <1>1, <1>3 DEF StepRowsInv, StepEndsInv, Ended
    <2>3. stepRow'[s] = "STARTING" /\ \A r \in StepIds : r # s => stepRow'[r] = stepRow[r]
        BY <1>1, <1>3 DEF CreateStep
    <2> QED BY <1>2, <1>3, <2>1, <2>2, <2>3 DEF StepEndsInv, Ended
<1>4. CASE AfterBeforeJob
    <2>1. step = 0 /\ row = "STARTED" /\ ~AfterAfterStep
        BY <1>4 DEF AfterBeforeJob, AfterAfterStep, HookDone, BaseInv, ControlInv, NoStepYet
    <2> QED BY <1>1, <1>3, <1>4, <2>1 DEF AfterBeforeJob, ExecutorRuns
<1>5. CASE Route
    <2>1. step > 0 /\ row = "STARTED" /\ ~AfterAfterStep /\ ExecutorRuns
        BY <1>5 DEF Route, AfterAfterStep, HookDone, BaseInv, ControlInv, StepOver, ExecutorRuns
    <2>2. CASE step < Len(Steps) /\ CreateStep(step + 1)
        BY <1>1, <1>3, <2>1, <2>2
    <2>3. CASE UNCHANGED stepRow
        BY <1>2, <2>1, <2>3 DEF StepEndsInv
    <2> QED BY <1>5, <2>2, <2>3 DEF Route, EndJob
<1>6. CASE AfterAfterStep
    <2>1. /\ step \in StepIds /\ stepRow[step] = "STARTING" /\ result \in Ended
          /\ stepRow' = [stepRow EXCEPT ![step] = result] /\ row' = row
        BY <1>1, <1>6 DEF AfterAfterStep, HookDone, EndStep, BaseInv, ControlInv, InStep
    <2> DEFINE type == IF result = "FAILED" THEN "STEP_FAILED" ELSE "STEP_COMPLETED"
    <2>2. /\ type \in EventTypes /\ type \in {"STEP_COMPLETED", "STEP_FAILED"}
          /\ events' = Append(events, [Event(type) EXCEPT !.step = step])
        BY <1>6 DEF AfterAfterStep, EndStep, Emit, Event, EventTypes
    <2> HIDE DEF type
    <2>3. \A x : StepEnds(x)' = StepEnds(x) \cup IF x = step THEN {Len(events')} ELSE {}
        BY <1>1, <2>2, EmittedEnds
    <2>4. /\ events'[Len(events')].type = type
          /\ \A e \in DOMAIN events : events'[e].type = events[e].type
        BY <1>1, <2>2, EmittedEvent
    <2>5. StepEnds(step)' = {Len(events')}
        <3>1. step' = step /\ StepEnds(step) = {}
            BY <1>6, <2>1 DEF AfterAfterStep, StepEndsInv, Ended
        <3> QED BY <2>3, <3>1
    <2>6. Reported(step)'
        <3>1. stepRow'[step] = result /\ step' = step
            BY <1>1, <1>6, <2>1 DEF AfterAfterStep
        <3>2. type = IF stepRow'[step] = "FAILED" THEN "STEP_FAILED" ELSE "STEP_COMPLETED"
            BY <3>1 DEF type
        <3> QED BY <2>4, <2>5, <3>1, <3>2 DEF Reported
    <2>7. ASSUME NEW s \in StepIds, s # step
          PROVE  IF stepRow'[s] \in Ended THEN Reported(s)' \/ ThrewOnly(s)' ELSE StepEnds(s)' = {}
        <3>1. StepEnds(s)' = StepEnds(s) /\ stepRow'[s] = stepRow[s]
            BY <1>1, <2>1, <2>3, <2>7
        <3> QED BY <1>1, <2>1, <2>4, <3>1, StepEndKept DEF StepEndsInv
    <2>8. stepRow'[step] \in Ended /\ step' = step
        BY <1>1, <1>6, <2>1 DEF AfterAfterStep
    <2> QED BY <2>6, <2>7, <2>8 DEF StepEndsInv
<1>7. CASE ListenerThrows
    <2>1. pc = "hook" /\ ~AfterAfterStep /\ ExecutorRuns /\ step' = step
        BY <1>7 DEF ListenerThrows, AfterAfterStep, HookDone, ExecutorRuns, CallListener
    <2>2. CASE InStepExecutor /\ StepThrows
        <3>1. step \in StepIds /\ place[2] # "job"
            BY <1>1, <2>2 DEF InStepExecutor
        <3>2. stepRow[step] = "STARTING"
            BY <2>1, <3>1 DEF BaseInv, ControlInv, InStep
        <3>3. StepEnds(step)' = {}
            BY <2>1, <3>1, <3>2, EndsUnchanged, Zenon DEF StepEndsInv, Ended
        <3> DEFINE failure == [place |-> place, step |-> step, nonCritical |-> Registration.nonCritical]
        <3>4. failure \in raised' /\ failure.place = place /\ failure.step = step
            BY <1>7 DEF ListenerThrows
        <3>5. row' = "FAILED" /\ \A r \in StepIds : stepRow'[r] = IF r = step THEN "FAILED" ELSE stepRow[r]
            BY <1>1, <2>2 DEF StepThrows
        <3> HIDE DEF failure
        <3>6. ThrewOnly(step)'
            BY <2>1, <3>1, <3>3, <3>4, <3>5 DEF ThrewOnly, Threw
        <3> QED BY <1>2, <2>1, <3>5, <3>6 DEF StepEndsInv, Ended
    <2>3. CASE UNCHANGED rows
        BY <1>2, <2>1, <2>3 DEF StepEndsInv
    <2> QED BY <1>7, <2>2, <2>3 DEF ListenerThrows
<1>8. ASSUME ExecutorRuns, ~AfterAfterStep, UNCHANGED stepRow, row = "FAILED" => row' = "FAILED"
      PROVE  StepEndsInv'
    BY <1>2, <1>8 DEF StepEndsInv
<1>9. CASE Start \/ ObserverReturns \/ AfterAfterJob \/ ListenerReturns \/ ListenerRewrites \/ ListenerIgnored
    <2>1. UNCHANGED stepRow /\ (row = "FAILED" => row' = "FAILED") /\ ~AfterAfterStep
        BY <1>9 DEF Start, ObserverReturns, AfterAfterJob, ListenerReturns, ListenerRewrites, ListenerIgnored,
                    AfterAfterStep, HookDone, BaseInv, ControlInv, NoStepYet
    <2> QED BY <1>8, <1>9, <2>1 DEF ExecutorRuns, CallListener
<1>10. CASE AfterBeforeStep \/ TaskletSucceeds \/ TaskletFails \/ AfterErrorStep
    <2>1. UNCHANGED <<row, stepRow>> /\ ~AfterAfterStep
        BY <1>10 DEF AfterBeforeStep, TaskletSucceeds, TaskletFails, AfterErrorStep, AfterAfterStep, HookDone
    <2> QED BY <1>8, <1>10, <2>1 DEF ExecutorRuns
<1>11. CASE ChunkStepRuns
    <2>1. UNCHANGED <<row, stepRow>> /\ ~AfterAfterStep
        BY <1>11 DEF ChunkStepRuns, AfterBeforeChunk, AfterBeforeItem, EndOfInput, WorkDone, Filtered, WorkFails,
                AfterAfterItem, PolicySkips, PolicyRetries, PolicyGivesUp, AfterSkip, AfterAfterChunk,
                AfterErrorChunk, AfterAfterStep, HookDone, ItemKinds
    <2> QED BY <1>8, <1>11, <2>1 DEF ExecutorRuns
<1>12. CASE Deliver \/ Late \/ UNCHANGED vars
    <2>1. /\ DOMAIN events' = DOMAIN events
          /\ \A x \in DOMAIN events : events'[x].type = events[x].type /\ events'[x].step = events[x].step
          /\ UNCHANGED <<row, stepRow>>
        BY <1>12, DeliveryKeepsEvents
    <2>2. \A s : StepEnds(s)' = StepEnds(s)
        BY <2>1 DEF StepEnds
    <2> QED BY <1>1, <2>1, <2>2, StepEndKept DEF StepEndsInv
<1> QED BY <1>4, <1>5, <1>6, <1>7, <1>9, <1>10, <1>11, <1>12 DEF Next, ExecutorRuns, CallListener, Finished

\* The job's end is told once, by the last event.
LEMMA JobEndStep ==
    ASSUME BaseInv, JobEndInv, [Next]_vars
    PROVE  JobEndInv'
<1> USE DEF config, rows, chunkState, history
<1>1. CASE AfterAfterJob
    <2> DEFINE type == IF row = "COMPLETED" THEN "JOB_COMPLETED" ELSE "JOB_FAILED"
    <2>0. Event(type) = [Event(type) EXCEPT !.step = step]
        BY DEF Event
    <2>1. /\ type \in EventTypes /\ type \in JobEnd /\ step \in 0..Len(Steps) /\ pc = "hook"
          /\ events' = Append(events, [Event(type) EXCEPT !.step = step])
          /\ pc' = "emit" /\ next' = "return" /\ row' = row
        BY <1>1, <2>0 DEF AfterAfterJob, HookDone, Emit, EventTypes, JobEnd, BaseInv, JobTyped, RowsTyped
    <2>2. type = IF row' = "COMPLETED" THEN "JOB_COMPLETED" ELSE "JOB_FAILED"
        BY <2>1
    <2> HIDE DEF type
    <2>3. JobEnds' = JobEnds \cup {Len(events')} /\ events'[Len(events')].type = type
        BY <2>1, EmittedEnds, EmittedEvent
    <2>4. JobEnds = {}
        BY <2>1 DEF JobEndInv, EndTold
    <2> QED BY <2>1, <2>2, <2>3, <2>4 DEF JobEndInv, EndTold
<1>2. CASE ObserverReturns
    <2>1. JobEnds' = JobEnds /\ events' = events /\ row' = row
        BY <1>2 DEF ObserverReturns, JobEnds
    <2>2. EndTold' = EndTold
        BY <1>2 DEF ObserverReturns, Continue, Invoke, EndTold
    <2> QED BY <2>1, <2>2 DEF JobEndInv
<1>3. ASSUME ExecutorRuns, ~AfterAfterJob, ~EndTold, ~EndTold' PROVE JobEndInv'
    BY <1>3, EndsUnchanged DEF JobEndInv
<1>4. CASE Start \/ Route \/ AfterBeforeJob
    <2>1. ~AfterAfterJob /\ ~EndTold /\ ~EndTold'
        BY <1>4 DEF Start, Route, AfterBeforeJob, AfterAfterJob, CreateStep, EndJob, Emit, Invoke, HookDone, EndTold
    <2> QED BY <1>3, <1>4, <2>1 DEF ExecutorRuns
<1>5. CASE AfterBeforeStep \/ AfterAfterStep \/ TaskletSucceeds \/ TaskletFails \/ AfterErrorStep
    <2>1. ~AfterAfterJob /\ ~EndTold /\ ~EndTold'
        BY <1>5 DEF AfterBeforeStep, AfterAfterStep, EndStep, Emit, TaskletSucceeds, TaskletFails, AfterErrorStep,
                    AfterAfterJob, HookDone, Invoke, EndTold
    <2> QED BY <1>3, <1>5, <2>1 DEF ExecutorRuns
<1>6. CASE CallListener
    <2>1. ~AfterAfterJob /\ ~EndTold /\ ~EndTold'
        BY <1>6 DEF CallListener, ListenerReturns, ListenerRewrites, ListenerIgnored, ListenerThrows, StepThrows,
                    AfterAfterJob, HookDone, Invoke, EndTold
    <2> QED BY <1>3, <1>6, <2>1 DEF ExecutorRuns
<1>7. CASE ChunkStepRuns
    <2>1. ~AfterAfterJob /\ ~EndTold /\ ~EndTold'
        BY <1>7 DEF ChunkStepRuns, AfterBeforeChunk, AfterBeforeItem, EndOfInput, WorkDone, Filtered, WorkFails,
                AfterAfterItem, PolicySkips, PolicyRetries, PolicyGivesUp, AfterSkip, AfterAfterChunk,
                AfterErrorChunk, SaveCheckpoint, AfterAfterJob, HookDone, Invoke, ItemKinds, EndTold
    <2> QED BY <1>3, <1>7, <2>1 DEF ExecutorRuns
<1>8. CASE Deliver \/ Late \/ UNCHANGED vars
    <2>1. /\ DOMAIN events' = DOMAIN events /\ Len(events') = Len(events)
          /\ \A x \in DOMAIN events : events'[x].type = events[x].type
          /\ UNCHANGED <<pc, next, row>>
        BY <1>8, DeliveryKeepsEvents
    <2>2. JobEnds' = JobEnds /\ EndTold' = EndTold
        BY <2>1 DEF JobEnds, EndTold
    <2>3. EndTold => Len(events) \in DOMAIN events
        BY DEF JobEndInv, JobEnds
    <2> QED BY <2>1, <2>2, <2>3 DEF JobEndInv
<1> QED BY <1>1, <1>2, <1>4, <1>5, <1>6, <1>7, <1>8 DEF Next, ExecutorRuns, Finished

\* after:step is invoked for all its listeners, whatever they have heard before.
LEMMA AfterStepInvoked ==
    ASSUME BaseInv, ToldInv, step \in StepIds, Invoke(<<"after", "step">>), UNCHANGED <<listeners, step, told>>
    PROVE  \A t \in told'[step] : t[1] \in DOMAIN queue'
<1>1. DOMAIN queue' = AfterStepListeners
    BY InvokeCalls DEF BaseInv, CallsAt, AfterStepListeners
<1>2. \A t \in told[step] : t[1] \in AfterStepListeners
    BY DEF ToldInv
<1> QED BY <1>1, <1>2

(***************************************************************************)
(* The listeners at after:step have heard the result that the step is      *)
(* given, though all of them are called again when one of them throws.     *)
(***************************************************************************)
LEMMA ToldStep ==
    ASSUME BaseInv, StepRowsInv, StepEndsInv, ToldInv, [Next]_vars
    PROVE  ToldInv'
<1> USE DEF config, rows, chunkState, history
<1>1. /\ JobTyped /\ step \in 0..Len(Steps) /\ Len(Steps) \in Nat \ {0} /\ StepIds = 1..Len(Steps)
      /\ told \in [StepIds -> SUBSET (Nat \X ({"none"} \cup Ended))]
      /\ stepRow \in [StepIds -> {"none", "STARTING"} \cup Ended]
      /\ rewritten \subseteq rewritten' /\ listeners' = listeners /\ AfterStepListeners' = AfterStepListeners
    BY JobEventsAssumption, HistoryGrows DEF BaseInv, JobTyped, RowsTyped, StepIds, AfterStepListeners
<1>2. ASSUME pc = "hook", place[2] # "job" PROVE step \in StepIds /\ StepEnds(step) = {}
    BY <1>1, <1>2 DEF BaseInv, ControlInv, InStep, StepEndsInv, Ended
<1>3. CASE ListenerReturns \/ ListenerIgnored \/ ListenerRewrites \/ ListenerThrows
    <2>1. /\ pc = "hook" /\ DOMAIN queue # {} /\ step' = step /\ ExecutorRuns /\ ~AfterAfterStep
        BY <1>3 DEF ListenerReturns, ListenerIgnored, ListenerRewrites, ListenerThrows, ExecutorRuns, CallListener,
                    AfterAfterStep, HookDone
    <2>2. First(queue) \in DOMAIN queue /\ DOMAIN Rest(queue) = DOMAIN queue \ {First(queue)}
        BY <2>1, ListenerCalled DEF BaseInv
    <2>3. place = <<"after", "step">> => First(queue) \in AfterStepListeners
        BY <2>1, <2>2 DEF BaseInv, CallsInv, AfterStepListeners
    <2>4. \A s : StepEnds(s)' = StepEnds(s)
        BY <2>1, EndsUnchanged, Zenon
    <2>5. \A s \in StepIds : s # step => stepRow'[s] = stepRow[s] /\ told'[s] = told[s]
        BY <1>1, <1>3 DEF ListenerReturns, ListenerIgnored, ListenerRewrites, ListenerThrows, StepThrows, Hear
    <2>6. CASE place # <<"after", "step">>
        <3>1. told' = told
            BY <1>3, <2>6 DEF ListenerReturns, ListenerIgnored, ListenerRewrites, ListenerThrows, Hear
        <3>2. stepRow' = stepRow \/ (step \in StepIds /\ StepEnds(step) = {})
            BY <1>2, <1>3, <2>1
               DEF ListenerReturns, ListenerIgnored, ListenerRewrites, ListenerThrows, InStepExecutor
        <3>3. ~(pc' = "hook" /\ place' = <<"after", "step">>)
            BY <1>3, <2>6 DEF ListenerReturns, ListenerIgnored, ListenerRewrites, ListenerThrows, StepThrows, Invoke
        <3> QED BY <1>1, <2>4, <2>5, <3>1, <3>2, <3>3 DEF ToldInv
    <2>7. CASE place = <<"after", "step">>
        <3>1. step \in StepIds /\ StepEnds(step) = {}
            BY <1>2, <2>1, <2>7
        <3>2. \A t \in told'[step] : (t \in told[step] /\ t[1] # First(queue)) \/ t = <<First(queue), result>>
            <4>1. told'[step] = {} \/ told'[step] = {t \in told[step] : t[1] # First(queue)}
                                                    \cup {<<First(queue), result>>}
                BY <1>1, <1>3, <2>7, <3>1
                   DEF ListenerReturns, ListenerIgnored, ListenerRewrites, ListenerThrows, Hear
            <4> QED BY <4>1
        <3>3. \A t \in told'[step] : t[1] \in AfterStepListeners
            BY <2>3, <2>7, <3>1, <3>2 DEF ToldInv
        <3>4. pc' = "hook" /\ place' = <<"after", "step">> /\ step' \notin rewritten' =>
                \A t \in told'[step'] : t[1] \in DOMAIN queue' \/ t[2] = result'
            <4>1. CASE ListenerThrows
                BY <4>1 DEF ListenerThrows, StepThrows, Invoke
            <4>2. CASE ListenerRewrites
                BY <2>1, <4>2 DEF ListenerRewrites
            <4>3. CASE ListenerReturns \/ ListenerIgnored
                <5>1. UNCHANGED <<result, rewritten>> /\ queue' = Rest(queue)
                    BY <4>3 DEF ListenerReturns, ListenerIgnored
                <5>2. step \notin rewritten => \A t \in told[step] : t[1] \in DOMAIN queue \/ t[2] = result
                    BY <2>1, <2>7 DEF ToldInv
                <5> QED BY <2>1, <2>2, <3>2, <5>1, <5>2
            <4> QED BY <1>3, <4>1, <4>2, <4>3
        <3>5. \A s \in StepIds : \A t \in told'[s] : t[1] \in AfterStepListeners
            BY <2>5, <3>3 DEF ToldInv
        <3>6. \A s \in StepIds : s \notin rewritten' /\ StepEnds(s)' # {} => \A t \in told'[s] : t[2] = stepRow'[s]
            BY <1>1, <2>4, <2>5, <3>1 DEF ToldInv
        <3> QED BY <1>1, <3>4, <3>5, <3>6 DEF ToldInv
    <2> QED BY <2>6, <2>7
<1>4. ASSUME ExecutorRuns, ~AfterAfterStep, UNCHANGED <<told, rewritten>>,
             \A s \in StepIds : stepRow'[s] = stepRow[s] \/ StepEnds(s) = {},
             ~(pc' = "hook" /\ place' = <<"after", "step">>)
                \/ (Invoke(<<"after", "step">>) /\ step' = step /\ step \in StepIds)
      PROVE  ToldInv'
    <2>1. \A s : StepEnds(s)' = StepEnds(s)
        BY <1>4, EndsUnchanged, Zenon
    <2>2. pc' = "hook" /\ place' = <<"after", "step">> =>
            \A t \in told'[step'] : t[1] \in DOMAIN queue'
        BY <1>1, <1>4, AfterStepInvoked
    <2> QED BY <1>1, <1>4, <2>1, <2>2 DEF ToldInv
<1>5. CASE AfterAfterStep
    <2>1. /\ pc = "hook" /\ place = <<"after", "step">> /\ DOMAIN queue = {} /\ step \in StepIds
          /\ StepEnds(step) = {}
        BY <1>2, <1>5 DEF AfterAfterStep, HookDone
    <2>2. /\ pc' = "emit" /\ UNCHANGED <<told, rewritten, step>>
          /\ \A s \in StepIds : stepRow'[s] = IF s = step THEN result ELSE stepRow[s]
        BY <1>1, <1>5 DEF AfterAfterStep, EndStep, Emit
    <2>3. step \notin rewritten => \A t \in told[step] : t[2] = result
        BY <2>1 DEF ToldInv
    <2>4. \A s \in StepIds : s # step => StepEnds(s)' = StepEnds(s)
        <3>1. PICK type \in EventTypes : events' = Append(events, Event(type))
            BY <1>5 DEF AfterAfterStep, EndStep, Emit, EventTypes
        <3>2. Event(type) = [Event(type) EXCEPT !.step = step]
            BY DEF Event
        <3>3. events' = Append(events, [Event(type) EXCEPT !.step = step])
            BY <3>1, <3>2
        <3>4. step \in 0..Len(Steps)
            BY <1>1
        <3>5. ASSUME NEW s \in StepIds, s # step PROVE StepEnds(s)' = StepEnds(s)
            <4>1. StepEnds(s)' = StepEnds(s) \cup IF s = step /\ type \in {"STEP_COMPLETED", "STEP_FAILED"}
                                                THEN {Len(events')} ELSE {}
                BY <3>3, <3>4, EmittedEnds, Zenon
            <4> QED BY <3>5, <4>1
        <3> QED BY <3>5
    <2> QED BY <1>1, <2>2, <2>3, <2>4 DEF ToldInv
<1>6. ASSUME NEW s \in StepIds, s = step + 1, CreateStep(s), ExecutorRuns, ~AfterAfterStep,
             UNCHANGED <<told, rewritten>>
      PROVE  ToldInv'
    <2>1. pc' = "emit" /\ \A r \in StepIds : r # s => stepRow'[r] = stepRow[r]
        BY <1>1, <1>6 DEF CreateStep
    <2>2. StepEnds(s) = {}
        BY <1>1, <1>6 DEF StepRowsInv, StepEndsInv, Ended
    <2> QED BY <1>4, <1>6, <2>1, <2>2
<1>7. CASE AfterBeforeJob
    <2>1. step = 0 /\ ~AfterAfterStep
        BY <1>7 DEF AfterBeforeJob, AfterAfterStep, HookDone, BaseInv, ControlInv, NoStepYet
    <2> QED BY <1>1, <1>6, <1>7, <2>1 DEF AfterBeforeJob, ExecutorRuns
<1>8. CASE Route
    <2>1. ~AfterAfterStep /\ ExecutorRuns /\ UNCHANGED <<told, rewritten>>
        BY <1>8 DEF Route, AfterAfterStep, HookDone, ExecutorRuns
    <2>2. CASE step < Len(Steps) /\ CreateStep(step + 1)
        BY <1>1, <1>6, <2>1, <2>2
    <2>3. CASE \E status \in Ended : EndJob(status)
        BY <1>4, <2>1, <2>3 DEF EndJob, Invoke
    <2> QED BY <1>8, <2>2, <2>3 DEF Route, Ended
<1>9. CASE Start \/ ObserverReturns \/ AfterAfterJob \/ AfterBeforeStep \/ TaskletFails
    <2>1. /\ ~AfterAfterStep /\ UNCHANGED <<told, rewritten, stepRow>>
          /\ ~(pc' = "hook" /\ place' = <<"after", "step">>)
        BY <1>9 DEF Start, ObserverReturns, Continue, AfterAfterJob, AfterBeforeStep, TaskletFails, AfterAfterStep,
                    HookDone, Emit, Invoke
    <2> QED BY <1>4, <1>9, <2>1 DEF ExecutorRuns
<1>10. CASE TaskletSucceeds \/ AfterErrorStep
    <2>1. step \in StepIds /\ ~AfterAfterStep
        BY <1>1, <1>10 DEF TaskletSucceeds, AfterErrorStep, AfterAfterStep, HookDone, BaseInv, ControlInv, InStep
    <2> QED BY <1>4, <1>10, <2>1 DEF TaskletSucceeds, AfterErrorStep, ExecutorRuns
<1>11. CASE ChunkStepRuns
    <2>1. /\ ~AfterAfterStep /\ UNCHANGED <<told, rewritten, stepRow, step>>
          /\ ~(pc' = "hook" /\ place' = <<"after", "step">>) \/ Invoke(<<"after", "step">>)
        BY <1>11 DEF ChunkStepRuns, AfterBeforeChunk, AfterBeforeItem, EndOfInput, WorkDone, Filtered, WorkFails,
                AfterAfterItem, PolicySkips, PolicyRetries, PolicyGivesUp, AfterSkip, AfterAfterChunk,
                AfterErrorChunk, SaveCheckpoint, AfterAfterStep, HookDone, Invoke, ItemKinds, PhaseKind, BaseInv,
                ControlInv
    <2>2. CASE AfterAfterChunk
        <3>1. step \in StepIds
            BY <1>2, <2>2 DEF AfterAfterChunk, HookDone
        <3> QED BY <1>4, <1>11, <2>1, <3>1 DEF ExecutorRuns
    <2>3. CASE ~AfterAfterChunk
        <3>1. step \in StepIds
            BY <1>1, <1>11, <1>2 DEF ChunkStepRuns, AfterBeforeChunk, AfterBeforeItem, EndOfInput, WorkDone, Filtered,
                WorkFails, AfterAfterItem, PolicySkips, PolicyRetries, PolicyGivesUp, AfterSkip, AfterAfterChunk,
                AfterErrorChunk, HookDone, ItemKinds, BaseInv, ControlInv, InStep
        <3> QED BY <1>4, <1>11, <2>1, <3>1 DEF ExecutorRuns
    <2> QED BY <2>2, <2>3
<1>12. CASE Deliver \/ Late \/ UNCHANGED vars
    <2>1. /\ DOMAIN events' = DOMAIN events
          /\ \A x \in DOMAIN events : events'[x].type = events[x].type /\ events'[x].step = events[x].step
          /\ UNCHANGED <<pc, place, queue, step, stepRow, result, told, rewritten>>
        BY <1>12, DeliveryKeepsEvents
    <2>2. \A s : StepEnds(s)' = StepEnds(s)
        BY <2>1 DEF StepEnds
    <2> QED BY <1>1, <2>1, <2>2 DEF ToldInv
<1> QED BY <1>3, <1>5, <1>7, <1>8, <1>9, <1>10, <1>11, <1>12 DEF Next, ExecutorRuns, CallListener, Finished

(***************************************************************************)
(* For any job, any listeners and any webhook options: when execute is     *)
(* over, the events tell what the rows say; the job's end once and last,   *)
(* every ended step once, or its executor threw and the job failed; and    *)
(* what an after:step listener last heard is the status in the step's row, *)
(* unless one of them rewrote it (JobExecutor.execute).                    *)
(***************************************************************************)
THEOREM OutcomesAreReported == Spec => []OutcomeReported
<1> DEFINE OutcomeInv == BaseInv /\ StepRowsInv /\ StepEndsInv /\ ToldInv /\ JobEndInv
<1>1. Init => StepRowsInv /\ StepEndsInv /\ ToldInv /\ JobEndInv
    BY JobEventsAssumption
       DEF Init, StepRowsInv, JobOver, StepEndsInv, StepEnds, ToldInv, JobEndInv, EndTold, JobEnds, StepIds, Ended
<1>2. OutcomeInv => OutcomeReported
    <2> SUFFICES ASSUME OutcomeInv, Over PROVE OutcomeReported
        BY DEF OutcomeReported
    <2>1. Cardinality(JobEnds) = IF pc = "returned" THEN 1 ELSE 0
        BY FS_EmptySet, FS_Singleton DEF JobEndInv, EndTold, Over
    <2>2. pc = "returned" => events[Len(events)].type = IF row = "COMPLETED" THEN "JOB_COMPLETED" ELSE "JOB_FAILED"
        BY DEF JobEndInv, EndTold
    <2>3. row = "STARTED" => \E r \in raised : r.place = <<"before", "job">>
        BY DEF Over, BaseInv, ControlInv, JobOver, Ended, JobTyped, RowsTyped
    <2>4. step \in 0..Len(Steps) /\ StepIds = 1..Len(Steps) /\ Len(Steps) \in Nat
        BY JobEventsAssumption DEF BaseInv, JobTyped, RowsTyped, StepIds
    <2>5. row = "COMPLETED" => \A s \in StepIds : stepRow[s] = "COMPLETED"
        BY <2>4 DEF StepRowsInv
    <2>6. \A s \in StepIds : stepRow[s] = "none" \/ Reported(s) \/ ThrewOnly(s)
        <3>1. step > 0 => stepRow[step] \in Ended
            BY <2>4 DEF Over, StepRowsInv, JobOver, BaseInv, ControlInv, NoStepYet
        <3>2. \A s \in StepIds : stepRow[s] = "none" \/ stepRow[s] \in Ended
            BY <2>4, <3>1 DEF StepRowsInv, Ended
        <3> QED BY <3>2 DEF StepEndsInv
    <2>7. \A s \in StepIds : StepEnds(s) # {} /\ s \notin rewritten => \A t \in told[s] : t[2] = stepRow[s]
        BY DEF ToldInv
    <2> QED BY <2>1, <2>2, <2>3, <2>5, <2>6, <2>7
            DEF OutcomeReported, JobEnds, StepEnds, Reported, ThrewOnly, Threw
<1> QED BY <1>1, <1>2, BaseInvariant, StepRowsStep, StepEndsStep, ToldStep, JobEndStep, PTL DEF Spec

=============================================================================
