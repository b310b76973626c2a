------------------------ MODULE ScheduleRuntimes_proofs ------------------------
(***************************************************************************)
(* Proofs about the schedule runtimes for any schedules, policies, ticks,  *)
(* fires, replicas and faults.                                             *)
(*                                                                         *)
(* In process, TicksTakeTurns is not inductive: that a kept tick may be    *)
(* launched when a launch ends needs that it is later than every tick      *)
(* launched, and that one is kept only while a launch runs.  On BullMQ,    *)
(* FiresRunAlone needs that no row that ended is put back on the queue,    *)
(* which rests on a fire being in the hands of one worker at a time.       *)
(***************************************************************************)
EXTENDS ScheduleRuntimes, FiniteSetTheorems, SequenceTheorems, TLAPS

-----------------------------------------------------------------------------
\* runningCount counts the launches in flight, and they are ticks that came.
RunningInv(s) ==
    /\ state[s].inFlight \subseteq 1..tick[s]
    /\ state[s].runningCount = Cardinality(state[s].inFlight)
    /\ Overlap[s] # "parallel" => state[s].runningCount <= 1

\* Ticks are launched in order, and none that has not come.
OrderInv(s) ==
    /\ \A i \in DOMAIN launched[s] : launched[s][i] <= tick[s]
    /\ \A i, j \in DOMAIN launched[s] : i < j => launched[s][i] < launched[s][j]

\* A tick is kept while a launch runs, and is later than all launched ones.
KeptInv(s) ==
    state[s].queued =>
        /\ Overlap[s] = "queue" /\ hook # "none"
        /\ ~Stopped => state[s].runningCount > 0
        /\ state[s].queuedAt \in 1..tick[s]
        /\ \A i \in DOMAIN launched[s] : launched[s][i] < state[s].queuedAt

\* The time of a kept tick is cleared with it.
ClearedInv(s) == ~state[s].queued => state[s].queuedAt = Null

TicksInv ==
    /\ ScheduleTypeOK
    /\ \A s \in Schedules : RunningInv(s) /\ OrderInv(s) /\ KeptInv(s) /\ ClearedInv(s)
-----------------------------------------------------------------------------
Fire == [schedule : Schedules, status : {"waiting", "active", "completed", "failed"},
         attempts : Nat, stalls : Nat]

FireRow == [fire : Nat, key : Schedules \X Nat \X Nat, status : {"STARTING", "queued", "ended"}]

Phase == {"idle", "launch", "enqueue", "return", "throw"}

\* Fires, rows and workers have their types, and refer to fires that came.
FiresTyped ==
    /\ fires \in Seq(Fire)
    /\ rows \in Seq(FireRow)
    /\ \A i \in DOMAIN rows : rows[i].fire \in DOMAIN fires
    /\ worker \in [Replicas -> [phase : Phase, fire : Nat]]
    /\ \A r \in Replicas : worker[r].phase # "idle" => worker[r].fire \in DOMAIN fires
    /\ \A r \in Replicas : worker[r].phase = "idle" => worker[r] = Idle

\* A fire is in the hands of one worker, and active meanwhile.
HandsInv ==
    \A r \in Replicas : worker[r].phase # "idle" =>
        /\ fires[worker[r].fire].status = "active"
        /\ \A q \in Replicas \ {r} : worker[q].phase # "idle" => worker[q].fire # worker[r].fire

\* The identity of fire f with UUID d, which only duplicates have.
KeyOf(f, d) ==
    <<fires[f].schedule,
      IF Overlap[fires[f].schedule] = "skip" THEN 0 ELSE f,
      IF fires[f].schedule \in Duplicates THEN d ELSE 0>>

HasKey(i) == \E d \in Nat : rows[i].key = KeyOf(rows[i].fire, d)

\* A row has an identity of its fire, and only one row of an identity is running.
KeysInv ==
    /\ \A i \in DOMAIN rows : HasKey(i)
    /\ \A i, j \in DOMAIN rows :
           i # j /\ rows[i].status # "ended" /\ rows[j].status # "ended" => rows[i].key # rows[j].key

\* A worker about to enqueue has made its fire's last row, which waits for it.
EnqueueInv ==
    \A r \in Replicas : worker[r].phase = "enqueue" =>
        \E i \in DOMAIN rows :
            /\ rows[i].fire = worker[r].fire /\ rows[i].status = "STARTING"
            /\ \A j \in DOMAIN rows : rows[j].fire = worker[r].fire => j <= i

\* What an acknowledged fire can show, or one about to be acknowledged.
Handled(f) ==
    \E i \in DOMAIN rows :
        \/ rows[i].fire = f /\ rows[i].status # "STARTING"
        \/ /\ Overlap[fires[f].schedule] = "skip"
           /\ fires[rows[i].fire].schedule = fires[f].schedule

HandledInv ==
    /\ \A r \in Replicas : worker[r].phase = "return" => Handled(worker[r].fire)
    /\ \A f \in DOMAIN fires : fires[f].status = "completed" => Handled(f)

FiresInv == FiresTyped /\ HandsInv /\ KeysInv /\ EnqueueInv /\ HandledInv

-----------------------------------------------------------------------------
(***************************************************************************)
(* A tick later than every launched one extends the launches in order.     *)
(***************************************************************************)
LEMMA AppendLater ==
    ASSUME NEW seq \in Seq(1..MaxTicks), NEW at \in 1..MaxTicks, MaxTicks \in Nat,
           \A i \in DOMAIN seq : seq[i] < at,
           \A i, j \in DOMAIN seq : i < j => seq[i] < seq[j]
    PROVE  /\ Append(seq, at) \in Seq(1..MaxTicks)
           /\ \A i \in DOMAIN Append(seq, at) : Append(seq, at)[i] <= at
           /\ \A i, j \in DOMAIN Append(seq, at) : i < j => Append(seq, at)[i] < Append(seq, at)[j]
<1> DEFINE t == Append(seq, at)
<1>1. /\ Len(seq) \in Nat /\ DOMAIN seq = 1..Len(seq) /\ \A i \in 1..Len(seq) : seq[i] \in 1..MaxTicks
    BY LenProperties, ElementOfSeq
<1>2. t \in Seq(1..MaxTicks) /\ Len(t) = Len(seq) + 1
    BY AppendProperties
<1>3. /\ DOMAIN t = 1..(Len(seq) + 1)
      /\ \A i \in 1..Len(seq) : t[i] = seq[i]
      /\ t[Len(seq) + 1] = at
    BY <1>1, <1>2, AppendProperties, LenProperties
<1> HIDE DEF t
<1>4. ASSUME NEW i \in DOMAIN t PROVE t[i] <= at
    <2>1. CASE i \in 1..Len(seq)
        BY <1>1, <1>3, <2>1
    <2>2. CASE i = Len(seq) + 1
        BY <1>3, <2>2
    <2> QED BY <1>1, <1>3, <2>1, <2>2
<1>5. ASSUME NEW i \in DOMAIN t, NEW j \in DOMAIN t, i < j PROVE t[i] < t[j]
    <2>1. i \in 1..Len(seq) /\ (j \in 1..Len(seq) \/ j = Len(seq) + 1)
        BY <1>1, <1>3, <1>5
    <2>2. t[i] = seq[i] /\ seq[i] < at
        BY <1>1, <1>3, <2>1
    <2>3. CASE j \in 1..Len(seq)
        BY <1>1, <1>3, <1>5, <2>1, <2>2, <2>3
    <2>4. CASE j = Len(seq) + 1
        BY <1>3, <2>2, <2>4
    <2> QED BY <2>1, <2>3, <2>4
<1> QED BY <1>2, <1>4, <1>5 DEF t

(***************************************************************************)
(* Launches in flight are finitely many ticks.                             *)
(***************************************************************************)
LEMMA FlightFinite ==
    ASSUME NEW S \in SUBSET (1..MaxTicks), MaxTicks \in Nat
    PROVE  /\ IsFiniteSet(S) /\ Cardinality(S) \in Nat
           /\ Cardinality(S) = 0 <=> S = {}
           /\ \A x : x \notin S => Cardinality(S \cup {x}) = Cardinality(S) + 1
           /\ \A x \in S : Cardinality(S \ {x}) = Cardinality(S) - 1
<1>1. IsFiniteSet(S)
    <2>1. IsFiniteSet(1..MaxTicks)
        BY FS_Interval
    <2> QED BY <2>1, FS_Subset
<1> QED BY <1>1, FS_CardinalityType, FS_EmptySet, FS_AddElement, FS_RemoveElement

\* No timer, tick or run exists before the first registration.
LEMMA TicksInitInv == ScheduleInit => TicksInv
<1> SUFFICES ASSUME ScheduleInit PROVE TicksInv
    OBVIOUS
<1> USE ScheduleAssumption DEF ScheduleInit, Null
<1>1. ScheduleTypeOK
    <2>1. launched \in [Schedules -> Seq(1..MaxTicks)]
        BY EmptySeq
    <2>2. state \in [Schedules -> ScheduleState]
        BY DEF ScheduleState
    <2> QED BY <2>1, <2>2 DEF ScheduleTypeOK
<1>2. ASSUME NEW s \in Schedules PROVE RunningInv(s) /\ OrderInv(s) /\ KeptInv(s) /\ ClearedInv(s)
    <2>1. RunningInv(s)
        <3>1. state[s].inFlight = {} /\ state[s].runningCount = 0
            OBVIOUS
        <3>2. Cardinality({}) = 0
            BY FS_EmptySet
        <3>3. state[s].runningCount = Cardinality(state[s].inFlight) /\ state[s].inFlight \subseteq 1..tick[s]
            BY <3>1, <3>2
        <3> QED BY <3>1, <3>3 DEF RunningInv
    <2>2. OrderInv(s)
        BY DEF OrderInv
    <2> QED BY <2>1, <2>2 DEF KeptInv, ClearedInv
<1> QED BY <1>1, <1>2 DEF TicksInv

\* The state of one schedule after a dispatch that launches.
LEMMA DispatchInv ==
    ASSUME MaxTicks \in Nat, NEW st \in ScheduleState, NEW at \in 1..MaxTicks,
           at \notin st.inFlight, st.runningCount = Cardinality(st.inFlight)
    PROVE  /\ StartLaunch(st, at) \in ScheduleState
           /\ StartLaunch(st, at).runningCount = st.runningCount + 1
           /\ StartLaunch(st, at).inFlight = st.inFlight \cup {at}
           /\ StartLaunch(st, at).runningCount = Cardinality(StartLaunch(st, at).inFlight)
           /\ StartLaunch(st, at).queued = st.queued /\ StartLaunch(st, at).queuedAt = st.queuedAt
<1>1. st.inFlight \in SUBSET (1..MaxTicks) /\ st.runningCount \in Nat
    BY DEF ScheduleState
<1>2. /\ StartLaunch(st, at).runningCount = st.runningCount + 1
      /\ StartLaunch(st, at).inFlight = st.inFlight \cup {at}
      /\ StartLaunch(st, at).queued = st.queued /\ StartLaunch(st, at).queuedAt = st.queuedAt
    BY DEF StartLaunch, ScheduleState
<1>3. StartLaunch(st, at) \in ScheduleState
    <2>1. st.runningCount + 1 \in Nat /\ st.inFlight \cup {at} \in SUBSET (1..MaxTicks)
        BY <1>1
    <2> QED BY <2>1 DEF StartLaunch, ScheduleState
<1>4. Cardinality(st.inFlight \cup {at}) = Cardinality(st.inFlight) + 1
    BY <1>1, FlightFinite
<1> QED BY <1>2, <1>3, <1>4

\* The state of schedule s was st when a tick at time at was kept or dropped.
TickHeld(new, s, st, at) ==
    /\ new \in ScheduleState /\ new.runningCount = st.runningCount /\ new.inFlight = st.inFlight
    /\ \/ new = st
       \/ /\ Overlap[s] # "skip" /\ new.queued = TRUE
          /\ st.queuedAt = Null => new.queuedAt = at
          /\ st.queuedAt # Null => new.queuedAt = st.queuedAt

\* The state of one schedule after a dispatch that keeps or drops the tick.
LEMMA HoldInv ==
    ASSUME NEW s \in Schedules, NEW st \in ScheduleState, NEW at \in 1..MaxTicks, MaxTicks \in Nat
    PROVE  TickHeld(Hold(s, st, at), s, st, at)
<1> USE DEF TickHeld
<1>1. CASE Overlap[s] = "skip"
    BY <1>1 DEF Hold
<1>2. CASE Overlap[s] # "skip"
    <2> DEFINE when == IF st.queuedAt = Null THEN at ELSE st.queuedAt
    <2>1. when \in 0..MaxTicks
        BY DEF ScheduleState
    <2>2. Hold(s, st, at) = [st EXCEPT !.queued = TRUE, !.queuedAt = when]
        BY <1>2 DEF Hold, ScheduleState
    <2> HIDE DEF when
    <2>3. /\ Hold(s, st, at) \in ScheduleState
          /\ Hold(s, st, at).runningCount = st.runningCount /\ Hold(s, st, at).inFlight = st.inFlight
          /\ Hold(s, st, at).queued = TRUE /\ Hold(s, st, at).queuedAt = when
        BY <2>1, <2>2 DEF ScheduleState
    <2> QED BY <1>2, <2>3 DEF when
<1> QED BY <1>1, <1>2

\* The state of one schedule once its kept tick is taken.
LEMMA TakeQueuedInv ==
    ASSUME NEW st \in ScheduleState, MaxTicks \in Nat
    PROVE  /\ TakeQueued(st) \in ScheduleState
           /\ TakeQueued(st).runningCount = st.runningCount /\ TakeQueued(st).inFlight = st.inFlight
           /\ TakeQueued(st).queued = FALSE /\ TakeQueued(st).queuedAt = Null
<1>1. FALSE \in BOOLEAN /\ 0 \in 0..MaxTicks
    OBVIOUS
<1> QED BY <1>1 DEF TakeQueued, ScheduleState, Null

\* A schedule not named in the step, and the types of all, from one schedule's.
LEMMA OneScheduleInv ==
    ASSUME TicksInv, NEW s \in Schedules, ScheduleTypeOK', UNCHANGED hook,
           \A q \in Schedules \ {s} :
               state'[q] = state[q] /\ launched'[q] = launched[q] /\ tick'[q] = tick[q],
           RunningInv(s)' /\ OrderInv(s)' /\ KeptInv(s)' /\ ClearedInv(s)'
    PROVE  TicksInv'
<1> USE DEF TicksInv
<1>1. ASSUME NEW q \in Schedules, q # s
      PROVE  (RunningInv(q) /\ OrderInv(q) /\ KeptInv(q) /\ ClearedInv(q))'
    <2>1. state'[q] = state[q] /\ launched'[q] = launched[q] /\ tick'[q] = tick[q]
        BY <1>1
    <2>2. RunningInv(q) /\ OrderInv(q) /\ KeptInv(q) /\ ClearedInv(q)
        OBVIOUS
    <2> QED BY <2>1, <2>2 DEF RunningInv, OrderInv, KeptInv, ClearedInv, Stopped
<1> QED BY <1>1

(***************************************************************************)
(* A tick is dropped, kept behind the running launch, or launched.         *)
(***************************************************************************)
LEMMA OnTickInv == ASSUME TicksInv, NEW s \in Schedules, OnTick(s) PROVE TicksInv'
<1> DEFINE st == state[s]
           now == tick[s] + 1
<1> USE ScheduleAssumption DEF TicksInv
<1>1. /\ st \in ScheduleState /\ launched[s] \in Seq(1..MaxTicks) /\ tick[s] \in Nat
      /\ now \in 1..MaxTicks /\ tick' = [tick EXCEPT ![s] = now] /\ tick'[s] = now
      /\ hook' = hook /\ hook = "bootstrap"
      /\ now = tick[s] + 1
    BY DEF OnTick, Stopped, ScheduleTypeOK
<1>2. /\ st.inFlight \subseteq 1..now /\ now \notin st.inFlight
      /\ st.runningCount = Cardinality(st.inFlight) /\ st.runningCount \in Nat
    BY <1>1 DEF RunningInv, ScheduleState
<1>3. \A i \in DOMAIN launched[s] : launched[s][i] \in 1..MaxTicks /\ launched[s][i] < now
    BY <1>1, LenProperties, ElementOfSeq DEF OrderInv
<1>4. CASE Held(s, st)
    <2> HIDE DEF now
    <2> DEFINE new == Hold(s, st, now)
    <2>1. state' = [state EXCEPT ![s] = new] /\ launched' = launched
        BY <1>4 DEF OnTick, Dispatch, now
    <2>2. /\ new \in ScheduleState /\ new.runningCount = st.runningCount /\ new.inFlight = st.inFlight
          /\ \/ new = st
             \/ /\ Overlap[s] # "skip" /\ new.queued = TRUE
                /\ st.queuedAt = Null => new.queuedAt = now
                /\ st.queuedAt # Null => new.queuedAt = st.queuedAt
        <3>1. st \in ScheduleState /\ now \in 1..MaxTicks
            BY <1>1
        <3> HIDE DEF st
        <3>2. MaxTicks \in Nat
            OBVIOUS
        <3> HIDE ScheduleAssumption DEF TicksInv
        <3>3. TickHeld(new, s, st, now)
            BY <3>1, <3>2, HoldInv, Zenon
        <3> HIDE DEF new
        <3> QED BY <3>3 DEF TickHeld
    <2> HIDE DEF new
    <2>3. state'[s] = new /\ launched'[s] = launched[s]
        BY <2>1 DEF ScheduleTypeOK
    <2>4. RunningInv(s)' /\ OrderInv(s)'
        BY <1>1, <1>2, <1>3, <2>2, <2>3 DEF RunningInv, OrderInv
    <2>5. ClearedInv(s)'
        BY <2>2, <2>3 DEF ClearedInv
    <2>6. KeptInv(s)'
        <3>1. Overlap[s] \in {"skip", "queue"} /\ new.runningCount > 0
            BY <1>4, <2>2 DEF Held
        <3>2. CASE new = st
            BY <1>1, <1>3, <2>3, <3>1, <3>2 DEF KeptInv, Stopped
        <3>3. CASE new # st
            <4>1. /\ Overlap[s] = "queue" /\ new.queued = TRUE
                  /\ st.queuedAt = Null => new.queuedAt = now
                  /\ st.queuedAt # Null => new.queuedAt = st.queuedAt
                BY <2>2, <3>1, <3>3
            <4>2. st.queuedAt # Null => st.queued
                BY DEF ClearedInv, ScheduleTypeOK, ScheduleState
            <4>3. /\ new.queuedAt \in 1..now
                  /\ \A i \in DOMAIN launched[s] : launched[s][i] < new.queuedAt
                BY <1>1, <1>3, <4>1, <4>2 DEF KeptInv
            <4> QED BY <1>1, <2>3, <3>1, <4>1, <4>3 DEF KeptInv, Stopped
        <3> QED BY <3>2, <3>3
    <2>7. ScheduleTypeOK'
        BY <1>1, <2>1, <2>2 DEF ScheduleTypeOK
    <2>8. \A q \in Schedules \ {s} :
              state'[q] = state[q] /\ launched'[q] = launched[q] /\ tick'[q] = tick[q]
        BY <1>1, <2>1 DEF ScheduleTypeOK
    <2> QED BY <1>1, <2>4, <2>5, <2>6, <2>7, <2>8, OneScheduleInv
<1>5. CASE ~Held(s, st)
    <2> DEFINE new == StartLaunch(st, now)
               seq == Append(launched[s], now)
    <2>1. state' = [state EXCEPT ![s] = new] /\ launched' = [launched EXCEPT ![s] = seq]
        BY <1>5 DEF OnTick, Dispatch
    <2>2. /\ new \in ScheduleState /\ new.runningCount = st.runningCount + 1
          /\ new.inFlight = st.inFlight \cup {now} /\ new.runningCount = Cardinality(new.inFlight)
          /\ new.queued = st.queued /\ new.queuedAt = st.queuedAt
        BY <1>1, <1>2, DispatchInv
    <2>3. /\ seq \in Seq(1..MaxTicks) /\ \A i \in DOMAIN seq : seq[i] <= now
          /\ \A i, j \in DOMAIN seq : i < j => seq[i] < seq[j]
        BY <1>1, <1>3, AppendLater DEF OrderInv
    <2> HIDE DEF new, seq, now
    <2>4. state'[s] = new /\ launched'[s] = seq
        BY <2>1 DEF ScheduleTypeOK
    <2>5. ~st.queued /\ (Overlap[s] # "parallel" => st.runningCount = 0)
        <3>1. Overlap[s] \in {"skip", "queue", "parallel"}
            BY RegistryAssumption DEF Policy
        <3> QED BY <1>1, <1>2, <1>5, <3>1 DEF Held, KeptInv, Stopped
    <2>6. RunningInv(s)' /\ OrderInv(s)'
        <3>1. RunningInv(s)'
            <4>1. new.inFlight \subseteq 1..now
                BY <1>1, <1>2, <2>2
            <4>2. Overlap[s] # "parallel" => new.runningCount <= 1
                BY <2>2, <2>5
            <4>3. new.runningCount = Cardinality(new.inFlight)
                BY <2>2
            <4> QED BY <1>1, <2>4, <4>1, <4>2, <4>3 DEF RunningInv
        <3>2. OrderInv(s)'
            BY <1>1, <2>3, <2>4 DEF OrderInv
        <3> QED BY <3>1, <3>2
    <2>7. KeptInv(s)' /\ ClearedInv(s)'
        BY <2>2, <2>4, <2>5 DEF KeptInv, ClearedInv
    <2>8. ScheduleTypeOK'
        BY <1>1, <2>1, <2>2, <2>3 DEF ScheduleTypeOK
    <2>9. \A q \in Schedules \ {s} :
              state'[q] = state[q] /\ launched'[q] = launched[q] /\ tick'[q] = tick[q]
        BY <1>1, <2>1 DEF ScheduleTypeOK
    <2> QED BY <1>1, <2>6, <2>7, <2>8, <2>9, OneScheduleInv
<1> QED BY <1>4, <1>5

(***************************************************************************)
(* The end of a launch frees its place, for the kept tick if there is one. *)
(***************************************************************************)
LEMMA LaunchEndsInv ==
    ASSUME TicksInv, NEW s \in Schedules, NEW at \in 1..MaxTicks, LaunchEnds(s, at)
    PROVE  TicksInv'
<1> DEFINE st == state[s]
           free == Ended(s, at)
<1> USE ScheduleAssumption DEF TicksInv
<1>1. /\ st \in ScheduleState /\ launched[s] \in Seq(1..MaxTicks) /\ tick[s] \in 0..MaxTicks
      /\ at \in st.inFlight /\ st.inFlight \in SUBSET (1..MaxTicks) /\ st.runningCount \in Nat
      /\ tick' = tick /\ hook' = hook
    BY DEF LaunchEnds, ScheduleTypeOK, ScheduleState
<1>2. /\ st.runningCount = Cardinality(st.inFlight) /\ Cardinality(st.inFlight) # 0
      /\ Cardinality(st.inFlight \ {at}) = Cardinality(st.inFlight) - 1
    BY <1>1, FlightFinite DEF RunningInv
<1>3. /\ free.runningCount = st.runningCount - 1 /\ free.runningCount \in Nat
      /\ free.inFlight = st.inFlight \ {at}
      /\ free.queued = st.queued /\ free.queuedAt = st.queuedAt
    BY <1>1, <1>2 DEF Ended, ScheduleState
<1>4. free \in ScheduleState
    <2>1. st.runningCount - 1 \in Nat /\ st.inFlight \ {at} \in SUBSET (1..MaxTicks)
        BY <1>1, <1>2
    <2> QED BY <1>1, <2>1 DEF Ended, ScheduleState
<1>5. CASE ~Stopped /\ free.runningCount = 0 /\ st.queued
    <2> DEFINE taken == TakeQueued(free)
               new == StartLaunch(taken, st.queuedAt)
               seq == Append(launched[s], st.queuedAt)
    <2>1. /\ taken \in ScheduleState /\ taken.runningCount = 0 /\ taken.inFlight = free.inFlight
          /\ taken.queued = FALSE /\ taken.queuedAt = Null
        <3> HIDE DEF free
        <3> QED BY <1>4, <1>5, TakeQueuedInv
    <2>2. free.inFlight = {} /\ Cardinality({}) = 0
        BY <1>1, <1>2, <1>3, <1>5, FlightFinite, FS_EmptySet
    <2>3. state' = [state EXCEPT ![s] = new] /\ launched' = [launched EXCEPT ![s] = seq]
        <3>1. Dispatch(s, TakeQueued(Ended(s, at)), state[s].queuedAt)
            BY <1>5 DEF LaunchEnds
        <3>2. ~Held(s, taken)
            BY <2>1 DEF Held
        <3> QED BY <3>1, <3>2 DEF Dispatch
    <2>4. /\ st.queuedAt \in 1..MaxTicks /\ st.queuedAt <= tick[s] /\ Overlap[s] = "queue"
          /\ \A i \in DOMAIN launched[s] : launched[s][i] < st.queuedAt
        BY <1>1, <1>5 DEF KeptInv
    <2> HIDE DEF taken, free
    <2>5. /\ new \in ScheduleState /\ new.runningCount = 1
          /\ new.inFlight = {st.queuedAt} /\ new.runningCount = Cardinality(new.inFlight)
          /\ new.queued = FALSE /\ new.queuedAt = Null
        <3>1. /\ taken \in ScheduleState /\ st.queuedAt \in 1..MaxTicks /\ taken.inFlight = {}
              /\ st.queuedAt \notin taken.inFlight /\ taken.runningCount = Cardinality(taken.inFlight)
            BY <2>1, <2>2, <2>4
        <3> HIDE DEF st
        <3>2. /\ new \in ScheduleState /\ new.runningCount = taken.runningCount + 1
              /\ new.inFlight = taken.inFlight \cup {st.queuedAt}
              /\ new.runningCount = Cardinality(new.inFlight)
              /\ new.queued = taken.queued /\ new.queuedAt = taken.queuedAt
            BY <3>1, DispatchInv
        <3> HIDE DEF new
        <3> QED BY <2>1, <3>1, <3>2
    <2>6. /\ seq \in Seq(1..MaxTicks) /\ \A i \in DOMAIN seq : seq[i] <= st.queuedAt
          /\ \A i, j \in DOMAIN seq : i < j => seq[i] < seq[j]
        BY <1>1, <2>4, AppendLater DEF OrderInv
    <2>7. DOMAIN seq = 1..Len(seq) /\ \A i \in DOMAIN seq : seq[i] \in 1..MaxTicks
        BY <2>6, LenProperties, ElementOfSeq
    <2> HIDE DEF new, seq
    <2>8. state'[s] = new /\ launched'[s] = seq
        BY <2>3 DEF ScheduleTypeOK
    <2>9. RunningInv(s)' /\ KeptInv(s)' /\ ClearedInv(s)'
        <3>1. new.inFlight \subseteq 1..tick[s]
            BY <1>1, <2>4, <2>5
        <3>2. new.runningCount = Cardinality(new.inFlight) /\ new.runningCount <= 1
            BY <2>5
        <3>3. RunningInv(s)'
            BY <1>1, <2>8, <3>1, <3>2 DEF RunningInv
        <3> QED BY <2>5, <2>8, <3>3 DEF KeptInv, ClearedInv
    <2>10. OrderInv(s)'
        BY <1>1, <2>4, <2>6, <2>7, <2>8 DEF OrderInv
    <2>11. ScheduleTypeOK'
        BY <1>1, <2>3, <2>5, <2>6 DEF ScheduleTypeOK
    <2>12. \A q \in Schedules \ {s} :
               state'[q] = state[q] /\ launched'[q] = launched[q] /\ tick'[q] = tick[q]
        BY <1>1, <2>3 DEF ScheduleTypeOK
    <2> QED BY <1>1, <2>9, <2>10, <2>11, <2>12, OneScheduleInv
<1>6. CASE ~(~Stopped /\ free.runningCount = 0 /\ st.queued)
    <2>1. state' = [state EXCEPT ![s] = free] /\ launched' = launched
        BY <1>6 DEF LaunchEnds
    <2> HIDE DEF free
    <2>2. state'[s] = free /\ launched'[s] = launched[s] /\ tick'[s] = tick[s]
        BY <1>1, <2>1 DEF ScheduleTypeOK
    <2>3. RunningInv(s)'
        <3>1. free.inFlight \subseteq 1..tick[s]
            BY <1>1, <1>3 DEF RunningInv
        <3>2. free.runningCount = Cardinality(free.inFlight)
            BY <1>2, <1>3
        <3>3. Overlap[s] # "parallel" => free.runningCount <= 1
            BY <1>1, <1>3 DEF RunningInv
        <3> QED BY <2>2, <3>1, <3>2, <3>3 DEF RunningInv
    <2>4. OrderInv(s)' /\ KeptInv(s)' /\ ClearedInv(s)'
        <3>1. free.queued = state[s].queued /\ free.queuedAt = state[s].queuedAt /\ free.runningCount \in Nat
            BY <1>3
        <3>2. ~Stopped /\ state[s].queued => free.runningCount > 0
            BY <1>6, <3>1
        <3>3. OrderInv(s)'
            BY <2>2 DEF OrderInv
        <3>4. KeptInv(s)'
            BY <1>1, <2>2, <3>1, <3>2 DEF KeptInv, Stopped
        <3>5. ClearedInv(s)'
            BY <2>2, <3>1 DEF ClearedInv
        <3> QED BY <3>3, <3>4, <3>5
    <2>5. ScheduleTypeOK'
        BY <1>1, <1>4, <2>1 DEF ScheduleTypeOK
    <2>6. \A q \in Schedules \ {s} :
              state'[q] = state[q] /\ launched'[q] = launched[q] /\ tick'[q] = tick[q]
        BY <1>1, <2>1 DEF ScheduleTypeOK
    <2> QED BY <1>1, <2>3, <2>4, <2>5, <2>6, OneScheduleInv
<1> QED BY <1>5, <1>6

\* Every step of the in-process runtime keeps its invariant, and the steps of
\* the other runtimes leave its state alone.
LEMMA TicksNextInv == TicksInv /\ [RuntimesNext]_runtimeVars => TicksInv'
<1> SUFFICES ASSUME TicksInv, [RuntimesNext]_runtimeVars PROVE TicksInv'
    OBVIOUS
<1>1. CASE Bootstrap \/ Shutdown
    BY <1>1 DEF Bootstrap, Shutdown, TicksInv, ScheduleTypeOK, RunningInv, OrderInv, KeptInv,
                ClearedInv, Stopped
<1>2. ASSUME NEW s \in Schedules, OnTick(s) PROVE TicksInv'
    BY <1>2, OnTickInv
<1>3. ASSUME NEW s \in Schedules, NEW at \in 1..MaxTicks, LaunchEnds(s, at) PROVE TicksInv'
    BY <1>3, LaunchEndsInv
<1>4. CASE UNCHANGED scheduleVars
    BY <1>4 DEF scheduleVars, TicksInv, ScheduleTypeOK, RunningInv, OrderInv, KeptInv, ClearedInv,
                Stopped
<1> QED BY <1>1, <1>2, <1>3, <1>4
        DEF RuntimesNext, InProcess, Bullmq, Kafka, ScheduleNext, runtimeVars

(***************************************************************************)
(* For any schedules, policies and ticks: "skip" and "queue" never run a   *)
(* schedule's job beside itself, and ticks are launched at most once and   *)
(* in order.                                                               *)
(***************************************************************************)
THEOREM TicksInTurn == RuntimesSpec => []TicksTakeTurns
<1>1. RuntimesInit => TicksInv
    BY TicksInitInv DEF RuntimesInit
<1>2. TicksInv => TicksTakeTurns
    BY DEF TicksInv, TicksTakeTurns, RunningInv, OrderInv
<1> QED BY <1>1, <1>2, TicksNextInv, PTL DEF RuntimesSpec

-----------------------------------------------------------------------------
\* Fires and rows are there, each with its fields.
LEMMA FireTypes ==
    ASSUME FiresTyped
    PROVE  /\ Len(fires) \in Nat /\ DOMAIN fires = 1..Len(fires) /\ \A f \in DOMAIN fires : fires[f] \in Fire
           /\ Len(rows) \in Nat /\ DOMAIN rows = 1..Len(rows) /\ \A i \in DOMAIN rows : rows[i] \in FireRow
<1> USE DEF FiresTyped
<1> HIDE DEF Fire, FireRow
<1> QED BY LenProperties, ElementOfSeq

\* The status of a row is written: nothing else of the rows changes.
LEMMA RowStatus ==
    ASSUME FiresTyped, NEW i \in DOMAIN rows, NEW st \in {"STARTING", "queued", "ended"},
           rows' = [rows EXCEPT ![i].status = st]
    PROVE  /\ rows' \in Seq(FireRow) /\ DOMAIN rows' = DOMAIN rows
           /\ rows'[i].fire = rows[i].fire /\ rows'[i].key = rows[i].key /\ rows'[i].status = st
           /\ \A j \in DOMAIN rows \ {i} : rows'[j] = rows[j]
<1> DEFINE new == [rows[i] EXCEPT !.status = st]
<1>1. rows \in Seq(FireRow) /\ i \in 1..Len(rows) /\ rows[i] \in FireRow /\ DOMAIN rows = 1..Len(rows)
    BY FireTypes DEF FiresTyped
<1>2. new \in FireRow /\ new.fire = rows[i].fire /\ new.key = rows[i].key /\ new.status = st
    BY <1>1 DEF FireRow
<1>3. rows' = [rows EXCEPT ![i] = new]
    BY <1>1
<1> HIDE DEF new, FireRow
<1>4. rows' \in Seq(FireRow)
    BY <1>1, <1>2, <1>3, ExceptSeq
<1>5. rows'[i] = new /\ DOMAIN rows' = DOMAIN rows /\ \A j \in DOMAIN rows \ {i} : rows'[j] = rows[j]
    BY <1>1, <1>3
<1> QED BY <1>2, <1>4, <1>5

\* A worker moves on with its fire.
LEMMA GotoWorker ==
    ASSUME FiresTyped, NEW r \in Replicas, NEW phase \in Phase, Goto(r, phase)
    PROVE  /\ worker' \in [Replicas -> [phase : Phase, fire : Nat]]
           /\ worker'[r].phase = phase /\ worker'[r].fire = worker[r].fire
           /\ \A q \in Replicas \ {r} : worker'[q] = worker[q]
<1> DEFINE new == [worker[r] EXCEPT !.phase = phase]
<1>1. worker[r] \in [phase : Phase, fire : Nat]
    BY DEF FiresTyped
<1>2. new \in [phase : Phase, fire : Nat] /\ new.phase = phase /\ new.fire = worker[r].fire
    BY <1>1
<1>3. worker' = [worker EXCEPT ![r] = new]
    BY DEF Goto, FiresTyped
<1> HIDE DEF new
<1> QED BY <1>2, <1>3 DEF FiresTyped

\* A fire leaves its worker with a new status.
LEMMA SettleFire ==
    ASSUME FiresTyped, NEW r \in Replicas, worker[r].phase # "idle", NEW new \in Fire,
           new.schedule = fires[worker[r].fire].schedule, Settle(r, new)
    PROVE  LET f == worker[r].fire IN
           /\ f \in DOMAIN fires /\ fires' \in Seq(Fire) /\ DOMAIN fires' = DOMAIN fires /\ fires'[f] = new
           /\ \A g \in DOMAIN fires \ {f} : fires'[g] = fires[g]
           /\ worker' \in [Replicas -> [phase : Phase, fire : Nat]]
           /\ worker'[r] = Idle /\ \A q \in Replicas \ {r} : worker'[q] = worker[q]
<1> DEFINE f == worker[r].fire
<1>1. fires \in Seq(Fire) /\ f \in 1..Len(fires) /\ DOMAIN fires = 1..Len(fires)
    BY FireTypes DEF FiresTyped
<1>2. fires' = [fires EXCEPT ![f] = new] /\ worker' = [worker EXCEPT ![r] = Idle]
    BY DEF Settle
<1>3. Idle \in [phase : Phase, fire : Nat]
    BY DEF Idle, Phase
<1>4. fires' \in Seq(Fire)
    <2> HIDE DEF Fire, f
    <2> QED BY <1>1, <1>2, ExceptSeq
<1>5. DOMAIN fires' = DOMAIN fires /\ fires'[f] = new /\ \A g \in DOMAIN fires \ {f} : fires'[g] = fires[g]
    <2> HIDE DEF Fire, f
    <2> QED BY <1>1, <1>2
<1>6. /\ worker' \in [Replicas -> [phase : Phase, fire : Nat]]
      /\ worker'[r] = Idle /\ \A q \in Replicas \ {r} : worker'[q] = worker[q]
    <2> HIDE DEF f
    <2> QED BY <1>2, <1>3 DEF FiresTyped
<1> QED BY <1>1, <1>4, <1>5, <1>6

\* Fires keep their schedule, rows their fire and identity, and a row that was
\* put on the queue is not taken back to STARTING.
Grow ==
    /\ DOMAIN fires \subseteq DOMAIN fires'
    /\ \A f \in DOMAIN fires : fires'[f].schedule = fires[f].schedule
    /\ DOMAIN rows \subseteq DOMAIN rows'
    /\ \A i \in DOMAIN rows :
           /\ rows'[i].fire = rows[i].fire /\ rows'[i].key = rows[i].key
           /\ rows[i].status # "STARTING" => rows'[i].status # "STARTING"

\* What a fire has to show stays, and so does its identity.
LEMMA GrowKeeps ==
    ASSUME FiresTyped, Grow, NEW f \in DOMAIN fires
    PROVE  (Handled(f) => Handled(f)') /\ \A d : KeyOf(f, d)' = KeyOf(f, d)
<1>1. Handled(f) => Handled(f)'
    BY DEF FiresTyped, Grow, Handled
<1>2. \A d : KeyOf(f, d)' = KeyOf(f, d)
    BY DEF Grow, KeyOf
<1> QED BY <1>1, <1>2

\* A row keeps its key, and its fire what the key was made of.
LEMMA KeysStay ==
    ASSUME FiresTyped, KeysInv, Grow
    PROVE  \A i \in DOMAIN rows : HasKey(i)'
<1> SUFFICES ASSUME NEW i \in DOMAIN rows PROVE HasKey(i)'
    OBVIOUS
<1>1. PICK f \in DOMAIN fires : f = rows[i].fire
    BY DEF FiresTyped
<1>2. PICK d \in Nat : rows[i].key = KeyOf(f, d)
    BY <1>1 DEF KeysInv, HasKey
<1>3. rows'[i].fire = f /\ rows'[i].key = rows[i].key
    BY <1>1 DEF Grow
<1>4. KeyOf(f, d)' = KeyOf(f, d)
    BY GrowKeeps
<1> QED BY <1>2, <1>3, <1>4 DEF HasKey, KeyOf

\* While a worker returns, what its handler did for its fire is not undone by others.
LEMMA ReturnStays ==
    ASSUME FiresInv, Grow, NEW q \in Replicas, worker[q].phase = "return", worker'[q] = worker[q]
    PROVE  Handled(worker[q].fire)'
<1>1. PICK g \in DOMAIN fires : g = worker[q].fire
    BY DEF FiresInv, FiresTyped
<1>2. Handled(g)'
    BY <1>1, GrowKeeps DEF FiresInv, HandledInv
<1> QED BY <1>1, <1>2

(***************************************************************************)
(* A scheduler adds a fire; a worker takes one that nobody has.            *)
(***************************************************************************)
LEMMA FireInv == ASSUME FiresInv, NEW s \in Schedules, SchedulerFires(s) PROVE FiresInv'
<1> DEFINE n == Len(fires)
           new == [schedule |-> s, status |-> "waiting", attempts |-> 0, stalls |-> 0]
<1> USE DEF FiresInv
<1>1. fires \in Seq(Fire) /\ n \in Nat /\ DOMAIN fires = 1..n
    BY FireTypes DEF FiresTyped
<1>2. new \in Fire /\ new.schedule = s /\ new.status = "waiting"
    BY DEF Fire
<1>3. fires' = Append(fires, new) /\ UNCHANGED <<rows, worker>>
    BY DEF SchedulerFires
<1> HIDE DEF new, Fire, n
<1>4. /\ fires' \in Seq(Fire) /\ DOMAIN fires' = 1..(n + 1)
      /\ fires'[n + 1] = new /\ \A f \in DOMAIN fires : fires'[f] = fires[f]
    <2>1. fires' \in Seq(Fire) /\ Len(fires') = n + 1
        BY <1>1, <1>2, <1>3, AppendProperties DEF n
    <2>2. fires'[n + 1] = new /\ \A f \in 1..n : fires'[f] = fires[f]
        BY <1>1, <1>2, <1>3, AppendProperties DEF n
    <2> QED BY <1>1, <2>1, <2>2, LenProperties
<1>5. Grow
    BY <1>1, <1>3, <1>4 DEF Grow
<1>6. FiresTyped'
    BY <1>1, <1>3, <1>4 DEF FiresTyped
<1>7. HandsInv' /\ EnqueueInv'
    BY <1>3, <1>4 DEF FiresTyped, HandsInv, EnqueueInv
<1>8. KeysInv'
    BY <1>3, <1>5, KeysStay DEF KeysInv
<1>9. HandledInv'
    <2>1. ASSUME NEW r \in Replicas, worker'[r].phase = "return" PROVE Handled(worker[r].fire)'
        BY <1>3, <1>5, <2>1, GrowKeeps DEF FiresTyped, HandledInv
    <2>2. ASSUME NEW f \in DOMAIN fires', fires'[f].status = "completed" PROVE Handled(f)'
        <3>1. f \in DOMAIN fires /\ fires[f].status = "completed"
            BY <1>1, <1>2, <1>4, <2>2
        <3> QED BY <1>5, <3>1, GrowKeeps DEF HandledInv
    <2> QED BY <1>3, <2>1, <2>2 DEF HandledInv
<1> QED BY <1>6, <1>7, <1>8, <1>9

\* A worker that takes a fire is the only one that holds it.
LEMMA TakeInv == ASSUME FiresInv, NEW r \in Replicas, NEW f, TakeFire(r, f) PROVE FiresInv'
<1> DEFINE new == [fires[f] EXCEPT !.status = "active"]
           busy == [phase |-> "launch", fire |-> f]
<1> USE DEF FiresInv
<1>1. /\ fires \in Seq(Fire) /\ DOMAIN fires = 1..Len(fires) /\ f \in DOMAIN fires /\ f \in Nat
      /\ fires[f] \in Fire /\ fires[f].status = "waiting" /\ worker[r] = Idle /\ UNCHANGED rows
    BY FireTypes DEF FiresTyped, TakeFire
<1>2. new \in Fire /\ new.schedule = fires[f].schedule /\ new.status = "active"
    BY <1>1 DEF Fire
<1>3. fires' = [fires EXCEPT ![f] = new] /\ worker' = [worker EXCEPT ![r] = busy]
    BY <1>1 DEF TakeFire
<1>4. busy \in [phase : Phase, fire : Nat] /\ busy.phase = "launch" /\ busy.fire = f
    BY <1>1 DEF Phase
<1> HIDE DEF new, Fire, busy
<1>5. /\ fires' \in Seq(Fire) /\ DOMAIN fires' = DOMAIN fires /\ fires'[f] = new
      /\ \A g \in DOMAIN fires \ {f} : fires'[g] = fires[g]
    BY <1>1, <1>2, <1>3, ExceptSeq
<1>6. /\ worker' \in [Replicas -> [phase : Phase, fire : Nat]] /\ worker'[r] = busy
      /\ \A q \in Replicas \ {r} : worker'[q] = worker[q]
    BY <1>3, <1>4 DEF FiresTyped
<1>7. Grow
    BY <1>1, <1>2, <1>5 DEF Grow
<1>8. \A q \in Replicas \ {r} : worker[q].phase # "idle" => worker[q].fire # f
    BY <1>1 DEF HandsInv
<1>9. FiresTyped'
    BY <1>1, <1>4, <1>5, <1>6 DEF FiresTyped
<1>10. HandsInv'
    <2>1. ASSUME NEW q \in Replicas, worker'[q].phase # "idle"
          PROVE  /\ fires'[worker'[q].fire].status = "active"
                 /\ \A p \in Replicas \ {q} : worker'[p].phase # "idle" => worker'[p].fire # worker'[q].fire
        <3>1. CASE q = r
            BY <1>2, <1>4, <1>5, <1>6, <1>8, <3>1
        <3>2. CASE q # r
            <4>1. worker'[q] = worker[q] /\ worker[q].fire \in DOMAIN fires \ {f}
                BY <1>6, <1>8, <2>1, <3>2 DEF FiresTyped
            <4> QED BY <1>4, <1>5, <1>6, <2>1, <3>2, <4>1 DEF HandsInv
        <3> QED BY <3>1, <3>2
    <2> QED BY <2>1 DEF HandsInv
<1>11. EnqueueInv'
    BY <1>1, <1>4, <1>6 DEF EnqueueInv
<1>12. KeysInv'
    BY <1>1, <1>7, KeysStay DEF KeysInv
<1>13. HandledInv'
    <2>1. ASSUME NEW q \in Replicas, worker'[q].phase = "return" PROVE Handled(worker[q].fire)'
        BY <1>4, <1>6, <1>7, <2>1, ReturnStays
    <2>2. ASSUME NEW g \in DOMAIN fires', fires'[g].status = "completed" PROVE Handled(g)'
        BY <1>2, <1>5, <1>7, <2>2, GrowKeeps DEF HandledInv
    <2> QED BY <2>1, <2>2 DEF HandledInv
<1> QED BY <1>9, <1>10, <1>11, <1>12, <1>13

(***************************************************************************)
(* An attempt ends, well or badly, having queued its row or not.           *)
(***************************************************************************)
LEMMA AttemptInv ==
    ASSUME FiresInv, NEW r \in Replicas, NEW phase \in {"return", "throw"}, Goto(r, phase),
           worker[r].phase # "idle", UNCHANGED fires,
           \/ UNCHANGED rows
           \/ \E i \in DOMAIN rows :
                  /\ rows[i].fire = worker[r].fire /\ rows[i].status = "STARTING"
                  /\ rows' = [rows EXCEPT ![i].status = "queued"],
           phase = "return" => \E g \in DOMAIN fires : g = worker[r].fire /\ Handled(g)'
    PROVE  FiresInv'
<1> USE DEF FiresInv
<1>1. /\ worker' \in [Replicas -> [phase : Phase, fire : Nat]]
      /\ worker'[r].phase = phase /\ worker'[r].fire = worker[r].fire
      /\ \A q \in Replicas \ {r} : worker'[q] = worker[q]
    BY GotoWorker DEF Phase
<1>2. /\ rows' \in Seq(FireRow) /\ DOMAIN rows' = DOMAIN rows
      /\ \A i \in DOMAIN rows : /\ rows'[i].fire = rows[i].fire /\ rows'[i].key = rows[i].key
                                /\ rows[i].status = "ended" => rows'[i].status = "ended"
                                /\ rows'[i].status = "ended" => rows[i].status = "ended"
                                /\ \/ rows'[i].status = rows[i].status
                                   \/ rows[i].fire = worker[r].fire /\ rows'[i].status = "queued"
    <2>1. CASE UNCHANGED rows
        BY <2>1 DEF FiresTyped
    <2>2. CASE ~UNCHANGED rows
        <3>1. PICK k \in DOMAIN rows : /\ rows[k].fire = worker[r].fire /\ rows[k].status = "STARTING"
                                       /\ rows' = [rows EXCEPT ![k].status = "queued"]
            BY <2>2
        <3>2. /\ rows' \in Seq(FireRow) /\ DOMAIN rows' = DOMAIN rows
              /\ rows'[k].fire = rows[k].fire /\ rows'[k].key = rows[k].key /\ rows'[k].status = "queued"
              /\ \A j \in DOMAIN rows \ {k} : rows'[j] = rows[j]
            BY <3>1, RowStatus
        <3> QED BY <3>1, <3>2
    <2> QED BY <2>1, <2>2
<1>3. Grow
    BY <1>2 DEF Grow
<1>4. FiresTyped'
    <2>1. \A i \in DOMAIN rows' : rows'[i].fire \in DOMAIN fires
        BY <1>2 DEF FiresTyped
    <2>2. \A q \in Replicas : /\ worker'[q].phase # "idle" => worker'[q].fire \in DOMAIN fires
                              /\ worker'[q].phase = "idle" => worker'[q] = Idle
        BY <1>1 DEF FiresTyped
    <2> QED BY <1>1, <1>2, <2>1, <2>2 DEF FiresTyped
<1>5. HandsInv'
    <2>1. \A q \in Replicas : /\ worker'[q].fire = worker[q].fire
                              /\ worker'[q].phase # "idle" => worker[q].phase # "idle"
        BY <1>1
    <2> QED BY <2>1 DEF HandsInv
<1>6. KeysInv'
    BY <1>2, <1>3, KeysStay DEF KeysInv
<1>7. EnqueueInv'
    <2> SUFFICES ASSUME NEW q \in Replicas, worker'[q].phase = "enqueue"
                 PROVE  \E i \in DOMAIN rows' :
                            /\ rows'[i].fire = worker'[q].fire /\ rows'[i].status = "STARTING"
                            /\ \A j \in DOMAIN rows' : rows'[j].fire = worker'[q].fire => j <= i
        BY DEF EnqueueInv
    <2>1. q # r /\ worker'[q] = worker[q] /\ worker[q].fire # worker[r].fire
        BY <1>1 DEF HandsInv
    <2>2. PICK i \in DOMAIN rows :
              /\ rows[i].fire = worker[q].fire /\ rows[i].status = "STARTING"
              /\ \A j \in DOMAIN rows : rows[j].fire = worker[q].fire => j <= i
        BY <2>1 DEF EnqueueInv
    <2> QED BY <1>2, <2>1, <2>2
<1>8. HandledInv'
    <2>1. ASSUME NEW q \in Replicas, worker'[q].phase = "return" PROVE Handled(worker[q].fire)'
        <3>1. CASE q = r
            BY <1>1, <2>1, <3>1
        <3>2. CASE q # r
            BY <1>1, <1>3, <2>1, <3>2, ReturnStays
        <3> QED BY <3>1, <3>2
    <2>2. ASSUME NEW g \in DOMAIN fires', fires'[g].status = "completed" PROVE Handled(g)'
        BY <1>3, <2>2, GrowKeeps DEF HandledInv
    <2> QED BY <2>1, <2>2 DEF HandledInv
<1> QED BY <1>4, <1>5, <1>6, <1>7, <1>8

(***************************************************************************)
(* The launch: a row of its own, a refusal, or an error.                   *)
(***************************************************************************)
LEMMA CreateInv == ASSUME FiresInv, NEW r \in Replicas, CreateRow(r) PROVE FiresInv'
<1> DEFINE f == worker[r].fire
           n == Len(rows)
           new == [fire |-> f, key |-> Identity(f), status |-> "STARTING"]
<1> USE DEF FiresInv
<1>1. /\ rows \in Seq(FireRow) /\ n \in Nat /\ DOMAIN rows = 1..n /\ f \in DOMAIN fires /\ f \in Nat
      /\ fires[f].schedule \in Schedules
    BY FireTypes DEF FiresTyped, CreateRow, Fire
<1>2. Identity(f) \in Schedules \X Nat \X Nat /\ Identity(f) = KeyOf(f, n + 1) /\ n + 1 \in Nat
    BY <1>1 DEF Identity, KeyOf
<1>3. new \in FireRow /\ new.fire = f /\ new.key = Identity(f) /\ new.status = "STARTING"
    BY <1>1, <1>2 DEF FireRow
<1>4. rows' = Append(rows, new) /\ UNCHANGED fires /\ Goto(r, "enqueue") /\ ~AlreadyRunning(f)
      /\ worker[r].phase = "launch"
    BY DEF CreateRow
<1> HIDE DEF new, FireRow, n
<1>5. /\ rows' \in Seq(FireRow) /\ DOMAIN rows' = 1..(n + 1)
      /\ rows'[n + 1] = new /\ \A i \in DOMAIN rows : rows'[i] = rows[i]
    <2>1. rows' \in Seq(FireRow) /\ Len(rows') = n + 1
        BY <1>1, <1>3, <1>4, AppendProperties DEF n
    <2>2. rows'[n + 1] = new /\ \A i \in 1..n : rows'[i] = rows[i]
        BY <1>1, <1>3, <1>4, AppendProperties DEF n
    <2> QED BY <1>1, <2>1, <2>2, LenProperties
<1>6. /\ worker' \in [Replicas -> [phase : Phase, fire : Nat]]
      /\ worker'[r].phase = "enqueue" /\ worker'[r].fire = f
      /\ \A q \in Replicas \ {r} : worker'[q] = worker[q]
    BY <1>4, GotoWorker DEF Phase
<1>7. Grow
    BY <1>1, <1>4, <1>5 DEF Grow
<1>8. FiresTyped'
    <2>1. \A i \in DOMAIN rows' : rows'[i].fire \in DOMAIN fires
        BY <1>1, <1>3, <1>5 DEF FiresTyped
    <2>2. \A q \in Replicas : /\ worker'[q].phase # "idle" => worker'[q].fire \in DOMAIN fires
                              /\ worker'[q].phase = "idle" => worker'[q] = Idle
        BY <1>1, <1>6 DEF FiresTyped
    <2> QED BY <1>4, <1>5, <1>6, <2>1, <2>2 DEF FiresTyped
<1>9. HandsInv'
    <2>1. \A q \in Replicas : /\ worker'[q].fire = worker[q].fire
                              /\ worker'[q].phase # "idle" => worker[q].phase # "idle"
        BY <1>4, <1>6
    <2> HIDE DEF f
    <2> QED BY <1>4, <2>1 DEF HandsInv
<1>10. \A q \in Replicas \ {r} : worker[q].phase # "idle" => worker[q].fire # f
    BY <1>4 DEF HandsInv
<1>11. KeysInv'
    <2>1. \A i \in DOMAIN rows : rows[i].status # "ended" => rows[i].key # Identity(f)
        BY <1>4 DEF AlreadyRunning
    <2>2. PICK k \in Nat : k = n + 1
        BY <1>2
    <2>3. \A i \in DOMAIN rows' : HasKey(i)'
        <3>1. \A i \in DOMAIN rows : HasKey(i)'
            BY <1>7, KeysStay
        <3>2. PICK g \in DOMAIN fires : g = f
            BY <1>1
        <3>3. rows'[k].fire = g /\ rows'[k].key = KeyOf(g, k)
            BY <1>2, <1>3, <1>5, <2>2, <3>2
        <3>4. KeyOf(g, k)' = KeyOf(g, k)
            BY <1>7, GrowKeeps
        <3>5. HasKey(k)'
            BY <3>3, <3>4 DEF HasKey, KeyOf
        <3>6. DOMAIN rows' = DOMAIN rows \cup {k}
            BY <1>1, <1>5, <2>2
        <3> QED BY <3>1, <3>5, <3>6
    <2>4. \A i, j \in DOMAIN rows' :
              i # j /\ rows'[i].status # "ended" /\ rows'[j].status # "ended" => rows'[i].key # rows'[j].key
        BY <1>1, <1>3, <1>5, <2>1 DEF KeysInv
    <2> QED BY <2>3, <2>4 DEF KeysInv
<1>12. EnqueueInv'
    <2> SUFFICES ASSUME NEW q \in Replicas, worker'[q].phase = "enqueue"
                 PROVE  \E i \in DOMAIN rows' :
                            /\ rows'[i].fire = worker'[q].fire /\ rows'[i].status = "STARTING"
                            /\ \A j \in DOMAIN rows' : rows'[j].fire = worker'[q].fire => j <= i
        BY DEF EnqueueInv
    <2>1. CASE q = r
        <3>1. n + 1 \in DOMAIN rows' /\ \A j \in DOMAIN rows' : j <= n + 1
            BY <1>1, <1>5
        <3> QED BY <1>3, <1>5, <1>6, <2>1, <3>1
    <2>2. CASE q # r
        <3>1. worker'[q] = worker[q] /\ worker[q].fire # f
            BY <1>6, <1>10, <2>2
        <3>2. PICK i \in DOMAIN rows :
                  /\ rows[i].fire = worker[q].fire /\ rows[i].status = "STARTING"
                  /\ \A j \in DOMAIN rows : rows[j].fire = worker[q].fire => j <= i
            BY <3>1 DEF EnqueueInv
        <3>3. ASSUME NEW j \in DOMAIN rows', rows'[j].fire = worker[q].fire PROVE j <= i
            <4>1. j # n + 1
                BY <1>3, <1>5, <3>1, <3>3
            <4> QED BY <1>1, <1>5, <3>2, <3>3, <4>1
        <3>4. i \in DOMAIN rows'
            BY <1>1, <1>5
        <3> QED BY <1>5, <3>1, <3>2, <3>3, <3>4
    <2> QED BY <2>1, <2>2
<1>13. HandledInv'
    <2>1. ASSUME NEW q \in Replicas, worker'[q].phase = "return" PROVE Handled(worker[q].fire)'
        BY <1>6, <1>7, <2>1, ReturnStays
    <2>2. ASSUME NEW g \in DOMAIN fires', fires'[g].status = "completed" PROVE Handled(g)'
        BY <1>4, <1>7, <2>2, GrowKeeps DEF HandledInv
    <2> QED BY <2>1, <2>2 DEF HandledInv
<1> QED BY <1>8, <1>9, <1>11, <1>12, <1>13

\* The refusal of a "skip" schedule names a row of that schedule.
LEMMA RefusedInv == ASSUME FiresInv, NEW r \in Replicas, Refused(r) PROVE FiresInv'
<1> DEFINE f == worker[r].fire
<1> USE DEF FiresInv
<1>1. /\ f \in DOMAIN fires /\ worker[r].phase = "launch" /\ UNCHANGED <<fires, rows>>
      /\ Goto(r, IF Overlap[fires[f].schedule] = "skip" THEN "return" ELSE "throw")
    BY DEF Refused, FiresTyped
<1>2. PICK i \in DOMAIN rows : rows[i].key = Identity(f)
    BY DEF Refused, AlreadyRunning
<1>3. rows[i].fire \in DOMAIN fires /\ HasKey(i)
    BY <1>2 DEF FiresTyped, KeysInv
<1>4. CASE Overlap[fires[f].schedule] = "skip"
    <2>1. fires[rows[i].fire].schedule = fires[f].schedule
        BY <1>2, <1>3, <1>4 DEF Identity, HasKey, KeyOf
    <2>2. PICK g \in DOMAIN fires : g = f
        BY <1>1
    <2>3. Handled(g)
        BY <1>2, <1>4, <2>1, <2>2 DEF Handled
    <2>4. Handled(g)'
        BY <1>1, <2>3 DEF Handled
    <2> QED BY <1>1, <1>4, <2>2, <2>4, AttemptInv
<1>5. CASE Overlap[fires[f].schedule] # "skip"
    BY <1>1, <1>5, AttemptInv
<1> QED BY <1>4, <1>5

\* The row an attempt puts on the queue is its own, and still waits for it.
LEMMA LastRowOwn ==
    ASSUME FiresInv, NEW r \in Replicas, worker[r].phase = "enqueue"
    PROVE  /\ LastRow(r) \in DOMAIN rows /\ rows[LastRow(r)].fire = worker[r].fire
           /\ rows[LastRow(r)].status = "STARTING"
<1> DEFINE IsLast(i) ==
               /\ rows[i].fire = worker[r].fire
               /\ \A j \in DOMAIN rows : rows[j].fire = worker[r].fire => j <= i
<1>1. PICK i \in DOMAIN rows : IsLast(i) /\ rows[i].status = "STARTING"
    BY DEF FiresInv, EnqueueInv
<1>2. LastRow(r) \in DOMAIN rows /\ IsLast(LastRow(r))
    <2>1. LastRow(r) = CHOOSE k \in DOMAIN rows : IsLast(k)
        BY DEF LastRow
    <2>2. \E k \in DOMAIN rows : IsLast(k)
        BY <1>1
    <2> HIDE DEF IsLast
    <2> QED BY <2>1, <2>2
<1>3. LastRow(r) = i
    BY <1>1, <1>2, FireTypes DEF FiresInv
<1> QED BY <1>1, <1>2, <1>3

\* A handler creates its row and enqueues it, or one of the two fails.
LEMMA EnqueuesInv ==
    ASSUME FiresInv, NEW r \in Replicas, Enqueue(r) \/ EnqueueFails(r) \/ CreateFails(r)
    PROVE  FiresInv'
<1> DEFINE queued == rows' = [rows EXCEPT ![LastRow(r)].status = "queued"]
<1> USE DEF FiresInv
<1>1. CASE Enqueue(r)
    <2>1. /\ queued /\ Goto(r, "return") /\ UNCHANGED fires /\ worker[r].phase = "enqueue"
        BY <1>1 DEF Enqueue
    <2>2. PICK g \in DOMAIN fires : g = worker[r].fire
        BY <2>1 DEF FiresTyped
    <2>3. PICK i \in DOMAIN rows :
              /\ rows[i].fire = g /\ rows[i].status = "STARTING"
              /\ rows' = [rows EXCEPT ![i].status = "queued"]
        BY <2>1, <2>2, LastRowOwn
    <2>4. Handled(g)'
        BY <2>3, RowStatus DEF Handled
    <2> QED BY <2>1, <2>2, <2>3, <2>4, AttemptInv
<1>2. CASE EnqueueFails(r)
    <2>1. /\ queued \/ UNCHANGED rows
          /\ Goto(r, "throw") /\ UNCHANGED fires /\ worker[r].phase = "enqueue"
        BY <1>2 DEF EnqueueFails
    <2> QED BY <2>1, LastRowOwn, AttemptInv
<1>3. CASE CreateFails(r)
    <2>1. Goto(r, "throw") /\ UNCHANGED <<fires, rows>> /\ worker[r].phase = "launch"
        BY <1>3 DEF CreateFails
    <2> QED BY <2>1, AttemptInv
<1> QED BY <1>1, <1>2, <1>3

(***************************************************************************)
(* A fire leaves its worker: acknowledged with something to show, or back  *)
(* to the queue, or failed for good.                                       *)
(***************************************************************************)
LEMMA SettleInv ==
    ASSUME FiresInv, NEW r \in Replicas, worker[r].phase # "idle", NEW new \in Fire,
           new.schedule = fires[worker[r].fire].schedule,
           new.status = "completed" => worker[r].phase = "return",
           Settle(r, new), UNCHANGED rows
    PROVE  FiresInv'
<1> DEFINE f == worker[r].fire
<1> USE DEF FiresInv
<1>1. /\ f \in DOMAIN fires /\ fires' \in Seq(Fire) /\ DOMAIN fires' = DOMAIN fires /\ fires'[f] = new
      /\ \A g \in DOMAIN fires \ {f} : fires'[g] = fires[g]
      /\ worker' \in [Replicas -> [phase : Phase, fire : Nat]]
      /\ worker'[r] = Idle /\ \A q \in Replicas \ {r} : worker'[q] = worker[q]
    BY SettleFire
<1>2. Idle.phase = "idle"
    BY DEF Idle
<1>3. \A q \in Replicas : worker'[q].phase # "idle" =>
          q # r /\ worker'[q] = worker[q] /\ worker[q].fire \in DOMAIN fires \ {f}
    BY <1>1, <1>2 DEF HandsInv, FiresTyped
<1>4. Grow
    BY <1>1 DEF Grow
<1>5. FiresTyped'
    <2>1. \A q \in Replicas : /\ worker'[q].phase # "idle" => worker'[q].fire \in DOMAIN fires
                              /\ worker'[q].phase = "idle" => worker'[q] = Idle
        BY <1>1, <1>3 DEF FiresTyped
    <2> QED BY <1>1, <2>1 DEF FiresTyped
<1>6. HandsInv'
    <2> SUFFICES ASSUME NEW q \in Replicas, worker'[q].phase # "idle"
                 PROVE  /\ fires'[worker'[q].fire].status = "active"
                        /\ \A p \in Replicas \ {q} :
                               worker'[p].phase # "idle" => worker'[p].fire # worker'[q].fire
        BY DEF HandsInv
    <2>1. worker'[q] = worker[q] /\ worker[q].fire \in DOMAIN fires \ {f}
        BY <1>3
    <2>2. fires'[worker'[q].fire].status = "active"
        BY <1>1, <2>1 DEF HandsInv
    <2>3. ASSUME NEW p \in Replicas \ {q}, worker'[p].phase # "idle"
          PROVE  worker'[p].fire # worker'[q].fire
        BY <1>3, <2>1, <2>3 DEF HandsInv
    <2> QED BY <2>2, <2>3
<1>7. KeysInv'
    BY <1>4, KeysStay DEF KeysInv
<1>8. EnqueueInv'
    BY <1>3 DEF EnqueueInv
<1>9. HandledInv'
    <2>1. ASSUME NEW q \in Replicas, worker'[q].phase = "return" PROVE Handled(worker[q].fire)'
        BY <1>3, <1>4, <2>1, ReturnStays
    <2>2. ASSUME NEW g \in DOMAIN fires', fires'[g].status = "completed" PROVE Handled(g)'
        <3>1. Handled(g)
            BY <1>1, <2>2 DEF HandledInv
        <3> QED BY <1>1, <1>4, <3>1, GrowKeeps
    <2> QED BY <2>1, <2>2 DEF HandledInv
<1> QED BY <1>5, <1>6, <1>7, <1>8, <1>9

\* A worker is done with its fire: acknowledged, failed, or the replica died.
LEMMA OutcomesInv ==
    ASSUME FiresInv, NEW r \in Replicas, Acknowledge(r) \/ AttemptFails(r) \/ ReplicaDies(r)
    PROVE  FiresInv'
<1> DEFINE fire == fires[worker[r].fire]
<1> USE DEF FiresInv
<1>1. /\ worker[r].phase # "idle" /\ UNCHANGED rows
      /\ \E new : /\ Settle(r, new)
                  /\ \/ worker[r].phase = "return" /\ new = [fire EXCEPT !.status = "completed"]
                     \/ new = [fire EXCEPT !.attempts = @ + 1,
                                           !.status = IF fire.attempts + 1 < Attempts THEN "waiting" ELSE "failed"]
                     \/ new = [fire EXCEPT !.stalls = @ + 1,
                                           !.status = IF fire.stalls < MaxStalled THEN "waiting" ELSE "failed"]
    <2>1. CASE Acknowledge(r)
        BY <2>1 DEF Acknowledge
    <2>2. CASE AttemptFails(r)
        BY <2>2 DEF AttemptFails
    <2>3. CASE ReplicaDies(r)
        BY <2>3 DEF ReplicaDies, FiresTyped
    <2> QED BY <2>1, <2>2, <2>3
<1>2. fire \in Fire
    BY <1>1, FireTypes DEF FiresTyped
<1> HIDE DEF fire
<1>3. PICK new : Settle(r, new) /\ new \in Fire /\ new.schedule = fire.schedule
                 /\ (new.status = "completed" => worker[r].phase = "return")
    <2>1. PICK new :
              /\ Settle(r, new)
              /\ \/ worker[r].phase = "return" /\ new = [fire EXCEPT !.status = "completed"]
                 \/ new = [fire EXCEPT !.attempts = @ + 1,
                                       !.status = IF fire.attempts + 1 < Attempts THEN "waiting" ELSE "failed"]
                 \/ new = [fire EXCEPT !.stalls = @ + 1,
                                       !.status = IF fire.stalls < MaxStalled THEN "waiting" ELSE "failed"]
        BY <1>1
    <2>2. CASE worker[r].phase = "return" /\ new = [fire EXCEPT !.status = "completed"]
        BY <1>2, <2>1, <2>2 DEF Fire
    <2>3. CASE new = [fire EXCEPT !.attempts = @ + 1,
                                  !.status = IF fire.attempts + 1 < Attempts THEN "waiting" ELSE "failed"]
        <3> DEFINE outcome == IF fire.attempts + 1 < Attempts THEN "waiting" ELSE "failed"
        <3>1. outcome \in {"waiting", "failed"} /\ fire.attempts + 1 \in Nat
            BY <1>2 DEF Fire
        <3>2. new = [fire EXCEPT !.attempts = fire.attempts + 1, !.status = outcome]
            BY <1>2, <2>3 DEF Fire
        <3> HIDE DEF outcome
        <3>3. new \in Fire /\ new.schedule = fire.schedule /\ new.status = outcome
            BY <1>2, <3>1, <3>2 DEF Fire
        <3> QED BY <2>1, <3>1, <3>3
    <2>4. CASE new = [fire EXCEPT !.stalls = @ + 1,
                                  !.status = IF fire.stalls < MaxStalled THEN "waiting" ELSE "failed"]
        <3> DEFINE outcome == IF fire.stalls < MaxStalled THEN "waiting" ELSE "failed"
        <3>1. outcome \in {"waiting", "failed"} /\ fire.stalls + 1 \in Nat
            BY <1>2 DEF Fire
        <3>2. new = [fire EXCEPT !.stalls = fire.stalls + 1, !.status = outcome]
            BY <1>2, <2>4 DEF Fire
        <3> HIDE DEF outcome
        <3>3. new \in Fire /\ new.schedule = fire.schedule /\ new.status = outcome
            BY <1>2, <3>1, <3>2 DEF Fire
        <3> QED BY <2>1, <3>1, <3>3
    <2> QED BY <2>1, <2>2, <2>3, <2>4
<1> QED BY <1>1, <1>3, SettleInv DEF fire

(***************************************************************************)
(* The work queue's worker ends a queued row.                              *)
(***************************************************************************)
LEMMA RowEndsInv == ASSUME FiresInv, NEW i, RowEnds(i) PROVE FiresInv'
<1> USE DEF FiresInv
<1>1. i \in DOMAIN rows /\ rows[i].status = "queued" /\ UNCHANGED <<fires, worker>>
      /\ rows' = [rows EXCEPT ![i].status = "ended"]
    BY DEF RowEnds
<1>2. /\ rows' \in Seq(FireRow) /\ DOMAIN rows' = DOMAIN rows
      /\ rows'[i].fire = rows[i].fire /\ rows'[i].key = rows[i].key /\ rows'[i].status = "ended"
      /\ \A j \in DOMAIN rows \ {i} : rows'[j] = rows[j]
    BY <1>1, RowStatus
<1>3. Grow
    BY <1>1, <1>2 DEF Grow
<1>4. FiresTyped' /\ HandsInv'
    BY <1>1, <1>2 DEF FiresTyped, HandsInv
<1>5. KeysInv'
    <2>1. \A j \in DOMAIN rows : rows'[j].fire = rows[j].fire /\ rows'[j].key = rows[j].key
        BY <1>2
    <2> QED BY <1>1, <1>2, <1>3, <2>1, KeysStay DEF KeysInv
<1>6. EnqueueInv'
    <2> SUFFICES ASSUME NEW q \in Replicas, worker[q].phase = "enqueue"
                 PROVE  \E k \in DOMAIN rows' :
                            /\ rows'[k].fire = worker[q].fire /\ rows'[k].status = "STARTING"
                            /\ \A j \in DOMAIN rows' : rows'[j].fire = worker[q].fire => j <= k
        BY <1>1 DEF EnqueueInv
    <2>1. PICK k \in DOMAIN rows :
              /\ rows[k].fire = worker[q].fire /\ rows[k].status = "STARTING"
              /\ \A j \in DOMAIN rows : rows[j].fire = worker[q].fire => j <= k
        BY DEF EnqueueInv
    <2> QED BY <1>1, <1>2, <2>1
<1>7. HandledInv'
    <2>1. ASSUME NEW q \in Replicas, worker'[q].phase = "return" PROVE Handled(worker[q].fire)'
        BY <1>1, <1>3, <2>1, ReturnStays
    <2>2. ASSUME NEW g \in DOMAIN fires', fires'[g].status = "completed" PROVE Handled(g)'
        BY <1>1, <1>3, <2>2, GrowKeeps DEF HandledInv
    <2> QED BY <2>1, <2>2 DEF HandledInv
<1> QED BY <1>4, <1>5, <1>6, <1>7

\* Initially nothing has fired.
LEMMA FiresInitInv == BullInit => FiresInv
<1> SUFFICES ASSUME BullInit PROVE FiresInv
    OBVIOUS
<1> USE DEF BullInit
<1>1. fires \in Seq(Fire) /\ rows \in Seq(FireRow) /\ DOMAIN fires = {} /\ DOMAIN rows = {}
    <2> HIDE DEF Fire, FireRow
    <2> QED BY EmptySeq
<1>2. worker \in [Replicas -> [phase : Phase, fire : Nat]] /\ \A r \in Replicas : worker[r].phase = "idle"
    BY DEF Idle, Phase
<1>3. FiresTyped
    <2> HIDE DEF Fire, FireRow
    <2> QED BY <1>1, <1>2 DEF FiresTyped
<1> QED BY <1>1, <1>2, <1>3 DEF FiresInv, HandsInv, KeysInv, EnqueueInv, HandledInv

\* Every step of the BullMQ runtime keeps its invariant.
LEMMA FiresNextInv == FiresInv /\ [RuntimesNext]_runtimeVars => FiresInv'
<1> SUFFICES ASSUME FiresInv, [RuntimesNext]_runtimeVars PROVE FiresInv'
    OBVIOUS
<1>1. CASE UNCHANGED <<fires, rows, worker>>
    BY <1>1 DEF FiresInv, FiresTyped, HandsInv, KeysInv, HasKey, KeyOf, EnqueueInv, HandledInv, Handled
<1>2. ASSUME NEW r \in Replicas, BootReplica(r) \/ CloseReplica(r) PROVE FiresInv'
    BY <1>1, <1>2 DEF BootReplica, CloseReplica
<1>3. ASSUME NEW s \in Schedules, SchedulerFires(s) PROVE FiresInv'
    BY <1>3, FireInv
<1>4. ASSUME NEW r \in Replicas, NEW f \in 1..MaxFires, TakeFire(r, f) PROVE FiresInv'
    BY <1>4, TakeInv
<1>5. ASSUME NEW r \in Replicas, CreateRow(r) PROVE FiresInv'
    BY <1>5, CreateInv
<1>6. ASSUME NEW r \in Replicas, Refused(r) PROVE FiresInv'
    BY <1>6, RefusedInv
<1>7. ASSUME NEW r \in Replicas, Enqueue(r) \/ EnqueueFails(r) \/ CreateFails(r) PROVE FiresInv'
    BY <1>7, EnqueuesInv
<1>8. ASSUME NEW r \in Replicas, Acknowledge(r) \/ AttemptFails(r) \/ ReplicaDies(r) PROVE FiresInv'
    BY <1>8, OutcomesInv
<1>9. ASSUME NEW i \in 1..MaxRows, RowEnds(i) PROVE FiresInv'
    BY <1>9, RowEndsInv
<1>10. CASE BullNext
    BY <1>2, <1>3, <1>4, <1>5, <1>6, <1>7, <1>8, <1>9, <1>10 DEF BullNext, ReplicaStep
<1> QED BY <1>1, <1>10 DEF RuntimesNext, InProcess, Bullmq, Kafka, runtimeVars, bullVars

(***************************************************************************)
(* For any replicas, schedules, fires and faults: a fire is never executed *)
(* beside itself, nor a fire of a "skip" schedule beside another of it,    *)
(* unless the launcher adds a UUID to the keys of the schedule's job.      *)
(***************************************************************************)
THEOREM FiresAlone == RuntimesSpec => []FiresRunAlone
<1>1. RuntimesInit => FiresInv
    BY FiresInitInv DEF RuntimesInit
<1>2. FiresInv => FiresRunAlone
    <2> SUFFICES ASSUME FiresInv, NEW i \in DOMAIN rows, NEW j \in DOMAIN rows, i # j,
                        rows[i].status # "ended", rows[j].status # "ended",
                        fires[rows[i].fire].schedule \notin Duplicates,
                        fires[rows[i].fire].schedule = fires[rows[j].fire].schedule
                 PROVE  /\ rows[i].fire # rows[j].fire
                        /\ Overlap[fires[rows[i].fire].schedule] # "skip"
        BY DEF FiresRunAlone
    <2>1. rows[i].key # rows[j].key
        BY DEF FiresInv, KeysInv
    <2>2. HasKey(i) /\ HasKey(j)
        BY DEF FiresInv, KeysInv
    <2> QED BY <2>1, <2>2 DEF HasKey, KeyOf
<1> QED BY <1>1, <1>2, FiresNextInv, PTL DEF RuntimesSpec

(***************************************************************************)
(* For any replicas, schedules, fires and faults: an acknowledged fire has *)
(* an execution on the work queue, or its "skip" schedule had a row.       *)
(***************************************************************************)
THEOREM AcknowledgedHandled == RuntimesSpec => []AcknowledgedIsHandled
<1>1. RuntimesInit => FiresInv
    BY FiresInitInv DEF RuntimesInit
<1>2. FiresInv => AcknowledgedIsHandled
    BY DEF FiresInv, HandledInv, Handled, AcknowledgedIsHandled
<1> QED BY <1>1, <1>2, FiresNextInv, PTL DEF RuntimesSpec

-----------------------------------------------------------------------------
(***************************************************************************)
(* The Kafka timers.  The count of fires and the number of minutes cron    *)
(* would have been due are both quotients; TimerKeepsUp compares them.     *)
(***************************************************************************)
Interval(s) == ParseCronToInterval(Cron[s])

\* A supported interval is a number of minutes up to an hour.
SupportedInv ==
    /\ minute \in Nat /\ bootedAt \in Nat /\ bootedAt <= minute
    /\ fired \in [Schedules -> Nat]
    /\ intervals \subseteq {s \in Schedules : Interval(s) # NoInterval}
    /\ kafkaHook = "none" => intervals = {} /\ \A s \in Schedules : fired[s] = 0
    /\ \A s \in Schedules : Interval(s) = NoInterval => fired[s] = 0

\* Where the step divides the hour, both counts are quotients of the clock.
CountedInv ==
    \A s \in intervals : 60 % Interval(s) = 0 =>
        /\ fired[s] = (minute - bootedAt) \div Interval(s)
        /\ IsFiniteSet(CronDue(s))
        /\ Cardinality(CronDue(s)) = (minute \div Interval(s)) - (bootedAt \div Interval(s))

TimersInv == SupportedInv /\ CountedInv

\* The steps that divide the hour.
Divisors == {1, 2, 3, 4, 5, 6, 10, 12, 15, 20, 30, 60}

\* The intervals that divide the hour.
LEMMA HourDivisors == \A n \in 1..60 : 60 % n = 0 => n \in Divisors
BY DEF Divisors

\* How quotients go on with the clock, and how a difference of quotients
\* compares with the quotient of the difference.
LEMMA Quotients ==
    ASSUME NEW n \in Divisors, NEW x \in Nat
    PROVE  /\ (x % 60) % n = x % n
           /\ x \div n \in Nat
           /\ (x + 1) \div n = x \div n + (IF (x + 1) % n = 0 THEN 1 ELSE 0)
           /\ \A a \in 0..x : (x \div n) - (a \div n) - ((x - a) \div n) \in {0, 1}
<1>1. (x % 60) % n = x % n /\ x \div n \in Nat
    BY DEF Divisors
<1>2. (x + 1) \div n = x \div n + (IF (x + 1) % n = 0 THEN 1 ELSE 0)
    BY DEF Divisors
<1>3. \A a \in 0..x : (x \div n) - (a \div n) - ((x - a) \div n) \in {0, 1}
    BY DEF Divisors
<1> QED BY <1>1, <1>2, <1>3

\* An installed timer stands for a "*/n" expression on every day.
LEMMA TimerCron ==
    ASSUME NEW s \in Schedules, Interval(s) # NoInterval
    PROVE  /\ Cron[s].daily /\ Cron[s].minute = "step" /\ Cron[s].n = Interval(s) /\ Interval(s) \in 1..60
           /\ CronDue(s) = {m \in (bootedAt + 1)..minute : (m % 60) % Interval(s) = 0}
<1>1. /\ Cron[s].daily /\ Cron[s].minute = "step" /\ Cron[s].n = Interval(s) /\ Interval(s) \in 1..60
    BY DEF Interval, ParseCronToInterval, NoInterval
<1> QED BY <1>1 DEF CronDue

\* The clock's minute: each due interval fires once, and so does each cron due.
LEMMA MinuteInv == ASSUME TimersInv, Minute PROVE TimersInv'
<1> USE DEF TimersInv
<1>1. /\ minute' = minute + 1 /\ fired' = Counted(fired, Due)
      /\ UNCHANGED <<kafkaHook, bootedAt, intervals>>
    BY DEF Minute
<1>2. /\ fired' \in [Schedules -> Nat]
      /\ \A s \in Schedules : fired'[s] = IF s \in Due THEN fired[s] + 1 ELSE fired[s]
    BY <1>1 DEF Counted, SupportedInv
<1>3. Due \subseteq intervals
    BY DEF Due
<1>4. SupportedInv'
    BY <1>1, <1>2, <1>3 DEF SupportedInv
<1>5. ASSUME NEW s \in intervals, 60 % Interval(s) = 0
      PROVE  /\ fired'[s] = (minute' - bootedAt) \div Interval(s)
             /\ IsFiniteSet(CronDue(s)')
             /\ Cardinality(CronDue(s)') = (minute' \div Interval(s)) - (bootedAt \div Interval(s))
    <2> DEFINE n == Interval(s)
    <2>1. s \in Schedules /\ n \in 1..60 /\ n \in Divisors /\ minute \in Nat /\ minute - bootedAt \in Nat
        BY <1>5, TimerCron, HourDivisors DEF SupportedInv
    <2>2. s \in Due <=> (minute + 1 - bootedAt) % n = 0
        BY DEF Due, Interval
    <2> HIDE DEF n
    <2>3. fired'[s] = (minute + 1 - bootedAt) \div n
        <3>1. fired[s] = (minute - bootedAt) \div n
            BY <1>5 DEF CountedInv, n
        <3> DEFINE d == minute - bootedAt
        <3>2. minute + 1 - bootedAt = d + 1 /\ d \in Nat
            BY <2>1 DEF SupportedInv
        <3> HIDE DEF d
        <3>3. (d + 1) \div n = (d \div n) + (IF (d + 1) % n = 0 THEN 1 ELSE 0) /\ d \div n \in Nat
            BY <2>1, <3>2, Quotients
        <3> QED BY <1>2, <2>1, <2>2, <3>1, <3>2, <3>3 DEF d
    <2>4. CronDue(s)' = IF (minute + 1) % n = 0 THEN CronDue(s) \cup {minute + 1} ELSE CronDue(s)
        <3>1. CronDue(s) = {m \in (bootedAt + 1)..minute : (m % 60) % n = 0}
            BY <2>1, TimerCron DEF SupportedInv, n
        <3>2. CronDue(s)' = {m \in (bootedAt + 1)..(minute + 1) : (m % 60) % n = 0}
            <4>1. Cron[s].daily /\ Cron[s].minute = "step" /\ Cron[s].n = n
                BY TimerCron DEF SupportedInv, n
            <4> QED BY <1>1, <4>1 DEF CronDue
        <3>3. ((minute + 1) % 60) % n = (minute + 1) % n
            <4>1. minute + 1 \in Nat
                BY <2>1
            <4> QED BY <2>1, <4>1, Quotients
        <3> QED BY <2>1, <3>1, <3>2, <3>3 DEF SupportedInv
    <2>5. minute + 1 \notin CronDue(s)
        BY <2>1 DEF CronDue, SupportedInv
    <2>6. /\ IsFiniteSet(CronDue(s)) /\ Cardinality(CronDue(s)) \in Nat
          /\ Cardinality(CronDue(s)) = (minute \div n) - (bootedAt \div n)
        BY <1>5, FS_CardinalityType DEF CountedInv, n
    <2>7. /\ IsFiniteSet(CronDue(s) \cup {minute + 1})
          /\ Cardinality(CronDue(s) \cup {minute + 1}) = Cardinality(CronDue(s)) + 1
        BY <2>5, <2>6, FS_AddElement
    <2>8. /\ (minute + 1) \div n = (minute \div n) + (IF (minute + 1) % n = 0 THEN 1 ELSE 0)
          /\ minute \div n \in Nat /\ bootedAt \div n \in Nat
        BY <2>1, Quotients DEF SupportedInv
    <2>9. /\ IsFiniteSet(CronDue(s)')
          /\ Cardinality(CronDue(s)') = ((minute + 1) \div n) - (bootedAt \div n)
        <3>1. CASE (minute + 1) % n = 0
            BY <2>4, <2>6, <2>7, <2>8, <3>1
        <3>2. CASE (minute + 1) % n # 0
            BY <2>4, <2>6, <2>8, <3>2
        <3> QED BY <3>1, <3>2
    <2>10. minute' = minute + 1
        BY <1>1
    <2>11. fired'[s] = (minute' - bootedAt) \div n
        <3>1. minute' - bootedAt = minute + 1 - bootedAt
            BY <2>1, <2>10 DEF SupportedInv
        <3> QED BY <2>3, <3>1
    <2>12. Cardinality(CronDue(s)') = (minute' \div n) - (bootedAt \div n)
        BY <2>9, <2>10
    <2> QED BY <2>9, <2>11, <2>12 DEF n
<1>6. CountedInv'
    <2> SUFFICES ASSUME NEW s \in intervals, 60 % Interval(s) = 0
                 PROVE  /\ fired'[s] = (minute' - bootedAt) \div Interval(s)
                        /\ IsFiniteSet(CronDue(s)')
                        /\ Cardinality(CronDue(s)') = (minute' \div Interval(s)) - (bootedAt \div Interval(s))
        BY <1>1 DEF CountedInv, Interval
    <2> QED BY <1>5
<1> QED BY <1>4, <1>6

\* Only Minute moves the clock and the counts together.
LEMMA TimersNextInv == TimersInv /\ [RuntimesNext]_runtimeVars => TimersInv'
<1> SUFFICES ASSUME TimersInv, [RuntimesNext]_runtimeVars PROVE TimersInv'
    OBVIOUS
<1> USE DEF TimersInv
<1>1. CASE KafkaBootstrap
    <2>1. /\ kafkaHook = "none" /\ kafkaHook' = "bootstrap" /\ bootedAt' = minute
          /\ intervals' = {s \in Schedules \ Inert : Interval(s) # NoInterval}
          /\ UNCHANGED <<minute, fired>>
        BY <1>1 DEF KafkaBootstrap, Interval
    <2>2. SupportedInv'
        BY <2>1 DEF SupportedInv, Interval
    <2>3. CountedInv'
        <3> SUFFICES ASSUME NEW s \in intervals', 60 % Interval(s) = 0
                     PROVE  /\ fired'[s] = (minute - minute) \div Interval(s)
                            /\ IsFiniteSet(CronDue(s)')
                            /\ Cardinality(CronDue(s)') = (minute \div Interval(s)) - (minute \div Interval(s))
            BY <2>1 DEF CountedInv, Interval
        <3>1. s \in Schedules /\ Interval(s) \in Divisors /\ minute \in Nat /\ fired[s] = 0
            BY <2>1, TimerCron, HourDivisors DEF SupportedInv
        <3>2. CronDue(s)' = {}
            BY <2>1, <3>1 DEF CronDue
        <3>3. minute - minute = 0 /\ 0 \div Interval(s) = 0 /\ minute \div Interval(s) \in Nat
            BY <3>1 DEF Divisors
        <3> QED BY <2>1, <3>1, <3>2, <3>3, FS_EmptySet
    <2> QED BY <2>2, <2>3
<1>2. CASE Minute
    BY <1>2, MinuteInv
<1>3. CASE KafkaShutdown
    BY <1>3 DEF KafkaShutdown, SupportedInv, CountedInv, Interval
<1>4. CASE UNCHANGED kafkaVars
    BY <1>4 DEF kafkaVars, SupportedInv, CountedInv, Interval, CronDue
<1> QED BY <1>1, <1>2, <1>3, <1>4 DEF RuntimesNext, InProcess, Bullmq, Kafka, KafkaNext, runtimeVars

(***************************************************************************)
(* For any schedules, bootstrap and horizon: a timer has fired as often as *)
(* its cron expression was due, give or take one, when its step divides    *)
(* the hour, and an unsupported expression never fires.                    *)
(***************************************************************************)
THEOREM TimersKeepUp == RuntimesSpec => []TimerKeepsUp
<1>1. RuntimesInit => TimersInv
    BY DEF RuntimesInit, KafkaInit, TimersInv, SupportedInv, CountedInv
<1>2. TimersInv => TimerKeepsUp
    <2> SUFFICES ASSUME TimersInv, NEW s \in Schedules
                 PROVE  IF ~Cron[s].daily \/ Cron[s].minute # "step" THEN fired[s] = 0
                        ELSE (s \in intervals /\ 60 % Interval(s) = 0) =>
                                 /\ fired[s] <= Cardinality(CronDue(s)) + 1
                                 /\ Cardinality(CronDue(s)) <= fired[s] + 1
        BY DEF TimerKeepsUp, Interval
    <2>1. CASE ~Cron[s].daily \/ Cron[s].minute # "step"
        BY <2>1 DEF TimersInv, SupportedInv, Interval, ParseCronToInterval
    <2>2. ASSUME s \in intervals, 60 % Interval(s) = 0
          PROVE  fired[s] <= Cardinality(CronDue(s)) + 1 /\ Cardinality(CronDue(s)) <= fired[s] + 1
        <3>1. Interval(s) \in Divisors /\ minute \in Nat /\ bootedAt \in 0..minute /\ fired[s] \in Nat
            BY <2>2, TimerCron, HourDivisors DEF TimersInv, SupportedInv
        <3>2. (minute \div Interval(s)) - (bootedAt \div Interval(s)) - ((minute - bootedAt) \div Interval(s)) \in {0, 1}
            BY <3>1, Quotients
        <3>3. /\ fired[s] = (minute - bootedAt) \div Interval(s)
              /\ Cardinality(CronDue(s)) = (minute \div Interval(s)) - (bootedAt \div Interval(s))
            BY <2>2 DEF TimersInv, CountedInv
        <3>4. minute \div Interval(s) \in Nat /\ bootedAt \div Interval(s) \in Nat
            <4>1. bootedAt \in Nat
                BY <3>1
            <4> QED BY <3>1, <4>1, Quotients
        <3> QED BY <3>1, <3>2, <3>3, <3>4
    <2> QED BY <2>1, <2>2
<1> QED BY <1>1, <1>2, TimersNextInv, PTL DEF RuntimesSpec
=============================================================================
