-------------------------- MODULE Application_proofs ---------------------------
(***************************************************************************)
(* Proofs about the jobs an application declares (JobFlow, JobBuilder) and *)
(* about its own life from boot to shutdown (Application).                 *)
(***************************************************************************)
EXTENDS JobBuilder, Application, FiniteSetTheorems, WellFoundedInduction, TLAPS

-----------------------------------------------------------------------------
(***************************************************************************)
(* Proofs about the flow of a job, for any number of steps, any patterns   *)
(* with any specificities, any transitions and any deciders, however the   *)
(* definition was declared: a failed step is never passed over, and what   *)
(* the validator accepted can be walked.                                   *)
(***************************************************************************)
\* What the executor notes of a step it has run.
Visits == [step : Steps, status : StepStatuses, exitCode : ExitStatuses, exit : ExitStatuses]

(***************************************************************************)
(* The executor only walks what was registered, from a step that exists,   *)
(* and has run nothing before.                                             *)
(***************************************************************************)
WalkTyped ==
    /\ trail \in Seq(Visits)
    /\ current \in Nat
    /\ outcome \in {"declared", "refused"} => trail = <<>>
    /\ outcome = "declared" => current = StartStep
    /\ outcome = "running" => EndpointsExist(job) /\ current \in Steps
    /\ outcome # "NO_SUCH_STEP"

\* In a job whose transitions go forward, so does the walk.
WalkForward ==
    Forward(job) =>
        /\ \A k, m \in DOMAIN trail : k < m => trail[k].step < trail[m].step
        /\ outcome = "running" => \A k \in DOMAIN trail : trail[k].step < current

WalkInv == WalkTyped /\ WalkForward /\ FailureIsRouted

-----------------------------------------------------------------------------
\* The step that the executor runs is in the trail, after all that it ran before.
LEMMA VisitIsLast ==
    ASSUME WalkTyped, NEW verdict \in Verdicts, NEW answer, RunStep(verdict, answer)
    PROVE  LET exit == RoutedBy(current, verdict, answer) IN
           /\ trail' \in Seq(Visits)
           /\ Len(trail) \in Nat /\ Len(trail') = Len(trail) + 1
           /\ DOMAIN trail = 1..Len(trail) /\ DOMAIN trail' = 1..(Len(trail) + 1)
           /\ \A k \in 1..Len(trail) : trail'[k] = trail[k] /\ trail[k].step \in Steps
           /\ trail'[Len(trail) + 1] = Visit(current, verdict, exit)
<1> DEFINE exit == RoutedBy(current, verdict, answer)
<1>1. exit \in ExitStatuses
    <2>1. answer # NoAnswer => answer \in ExitStatuses
        BY FlowAssumption DEF RunStep, Answers
    <2>2. verdict.status \in StepStatuses /\ verdict.exitCode \in ExitStatuses
        BY FlowAssumption
    <2> QED BY <2>1, <2>2, FlowAssumption DEF RoutedBy
<1>2. Visit(current, verdict, exit) \in Visits
    BY <1>1, FlowAssumption DEF RunStep, Visit, Visits
<1>3. trail' = Append(trail, Visit(current, verdict, exit))
    BY DEF RunStep
<1> HIDE DEF exit
<1>4. \A k \in 1..Len(trail) : trail[k] \in Visits
    BY DEF WalkTyped
<1>5. \A k \in 1..Len(trail) : trail[k].step \in Steps
    BY <1>4 DEF Visits
<1> QED BY <1>2, <1>3, <1>5 DEF WalkTyped, exit

\* A step that routes its job on leads to a step that exists, or to the end.
LEMMA RouteLeads ==
    ASSUME WalkTyped, outcome = "running", NEW verdict, NEW exit, Route(current, verdict, exit)
    PROVE  \/ /\ outcome' = "FAILED" /\ current' = current
           \/ /\ outcome' \in {"running", "COMPLETED"}
              /\ current' \in Steps \cup {End}
              /\ outcome' = "running" => current' \in Steps
              /\ \/ \E t \in TransitionsOf(job) :
                        t.from = current /\ exit \in MatchedBy[t.on] /\ t.to = current'
                 \/ verdict.status # "FAILED" /\ current' = current + 1
<1> DEFINE ts == Matching(current, exit)
<1>1. current \in Steps /\ NSteps \in Nat /\ EndpointsExist(job)
    BY FlowAssumption DEF WalkTyped
<1>2. ASSUME NEW s \in Steps \cup {End}, GoTo(s)
      PROVE  /\ outcome' \in {"running", "COMPLETED"} /\ current' = s
             /\ outcome' = "running" => s \in Steps
    BY <1>1, <1>2 DEF GoTo, Steps, End
<1>3. ASSUME NEW t \in Best(ts), GoTo(t.to)
      PROVE  /\ outcome' \in {"running", "COMPLETED"} /\ current' \in Steps \cup {End}
             /\ outcome' = "running" => current' \in Steps
             /\ t \in TransitionsOf(job) /\ t.from = current
             /\ exit \in MatchedBy[t.on] /\ t.to = current'
    <2>1. t \in TransitionsOf(job) /\ t.from = current /\ exit \in MatchedBy[t.on]
        BY DEF Best, Matching
    <2>2. t.to \in Steps \cup {End}
        BY <1>1, <2>1 DEF EndpointsExist
    <2> QED BY <1>2, <1>3, <2>1, <2>2
<1>4. ASSUME verdict.status # "FAILED", GoTo(current + 1)
      PROVE  /\ outcome' \in {"running", "COMPLETED"} /\ current' = current + 1
             /\ current' \in Steps \cup {End}
             /\ outcome' = "running" => current' \in Steps
    <2>1. current + 1 \in Steps \cup {End}
        BY <1>1 DEF Steps, End
    <2> QED BY <1>2, <1>4, <2>1
<1> HIDE DEF ts
<1>5. \/ outcome' = "FAILED" /\ current' = current
      \/ \E t \in Best(ts) : GoTo(t.to)
      \/ verdict.status # "FAILED" /\ GoTo(current + 1)
    BY DEF Route, JobFails, ts
<1> QED BY <1>3, <1>4, <1>5

(***************************************************************************)
(* One step of the job: what it is routed by is known when it is last in   *)
(* the trail, and stays so when the next step is put after it.             *)
(***************************************************************************)
LEMMA RunStepInv ==
    ASSUME WalkInv, NEW verdict \in Verdicts, NEW answer, RunStep(verdict, answer)
    PROVE  WalkInv'
<1> DEFINE exit == RoutedBy(current, verdict, answer)
           n == Len(trail)
<1> USE DEF WalkInv
<1>1. /\ outcome = "running" /\ current \in Steps /\ Route(current, verdict, exit)
      /\ job' = job /\ NSteps \in Nat
    BY FlowAssumption DEF RunStep
<1>2. /\ trail' \in Seq(Visits)
      /\ n \in Nat /\ Len(trail') = n + 1
      /\ DOMAIN trail = 1..n /\ DOMAIN trail' = 1..(n + 1)
      /\ \A k \in 1..n : trail'[k] = trail[k] /\ trail[k].step \in Steps
      /\ trail'[n + 1] = Visit(current, verdict, exit)
    BY VisitIsLast
<1>3. \/ outcome' = "FAILED" /\ current' = current
      \/ /\ outcome' \in {"running", "COMPLETED"}
         /\ current' \in Steps \cup {End}
         /\ outcome' = "running" => current' \in Steps
         /\ \/ \E t \in TransitionsOf(job) :
                   t.from = current /\ exit \in MatchedBy[t.on] /\ t.to = current'
            \/ verdict.status # "FAILED" /\ current' = current + 1
    BY <1>1, RouteLeads
<1>4. /\ trail'[n + 1].step = current /\ trail'[n + 1].status = verdict.status
      /\ trail'[n + 1].exit = exit
    BY <1>2 DEF Visit
<1> HIDE DEF exit, n
<1>5. WalkTyped'
    <2>1. current' \in Nat
        BY <1>1, <1>3 DEF Steps, End
    <2>2. EndpointsExist(job)'
        BY <1>1 DEF WalkTyped, EndpointsExist
    <2> QED BY <1>2, <1>3, <2>1, <2>2 DEF WalkTyped
<1>6. WalkForward'
    <2> SUFFICES ASSUME Forward(job)
                 PROVE  /\ \A k, m \in DOMAIN trail' : k < m => trail'[k].step < trail'[m].step
                        /\ outcome' = "running" =>
                               \A k \in DOMAIN trail' : trail'[k].step < current'
        BY <1>1 DEF WalkForward
    <2>1. /\ \A k, m \in 1..n : k < m => trail[k].step < trail[m].step
          /\ \A k \in 1..n : trail[k].step < current
        BY <1>1, <1>2 DEF WalkForward
    <2>2. \A k, m \in DOMAIN trail' : k < m => trail'[k].step < trail'[m].step
        <3> SUFFICES ASSUME NEW k \in 1..(n + 1), NEW m \in 1..(n + 1), k < m
                     PROVE  trail'[k].step < trail'[m].step
            BY <1>2
        <3>1. k \in 1..n
            BY <1>2
        <3>2. CASE m \in 1..n
            BY <1>2, <2>1, <3>1, <3>2
        <3>3. CASE m = n + 1
            BY <1>2, <1>4, <2>1, <3>1, <3>3
        <3> QED BY <1>2, <3>2, <3>3
    <2>3. outcome' = "running" => current < current'
        BY <1>1, <1>3 DEF Forward, Steps
    <2>4. ASSUME outcome' = "running", NEW k \in 1..(n + 1) PROVE trail'[k].step < current'
        <3>1. current \in Nat /\ current' \in Nat /\ current < current'
            BY <1>1, <1>3, <2>3, <2>4 DEF Steps, End
        <3>2. CASE k \in 1..n
            <4>1. trail'[k].step < current /\ trail'[k].step \in Nat
                BY <1>2, <2>1, <3>2 DEF Steps
            <4> QED BY <3>1, <4>1
        <3>3. CASE k = n + 1
            BY <1>4, <3>1, <3>3
        <3> QED BY <1>2, <3>2, <3>3
    <2> QED BY <1>2, <2>2, <2>4
<1>7. FailureIsRouted'
    <2> SUFFICES ASSUME NEW k \in 1..(n + 1), trail'[k].status = "FAILED", WentOn(k)'
                 PROVE  \E t \in TransitionsOf(job) :
                            /\ t.from = trail'[k].step /\ trail'[k].exit \in MatchedBy[t.on]
                            /\ t.to = Successor(k)'
        BY <1>1, <1>2 DEF FailureIsRouted
    <2>1. CASE k \in 1..n
        <3>1. Successor(k)' = Successor(k)
            <4>1. Successor(k)' = trail'[k + 1].step
                BY <1>2, <2>1 DEF Successor
            <4>2. CASE k < n
                BY <1>2, <2>1, <4>1, <4>2 DEF Successor, n
            <4>3. CASE k = n
                BY <1>2, <1>4, <2>1, <4>1, <4>3 DEF Successor, n
            <4> QED BY <1>2, <2>1, <4>2, <4>3
        <3>2. WentOn(k)
            BY <1>1 DEF WentOn
        <3>3. k \in DOMAIN trail /\ trail'[k] = trail[k]
            BY <1>2, <2>1
        <3> QED BY <3>1, <3>2, <3>3 DEF FailureIsRouted
    <2>2. CASE k = n + 1
        <3>1. Successor(k)' = current' /\ outcome' \in {"running", "COMPLETED"}
            BY <1>2, <2>2 DEF Successor, WentOn
        <3> QED BY <1>3, <1>4, <2>2, <3>1
    <2> QED BY <1>2, <2>1, <2>2
<1> QED BY <1>5, <1>6, <1>7

\* A step that throws ends the walk where it is.
LEMMA StepThrowsInv == ASSUME WalkInv, StepThrows PROVE WalkInv'
<1> USE DEF WalkInv, StepThrows, JobFails
<1>1. WalkTyped'
    BY DEF WalkTyped
<1>2. WalkForward'
    BY DEF WalkForward
<1>3. FailureIsRouted'
    BY DEF FailureIsRouted, WentOn, Successor
<1> QED BY <1>1, <1>2, <1>3

\* Until a definition is registered nothing runs; then the walk is at the first step.
LEMMA DeclarationInv == ASSUME WalkInv, outcome = "declared", Declaration PROVE WalkInv'
<1>1. \/ outcome' \in {"declared", "refused"} /\ UNCHANGED <<trail, current>>
      \/ \E j : Register(j)
    BY DEF Declaration, From, AddDecider, On, To, UseFlow, Build, CompileFromDiscovered, Throws,
           Refuse, flowVars
<1>2. trail' = <<>> /\ current' = StartStep /\ outcome' \in {"declared", "refused", "running"}
    BY <1>1 DEF WalkInv, WalkTyped, Register
<1>3. outcome' = "running" => EndpointsExist(job)' /\ StartStep \in Steps
    <2>1. ASSUME NEW j, Register(j) PROVE EndpointsExist(job)' /\ StartStep \in Steps
        BY <2>1, FlowAssumption DEF Register, Valid, EndpointsExist, Steps, StartStep
    <2> QED BY <1>1, <2>1
<1>4. WalkTyped'
    BY <1>2, <1>3 DEF WalkTyped, StartStep
<1>5. WalkForward' /\ FailureIsRouted'
    BY <1>2 DEF WalkForward, FailureIsRouted
<1> QED BY <1>4, <1>5 DEF WalkInv

\* Every walk of every registered job keeps the invariant.
THEOREM WalkInductiveInvariant == BuilderSpec => []WalkInv
<1>1. BuilderInit => WalkInv
    BY DEF BuilderInit, FlowInit, WalkInv, WalkTyped, WalkForward, FailureIsRouted, StartStep
<1>2. WalkInv /\ [BuilderNext]_<<flowVars, builderVars>> => WalkInv'
    <2> SUFFICES ASSUME WalkInv, [BuilderNext]_<<flowVars, builderVars>> PROVE WalkInv'
        OBVIOUS
    <2>1. CASE outcome = "declared" /\ Declaration
        BY <2>1, DeclarationInv
    <2>2. CASE RunJob
        BY <2>2, RunStepInv, StepThrowsInv DEF RunJob
    <2>3. CASE UNCHANGED <<flowVars, builderVars>>
        BY <2>3 DEF flowVars, WalkInv, WalkTyped, WalkForward, FailureIsRouted, WentOn, Successor,
                    EndpointsExist, Forward
    <2> QED BY <2>1, <2>2, <2>3 DEF BuilderNext
<1> QED BY <1>1, <1>2, PTL DEF BuilderSpec

(***************************************************************************)
(* JobExecutor.execute goes on after a FAILED step only where a transition *)
(* of that step asked for it: neither the fall back on the declaration     *)
(* order nor an ambiguous match passes a failure over.                     *)
(***************************************************************************)
THEOREM FailuresAreRouted == BuilderSpec => []FailureIsRouted
BY WalkInductiveInvariant, PTL DEF WalkInv

(***************************************************************************)
(* What DefinitionValidator accepted never leads JobExecutor to a step     *)
(* that does not exist, and a job whose transitions go forward runs every  *)
(* step at most once.                                                      *)
(***************************************************************************)
THEOREM ValidatedIsWalked == BuilderSpec => []ValidatedWalk
<1>1. WalkInv => ValidatedWalk
    <2> SUFFICES ASSUME WalkInv, Forward(job),
                        NEW k \in DOMAIN trail, NEW m \in DOMAIN trail,
                        trail[k].step = trail[m].step
                 PROVE  k = m
        BY DEF WalkInv, WalkTyped, ValidatedWalk
    <2>1. k \in 1..Len(trail) /\ m \in 1..Len(trail) /\ Len(trail) \in Nat
        BY DEF WalkInv, WalkTyped
    <2>2. trail[k] \in Visits
        BY <2>1 DEF WalkInv, WalkTyped
    <2>3. trail[k].step \in Nat
        BY <2>2, FlowAssumption DEF Visits, Steps
    <2>4. ~(k < m) /\ ~(m < k)
        BY <2>3 DEF WalkInv, WalkForward
    <2> QED BY <2>1, <2>4
<1> QED BY <1>1, WalkInductiveInvariant, PTL

-----------------------------------------------------------------------------
(***************************************************************************)
(* Proofs about JobBuilder, for any steps, patterns and reusable flows and *)
(* any number of calls. The builder keeps one pending transition, the      *)
(* specification looks back over all the calls; what relates them is that  *)
(* the pending transition is the last sentence begun and not ended, with   *)
(* the on() said last in it. The sum over the calls is recursive, and the  *)
(* facts about it are shown by looking at the least call that refutes      *)
(* them.                                                                   *)
(***************************************************************************)
\* What the first n calls say, call by call.
IsTotal(cs, n, f) ==
    f = [k \in 0..n |-> IF k = 0 THEN EmptyBag ELSE f[k - 1] (+) SaidAt(cs, k)]

\* The sum over the calls exists: were there none up to m, take the least m;
\* up to m - 1 there is one, and one more call extends it.
LEMMA TotalExists == ASSUME NEW cs, NEW n \in Nat PROVE \E f : IsTotal(cs, n, f)
<1> DEFINE Missing == {m \in Nat : ~\E f : IsTotal(cs, m, f)}
<1>1. SUFFICES ASSUME Missing # {} PROVE FALSE
    OBVIOUS
<1>2. PICK m \in Missing : \A k \in Missing : ~(<<k, m>> \in OpToRel(<, Nat))
  <2>1. Missing \subseteq Nat
    OBVIOUS
  <2> QED BY <1>1, <2>1, NatLessThanWellFounded, WFMin
<1>3. m \in Nat /\ ~\E f : IsTotal(cs, m, f)
    OBVIOUS
<1>4. m # 0
  <2>1. IsTotal(cs, 0, [k \in 0..0 |-> EmptyBag])
    BY DEF IsTotal
  <2> QED BY <1>3, <2>1
<1>5. PICK g : IsTotal(cs, m - 1, g)
  <2>1. m - 1 \in Nat /\ m - 1 < m
    BY <1>3, <1>4
  <2>2. <<m - 1, m>> \in OpToRel(<, Nat)
    BY <1>3, <2>1 DEF OpToRel
  <2>3. m - 1 \notin Missing
    BY <1>2, <2>2
  <2> QED BY <2>1, <2>3
<1> DEFINE f == [k \in 0..m |-> IF k = m THEN g[m - 1] (+) SaidAt(cs, m) ELSE g[k]]
<1>6. \A k \in 0..m : f[k] = IF k = 0 THEN EmptyBag ELSE f[k - 1] (+) SaidAt(cs, k)
  <2> TAKE k \in 0..m
  <2>1. g[0] = EmptyBag /\ \A i \in 1..m - 1 : g[i] = g[i - 1] (+) SaidAt(cs, i)
    BY <1>3, <1>4, <1>5 DEF IsTotal
  <2>2. CASE k = m
    BY <1>3, <1>4, <2>2
  <2>3. CASE k # m
    BY <1>3, <1>4, <2>1, <2>3
  <2> QED BY <2>2, <2>3
<1>7. IsTotal(cs, m, f)
    BY <1>6 DEF IsTotal
<1> QED BY <1>3, <1>7

\* f[k] is what the first k of n calls say.
Sums(cs, n, f) == f[0] = EmptyBag /\ \A k \in 1..n : f[k] = f[k - 1] (+) SaidAt(cs, k)

\* Two chains of calls that say the same, call by call, say the same in all.
LEMMA TotalsAgree ==
    ASSUME NEW cs, NEW ds, NEW n \in Nat, NEW f, NEW g, Sums(cs, n, f), Sums(ds, n, g),
           \A k \in 1..n : SaidAt(cs, k) = SaidAt(ds, k)
    PROVE  f[n] = g[n]
<1> DEFINE Parted == {m \in 0..n : f[m] # g[m]}
<1>1. SUFFICES ASSUME Parted # {} PROVE FALSE
    OBVIOUS
<1>2. PICK m \in Parted : \A k \in Parted : ~(<<k, m>> \in OpToRel(<, Nat))
  <2>1. Parted \subseteq Nat
    OBVIOUS
  <2> QED BY <1>1, <2>1, NatLessThanWellFounded, WFMin
<1>3. m \in 1..n /\ f[m] # g[m]
    BY DEF Sums
<1>4. m - 1 \in 0..n /\ m - 1 \notin Parted
  <2>1. m - 1 \in Nat /\ m \in Nat /\ m - 1 < m /\ m - 1 \in 0..n
    BY <1>3
  <2>2. <<m - 1, m>> \in OpToRel(<, Nat)
    BY <2>1 DEF OpToRel
  <2> QED BY <1>2, <2>1, <2>2
<1>5. f[m - 1] = g[m - 1]
    BY <1>4
<1> QED BY <1>3, <1>5 DEF Sums

\* What a call says depends on the calls up to it.
LEMMA SaidAtKeeps ==
    ASSUME NEW cs, NEW ds, NEW k \in Nat, \A i \in 1..k : cs[i] = ds[i]
    PROVE  k # 0 => SaidAt(cs, k) = SaidAt(ds, k)
<1>1. \A m \in 1..k : Together(cs, m, k) = Together(ds, m, k)
    BY DEF Together
<1>2. SentenceAt(cs, k) \subseteq SentenceAt(ds, k)
    BY <1>1 DEF SentenceAt
<1>3. SentenceAt(ds, k) \subseteq SentenceAt(cs, k)
    BY <1>1 DEF SentenceAt
<1>4. SentenceAt(cs, k) = SentenceAt(ds, k)
    BY <1>2, <1>3
<1>5. k # 0 => cs[k] = ds[k]
    OBVIOUS
<1> QED BY <1>4, <1>5 DEF SaidAt

\* SaidBy is the last of the sums that its definition goes through.
LEMMA SaidByTotal ==
    ASSUME NEW cs, Len(cs) \in Nat
    PROVE  \E f : Sums(cs, Len(cs), f) /\ SaidBy(cs) = f[Len(cs)]
<1> DEFINE n == Len(cs)
           f == CHOOSE f : IsTotal(cs, n, f)
<1>1. IsTotal(cs, n, f)
    BY TotalExists
<1>2. SaidBy(cs) = f[n]
    BY DEF SaidBy, IsTotal
<1> HIDE DEF f
<1>3. f[0] = EmptyBag /\ \A k \in 1..n : f[k] = f[k - 1] (+) SaidAt(cs, k)
  <2>1. f = [k \in 0..n |-> IF k = 0 THEN EmptyBag ELSE f[k - 1] (+) SaidAt(cs, k)]
    BY <1>1 DEF IsTotal
  <2> QED BY <2>1
<1> QED BY <1>2, <1>3 DEF Sums

\* One more call adds what it says.
LEMMA SaidByAppend ==
    ASSUME NEW S, NEW cs \in Seq(S), NEW c \in S
    PROVE  SaidBy(Append(cs, c)) = SaidBy(cs) (+) SaidAt(Append(cs, c), Len(cs) + 1)
<1> DEFINE ds == Append(cs, c)
           n == Len(cs)
<1>1. n \in Nat /\ Len(ds) = n + 1 /\ \A i \in 1..n : cs[i] = ds[i]
    OBVIOUS
<1>2. \A k \in 1..n : SaidAt(cs, k) = SaidAt(ds, k)
  <2> TAKE k \in 1..n
  <2>1. k \in Nat /\ k # 0 /\ \A i \in 1..k : cs[i] = ds[i]
    BY <1>1
  <2> QED BY <2>1, SaidAtKeeps
<1> HIDE DEF ds
<1>3. PICK f : Sums(cs, n, f) /\ SaidBy(cs) = f[n]
    BY <1>1, SaidByTotal
<1>4. PICK g : Sums(ds, n + 1, g) /\ SaidBy(ds) = g[n + 1]
    BY <1>1, SaidByTotal
<1>5. f[n] = g[n]
  <2>1. Sums(ds, n, g)
    BY <1>1, <1>4 DEF Sums
  <2> HIDE DEF n
  <2> QED BY <1>1, <1>2, <1>3, <2>1, TotalsAgree
<1>6. g[n + 1] = g[n] (+) SaidAt(ds, n + 1)
    BY <1>1, <1>4 DEF Sums
<1> QED BY <1>1, <1>3, <1>4, <1>5, <1>6 DEF ds

\* The calls a caller can make.
FlowLists == UNION {[1..n -> FlowTransitions] : n \in 1..MaxFlow}
FlowArgs == {[transitions |-> BagOf(ts), deciders |-> after] :
                ts \in FlowLists, after \in {<<>>, <<StartStep>>}}
BuilderCalls ==
    [op : {"from", "addDecider"}, arg : Steps] \cup [op : {"on"}, arg : Patterns]
    \cup [op : {"to"}, arg : 0..End] \cup [op : {"useFlow"}, arg : FlowArgs]

\* Every transition has a count.
IsBag(b) == b \in [DOMAIN b -> Nat]

\* Call k began a sentence that no call has ended or begun anew.
Begun(k) == calls[k].op = "from" /\ \A i \in k + 1..Len(calls) : calls[i].op \notin {"from", "to"}
\* Call m was the last on().
LastOn(m) == calls[m].op = "on" /\ \A i \in m + 1..Len(calls) : calls[i].op # "on"

\* The pending transition is the open sentence, as far as it has been said.
PendingInv ==
    pending.set =>
        \E k \in 1..Len(calls) :
            /\ Begun(k) /\ calls[k].arg = pending.from
            /\ \/ pending.on = Unsaid /\ \A i \in k + 1..Len(calls) : calls[i].op # "on"
               \/ pending.on # Unsaid /\ \E m \in k + 1..Len(calls) : LastOn(m) /\ calls[m].arg = pending.on

\* While the job is declared: what is built was said, and what is pending is being said.
SaidInv ==
    outcome = "declared" =>
        /\ calls \in Seq(BuilderCalls)
        /\ IsBag(built)
        /\ pending = Null \/ pending \in [set : {TRUE}, from : Steps, on : Patterns \cup {Unsaid}]
        /\ PendingInv
        /\ built = SaidBy(calls)

\* A call that says no transition adds nothing.
LEMMA NothingAdded == ASSUME NEW b, IsBag(b) PROVE b (+) SetToBag({}) = b
BY DEF IsBag, SetToBag, (+)

\* Bags added are a bag.
LEMMA BagsAdd == ASSUME NEW b, NEW c, IsBag(b), IsBag(c) PROVE IsBag(b (+) c)
BY DEF IsBag, (+)

\* A set of transitions, taken once each, is a bag.
LEMMA SetIsBag == ASSUME NEW S PROVE IsBag(SetToBag(S))
BY DEF IsBag, SetToBag

\* So is an array of transitions, up to its order.
LEMMA FlowIsBag == ASSUME NEW n \in Nat, NEW T, NEW ts \in [1..n -> T] PROVE IsBag(BagOf(ts))
<1>1. \A t : Cardinality({i \in DOMAIN ts : ts[i] = t}) \in Nat
  <2> TAKE t
  <2>1. IsFiniteSet(1..n)
    BY FS_Interval
  <2>2. {i \in DOMAIN ts : ts[i] = t} \subseteq 1..n
    OBVIOUS
  <2> QED BY <2>1, <2>2, FS_Subset, FS_CardinalityType
<1> QED BY <1>1 DEF IsBag, BagOf
\* A call is added to the calls made; what it says is added to what they said.
LEMMA CallMade ==
    ASSUME SaidInv, outcome = "declared", NEW c \in BuilderCalls, Calls(c)
    PROVE  LET n == Len(calls) IN
           /\ n \in Nat /\ Len(calls') = n + 1
           /\ calls' \in Seq(BuilderCalls)
           /\ calls'[n + 1] = c /\ \A i \in 1..n : calls'[i] = calls[i]
           /\ SaidBy(calls') = SaidBy(calls) (+) SaidAt(calls', n + 1)
<1>1. calls \in Seq(BuilderCalls) /\ calls' = Append(calls, c)
    BY DEF SaidInv, Calls
<1>2. SaidBy(calls') = SaidBy(calls) (+) SaidAt(calls', Len(calls) + 1)
    BY <1>1, SaidByAppend
<1> QED BY <1>1, <1>2

\* Most calls say no transition.
LEMMA NothingSaid ==
    ASSUME NEW cs, NEW k, cs[k].op \notin {"to", "useFlow"}
    PROVE  SaidAt(cs, k) = SetToBag({})
<1>1. SentenceAt(cs, k) = {}
    BY DEF SentenceAt
<1> QED BY <1>1 DEF SaidAt

\* from() begins a sentence, in place of the one that was open.
LEMMA FromSaid ==
    ASSUME SaidInv, NEW s \in Steps, From(s)
    PROVE  SaidInv'
<1> DEFINE c == Call("from", s)
<1>1. outcome = "declared" /\ outcome' = outcome /\ c \in BuilderCalls /\ Calls(c) /\ built' = built
      /\ pending' = [set |-> TRUE, from |-> s, on |-> Unsaid]
    BY DEF From, Call, BuilderCalls, flowVars
<1>2. PICK n \in Nat : n = Len(calls)
    BY <1>1 DEF SaidInv
<1>3. /\ n \in Nat /\ Len(calls') = n + 1
      /\ calls' \in Seq(BuilderCalls)
      /\ calls'[n + 1] = c /\ \A i \in 1..n : calls'[i] = calls[i]
      /\ SaidBy(calls') = SaidBy(calls) (+) SaidAt(calls', n + 1)
    BY <1>1, <1>2, CallMade
<1>4. SaidAt(calls', n + 1) = SetToBag({})
    BY <1>3, NothingSaid DEF Call
<1>5. built' = SaidBy(calls') /\ IsBag(built')
    BY <1>1, <1>3, <1>4, NothingAdded DEF SaidInv
<1>6. pending' \in [set : {TRUE}, from : Steps, on : Patterns \cup {Unsaid}]
    BY <1>1
<1>7. PendingInv'
  <2>1. Begun(n + 1)' /\ calls'[n + 1].arg = pending'.from /\ pending'.on = Unsaid
    BY <1>1, <1>3 DEF Begun, Call
  <2>2. n + 1 \in 1..Len(calls') /\ \A i \in n + 1 + 1..Len(calls') : calls'[i].op # "on"
    BY <1>3
  <2> QED BY <2>1, <2>2 DEF PendingInv
<1> QED BY <1>3, <1>5, <1>6, <1>7 DEF SaidInv

\* on() is part of the open sentence, in place of an earlier on().
LEMMA OnSaid ==
    ASSUME SaidInv, NEW p \in Patterns, On(p)
    PROVE  SaidInv'
<1> DEFINE c == Call("on", p)
<1>1. outcome = "declared" /\ c \in BuilderCalls /\ Calls(c) /\ built' = built
    BY DEF On, Call, BuilderCalls
<1>2. PICK n \in Nat : n = Len(calls)
    BY <1>1 DEF SaidInv
<1>3. /\ n \in Nat /\ Len(calls') = n + 1
      /\ calls' \in Seq(BuilderCalls)
      /\ calls'[n + 1] = c /\ \A i \in 1..n : calls'[i] = calls[i]
      /\ SaidBy(calls') = SaidBy(calls) (+) SaidAt(calls', n + 1)
    BY <1>1, <1>2, CallMade
<1>4. SaidAt(calls', n + 1) = SetToBag({})
    BY <1>3, NothingSaid DEF Call
<1>5. built' = SaidBy(calls') /\ IsBag(built')
    BY <1>1, <1>3, <1>4, NothingAdded DEF SaidInv
<1>6. SUFFICES ASSUME outcome' = "declared" PROVE SaidInv'
    BY DEF SaidInv
<1>7. pending.set /\ pending' = [pending EXCEPT !.on = p]
    BY <1>6 DEF On, Throws
<1>8. pending \in [set : {TRUE}, from : Steps, on : Patterns \cup {Unsaid}]
  <2>1. pending = Null \/ pending \in [set : {TRUE}, from : Steps, on : Patterns \cup {Unsaid}]
    BY <1>1 DEF SaidInv
  <2>2. ~Null.set
    BY DEF Null
  <2> QED BY <1>7, <2>1, <2>2
<1>9. /\ pending' \in [set : {TRUE}, from : Steps, on : Patterns \cup {Unsaid}]
      /\ pending'.from = pending.from /\ pending'.on = p
    BY <1>7, <1>8
<1>10. PendingInv'
  <2>1. PICK k \in 1..n : Begun(k) /\ calls[k].arg = pending.from
    BY <1>1, <1>7, <1>2 DEF SaidInv, PendingInv
  <2>2. Begun(k)' /\ calls'[k].arg = pending'.from
    <3>1. calls'[k] = calls[k]
        BY <1>3, <2>1
    <3>2. \A i \in k + 1..n : calls'[i] = calls[i]
        BY <1>3, <2>1
    <3>3. \A i \in k + 1..n + 1 : calls'[i].op \notin {"from", "to"}
        BY <1>3, <1>2, <2>1, <3>2 DEF Begun, Call
    <3> QED BY <1>3, <1>9, <2>1, <3>1, <3>3 DEF Begun
  <2>3. n + 1 \in k + 1..Len(calls') /\ LastOn(n + 1)' /\ calls'[n + 1].arg = pending'.on
    BY <1>3, <1>9, <2>1 DEF LastOn, Call
  <2>4. pending'.on # Unsaid
    BY <1>9, BuilderAssumption
  <2>5. k \in 1..Len(calls')
    BY <1>3, <2>1
  <2> QED BY <2>2, <2>3, <2>4, <2>5 DEF PendingInv
<1> QED BY <1>3, <1>5, <1>9, <1>10 DEF SaidInv

\* A call that is neither from(), on() nor to() leaves the sentence open.
LEMMA SentenceOpen ==
    ASSUME SaidInv, outcome = "declared", Len(calls) \in Nat, Len(calls') = Len(calls) + 1,
           \A i \in 1..Len(calls) : calls'[i] = calls[i],
           calls'[Len(calls) + 1].op \notin {"from", "on", "to"}, pending' = pending
    PROVE  PendingInv'
<1>1. PICK n \in Nat : n = Len(calls)
    OBVIOUS
<1>2. SUFFICES ASSUME pending.set PROVE PendingInv'
    BY DEF PendingInv
<1>3. PICK k \in 1..n :
            /\ Begun(k) /\ calls[k].arg = pending.from
            /\ \/ pending.on = Unsaid /\ \A i \in k + 1..n : calls[i].op # "on"
               \/ pending.on # Unsaid /\ \E m \in k + 1..n : LastOn(m) /\ calls[m].arg = pending.on
    BY <1>1, <1>2 DEF SaidInv, PendingInv
<1>4. k \in 1..Len(calls') /\ calls'[k] = calls[k] /\ \A i \in k + 1..n : calls'[i] = calls[i]
    BY <1>1, <1>3
<1>5. Begun(k)' /\ calls'[k].arg = pending'.from
  <2>1. \A i \in k + 1..n + 1 : calls'[i].op \notin {"from", "to"}
    BY <1>1, <1>3, <1>4 DEF Begun
  <2> QED BY <1>1, <1>3, <1>4, <2>1 DEF Begun
<1>6. CASE pending.on = Unsaid /\ \A i \in k + 1..n : calls[i].op # "on"
  <2>1. \A i \in k + 1..n + 1 : calls'[i].op # "on"
    BY <1>1, <1>4, <1>6
  <2> QED BY <1>1, <1>4, <1>5, <1>6, <2>1 DEF PendingInv
<1>7. ASSUME pending.on # Unsaid, NEW m \in k + 1..n, LastOn(m) /\ calls[m].arg = pending.on
      PROVE PendingInv'
  <2>1. calls'[m] = calls[m] /\ \A i \in m + 1..n : calls'[i] = calls[i] /\ m \in k + 1..Len(calls')
    BY <1>1, <1>3, <1>4, <1>7
  <2>2. ASSUME NEW i \in m + 1..n + 1 PROVE calls'[i].op # "on"
    <3>1. m \in Nat /\ k \in Nat /\ (i = n + 1 \/ i \in m + 1..n)
      BY <1>3
    <3>2. CASE i = n + 1
      BY <1>1, <3>2
    <3>3. CASE i \in m + 1..n
      <4>1. \A j \in m + 1..n : calls[j].op # "on"
        BY <1>1, <1>7 DEF LastOn
      <4> QED BY <2>1, <3>3, <4>1
    <3> QED BY <3>1, <3>2, <3>3
  <2>3. LastOn(m)'
    BY <1>1, <1>7, <2>1, <2>2 DEF LastOn
  <2>4. calls'[m].arg = pending'.on
    BY <1>7, <2>1
  <2>5. (\E j \in k + 1..Len(calls) : LastOn(j) /\ calls[j].arg = pending.on)'
    <3>1. LastOn(m)' /\ (calls[m].arg = pending.on)'
        BY <2>3, <2>4
    <3>2. (m \in k + 1..Len(calls))'
        BY <1>1, <1>7, <2>1
    <3> QED BY <3>1, <3>2
  <2>6. pending'.on # Unsaid
    BY <1>7
  <2> QED BY <1>4, <1>5, <2>5, <2>6 DEF PendingInv
<1> QED BY <1>3, <1>6, <1>7

\* to() and end() end the open sentence, if on() was said in it.
LEMMA SentenceEnds ==
    ASSUME NEW cs, NEW n \in Nat, NEW k \in 1..n, cs[n + 1].op = "to", cs[k].op = "from",
           \A i \in k + 1..n : cs[i].op \notin {"from", "to"}
    PROVE  /\ (\A i \in k + 1..n : cs[i].op # "on") => SentenceAt(cs, n + 1) = {}
           /\ \A m \in k + 1..n :
                cs[m].op = "on" /\ (\A i \in m + 1..n : cs[i].op # "on") =>
                    SentenceAt(cs, n + 1) = {[from |-> cs[k].arg, on |-> cs[m].arg, to |-> cs[n + 1].arg]}
<1> DEFINE Ends(p) == /\ cs[p[1]].op = "from" /\ cs[p[2]].op = "on"
                      /\ p[1] < p[2] /\ Together(cs, p[1], n + 1)
                      /\ \A i \in (p[2] + 1)..(n + 1) : cs[i].op # "on"
<1>1. SentenceAt(cs, n + 1) =
        {[from |-> cs[q[1]].arg, on |-> cs[q[2]].arg, to |-> cs[n + 1].arg] :
            q \in {p \in (1..(n + 1)) \X (1..(n + 1)) : cs[n + 1].op = "to" /\ Ends(p)}}
    BY DEF SentenceAt
<1>2. ASSUME NEW p \in (1..(n + 1)) \X (1..(n + 1)), Ends(p)
      PROVE  p[1] = k /\ p[2] \in k + 1..n /\ cs[p[2]].op = "on" /\ \A i \in p[2] + 1..n : cs[i].op # "on"
  <2>1. p[1] \in 1..n + 1 /\ p[2] \in 1..n + 1 /\ p[1] < p[2] /\ p[1] # n + 1 /\ p[2] # n + 1
    BY <1>2
  <2>2. \A i \in p[1] + 1..n : cs[i].op \notin {"from", "to"}
    BY <1>2, <2>1 DEF Together
  <2>3. ~(p[1] < k) /\ ~(k < p[1])
    BY <1>2, <2>1, <2>2
  <2> QED BY <1>2, <2>1, <2>3
<1>3. ASSUME NEW m \in k + 1..n, cs[m].op = "on", \A i \in m + 1..n : cs[i].op # "on"
      PROVE  <<k, m>> \in (1..(n + 1)) \X (1..(n + 1)) /\ Ends(<<k, m>>)
  <2>1. Together(cs, k, n + 1)
    BY DEF Together
  <2>2. \A i \in m + 1..n + 1 : cs[i].op # "on"
    BY <1>3
  <2> QED BY <1>3, <2>1, <2>2
<1> HIDE DEF Ends
<1>4. ASSUME \A i \in k + 1..n : cs[i].op # "on" PROVE SentenceAt(cs, n + 1) = {}
    BY <1>1, <1>2, <1>4
<1>5. ASSUME NEW m \in k + 1..n, cs[m].op = "on", \A i \in m + 1..n : cs[i].op # "on"
      PROVE  SentenceAt(cs, n + 1) = {[from |-> cs[k].arg, on |-> cs[m].arg, to |-> cs[n + 1].arg]}
  <2> DEFINE Pairs == {p \in (1..(n + 1)) \X (1..(n + 1)) : cs[n + 1].op = "to" /\ Ends(p)}
  <2>1. <<k, m>> \in Pairs
    BY <1>3, <1>5
  <2>2. \A p \in Pairs : p[1] = k /\ p[2] = m
    <3> TAKE p \in Pairs
    <3>1. p[1] = k /\ p[2] \in k + 1..n /\ cs[p[2]].op = "on" /\ \A i \in p[2] + 1..n : cs[i].op # "on"
        BY <1>2
    <3>2. ~(p[2] < m) /\ ~(m < p[2])
        BY <1>5, <3>1
    <3> QED BY <3>1, <3>2
  <2> HIDE DEF Pairs
  <2>3. SentenceAt(cs, n + 1) = {[from |-> cs[q[1]].arg, on |-> cs[q[2]].arg, to |-> cs[n + 1].arg] : q \in Pairs}
    BY <1>1 DEF Pairs
  <2> QED BY <2>1, <2>2, <2>3
<1> QED BY <1>4, <1>5

\* to() and end() add what the sentence says, and close it.
LEMMA ToSaid ==
    ASSUME SaidInv, NEW s \in 0..End, To(s)
    PROVE  SaidInv'
<1> DEFINE c == Call("to", s)
<1>1. outcome = "declared" /\ c \in BuilderCalls /\ Calls(c)
    BY DEF To, Call, BuilderCalls
<1>2. PICK n \in Nat : n = Len(calls)
    BY <1>1 DEF SaidInv
<1>3. /\ Len(calls') = n + 1
      /\ calls' \in Seq(BuilderCalls)
      /\ calls'[n + 1] = c /\ \A i \in 1..n : calls'[i] = calls[i]
      /\ SaidBy(calls') = SaidBy(calls) (+) SaidAt(calls', n + 1)
    BY <1>1, <1>2, CallMade
<1>4. SUFFICES ASSUME outcome' = "declared" PROVE SaidInv'
    BY DEF SaidInv
<1>5. pending.set /\ Commit(s)
    BY <1>4 DEF To, Throws
<1>6. pending' = Null /\ ~Null.set
    BY <1>5 DEF Commit, Null
<1>7. PICK k \in 1..n :
            /\ Begun(k) /\ calls[k].arg = pending.from
            /\ \/ pending.on = Unsaid /\ \A i \in k + 1..n : calls[i].op # "on"
               \/ pending.on # Unsaid /\ \E m \in k + 1..n : LastOn(m) /\ calls[m].arg = pending.on
    BY <1>1, <1>2, <1>5 DEF SaidInv, PendingInv
<1>8. /\ calls'[n + 1].op = "to" /\ calls'[n + 1].arg = s
      /\ calls'[k] = calls[k] /\ calls'[k].op = "from"
      /\ \A i \in k + 1..n : calls'[i] = calls[i] /\ calls'[i].op \notin {"from", "to"}
    BY <1>2, <1>3, <1>7 DEF Begun, Call
<1>9. SaidAt(calls', n + 1) = SetToBag(SentenceAt(calls', n + 1))
    BY <1>8 DEF SaidAt
<1>10. IsBag(built) /\ built = SaidBy(calls)
    BY <1>1 DEF SaidInv
<1>11. built' = built (+) SetToBag(SentenceAt(calls', n + 1))
  <2>1. CASE pending.on = Unsaid /\ \A i \in k + 1..n : calls[i].op # "on"
    <3>1. SentenceAt(calls', n + 1) = {}
        BY <1>8, <2>1, SentenceEnds
    <3> QED BY <1>5, <1>10, <2>1, <3>1, NothingAdded DEF Commit
  <2>2. ASSUME pending.on # Unsaid, NEW m \in k + 1..n, LastOn(m) /\ calls[m].arg = pending.on
        PROVE  built' = built (+) SetToBag(SentenceAt(calls', n + 1))
    <3>1. calls'[m] = calls[m] /\ calls'[m].op = "on" /\ \A i \in m + 1..n : calls'[i].op # "on"
        BY <1>2, <1>7, <1>8, <2>2 DEF LastOn
    <3>2. SentenceAt(calls', n + 1) =
                {[from |-> calls'[k].arg, on |-> calls'[m].arg, to |-> calls'[n + 1].arg]}
        BY <1>8, <3>1, SentenceEnds
    <3>3. SentenceAt(calls', n + 1) = {[from |-> pending.from, on |-> pending.on, to |-> s]}
        BY <1>7, <1>8, <2>2, <3>1, <3>2
    <3> QED BY <1>5, <2>2, <3>3 DEF Commit
  <2> QED BY <1>7, <2>1, <2>2
<1>12. built' = SaidBy(calls') /\ IsBag(built')
    BY <1>3, <1>9, <1>10, <1>11, BagsAdd, SetIsBag
<1> QED BY <1>3, <1>6, <1>12 DEF SaidInv, PendingInv

\* addDecider(): no transition, and the sentence stays open.
LEMMA DeciderAdded ==
    ASSUME SaidInv, NEW s \in Steps, AddDecider(s)
    PROVE  SaidInv'
<1> DEFINE c == Call("addDecider", s)
<1>1. outcome = "declared" /\ outcome' = outcome /\ c \in BuilderCalls /\ Calls(c)
      /\ built' = built /\ pending' = pending
    BY DEF AddDecider, Call, BuilderCalls, flowVars
<1>2. PICK n \in Nat : n = Len(calls)
    BY <1>1 DEF SaidInv
<1>3. /\ Len(calls') = n + 1
      /\ calls' \in Seq(BuilderCalls)
      /\ calls'[n + 1] = c /\ \A i \in 1..n : calls'[i] = calls[i]
      /\ SaidBy(calls') = SaidBy(calls) (+) SaidAt(calls', n + 1)
    BY <1>1, <1>2, CallMade
<1>4. SaidAt(calls', n + 1) = SetToBag({})
    BY <1>3, NothingSaid DEF Call
<1>5. built' = SaidBy(calls') /\ IsBag(built')
    BY <1>1, <1>3, <1>4, NothingAdded DEF SaidInv
<1>6. PendingInv'
    BY <1>1, <1>2, <1>3, SentenceOpen DEF Call
<1> QED BY <1>1, <1>3, <1>5, <1>6 DEF SaidInv

\* useFlow(): the flow's transitions, and the sentence stays open.
LEMMA FlowSaid ==
    ASSUME SaidInv, NEW m \in 1..MaxFlow, NEW ts \in [1..m -> FlowTransitions],
           NEW after \in {<<>>, <<StartStep>>}, UseFlow(ts, after)
    PROVE  SaidInv'
<1> DEFINE a == [transitions |-> BagOf(ts), deciders |-> after]
           c == Call("useFlow", a)
<1>1. outcome = "declared" /\ outcome' = outcome /\ Calls(c)
      /\ built' = built (+) BagOf(ts) /\ pending' = pending
    BY DEF UseFlow, flowVars
<1>2. c \in BuilderCalls
  <2>1. a \in FlowArgs
    <3>1. ts \in FlowLists
        BY DEF FlowLists
    <3> QED BY <3>1 DEF FlowArgs
  <2> HIDE DEF a
  <2> QED BY <2>1 DEF Call, BuilderCalls
<1>3. PICK n \in Nat : n = Len(calls)
    BY <1>1 DEF SaidInv
<1>4. /\ Len(calls') = n + 1
      /\ calls' \in Seq(BuilderCalls)
      /\ calls'[n + 1] = c /\ \A i \in 1..n : calls'[i] = calls[i]
      /\ SaidBy(calls') = SaidBy(calls) (+) SaidAt(calls', n + 1)
    BY <1>1, <1>2, <1>3, CallMade
<1>5. SaidAt(calls', n + 1) = BagOf(ts)
    BY <1>4 DEF SaidAt, Call
<1>6. IsBag(BagOf(ts))
  <2>1. m \in Nat
    BY BuilderAssumption
  <2> QED BY <2>1, FlowIsBag
<1>7. built' = SaidBy(calls') /\ IsBag(built')
  <2>1. IsBag(built) /\ built = SaidBy(calls)
    BY <1>1 DEF SaidInv
  <2> QED BY <1>1, <1>4, <1>5, <1>6, <2>1, BagsAdd
<1>8. PendingInv'
    BY <1>1, <1>3, <1>4, SentenceOpen DEF Call
<1> QED BY <1>1, <1>4, <1>7, <1>8 DEF SaidInv

\* A builder that is done, or a decorated class, has declared the job.
LEMMA DeclarationOver ==
    ASSUME NEW config, Register(config) \/ Refuse(config)
    PROVE  outcome' # "declared"
BY DEF Register, Refuse

\* While a job runs, nothing is declared.
LEMMA RunJobEnds == ASSUME RunJob PROVE outcome' # "declared"
BY DEF RunJob, RunStep, StepThrows, JobFails, Route, GoTo

(***************************************************************************)
(* The transitions that a JobBuilder has collected are those its caller    *)
(* said, for any number of calls in any order: each sentence and each      *)
(* flow, as often as it was said, and no part of an abandoned sentence.    *)
(***************************************************************************)
THEOREM BuiltIsSaid == BuilderSpec => []BuiltAsSaid
<1>1. BuilderInit => SaidInv
  <2> SUFFICES ASSUME BuilderInit PROVE SaidInv
    OBVIOUS
  <2>1. calls = <<>> /\ built = EmptyBag /\ pending = Null
    BY DEF BuilderInit
  <2>2. IsBag(built)
    BY <2>1, SetIsBag DEF EmptyBag
  <2>3. built = SaidBy(calls)
    <3>1. Len(calls) = 0
        BY <2>1
    <3>2. PICK f : Sums(calls, Len(calls), f) /\ SaidBy(calls) = f[Len(calls)]
        BY <3>1, SaidByTotal
    <3> QED BY <2>1, <3>1, <3>2 DEF Sums
  <2>4. PendingInv
    BY <2>1 DEF PendingInv, Null
  <2> QED BY <2>1, <2>2, <2>3, <2>4 DEF SaidInv
<1>2. SaidInv /\ [BuilderNext]_<<flowVars, builderVars>> => SaidInv'
  <2> SUFFICES ASSUME SaidInv, [BuilderNext]_<<flowVars, builderVars>> PROVE SaidInv'
    OBVIOUS
  <2>1. CASE outcome = "declared" /\ Declaration
    <3>1. ASSUME Build PROVE SaidInv'
        BY <3>1, DeclarationOver DEF Build, SaidInv
    <3>2. ASSUME NEW n \in 0..2, NEW ts \in [1..n -> [from : Steps, on : Declared, to : Steps \cup {End}]],
                 CompileFromDiscovered(ts)
          PROVE  SaidInv'
        BY <3>2, DeclarationOver DEF CompileFromDiscovered, SaidInv
    <3> QED BY <2>1, <3>1, <3>2, FromSaid, DeciderAdded, OnSaid, ToSaid, FlowSaid DEF Declaration
  <2>2. CASE RunJob
    BY <2>2, RunJobEnds DEF SaidInv
  <2>3. CASE UNCHANGED <<flowVars, builderVars>>
    BY <2>3 DEF flowVars, builderVars, SaidInv, PendingInv, Begun, LastOn
  <2> QED BY <2>1, <2>2, <2>3 DEF BuilderNext
<1>3. SaidInv => BuiltAsSaid
    BY DEF SaidInv, BuiltAsSaid
<1> QED BY <1>1, <1>2, <1>3, PTL DEF BuilderSpec

-----------------------------------------------------------------------------
(***************************************************************************)
(* Proofs about an application's life from boot to shutdown and again, for *)
(* any deployments, any launches, any number of boots, attempts and stalls *)
(* and both orders of the bootstrap hooks.                                 *)
(*                                                                         *)
(* The three properties speak of moments (up, dead, closed) that depend on *)
(* what came before: AppInv says how far the hooks have come and what is   *)
(* there by then, and that a message being worked on keeps the worker      *)
(* busy until the worker is given up.                                      *)
(***************************************************************************)
Quiet == \A l \in Launches : message[l].at # "active"
MessageType == [at : {None, "waiting", "active", "done", "dead"}, tries : Nat, stalls : Nat]

AppTyped ==
    /\ phase \in {"down", "init", "boot", "up", "closing", "closed"}
    /\ message \in [Launches -> MessageType]
    /\ DOMAIN caller = Launches /\ DOMAIN row = Launches /\ DOMAIN thrown = Launches

\* How far the bootstrap hooks have come.
HooksInv ==
    /\ order \in {CoreFirst, TransportFirst}
    /\ phase = "init" => hooks = order
    /\ phase = "boot" => \/ hooks = order
                         \/ order = CoreFirst /\ hooks = <<"transport">>
                         \/ order = TransportFirst /\ hooks = <<"core">>

\* What is registered by then.
RegistryInv ==
    /\ phase \in {"up", "closing", "closed"} \/ (phase = "boot" /\ hooks = <<"transport">>) =>
           registry = DeployedIds
    /\ phase \in {"boot", "up", "closing", "closed"} =>
           ~DuplicateSchedule /\ \A s \in schedules : s.jobId \in DeployedIds

\* The worker is there from its hook on; a message it works on keeps it busy.
WorkerInv ==
    /\ phase \in {"down", "init"} => worker = None /\ Quiet
    /\ phase = "boot" /\ (hooks = order \/ hooks = <<"transport">>) => worker = None /\ Quiet
    /\ phase = "closed" => worker = None \/ stray
    /\ stray => phase \in {"closing", "closed"}
    /\ closeError => worker = None /\ phase \in {"closing", "closed"}
    /\ ~closeError /\ ~Quiet => worker = "busy"
    /\ \A l, k \in Launches : message[l].at = "active" /\ message[k].at = "active" => l = k

AppInv == AppTyped /\ HooksInv /\ RegistryInv /\ WorkerInv /\ AcceptedIsKept

-----------------------------------------------------------------------------
\* The two orders, and what is left of them after the first hook.
LEMMA HookOrders ==
    /\ Head(CoreFirst) = "core" /\ Tail(CoreFirst) = <<"transport">>
    /\ Head(TransportFirst) = "transport" /\ Tail(TransportFirst) = <<"core">>
    /\ Head(<<"core">>) = "core" /\ Tail(<<"core">>) = <<>>
    /\ Head(<<"transport">>) = "transport" /\ Tail(<<"transport">>) = <<>>
    /\ CoreFirst # TransportFirst /\ <<"core">> # <<"transport">>
    /\ <<"core">> # <<>> /\ <<"transport">> # <<>>
    /\ CoreFirst \notin {<<"core">>, <<"transport">>}
    /\ TransportFirst \notin {<<"core">>, <<"transport">>}
BY DEF CoreFirst, TransportFirst

\* A message that stalls goes back to the queue, or has stalled too often.
LEMMA StalledMessage ==
    ASSUME NEW m \in MessageType
    PROVE  /\ Stalled(m) \in MessageType
           /\ Stalled(m).at = "waiting" \/ (Stalled(m).at = "dead" /\ Stalled(m).stalls > MaxStalled)
<1>1. m.stalls \in Nat /\ MaxStalled \in Nat
    BY ApplicationAssumption DEF MessageType
<1>2. CASE Kafka
    BY <1>2 DEF Stalled, MessageType
<1>3. CASE ~Kafka
    <2> DEFINE n == m.stalls + 1
               end == IF m.stalls < MaxStalled THEN "waiting" ELSE "dead"
    <2>1. n \in Nat /\ (end = "waiting" \/ (end = "dead" /\ n > MaxStalled))
        BY <1>1
    <2>2. Stalled(m) = [m EXCEPT !.stalls = n, !.at = end]
        BY <1>3 DEF Stalled
    <2> HIDE DEF n, end
    <2>3. Stalled(m).stalls = n /\ Stalled(m).at = end
        BY <2>2 DEF MessageType
    <2>4. Stalled(m) \in MessageType
        BY <2>1, <2>2 DEF MessageType
    <2> QED BY <2>1, <2>3, <2>4
<1> QED BY <1>2, <1>3

\* What is deployed does not change under a process.
LEMMA DeploymentStays ==
    ASSUME deployed' = deployed
    PROVE  DeployedIds' = DeployedIds /\ DuplicateSchedule' = DuplicateSchedule
<1>1. Classes' = Classes
    BY DEF Classes
<1>2. \A i : SchedulesOf(i)' = SchedulesOf(i)
    BY <1>1 DEF SchedulesOf
<1> QED BY <1>1, <1>2 DEF DeployedIds, DuplicateSchedule

\* A schedule is registered under the id of its class.
LEMMA SchedulesAreOurs ==
    \A s \in UNION {ToSet(SchedulesOf(i)) : i \in DOMAIN Classes} : s.jobId \in DeployedIds
<1> SUFFICES ASSUME NEW i \in DOMAIN Classes, NEW s \in ToSet(SchedulesOf(i))
             PROVE  s.jobId \in DeployedIds
    OBVIOUS
<1>1. PICK m \in DOMAIN SchedulesOf(i) : s = SchedulesOf(i)[m]
    BY DEF ToSet
<1>2. s.jobId = Classes[i].id
    BY <1>1 DEF SchedulesOf, CollectSchedules
<1> QED BY <1>2 DEF DeployedIds

(***************************************************************************)
(* However the process ends, nothing in memory is left, and a message that *)
(* was being worked on is kept.                                            *)
(***************************************************************************)
LEMMA ProcessEndsInv == ASSUME AppInv, ProcessEnds, UNCHANGED order PROVE AppInv'
<1> USE DEF AppInv
<1>1. /\ phase' = "down" /\ worker' = None /\ closeError' = FALSE /\ stray' = FALSE
      /\ caller' = [l \in Launches |-> IF caller[l] = "created" THEN "error" ELSE caller[l]]
      /\ message' = [l \in Launches |->
                        IF message[l].at = "active" THEN Stalled(message[l]) ELSE message[l]]
      /\ UNCHANGED <<row, thrown>>
    BY DEF ProcessEnds
<1>2. \A l \in Launches : /\ message[l] \in MessageType
                          /\ Stalled(message[l]) \in MessageType
                          /\ \/ Stalled(message[l]).at = "waiting"
                             \/ /\ Stalled(message[l]).at = "dead"
                                /\ Stalled(message[l]).stalls > MaxStalled
    BY StalledMessage DEF AppTyped
<1>3. message' \in [Launches -> MessageType]
    BY <1>1, <1>2
<1>4. \A l \in Launches :
          \/ message'[l] = message[l] /\ message[l].at # "active"
          \/ message[l].at = "active" /\ message'[l].at = "waiting"
          \/ /\ message[l].at = "active" /\ message'[l].at = "dead"
             /\ message'[l].stalls > MaxStalled
    BY <1>1, <1>2
<1>5. Quiet'
    BY <1>4 DEF Quiet
<1>6. AppTyped' /\ HooksInv' /\ RegistryInv'
    BY <1>1, <1>3 DEF AppTyped, HooksInv, RegistryInv
<1>7. WorkerInv'
    BY <1>1, <1>5 DEF WorkerInv, Quiet
<1>8. AcceptedIsKept'
    <2> SUFFICES ASSUME NEW l \in Launches
                 PROVE  /\ caller'[l] = "enqueued" /\ row[l] # "ended" =>
                               message'[l].at \in {"waiting", "active", "dead"}
                        /\ message'[l].at = "dead" => message'[l].stalls > MaxStalled \/ thrown[l] # {}
                        /\ order = CoreFirst => thrown[l] \subseteq {"unknown", "execute"}
        BY <1>1 DEF AcceptedIsKept
    <2>1. caller'[l] = "enqueued" => caller[l] = "enqueued"
        BY <1>1
    <2> QED BY <1>4, <2>1 DEF AcceptedIsKept
<1> QED BY <1>6, <1>7, <1>8

\* Steps of the process alone: nobody's launch or message changes.
LEMMA BootInv ==
    ASSUME AppInv, UNCHANGED <<workVars, order>>, UNCHANGED <<closeError, stray>>,
           \/ \E d \in Deployments : Start(d)
           \/ OnModuleInit /\ ~ProcessEnds
           \/ BootstrapCore /\ ~ProcessEnds
           \/ BootstrapTransport
    PROVE  AppInv'
<1> USE DEF AppInv
<1>1. UNCHANGED <<caller, row, message, thrown>> /\ Quiet' = Quiet
    BY DEF workVars, Quiet
<1>2. AcceptedIsKept'
    BY <1>1 DEF AcceptedIsKept
<1>3. ASSUME NEW d, Start(d) PROVE AppTyped' /\ HooksInv' /\ RegistryInv' /\ WorkerInv'
    <2>1. /\ phase = "down" /\ phase' \in {"init", "down"} /\ hooks' = order
          /\ worker' = worker
        BY <1>3 DEF Start, transportVars
    <2>2. AppTyped' /\ HooksInv' /\ RegistryInv'
        BY <1>1, <2>1 DEF AppTyped, HooksInv, RegistryInv
    <2>3. WorkerInv'
        BY <1>1, <2>1 DEF WorkerInv
    <2> QED BY <2>2, <2>3
<1>4. CASE OnModuleInit /\ ~ProcessEnds
    <2>1. /\ phase = "init" /\ phase' = "boot" /\ UNCHANGED <<deployed, hooks, registry, worker>>
          /\ schedules' = UNION {ToSet(SchedulesOf(i)) : i \in DOMAIN Classes} /\ ~DuplicateSchedule
        BY <1>4 DEF OnModuleInit, transportVars
    <2>2. DeployedIds' = DeployedIds /\ DuplicateSchedule' = DuplicateSchedule
        BY <2>1, DeploymentStays
    <2>3. \A s \in schedules' : s.jobId \in DeployedIds
        BY <2>1, SchedulesAreOurs
    <2>4. hooks' # <<"transport">>
        BY <2>1, HookOrders DEF HooksInv
    <2>5. AppTyped' /\ HooksInv' /\ RegistryInv'
        BY <1>1, <2>1, <2>2, <2>3, <2>4 DEF AppTyped, HooksInv, RegistryInv
    <2>6. WorkerInv'
        BY <1>1, <2>1 DEF WorkerInv
    <2> QED BY <1>2, <2>5, <2>6
<1>5. CASE BootstrapCore /\ ~ProcessEnds
    <2>1. /\ phase = "boot" /\ Head(hooks) = "core" /\ HookDone
          /\ registry' = {Classes[i].id : i \in DOMAIN Classes}
          /\ UNCHANGED <<deployed, schedules, worker>>
        BY <1>5 DEF BootstrapCore, transportVars
    <2>2. /\ DeployedIds' = DeployedIds /\ DuplicateSchedule' = DuplicateSchedule
          /\ registry' = DeployedIds
        BY <2>1, DeploymentStays DEF DeployedIds
    <2>3. \/ order = CoreFirst /\ hooks = order /\ hooks' = <<"transport">> /\ phase' = "boot"
          \/ order = TransportFirst /\ hooks = <<"core">> /\ phase' = "up"
        BY <2>1, HookOrders DEF HooksInv, HookDone
    <2>4. AppTyped' /\ HooksInv' /\ RegistryInv'
        BY <1>1, <2>1, <2>2, <2>3, HookOrders DEF AppTyped, HooksInv, RegistryInv
    <2>5. WorkerInv'
        BY <1>1, <2>1, <2>3, HookOrders DEF WorkerInv
    <2> QED BY <1>2, <2>4, <2>5
<1>6. CASE BootstrapTransport
    <2>1. /\ phase = "boot" /\ Head(hooks) = "transport" /\ HookDone
          /\ UNCHANGED <<deployed, registry, schedules>>
        BY <1>6 DEF BootstrapTransport
    <2>2. DeployedIds' = DeployedIds /\ DuplicateSchedule' = DuplicateSchedule
        BY <2>1, DeploymentStays
    <2>3. \/ order = TransportFirst /\ hooks = order /\ hooks' = <<"core">> /\ phase' = "boot"
          \/ order = CoreFirst /\ hooks = <<"transport">> /\ phase' = "up"
        BY <2>1, HookOrders DEF HooksInv, HookDone
    <2>4. Quiet
        BY <2>1, <2>3 DEF WorkerInv
    <2>5. AppTyped' /\ HooksInv' /\ RegistryInv'
        BY <1>1, <2>1, <2>2, <2>3, HookOrders DEF AppTyped, HooksInv, RegistryInv
    <2>6. WorkerInv'
        BY <1>1, <2>1, <2>3, <2>4, HookOrders DEF WorkerInv
    <2> QED BY <1>2, <2>5, <2>6
<1> QED BY <1>2, <1>3, <1>4, <1>5, <1>6

\* Where Nest runs the core hook first, whoever works on a message knows every job.
LEMMA WorksWhenFilled ==
    ASSUME AppInv, order = CoreFirst, ~Quiet
    PROVE  registry = DeployedIds
BY HookOrders DEF AppInv, AppTyped, HooksInv, RegistryInv, WorkerInv

\* Steps of the worker and of shutdown that leave the messages alone.
LEMMA WorkerStepInv ==
    ASSUME AppInv, UNCHANGED <<workVars, order>>,
           ConsumerRuns \/ OnApplicationShutdown \/ CloseWorker \/ CloseWorkerFails \/ CloseQueue
    PROVE  AppInv'
<1> USE DEF AppInv
<1>1. UNCHANGED <<caller, row, message, thrown>> /\ Quiet' = Quiet
    BY DEF workVars, Quiet
<1>2. UNCHANGED <<deployed, hooks, registry, schedules>>
    BY DEF ConsumerRuns, OnApplicationShutdown, CloseWorker, CloseWorkerFails, CloseQueue, processVars
<1>3. DeployedIds' = DeployedIds /\ DuplicateSchedule' = DuplicateSchedule
    BY <1>2, DeploymentStays
<1>4. \/ phase' = phase
      \/ phase = "up" /\ phase' = "closing"
      \/ phase = "closing" /\ phase' = "closed"
    BY DEF ConsumerRuns, OnApplicationShutdown, CloseWorker, CloseWorkerFails, CloseQueue, processVars
<1>5. AppTyped' /\ HooksInv' /\ RegistryInv' /\ AcceptedIsKept'
    <2>1. AppTyped' /\ HooksInv'
        BY <1>1, <1>2, <1>4 DEF AppTyped, HooksInv
    <2>2. RegistryInv'
        BY <1>2, <1>3, <1>4 DEF RegistryInv
    <2>3. AcceptedIsKept'
        BY <1>1 DEF AcceptedIsKept
    <2> QED BY <2>1, <2>2, <2>3
<1>6. WorkerInv'
    <2> USE DEF None
    <2>1. CASE ConsumerRuns
        BY <1>1, <1>2, <2>1 DEF WorkerInv, ConsumerRuns, processVars
    <2>2. CASE OnApplicationShutdown
        BY <1>1, <1>2, <2>2 DEF WorkerInv, OnApplicationShutdown
    <2>3. CASE CloseWorker
        BY <1>1, <1>2, <2>3 DEF WorkerInv, CloseWorker, processVars
    <2>4. CASE CloseWorkerFails
        BY <1>1, <1>2, <2>4 DEF WorkerInv, CloseWorkerFails, processVars
    <2>5. CASE CloseQueue
        BY <1>1, <1>2, <2>5 DEF WorkerInv, CloseQueue
    <2> QED BY <2>1, <2>2, <2>3, <2>4, <2>5
<1> QED BY <1>5, <1>6

(***************************************************************************)
(* A launch's own steps.  The process is where it was, and the worker is   *)
(* busy while it works on the one message it has.                          *)
(***************************************************************************)
LEMMA ProcessStays ==
    ASSUME AppInv, UNCHANGED <<processVars, order>>
    PROVE  HooksInv' /\ RegistryInv' /\ DeployedIds' = DeployedIds
<1>1. DeployedIds' = DeployedIds /\ DuplicateSchedule' = DuplicateSchedule
    BY DeploymentStays DEF processVars
<1> QED BY <1>1 DEF AppInv, HooksInv, RegistryInv, processVars

\* A launch gets its row, or is refused; it has no message yet.
LEMMA LaunchInv ==
    ASSUME AppInv, NEW l \in Launches, NEW id, Launch(l, id), UNCHANGED order
    PROVE  AppInv'
<1> USE DEF AppInv
<1>1. /\ UNCHANGED <<processVars, worker, closeError, stray, message, thrown>> /\ Quiet' = Quiet
      /\ caller[l] = None
    BY DEF Launch, transportVars, Quiet
<1>2. /\ DOMAIN caller' = Launches /\ DOMAIN row' = Launches
      /\ caller'[l] \in {"created", "error"}
      /\ \A k \in Launches \ {l} : caller'[k] = caller[k] /\ row'[k] = row[k]
    BY DEF Launch, AppTyped
<1>3. AppTyped' /\ HooksInv' /\ RegistryInv'
    BY <1>1, <1>2, ProcessStays DEF AppTyped, processVars
<1>4. WorkerInv'
    BY <1>1 DEF WorkerInv, processVars
<1>5. AcceptedIsKept'
    BY <1>1, <1>2 DEF AcceptedIsKept
<1> QED BY <1>3, <1>4, <1>5

\* The queue takes the message of a caller that waits, or the caller gets an error.
LEMMA EnqueueInv ==
    ASSUME AppInv, NEW l \in Launches, Enqueue(l), UNCHANGED order
    PROVE  AppInv'
<1> USE DEF AppInv
<1>1. /\ UNCHANGED <<processVars, worker, closeError, stray, row, thrown>>
      /\ caller[l] = "created"
    BY DEF Enqueue, transportVars
<1>2. /\ DOMAIN caller' = Launches
      /\ \A k \in Launches \ {l} : caller'[k] = caller[k]
      /\ \/ caller'[l] = "enqueued" /\ message' = [message EXCEPT ![l].at = "waiting"]
         \/ caller'[l] = "error" /\ message' = message
    BY DEF Enqueue, AppTyped
<1>3. /\ message' \in [Launches -> MessageType]
      /\ \A k \in Launches : message'[k] = message[k]
                             \/ (k = l /\ message'[k].at = "waiting" /\ caller'[k] = "enqueued")
    <2>1. CASE message' = message
        BY <2>1 DEF AppTyped
    <2>2. CASE message' = [message EXCEPT ![l].at = "waiting"] /\ caller'[l] = "enqueued"
        <3>1. message \in [Launches -> MessageType]
            BY DEF AppTyped
        <3>2. message' \in [Launches -> MessageType]
            BY <2>2, <3>1 DEF MessageType
        <3> QED BY <2>2, <3>1, <3>2
    <2> QED BY <1>2, <2>1, <2>2
<1>4. Quiet => Quiet'
    BY <1>3 DEF Quiet
<1>5. AppTyped' /\ HooksInv' /\ RegistryInv'
    BY <1>1, <1>2, <1>3, ProcessStays DEF AppTyped, processVars
<1>6. WorkerInv'
    BY <1>1, <1>3, <1>4 DEF WorkerInv, processVars
<1>7. AcceptedIsKept'
    <2> SUFFICES ASSUME NEW k \in Launches
                 PROVE  /\ caller'[k] = "enqueued" /\ row[k] # "ended" =>
                               message'[k].at \in {"waiting", "active", "dead"}
                        /\ message'[k].at = "dead" => message'[k].stalls > MaxStalled \/ thrown[k] # {}
                        /\ order = CoreFirst => thrown[k] \subseteq {"unknown", "execute"}
        BY <1>1 DEF AcceptedIsKept
    <2>1. CASE message'[k].at = "waiting"
        BY <2>1 DEF AcceptedIsKept
    <2>2. CASE message'[k] = message[k] /\ (caller'[k] = "enqueued" => caller[k] = "enqueued")
        <3>1. /\ caller[k] = "enqueued" /\ row[k] # "ended" => message[k].at \in {"waiting", "active", "dead"}
              /\ message[k].at = "dead" => message[k].stalls > MaxStalled \/ thrown[k] # {}
              /\ order = CoreFirst => thrown[k] \subseteq {"unknown", "execute"}
            BY DEF AcceptedIsKept
        <3> QED BY <2>2, <3>1
    <2>3. CASE k = l /\ caller'[k] = "enqueued"
        <3>1. message' = [message EXCEPT ![l].at = "waiting"] /\ message \in [Launches -> MessageType]
            BY <1>2, <2>3 DEF AppTyped
        <3>2. message'[l].at = "waiting"
            BY <3>1 DEF MessageType
        <3> QED BY <2>1, <2>3, <3>2
    <2> QED BY <1>2, <1>3, <2>1, <2>2, <2>3
<1> QED BY <1>5, <1>6, <1>7

\* An idle worker works on nothing, so the message it takes is its only one.
LEMMA DeliverInv ==
    ASSUME AppInv, NEW l \in Launches, Deliver(l), UNCHANGED order
    PROVE  AppInv'
<1> USE DEF AppInv
<1>1. /\ UNCHANGED <<processVars, closeError, stray, caller, row, thrown>>
      /\ worker = "idle" /\ worker' = "busy" /\ message[l].at = "waiting"
      /\ message' = [message EXCEPT ![l].at = "active"]
    BY DEF Deliver, Takes
<1>2. message \in [Launches -> MessageType]
    BY DEF AppTyped
<1>3. /\ message' \in [Launches -> MessageType] /\ message'[l].at = "active"
      /\ \A k \in Launches \ {l} : message'[k] = message[k]
    BY <1>1, <1>2 DEF MessageType
<1>4. Quiet /\ ~closeError
    BY <1>1 DEF WorkerInv, None
<1>5. AppTyped' /\ HooksInv' /\ RegistryInv'
    BY <1>1, <1>3, ProcessStays DEF AppTyped, processVars
<1>6. WorkerInv'
    BY <1>1, <1>3, <1>4 DEF WorkerInv, processVars, Quiet, None
<1>7. AcceptedIsKept'
    BY <1>1, <1>3 DEF AcceptedIsKept
<1> QED BY <1>5, <1>6, <1>7

\* The handler is over: the worker rests, and works on nothing else.
LEMMA HandlerEnds ==
    ASSUME AppInv, NEW l \in Launches, message[l].at = "active", UNCHANGED <<processVars, closeError, stray>>,
           worker' = Resting, message' \in [Launches -> MessageType], message'[l].at # "active",
           \A k \in Launches \ {l} : message'[k] = message[k],
           UNCHANGED order
    PROVE  WorkerInv'
<1>1. Quiet' /\ ~Quiet
    BY DEF AppInv, WorkerInv, Quiet
<1>2. worker = None => worker' = None
    BY DEF Resting, None
<1> QED BY <1>1, <1>2 DEF AppInv, WorkerInv, processVars, Quiet

\* A handler that finds its job ends the row before the message is done.
LEMMA HandleInv ==
    ASSUME AppInv, NEW l \in Launches, Handle(l), UNCHANGED order
    PROVE  AppInv'
<1> USE DEF AppInv
<1>1. /\ UNCHANGED <<processVars, closeError, stray, caller, thrown>>
      /\ message[l].at = "active" /\ worker' = Resting
      /\ row' = [row EXCEPT ![l] = "ended"]
      /\ message' = [message EXCEPT ![l].at = "done"]
    BY DEF Handle
<1>2. message \in [Launches -> MessageType]
    BY DEF AppTyped
<1>3. /\ message' \in [Launches -> MessageType] /\ message'[l].at = "done"
      /\ \A k \in Launches \ {l} : message'[k] = message[k]
    BY <1>1, <1>2 DEF MessageType
<1>4. DOMAIN row' = Launches /\ row'[l] = "ended" /\ \A k \in Launches \ {l} : row'[k] = row[k]
    BY <1>1 DEF AppTyped
<1>5. AppTyped' /\ HooksInv' /\ RegistryInv'
    BY <1>1, <1>3, <1>4, ProcessStays DEF AppTyped, processVars
<1>6. WorkerInv'
    BY <1>1, <1>3, HandlerEnds
<1>7. AcceptedIsKept'
    BY <1>1, <1>3, <1>4 DEF AcceptedIsKept
<1> QED BY <1>5, <1>6, <1>7

\* A message whose handler threw goes back, or has used up its attempts.
LEMMA ThrownMessage ==
    ASSUME NEW m \in MessageType
    PROVE  Thrown(m) \in MessageType /\ Thrown(m).at \in {"waiting", "dead"}
<1>1. m.tries \in Nat
    BY DEF MessageType
<1>2. CASE Kafka
    BY <1>2 DEF Thrown, MessageType
<1>3. CASE ~Kafka
    <2> DEFINE n == m.tries + 1
               end == IF n < Attempts THEN "waiting" ELSE "dead"
    <2>1. n \in Nat /\ end \in {"waiting", "dead"}
        BY <1>1
    <2>2. Thrown(m) = [m EXCEPT !.tries = n, !.at = end]
        BY <1>3 DEF Thrown
    <2> HIDE DEF n, end
    <2>3. Thrown(m).at = end
        BY <2>2 DEF MessageType
    <2>4. Thrown(m) \in MessageType
        BY <2>1, <2>2 DEF MessageType
    <2> QED BY <2>1, <2>3, <2>4
<1> QED BY <1>2, <1>3

\* A job that is not found is, in the core-first order, one that is not deployed.
LEMMA HandleThrowsInv ==
    ASSUME AppInv, NEW l \in Launches, HandleThrows(l), UNCHANGED order
    PROVE  AppInv'
<1> USE DEF AppInv
<1>1. /\ UNCHANGED <<processVars, closeError, stray, caller>>
      /\ message[l].at = "active" /\ worker' = Resting
      /\ \E left : row' = [row EXCEPT ![l] = left]
      /\ thrown' = [thrown EXCEPT ![l] = @ \cup {Reason(l)}]
      /\ message' = [message EXCEPT ![l] = Thrown(message[l])]
    BY DEF HandleThrows
<1>2. message \in [Launches -> MessageType] /\ message[l] \in MessageType
    BY DEF AppTyped
<1>3. Thrown(message[l]) \in MessageType /\ Thrown(message[l]).at \in {"waiting", "dead"}
    BY <1>2, ThrownMessage
<1>4. /\ message' \in [Launches -> MessageType] /\ message'[l].at \in {"waiting", "dead"}
      /\ \A k \in Launches \ {l} : message'[k] = message[k]
    BY <1>1, <1>2, <1>3
<1>5. /\ DOMAIN thrown' = Launches /\ DOMAIN row' = Launches
      /\ \A k \in Launches \ {l} : thrown'[k] = thrown[k] /\ row'[k] = row[k]
      /\ thrown'[l] = thrown[l] \cup {Reason(l)}
    BY <1>1 DEF AppTyped
<1>6. order = CoreFirst => Reason(l) \in {"unknown", "execute"}
    <2>1. ~Quiet
        BY <1>1 DEF Quiet
    <2> QED BY <2>1, WorksWhenFilled DEF Reason, Known
<1>7. AppTyped' /\ HooksInv' /\ RegistryInv'
    BY <1>1, <1>4, <1>5, ProcessStays DEF AppTyped, processVars
<1>8. WorkerInv'
    BY <1>1, <1>4, HandlerEnds
<1>9. AcceptedIsKept'
    <2>1. \A k \in Launches : caller'[k] = caller[k]
        BY <1>1
    <2>2. \A k \in Launches \ {l} :
              /\ caller[k] = "enqueued" /\ row'[k] # "ended" => message'[k].at \in {"waiting", "active", "dead"}
              /\ message'[k].at = "dead" => message'[k].stalls > MaxStalled \/ thrown'[k] # {}
              /\ order = CoreFirst => thrown'[k] \subseteq {"unknown", "execute"}
        BY <1>4, <1>5 DEF AcceptedIsKept
    <2>3. /\ thrown'[l] # {}
          /\ order = CoreFirst => thrown'[l] \subseteq {"unknown", "execute"}
        BY <1>5, <1>6 DEF AcceptedIsKept
    <2> QED BY <1>4, <2>1, <2>2, <2>3 DEF AcceptedIsKept
<1> QED BY <1>7, <1>8, <1>9

-----------------------------------------------------------------------------
\* Every step of the process, of the worker and of a launch.
LEMMA AppNextInv == AppInv /\ [Live]_vars => AppInv'
<1> SUFFICES ASSUME AppInv, [Live]_vars PROVE AppInv'
    OBVIOUS
<1>1. CASE ProcessEnds /\ UNCHANGED order
    BY <1>1, ProcessEndsInv
<1>2. CASE Live /\ ~ProcessEnds
    <2> USE DEF Live
    <2>1. ASSUME NEW d \in Deployments, Start(d) PROVE AppInv'
        BY <1>2, <2>1, BootInv DEF Start, transportVars
    <2>2. CASE OnModuleInit
        BY <1>2, <2>2, BootInv DEF OnModuleInit, transportVars
    <2>3. CASE BootstrapCore
        BY <1>2, <2>3, BootInv DEF BootstrapCore, transportVars
    <2>4. CASE BootstrapTransport
        BY <1>2, <2>4, BootInv DEF BootstrapTransport
    <2>5. CASE ConsumerRuns \/ OnApplicationShutdown \/ CloseWorker \/ CloseWorkerFails \/ CloseQueue
        <3>1. UNCHANGED workVars
            BY <2>5 DEF ConsumerRuns, OnApplicationShutdown, CloseWorker, CloseWorkerFails, CloseQueue
        <3> QED BY <1>2, <2>5, <3>1, WorkerStepInv
    <2>6. ASSUME NEW l \in Launches, Enqueue(l) \/ Deliver(l) \/ Handle(l) \/ HandleThrows(l)
          PROVE  AppInv'
        BY <1>2, <2>6, EnqueueInv, DeliverInv, HandleInv, HandleThrowsInv
    <2>7. ASSUME NEW l \in Launches, NEW id \in JobIds, Launch(l, id) PROVE AppInv'
        BY <1>2, <2>7, LaunchInv
    <2>8. ~Exit /\ ~Crash /\ ~ConsumerRejects
        BY <1>2 DEF Exit, Crash, ConsumerRejects
    <2> QED BY <1>2, <2>1, <2>2, <2>3, <2>4, <2>5, <2>6, <2>7, <2>8 DEF Next, Lifecycle, Work, Closing
<1>3. CASE UNCHANGED vars
    <2>1. UNCHANGED <<processVars, worker, closeError, stray, workVars, order>>
        BY <1>3 DEF vars, transportVars
    <2>2. AppTyped' /\ HooksInv' /\ RegistryInv'
        BY <2>1, ProcessStays DEF AppInv, AppTyped, processVars, workVars
    <2>3. WorkerInv' /\ AcceptedIsKept'
        BY <2>1 DEF AppInv, WorkerInv, AcceptedIsKept, Quiet, processVars, workVars
    <2> QED BY <2>2, <2>3 DEF AppInv
<1> QED BY <1>1, <1>2, <1>3 DEF Live

\* The invariant of every application, through all its boots.
THEOREM AppInductiveInvariant == Spec => []AppInv
<1>1. Init => AppInv
    <2> SUFFICES ASSUME Init PROVE AppInv
        OBVIOUS
    <2>1. \A l \in Launches : message[l].at = None /\ caller[l] = None
        BY DEF Init
    <2>2. AppTyped /\ HooksInv /\ RegistryInv
        BY DEF Init, AppTyped, HooksInv, RegistryInv, MessageType
    <2>3. WorkerInv /\ AcceptedIsKept
        BY <2>1 DEF Init, WorkerInv, AcceptedIsKept, Quiet, None
    <2> QED BY <2>2, <2>3 DEF AppInv
<1> QED BY <1>1, AppNextInv, PTL DEF Spec

(***************************************************************************)
(* BatchBootstrapper registers all jobs or keeps the application down: no  *)
(* application is up with a job or a schedule's job missing, and what      *)
(* forRoot and a plain forRootAsync wire is the transport they name.       *)
(***************************************************************************)
THEOREM UpApplicationsAreComplete == Spec => []UpIsComplete
<1>1. AppInv => UpIsComplete
    <2>1. AppInv /\ phase = "up" =>
              /\ registry = DeployedIds /\ \A s \in schedules : s.jobId \in registry
              /\ ~DuplicateSchedule
        BY DEF AppInv, RegistryInv
    <2>2. Config.mode = "forRoot" \/ Config.inject = "useValue" => Wired(Config) = ModuleOptions(Config)
        BY DEF Wired, ModuleOptions, UseFactory, ResolveInjectValues
    <2> QED BY <2>1, <2>2 DEF UpIsComplete
<1> QED BY <1>1, AppInductiveInvariant, PTL

(***************************************************************************)
(* A launch that the queue accepted does not vanish over crashes, stalls,  *)
(* throwing handlers, redeployments and shutdowns, and with the core hook  *)
(* first no handler misses a deployed job: dead letters come from stalls,  *)
(* jobs that a deployment lacks, and execute itself.                       *)
(***************************************************************************)
THEOREM AcceptedLaunchesAreKept == Spec => []AcceptedIsKept
BY AppInductiveInvariant, PTL DEF AppInv

(***************************************************************************)
(* close() drains the worker before it lets go of the producer, unless it  *)
(* fails to, or the worker is a consumer that was still starting.          *)
(***************************************************************************)
THEOREM ClosedApplicationsAreQuiet == Spec => []ClosedIsQuiet
<1>1. AppInv => ClosedIsQuiet
    BY DEF AppInv, WorkerInv, ClosedIsQuiet, Quiet, None
<1> QED BY <1>1, AppInductiveInvariant, PTL
=============================================================================
