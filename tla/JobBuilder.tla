------------------------------ MODULE JobBuilder ------------------------------
(***************************************************************************)
(* How the definition that JobFlow runs comes to be: a chain of calls on   *)
(* JobBuilder that ends in build(), compiled by compileFromBuilderConfig;  *)
(* or a decorated class, compiled by compileFromDiscovered.  A call that   *)
(* throws ends the declaration: the application does not start.            *)
(***************************************************************************)
EXTENDS JobFlow

CONSTANTS
    FlowTransitions, \* transitions of reusable flows
    MaxFlow,         \* bound: transitions of a reusable flow
    Declared,        \* onStatus strings of @OnTransition
    MaxCalls         \* bound: calls on the builder before build()

Unsaid == "unsaid"

ASSUME BuilderAssumption == MaxFlow \in Nat /\ Unsaid \notin Patterns

VARIABLES
    pending,         \* currentTransition: null, or the parts said so far
    built,           \* the builder's transitions
    deciders,        \* the builder's deciders, by the step they follow
    calls            \* the calls made so far

builderVars == <<pending, built, deciders, calls>>

Null == [set |-> FALSE]
Call(op, arg) == [op |-> op, arg |-> arg]

\* Bound: a flow of n transitions counts as n + 2 calls.
Weight(c) == IF c.op = "useFlow" THEN BagCardinality(c.arg.transitions) + 2 ELSE 1
Spent ==
    LET sum[k \in 0..Len(calls)] == IF k = 0 THEN 0 ELSE sum[k - 1] + Weight(calls[k])
    IN  sum[Len(calls)]
Calls(c) == Spent + Weight(c) <= MaxCalls /\ calls' = Append(calls, c)

\* An array of transitions, up to its order.
BagOf(ts) == [t \in Range(ts) |-> Cardinality({i \in DOMAIN ts : ts[i] = t})]

BuilderInit ==
    /\ FlowInit
    /\ pending = Null /\ built = EmptyBag /\ deciders = <<>> /\ calls = <<>>

Throws ==
    /\ outcome' = "refused"
    /\ UNCHANGED <<job, current, trail>>

-----------------------------------------------------------------------------
\* commitTransition, with toStepId said: kept if from and on were said too.
Commit(to) ==
    /\ built' = IF pending.on = Unsaid THEN built
                ELSE built (+) SetToBag({[from |-> pending.from, on |-> pending.on, to |-> to]})
    /\ pending' = Null

\* Faulty variant: only the source of the pending transition is replaced.
FromCarriesOn(s) ==
    /\ outcome = "declared" /\ Calls(Call("from", s))
    /\ pending' = [set |-> TRUE, from |-> s, on |-> IF pending.set THEN pending.on ELSE Unsaid]
    /\ UNCHANGED <<built, deciders, flowVars>>

\* A pending transition never has its target: to() and end() commit it.
From(s) ==
    /\ outcome = "declared" /\ Calls(Call("from", s))
    /\ pending' = [set |-> TRUE, from |-> s, on |-> Unsaid]
    /\ UNCHANGED <<built, deciders, flowVars>>

On(p) ==
    /\ outcome = "declared" /\ Calls(Call("on", p))
    /\ \/ pending.set /\ pending' = [pending EXCEPT !.on = p] /\ UNCHANGED flowVars
       \/ ~pending.set /\ Throws /\ UNCHANGED pending
    /\ UNCHANGED <<built, deciders>>

\* to(stepId), and end(), whose target is null.
To(s) ==
    /\ outcome = "declared" /\ Calls(Call("to", s))
    /\ \/ pending.set /\ Commit(s) /\ UNCHANGED flowVars
       \/ ~pending.set /\ Throws /\ UNCHANGED <<pending, built>>
    /\ UNCHANGED deciders

AddDecider(s) ==
    /\ outcome = "declared" /\ Calls(Call("addDecider", s))
    /\ deciders' = Append(deciders, s)
    /\ UNCHANGED <<pending, built, flowVars>>

\* A reusable flow brings complete transitions: FlowBuilder throws on others.
UseFlow(ts, after) ==
    /\ outcome = "declared"
    /\ Calls(Call("useFlow", [transitions |-> BagOf(ts), deciders |-> after]))
    /\ built' = built (+) BagOf(ts)
    /\ deciders' = deciders \o after
    /\ UNCHANGED <<pending, flowVars>>

\* build() drops what is pending; the compiler validates what was built.
Build ==
    LET config == [transitions |-> built, deciders |-> deciders] IN
    /\ Register(config) \/ Refuse(config)
    /\ pending' = Null /\ built' = EmptyBag /\ deciders' = <<>> /\ calls' = <<>>

-----------------------------------------------------------------------------
\* A status that FlowExecutionStatus does not name becomes UNKNOWN.
FlowStatus(status) == IF status \in {"COMPLETED", "FAILED", "UNKNOWN"} THEN status ELSE "UNKNOWN"

\* compileFromDiscovered: @OnTransition methods in order; never a decider.
CompileFromDiscovered(ts) ==
    LET compiled == [i \in DOMAIN ts |-> [ts[i] EXCEPT !.on = FlowStatus(ts[i].on)]]
        config == [transitions |-> BagOf(compiled), deciders |-> <<>>]
    IN  /\ calls = <<>>
        /\ Register(config) \/ Refuse(config)
        /\ UNCHANGED builderVars

Declaration ==
    \/ \E s \in Steps : From(s) \/ AddDecider(s)
    \/ \E p \in Patterns : On(p)
    \/ \E s \in 0..End : To(s)
    \/ \E n \in 1..MaxFlow :
            /\ Spent + n + 2 <= MaxCalls
            /\ \E ts \in [1..n -> FlowTransitions], after \in {<<>>, <<StartStep>>} : UseFlow(ts, after)
    \/ Build
    \/ \E n \in 0..2 : \E ts \in [1..n -> [from : Steps, on : Declared, to : Steps \cup {End}]] :
            CompileFromDiscovered(ts)

BuilderNext ==
    \/ outcome = "declared" /\ Declaration
    \/ RunJob /\ UNCHANGED builderVars

BuilderSpec == BuilderInit /\ [][BuilderNext]_<<flowVars, builderVars>>

-----------------------------------------------------------------------------
\* Nothing between the two calls speaks of another transition.
Together(cs, m, k) == m < k /\ \A i \in (m + 1)..(k - 1) : cs[i].op \notin {"from", "to"}

\* The sentence from(a).on(p).to(b) that call k ends, if it ends one.
SentenceAt(cs, k) ==
    {[from |-> cs[q[1]].arg, on |-> cs[q[2]].arg, to |-> cs[k].arg] :
        q \in {p \in (1..k) \X (1..k) :
            /\ cs[k].op = "to" /\ cs[p[1]].op = "from" /\ cs[p[2]].op = "on"
            /\ p[1] < p[2] /\ Together(cs, p[1], k)
            /\ \A i \in (p[2] + 1)..k : cs[i].op # "on"}}

\* The transitions that call k says: a sentence's end, or a flow.
SaidAt(cs, k) == IF cs[k].op = "useFlow" THEN cs[k].arg.transitions ELSE SetToBag(SentenceAt(cs, k))
\* All that the calls say.
SaidBy(cs) ==
    LET upTo[k \in 0..Len(cs)] == IF k = 0 THEN EmptyBag ELSE upTo[k - 1] (+) SaidAt(cs, k)
    IN  upTo[Len(cs)]

(***************************************************************************)
(* The builder's transitions are the sentences its caller said, each as    *)
(* often as it was said, with the on() said last: an abandoned sentence,   *)
(* a decider or a flow in the middle of one, never leaves a part of itself *)
(* in another transition.                                                  *)
(***************************************************************************)
BuiltAsSaid == outcome = "declared" => built = SaidBy(calls)
=============================================================================
