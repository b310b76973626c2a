----------------------------- MODULE MCApplication -----------------------------
(***************************************************************************)
(* Deployments for TLC: two jobs that are fine together, and each way in   *)
(* which a deployment may differ from that: a job that is gone, declared   *)
(* twice, scheduled twice (in one class or in two) or does not compile; no *)
(* worker; and configurations whose factory may not see its dependency.    *)
(***************************************************************************)
EXTENDS Application

Plain == [step |-> None, tasklet |-> FALSE, item |-> None, partitions |-> 1,
          schedule |-> None, goesTo |-> None]
Task(id) == [Plain EXCEPT !.step = id, !.tasklet = TRUE]
Item(kind) == [Plain EXCEPT !.item = kind]
Chunk(id, n) == [Plain EXCEPT !.step = id, !.partitions = n]

\* A scheduled tasklet, and a job of a chunk step and a tasklet.
A == [id |-> "a", methods |-> <<[Task("s") EXCEPT !.schedule = "nightly"]>>]
B == [id |-> "b",
      methods |-> <<Item("reader"), Chunk("load", 2), Item("writer"), Task("report"),
                    [Plain EXCEPT !.goesTo = "report"]>>]
TwiceA == [id |-> "a",
           methods |-> <<[Task("s") EXCEPT !.schedule = "nightly"], [Plain EXCEPT !.schedule = "nightly"]>>]
UnscheduledA == [id |-> "a", methods |-> <<Task("s")>>]
NoWriter == [id |-> "b", methods |-> <<Item("reader"), Chunk("load", 2)>>]
NoPartitions == [id |-> "b", methods |-> <<Item("reader"), Chunk("load", 0), Item("writer")>>]
Unlinked == [id |-> "b", methods |-> <<Task("s1"), Task("s2")>>]

Root(transport) ==
    [mode |-> "forRoot", transport |-> transport, inject |-> "useValue", fallback |-> None]
Async(transport, inject, fallback) ==
    [mode |-> "forRootAsync", transport |-> transport, inject |-> inject, fallback |-> fallback]

Deploy(classes, config) == [classes |-> classes, config |-> config, worker |-> TRUE]

SomeDeployments ==
    {Deploy(<<A, B>>, Root(t)) : t \in {"bullmq", "kafka"}}
    \cup {Deploy(<<A>>, Root("bullmq")), Deploy(<<A>>, Async("kafka", "useValue", "bullmq"))}
    \cup {Deploy(<<A, c>>, Root("bullmq")) : c \in {A, UnscheduledA, NoWriter, NoPartitions, Unlinked}}
    \cup {Deploy(<<TwiceA>>, Root("bullmq"))}
    \cup {Deploy(<<A, B>>, Async("kafka", "useClass", f)) : f \in {None, "bullmq"}}
    \cup {[Deploy(<<A, B>>, Root("bullmq")) EXCEPT !.worker = FALSE]}
=============================================================================
