----------------------------- MODULE FanOut_proofs -----------------------------
(***************************************************************************)
(* Proofs about a partitioned step on a queue, for any partitions.count,   *)
(* any size of the input, any number of deliveries, and any interleaving   *)
(* of handlers that fail, die and restart each other: no record is written *)
(* more often than the message of its slice is delivered, and a record     *)
(* that nobody wrote is never silent. The last part is about the command   *)
(* line a task is started with.                                            *)
(*                                                                         *)
(* Neither is inductive.  What a delivery has written ends where its       *)
(* handler's position is, and what it may still write begins there: FanInv *)
(* says both of every handler, that no two handlers share a step row, and  *)
(* that a message in a handler's hands is one of the launch.               *)
(***************************************************************************)
EXTENDS FanOut, SequenceTheorems, WellFoundedInduction, TLAPS

(***************************************************************************)
(* A partitioned step's reader knows its slice.  The runtimes hand it none *)
(* (see the run fanout_bullmq), so this is up to the application.          *)
(***************************************************************************)
KnownSlices ==
    \/ Reader = "aware"
    \/ \A c \in Counts : c < 2
    \/ Transports \subseteq TaskProviders

(***************************************************************************)
(* Every record is read by some partition: the slices are known, or every  *)
(* handler reads the whole input, which only Kafka's executor cuts short.  *)
(***************************************************************************)
EveryRecordRead == KnownSlices \/ "kafka" \notin Transports

\* The records of message m.
Own(m) == {r \in 0 .. total - 1 : Slice(m)[1] <= r /\ r < Slice(m)[2]}

FanTyped ==
    /\ transport \in Transports /\ count \in Counts /\ total \in Totals
    /\ launch \in [sent : Nat, end : {"none", "returned", "thrown"}]
    /\ msg \in [Messages -> [state : {"unsent", "queued", "running", "acked", "dead"},
                             deliveries : Nat]]
    /\ row \in {"STARTING", "STARTED"} \cup Terminal
    /\ handler \in [Messages -> [at : {"none", "read", "started", "chunks"} \cup Terminal,
                                 entry : {"STARTING", "STARTED"} \cup Terminal,
                                 step : Nat, pos : Nat]]
    /\ steps \in Seq([status : {"STARTING"} \cup Terminal, chunks : Nat])
    /\ written \in [0 .. total - 1 -> Nat]

\* A handler works on a message that was delivered, and only what was launched
\* is sent.
HandsInv ==
    \A m \in Messages :
        /\ handler[m].at # "none" => msg[m].state = "running"
        /\ msg[m].state = "running" => msg[m].deliveries # 0
        /\ msg[m].state # "unsent" => m \in Ordinals

\* The launch sends its messages in order, and returns after the last.
SentInv ==
    /\ launch.end = "none" /\ transport \in TaskProviders => launch.sent = 0
    /\ launch.end = "none" =>
           \A m \in Messages : msg[m].state = "unsent" <=> launch.sent <= m
    /\ launch.end = "returned" => \A m \in Ordinals : msg[m].state # "unsent"

\* A handler's position is within its slice, and at its end once it is complete.
PosInv ==
    \A m \in Messages :
        /\ handler[m].at \in {"chunks"} \cup Terminal => handler[m].pos \in 0..Length(m)
        /\ handler[m].at = "COMPLETED" => handler[m].pos = Length(m)

\* What the handler of message m has not come to yet.
Ahead(m, r) ==
    \/ handler[m].at \in {"read", "started"}
    \/ handler[m].at = "chunks" /\ handler[m].pos <= r - Slice(m)[1]

\* Each delivery writes a record of its slice at most once.
OnceInv ==
    \A m \in Ordinals : \A r \in Own(m) :
        /\ written[r] <= msg[m].deliveries
        /\ Ahead(m, r) => written[r] < msg[m].deliveries

SomeFailed == \E i \in DOMAIN steps : steps[i].status = "FAILED"

\* Every handler has a step row of its own, and a FAILED one stays, which a
\* FAILED job row follows.
StepsInv ==
    /\ row = "FAILED" => SomeFailed
    /\ \A m \in Messages :
        /\ handler[m].at = "chunks" =>
               /\ handler[m].step \in DOMAIN steps
               /\ steps[handler[m].step].status = "STARTING"
               /\ \A q \in Messages \ {m} :
                      handler[q].at = "chunks" => handler[q].step # handler[m].step
        /\ handler[m].at = "FAILED" => SomeFailed

\* The handler of message m is past record r, or the message is done.
Behind(m, r) ==
    \/ handler[m].at \in {"chunks", "COMPLETED"} /\ r - Slice(m)[1] < handler[m].pos
    \/ msg[m].state = "acked"

\* Unless a step failed, which a restart may resume behind, that is written.
WroteInv ==
    ~SomeFailed => \A m \in Ordinals : \A r \in Own(m) : Behind(m, r) => written[r] > 0

FanInv ==
    /\ EveryRecordRead /\ FanTyped /\ HandsInv /\ SentInv /\ PosInv
    /\ KnownSlices => OnceInv
    /\ StepsInv /\ WroteInv

-----------------------------------------------------------------------------
(***************************************************************************)
(* Division by a count that is not known: defaultRange tiles the input,    *)
(* also when the count exceeds the records or does not divide them.        *)
(***************************************************************************)
LEMMA Division ==
    ASSUME NEW a \in Nat, NEW n \in Nat \ {0}
    PROVE  a \div n \in Nat /\ a % n \in 0 .. n - 1 /\ a = n * (a \div n) + (a % n)
OBVIOUS

\* A quotient is within a bound if the dividend is below the next multiple.
LEMMA QuotientBound ==
    ASSUME NEW a \in Nat, NEW n \in Nat \ {0}, NEW r \in Nat
    PROVE  (a \div n <= r) <=> (a < (r + 1) * n)
<1> DEFINE q == a \div n
           k == a % n
<1>1. q \in Nat /\ k \in 0 .. n - 1 /\ a = n * q + k
    BY Division
<1> HIDE DEF q, k
<1>2. (q <= r) <=> (a < (r + 1) * n)
    BY <1>1
<1> QED BY <1>2 DEF q

\* Quotients grow with the dividend.
LEMMA QuotientGrows ==
    ASSUME NEW a \in Nat, NEW b \in Nat, NEW n \in Nat \ {0}, a <= b
    PROVE  a \div n <= b \div n
<1>1. b \div n \in Nat
    BY Division
<1>2. b < ((b \div n) + 1) * n
    BY <1>1, QuotientBound
<1>3. a < ((b \div n) + 1) * n
    BY <1>1, <1>2
<1> QED BY <1>1, <1>3, QuotientBound

\* A slice of defaultRange lies within the input, before the slices after it.
LEMMA RangeBounds ==
    ASSUME NEW n \in Nat \ {0}, NEW all \in Nat, NEW i \in 0 .. n - 1
    PROVE  /\ DefaultRange(i, n, all)[1] \in Nat /\ DefaultRange(i, n, all)[2] \in Nat
           /\ DefaultRange(i, n, all)[1] <= DefaultRange(i, n, all)[2]
           /\ DefaultRange(i, n, all)[2] <= all
           /\ \A j \in 0 .. n - 1 :
                  i < j => DefaultRange(i, n, all)[2] <= DefaultRange(j, n, all)[1]
<1> DEFINE a == i * all
           b == (i + 1) * all
<1>1. a \in Nat /\ b \in Nat /\ a <= b
    OBVIOUS
<1>2. b < (all + 1) * n
    <2>1. b <= n * all
        OBVIOUS
    <2>2. n * all < (all + 1) * n
        OBVIOUS
    <2> QED BY <1>1, <2>1, <2>2
<1>3. ASSUME NEW j \in 0 .. n - 1, i < j PROVE b \div n <= (j * all) \div n
    <2>1. j * all \in Nat /\ b <= j * all
        BY <1>3
    <2> QED BY <1>1, <2>1, QuotientGrows
<1> HIDE DEF a, b
<1>4. a \div n \in Nat /\ b \div n \in Nat /\ a \div n <= b \div n
    BY <1>1, Division, QuotientGrows
<1>5. b \div n <= all
    BY <1>1, <1>2, QuotientBound
<1> QED BY <1>3, <1>4, <1>5 DEF DefaultRange, a, b

\* Every record of the input lies in a slice.
LEMMA RangesCover ==
    ASSUME NEW n \in Nat \ {0}, NEW all \in Nat, NEW r \in 0 .. all - 1
    PROVE  \E i \in 0 .. n - 1 :
               DefaultRange(i, n, all)[1] <= r /\ r < DefaultRange(i, n, all)[2]
<1> DEFINE c == (r + 1) * n
           i == (c - 1) \div all
<1>1. c \in Nat \ {0} /\ all \in Nat \ {0}
    OBVIOUS
<1>2. c <= all * n
    OBVIOUS
<1>3. c - 1 \in Nat /\ c - 1 < ((n - 1) + 1) * all
    BY <1>1, <1>2
<1> HIDE DEF c
<1>4. i \in Nat /\ i <= n - 1
    <2>1. i \in Nat
        BY <1>1, <1>3, Division
    <2>2. n - 1 \in Nat
        OBVIOUS
    <2> QED BY <1>1, <1>3, <2>1, <2>2, QuotientBound
<1>5. i * all < c
    <2>1. c - 1 = all * i + ((c - 1) % all) /\ (c - 1) % all \in 0 .. all - 1
        BY <1>1, <1>3, Division
    <2> QED BY <1>1, <1>4, <2>1
<1>6. c <= (i + 1) * all
    <2>1. c - 1 < (i + 1) * all
        BY <1>1, <1>3, <1>4, QuotientBound
    <2> QED BY <1>1, <1>4, <2>1
<1> HIDE DEF i
<1>7. i * all \in Nat /\ (i + 1) * all \in Nat
    BY <1>4
<1>8. (i * all) \div n <= r
    BY <1>5, <1>7, QuotientBound DEF c
<1>9. ~(((i + 1) * all) \div n <= r)
    <2>1. ~((i + 1) * all < c)
        BY <1>1, <1>6, <1>7
    <2> QED BY <1>7, <2>1, QuotientBound DEF c
<1>10. ((i + 1) * all) \div n \in Nat
    BY <1>7, Division
<1> QED BY <1>4, <1>8, <1>9, <1>10 DEF DefaultRange

\* The lesser of two numbers, as the chunk loop takes it.
LEMMA LesserOfTwo ==
    ASSUME NEW a \in Nat, NEW b \in Nat
    PROVE  Min({a, b}) = IF a <= b THEN a ELSE b
BY DEF Min

\* A message has an id in the launch's space of ids.
LEMMA OrdinalsAreMessages ==
    ASSUME FanTyped
    PROVE  /\ Ordinals \subseteq Messages /\ Messages \subseteq Nat /\ 0 \in Ordinals
           /\ count \in Nat \ {0} /\ total \in Nat
<1>1. PICK top \in Counts : \A d \in Counts : d <= top
    BY FanOutAssumption
<1>2. Max(Counts) \in Counts /\ \A d \in Counts : Max(Counts) >= d
    BY <1>1, FanOutAssumption DEF Max
<1>3. count \in Nat \ {0} /\ total \in Nat /\ Max(Counts) \in Nat /\ count <= Max(Counts)
    BY <1>2, FanOutAssumption DEF FanTyped
<1>4. Messages \subseteq Nat /\ 0 \in Ordinals
    BY <1>3 DEF Ordinals, Messages
<1>5. Ordinals \subseteq Messages
    BY <1>3 DEF Ordinals, Messages
<1> QED BY <1>3, <1>4, <1>5

\* The slice of a message, and how much of it its handler reads.
LEMMA SliceFacts ==
    ASSUME EveryRecordRead, FanTyped, NEW m \in Ordinals
    PROVE  /\ Slice(m)[1] \in Nat /\ Slice(m)[2] \in Nat
           /\ Slice(m)[1] <= Slice(m)[2] /\ Slice(m)[2] <= total
           /\ Length(m) = Slice(m)[2] - Slice(m)[1] /\ Length(m) \in Nat
           /\ ChunkLength(m) \in Nat
           /\ Partitioned /\ KnownSlices => Slice(m) = DefaultRange(m, count, total)
<1>1. count \in Nat \ {0} /\ total \in Nat
    BY OrdinalsAreMessages
<1>2. CASE Partitioned /\ KnownSlices
    <2>1. m \in 0 .. count - 1
        BY <1>2 DEF Ordinals
    <2>2. Reader = "aware"
        BY <1>1, <1>2 DEF KnownSlices, FanTyped, Partitioned, TaskProviders
    <2>3. Slice(m) = DefaultRange(m, count, total)
        BY <1>2, <2>2 DEF Slice
    <2>4. /\ Slice(m)[1] \in Nat /\ Slice(m)[2] \in Nat
          /\ Slice(m)[1] <= Slice(m)[2] /\ Slice(m)[2] <= total
        BY <1>1, <2>1, <2>3, RangeBounds
    <2>5. Cap(m) = Slice(m)[2] - Slice(m)[1] /\ Cap(m) \in Nat
        BY <2>3, <2>4 DEF Cap
    <2>6. Length(m) = Slice(m)[2] - Slice(m)[1]
        <3>1. Min({Cap(m), Cap(m)}) = Cap(m)
            BY <2>5, LesserOfTwo
        <3> QED BY <2>5, <3>1 DEF Length
    <2> QED BY <2>3, <2>4, <2>5, <2>6 DEF ChunkLength
<1>3. CASE ~KnownSlices
    <2>1. Slice(m) = <<0, total>> /\ ~Capped
        BY <1>3 DEF EveryRecordRead, KnownSlices, FanTyped, Slice, Capped
    <2> QED BY <1>1, <1>3, <2>1 DEF Length, ChunkLength
<1>4. CASE ~Partitioned
    BY <1>1, <1>4 DEF Slice, Length, Capped, ChunkLength
<1> QED BY <1>2, <1>3, <1>4

\* Every record belongs to a message of the launch, and to no other if the
\* readers know their slices.
LEMMA OwnersTile ==
    ASSUME EveryRecordRead, FanTyped
    PROVE  /\ \A r \in 0 .. total - 1 : \E m \in Ordinals : r \in Own(m)
           /\ KnownSlices =>
                  \A m, q \in Ordinals : \A r \in Own(m) : r \in Own(q) => m = q
<1>1. count \in Nat \ {0} /\ total \in Nat
    BY OrdinalsAreMessages
<1>2. CASE Partitioned /\ KnownSlices
    <2>1. Ordinals = 0 .. count - 1
        BY <1>2 DEF Ordinals
    <2>2. \A m \in Ordinals : Slice(m) = DefaultRange(m, count, total)
        BY <1>2, SliceFacts
    <2>3. ASSUME NEW r \in 0 .. total - 1 PROVE \E m \in Ordinals : r \in Own(m)
        <3>1. PICK i \in 0 .. count - 1 : /\ DefaultRange(i, count, total)[1] <= r
                                          /\ r < DefaultRange(i, count, total)[2]
            BY <1>1, RangesCover
        <3> QED BY <2>1, <2>2, <3>1 DEF Own
    <2>4. ASSUME NEW m \in Ordinals, NEW q \in Ordinals, NEW r \in Own(m), r \in Own(q), m < q
          PROVE  FALSE
        <3>1. m \in 0 .. count - 1 /\ q \in 0 .. count - 1
            BY <2>1
        <3>2. DefaultRange(m, count, total)[2] <= DefaultRange(q, count, total)[1]
            BY <1>1, <2>4, <3>1, RangeBounds
        <3>3. /\ r < Slice(m)[2] /\ Slice(q)[1] <= r /\ r \in 0 .. total - 1
              /\ Slice(m)[2] \in Nat /\ Slice(q)[1] \in Nat
            BY <2>4, SliceFacts DEF Own
        <3> QED BY <1>1, <2>2, <3>2, <3>3
    <2>5. ASSUME NEW m \in Ordinals, NEW q \in Ordinals, NEW r \in Own(m), r \in Own(q)
          PROVE  m = q
        <3>1. m \in Nat /\ q \in Nat
            BY OrdinalsAreMessages
        <3>2. r \in Own(m) /\ r \in Own(q)
            BY <2>5
        <3> QED BY <2>4, <3>1, <3>2
    <2> QED BY <2>3, <2>5
<1>3. CASE ~KnownSlices
    <2>1. \A m \in Ordinals : Slice(m) = <<0, total>>
        BY <1>3 DEF KnownSlices, Slice
    <2> QED BY <1>1, <1>3, <2>1, OrdinalsAreMessages DEF Own
<1>4. CASE ~Partitioned
    BY <1>1, <1>4 DEF Ordinals, Own, Slice
<1> QED BY <1>2, <1>3, <1>4

\* What depends only on the job and its transport stays.
LEMMA FixedStays ==
    ASSUME UNCHANGED fixed
    PROVE  /\ Ordinals' = Ordinals /\ Partitioned' = Partitioned
           /\ \A m : /\ Slice(m)' = Slice(m) /\ Length(m)' = Length(m)
                     /\ Own(m)' = Own(m)
BY DEF fixed, Ordinals, Partitioned, Slice, Length, Capped, Cap, Own, DefaultRange

MsgType == [state : {"unsent", "queued", "running", "acked", "dead"}, deliveries : Nat]
HandlerType ==
    [at : {"none", "read", "started", "chunks"} \cup Terminal,
     entry : {"STARTING", "STARTED"} \cup Terminal, step : Nat, pos : Nat]
StepType == [status : {"STARTING"} \cup Terminal, chunks : Nat]

\* Sending is over for whoever works on what was sent.
LEMMA SentStays ==
    ASSUME FanInv, UNCHANGED <<fixed, launch>>,
           \A q \in Messages : msg'[q].state = "unsent" <=> msg[q].state = "unsent"
    PROVE  SentInv'
<1>1. Ordinals' = Ordinals /\ Ordinals \subseteq Messages /\ transport' = transport
    BY FixedStays, OrdinalsAreMessages DEF FanInv, fixed
<1> QED BY <1>1 DEF FanInv, SentInv

-----------------------------------------------------------------------------
(***************************************************************************)
(* The launch: a message that nobody has seen is put on the queue, or the  *)
(* launch throws.                                                          *)
(***************************************************************************)
LEMMA LaunchInv ==
    ASSUME FanInv, Send \/ SendFails \/ \E answer \in Answers(transport) : LaunchTask(answer)
    PROVE  FanInv'
<1> USE DEF FanInv
<1>1. /\ UNCHANGED <<fixed, row, handler, steps, written>>
      /\ launch.end = "none"
    BY DEF Send, SendFails, LaunchTask
<1>2. /\ Ordinals' = Ordinals
      /\ \A m : Slice(m)' = Slice(m) /\ Length(m)' = Length(m) /\ Own(m)' = Own(m)
    BY <1>1, FixedStays
<1>3. Ordinals \subseteq Messages /\ Messages \subseteq Nat /\ 0 \in Ordinals /\ count \in Nat \ {0}
    BY OrdinalsAreMessages
<1>4. /\ msg' \in [Messages -> MsgType]
      /\ \A q \in Messages : msg'[q].deliveries = msg[q].deliveries
      /\ \A q \in Messages : msg'[q].state = msg[q].state
                             \/ (q \in Ordinals /\ msg[q].state = "unsent" /\ msg'[q].state = "queued")
    <2>1. CASE Send
        <3>1. launch.sent \in Ordinals /\ launch.sent \in Messages /\ msg[launch.sent].state = "unsent"
            BY <1>1, <1>3, <2>1 DEF Send, SentInv
        <3>2. msg \in [Messages -> MsgType] /\ msg' = [msg EXCEPT ![launch.sent].state = "queued"]
            BY <2>1 DEF FanTyped, MsgType, Send
        <3>3. msg' \in [Messages -> MsgType]
            BY <3>1, <3>2 DEF MsgType
        <3> QED BY <3>1, <3>2, <3>3
    <2>2. CASE SendFails
        BY <2>2 DEF SendFails, FanTyped, MsgType
    <2>3. ASSUME NEW answer \in Answers(transport), LaunchTask(answer)
          PROVE  /\ msg' \in [Messages -> MsgType]
                 /\ \A q \in Messages : msg'[q].deliveries = msg[q].deliveries
                 /\ \A q \in Messages : msg'[q].state = msg[q].state
                        \/ (q \in Ordinals /\ msg[q].state = "unsent" /\ msg'[q].state = "queued")
        <3>1. 0 \in Messages /\ msg[0].state = "unsent"
            BY <1>1, <1>3, <2>3 DEF LaunchTask, SentInv
        <3>2. msg' = msg \/ msg' = [msg EXCEPT ![0].state = "queued"]
            BY <2>3 DEF LaunchTask
        <3>3. CASE msg' = msg
            BY <3>3 DEF FanTyped, MsgType
        <3>4. CASE msg' = [msg EXCEPT ![0].state = "queued"]
            <4>1. msg \in [Messages -> MsgType]
                BY DEF FanTyped, MsgType
            <4>2. msg' \in [Messages -> MsgType]
                BY <3>1, <3>4, <4>1 DEF MsgType
            <4> QED BY <1>3, <3>1, <3>4, <4>1, <4>2
        <3> QED BY <3>2, <3>3, <3>4
    <2> QED BY <2>1, <2>2, <2>3
<1>5. launch' \in [sent : Nat, end : {"none", "returned", "thrown"}]
    BY DEF FanTyped, Send, SendFails, LaunchTask, TaskLaunch, SqsLaunch, KubernetesLaunch,
           AwsBatchLaunch, EcsLaunch, TaskProviders
<1>6. FanTyped'
    BY <1>1, <1>4, <1>5 DEF FanTyped, fixed, MsgType
<1>7. HandsInv'
    BY <1>1, <1>2, <1>4 DEF HandsInv
<1>8. SentInv'
    <2>1. CASE Send
        <3>1. /\ launch.sent \in Ordinals /\ launch.sent \in Messages /\ launch.sent \in Nat
              /\ transport' = transport /\ transport \notin TaskProviders
              /\ launch'.sent = launch.sent + 1
              /\ launch'.end = IF launch.sent + 1 \in Ordinals THEN "none" ELSE "returned"
            BY <1>1, <1>3, <2>1 DEF Send, fixed, FanTyped, TaskProviders
        <3>2. \A q \in Messages : msg'[q].state = "unsent" <=> launch.sent + 1 <= q
            <4> SUFFICES ASSUME NEW q \in Messages
                         PROVE  msg'[q].state = "unsent" <=> launch.sent + 1 <= q
                OBVIOUS
            <4>1. q \in Nat /\ (msg[q].state = "unsent" <=> launch.sent <= q)
                BY <1>1, <1>3 DEF SentInv
            <4>2. CASE q = launch.sent
                <5>1. msg'[q].state = "queued"
                    BY <2>1, <4>2 DEF Send, FanTyped
                <5> QED BY <3>1, <4>2, <5>1
            <4>3. CASE q # launch.sent
                <5>1. msg'[q].state = msg[q].state
                    BY <2>1, <4>3 DEF Send, FanTyped
                <5> QED BY <3>1, <4>1, <4>3, <5>1
            <4> QED BY <4>2, <4>3
        <3>3. launch'.end = "returned" => \A q \in Ordinals : q <= launch.sent
            BY <1>3, <3>1 DEF Ordinals
        <3>4. launch'.end = "returned" => \A q \in Ordinals : msg'[q].state # "unsent"
            BY <1>3, <3>1, <3>2, <3>3
        <3> QED BY <1>2, <3>1, <3>2, <3>4 DEF SentInv
    <2>2. CASE SendFails
        BY <2>2 DEF SendFails, SentInv, FanTyped
    <2>3. ASSUME NEW answer \in Answers(transport), LaunchTask(answer) PROVE SentInv'
        <3>1. Ordinals = {0} /\ transport \in TaskProviders /\ transport' = transport
            BY <1>1, <2>3 DEF LaunchTask, Ordinals, Partitioned, TaskProviders, fixed
        <3>2. launch'.end = TaskLaunch(transport, answer)
            BY <2>3 DEF LaunchTask
        <3>3. answer = "failures" => launch'.end = "thrown"
            BY <3>1, <3>2, <2>3 DEF Answers, TaskLaunch, EcsLaunch, TaskProviders
        <3>4. launch'.end \in {"returned", "thrown"}
            BY <3>1, <3>2 DEF TaskLaunch, SqsLaunch, KubernetesLaunch, AwsBatchLaunch, EcsLaunch,
                              TaskProviders
        <3>5. answer # "failures" => msg'[0].state = "queued"
            BY <1>3, <2>3 DEF LaunchTask, FanTyped
        <3> QED BY <1>2, <3>1, <3>3, <3>4, <3>5 DEF SentInv
    <2> QED BY <2>1, <2>2, <2>3
<1>9. PosInv'
    BY <1>1, <1>2 DEF PosInv
<1>10. KnownSlices => OnceInv'
    BY <1>1, <1>2, <1>3, <1>4 DEF OnceInv, Ahead
<1>11. StepsInv'
    BY <1>1 DEF StepsInv, SomeFailed
<1>12. WroteInv'
    BY <1>1, <1>2, <1>3, <1>4 DEF WroteInv, Behind, SomeFailed
<1> QED BY <1>6, <1>7, <1>8, <1>9, <1>10, <1>11, <1>12 DEF KnownSlices, EveryRecordRead

-----------------------------------------------------------------------------
(***************************************************************************)
(* A handler takes its message, or gives it up: nothing is written, and no *)
(* step row changes.                                                       *)
(***************************************************************************)
\* Only message m and its handler change.
OnlyMessage(m) ==
    \A q \in Messages \ {m} : msg'[q] = msg[q] /\ handler'[q] = handler[q]

\* A new delivery may write every record of the slice once more.
LEMMA DeliverInv == ASSUME FanInv, NEW m \in Messages, Deliver(m) PROVE FanInv'
<1> USE DEF FanInv
<1>1. /\ UNCHANGED <<fixed, row, launch, steps, written>> /\ msg[m].state = "queued"
    BY DEF Deliver
<1>2. /\ Ordinals' = Ordinals
      /\ \A q : Slice(q)' = Slice(q) /\ Length(q)' = Length(q) /\ Own(q)' = Own(q)
    BY <1>1, FixedStays
<1>3. Ordinals \subseteq Messages
    BY OrdinalsAreMessages
<1>4. /\ msg' \in [Messages -> MsgType] /\ OnlyMessage(m)
      /\ msg'[m].state = "running" /\ msg'[m].deliveries = msg[m].deliveries + 1
      /\ msg[m].deliveries \in Nat
    <2>1. msg \in [Messages -> MsgType]
        BY DEF FanTyped, MsgType
    <2> QED BY <2>1 DEF Deliver, MsgType, OnlyMessage, FanTyped
<1>5. handler' \in [Messages -> HandlerType] /\ handler'[m].at = "read"
    <2>1. handler \in [Messages -> HandlerType] /\ row \in {"STARTING", "STARTED"} \cup Terminal
        BY DEF FanTyped, HandlerType
    <2>2. [Asleep EXCEPT !.at = "read", !.entry = row] \in HandlerType
        BY <2>1 DEF Asleep, HandlerType
    <2>3. [Asleep EXCEPT !.at = "read", !.entry = row].at = "read"
        BY DEF Asleep
    <2> QED BY <2>1, <2>2, <2>3 DEF Deliver
<1>6. FanTyped'
    BY <1>1, <1>4, <1>5 DEF FanTyped, fixed, MsgType, HandlerType
<1>7. HandsInv'
    BY <1>1, <1>2, <1>4, <1>5 DEF HandsInv, OnlyMessage
<1>8. SentInv'
    <2>1. \A q \in Messages : msg'[q].state = "unsent" <=> msg[q].state = "unsent"
        BY <1>1, <1>4 DEF OnlyMessage
    <2> QED BY <1>1, <2>1, SentStays
<1>9. PosInv'
    BY <1>2, <1>4, <1>5 DEF PosInv, OnlyMessage, Terminal
<1>10. KnownSlices => OnceInv'
    <2> SUFFICES ASSUME KnownSlices, NEW q \in Ordinals, NEW r \in Own(q)
                 PROVE  /\ written[r] <= msg'[q].deliveries
                        /\ Ahead(q, r)' => written[r] < msg'[q].deliveries
        BY <1>1, <1>2 DEF OnceInv
    <2>1. /\ written[r] <= msg[q].deliveries
          /\ Ahead(q, r) => written[r] < msg[q].deliveries
        BY DEF OnceInv
    <2>2. CASE q = m
        <3>1. written[r] \in Nat
            BY DEF Own, FanTyped
        <3> QED BY <1>4, <2>1, <2>2, <3>1
    <2>3. CASE q # m
        BY <1>2, <1>3, <1>4, <2>1, <2>3 DEF OnlyMessage, Ahead
    <2> QED BY <2>2, <2>3
<1>11. StepsInv'
    BY <1>1, <1>4, <1>5 DEF StepsInv, SomeFailed, OnlyMessage
<1>12. WroteInv'
    <2> SUFFICES ASSUME ~SomeFailed, NEW q \in Ordinals, NEW r \in Own(q), Behind(q, r)'
                 PROVE  written[r] > 0
        BY <1>1, <1>2 DEF WroteInv, SomeFailed
    <2>1. q # m
        BY <1>4, <1>5 DEF Behind
    <2>2. Behind(q, r)
        BY <1>2, <1>3, <1>4, <2>1 DEF Behind, OnlyMessage
    <2> QED BY <2>2 DEF WroteInv
<1> QED BY <1>6, <1>7, <1>8, <1>9, <1>10, <1>11, <1>12 DEF KnownSlices, EveryRecordRead

\* A delivery that ends without an acknowledgement leaves what it wrote.
LEMMA ReturnedInv ==
    ASSUME FanInv, NEW m \in Messages, msg[m].state = "running",
           NEW s \in {"queued", "dead"}, NEW n \in Nat,
           msg' = [msg EXCEPT ![m] = [state |-> s, deliveries |-> n]],
           handler' = [handler EXCEPT ![m] = Asleep],
           n = msg[m].deliveries \/ (handler[m].at = "read" /\ n = msg[m].deliveries - 1),
           UNCHANGED <<fixed, launch, steps, written>>,
           row' \in {"STARTING", "STARTED"} \cup Terminal, row' = "FAILED" => SomeFailed
    PROVE  FanInv'
<1> USE DEF FanInv
<1>2. /\ Ordinals' = Ordinals
      /\ \A q : Slice(q)' = Slice(q) /\ Length(q)' = Length(q) /\ Own(q)' = Own(q)
    BY FixedStays
<1>3. Ordinals \subseteq Messages
    BY OrdinalsAreMessages
<1>4. /\ msg' \in [Messages -> MsgType] /\ OnlyMessage(m)
      /\ msg'[m].state \in {"queued", "dead"} /\ msg'[m].deliveries = n
      /\ msg[m].deliveries \in Nat
    <2>1. msg \in [Messages -> MsgType]
        BY DEF FanTyped, MsgType
    <2>2. msg' \in [Messages -> MsgType]
        BY <2>1 DEF MsgType
    <2> QED BY <2>1, <2>2 DEF OnlyMessage, FanTyped
<1>5. handler' \in [Messages -> HandlerType] /\ handler'[m].at = "none"
    <2>1. Asleep \in HandlerType /\ Asleep.at = "none"
        BY DEF Asleep, HandlerType
    <2> QED BY <2>1 DEF FanTyped, HandlerType
<1>6. FanTyped'
    BY <1>4, <1>5 DEF FanTyped, fixed, MsgType, HandlerType
<1>7. HandsInv'
    BY <1>2, <1>4, <1>5 DEF HandsInv, OnlyMessage
<1>8. SentInv'
    <2>1. \A q \in Messages : msg'[q].state = "unsent" <=> msg[q].state = "unsent"
        BY <1>4 DEF OnlyMessage
    <2> QED BY <2>1, SentStays
<1>9. PosInv'
    BY <1>2, <1>4, <1>5 DEF PosInv, OnlyMessage, Terminal
<1>10. KnownSlices => OnceInv'
    <2> SUFFICES ASSUME KnownSlices, NEW q \in Ordinals, NEW r \in Own(q)
                 PROVE  /\ written[r] <= msg'[q].deliveries
                        /\ Ahead(q, r)' => written[r] < msg'[q].deliveries
        BY <1>2 DEF OnceInv
    <2>1. /\ written[r] <= msg[q].deliveries
          /\ Ahead(q, r) => written[r] < msg[q].deliveries
        BY DEF OnceInv
    <2>2. CASE q = m
        <3>1. written[r] \in Nat
            BY DEF Own, FanTyped
        <3> QED BY <1>4, <1>5, <2>1, <2>2, <3>1 DEF Ahead
    <2>3. CASE q # m
        BY <1>2, <1>3, <1>4, <2>1, <2>3 DEF OnlyMessage, Ahead
    <2> QED BY <2>2, <2>3
<1>11. StepsInv'
    BY <1>4, <1>5 DEF StepsInv, SomeFailed, OnlyMessage
<1>12. WroteInv'
    <2> SUFFICES ASSUME ~SomeFailed, NEW q \in Ordinals, NEW r \in Own(q), Behind(q, r)'
                 PROVE  written[r] > 0
        BY <1>2 DEF WroteInv, SomeFailed
    <2>1. q # m
        BY <1>4, <1>5 DEF Behind
    <2>2. Behind(q, r)
        BY <1>2, <1>3, <1>4, <2>1 DEF Behind, OnlyMessage
    <2> QED BY <2>2 DEF WroteInv
<1> QED BY <1>6, <1>7, <1>8, <1>9, <1>10, <1>11, <1>12 DEF KnownSlices, EveryRecordRead

\* So does one that is requeued, and one that is refused, which did nothing.
LEMMA RequeueInv ==
    ASSUME FanInv, NEW m \in Messages, Requeue(m), msg[m].state = "running",
           UNCHANGED <<fixed, launch, steps, written>>,
           row' \in {"STARTING", "STARTED"} \cup Terminal, row' = "FAILED" => SomeFailed
    PROVE  FanInv'
<1>1. msg \in [Messages -> MsgType]
    BY DEF FanInv, FanTyped, MsgType
<1>2. PICK s \in {"queued", "dead"} : msg' = [msg EXCEPT ![m].state = s]
    BY DEF Requeue
<1>3. msg[m] \in MsgType /\ msg[m].deliveries \in Nat
    BY <1>1 DEF MsgType
<1>4. [msg[m] EXCEPT !.state = s] = [state |-> s, deliveries |-> msg[m].deliveries]
    BY <1>3 DEF MsgType
<1>5. msg' = [msg EXCEPT ![m] = [state |-> s, deliveries |-> msg[m].deliveries]]
    BY <1>2, <1>4
<1> QED BY <1>3, <1>5, ReturnedInv DEF Requeue

\* A row that refuses Kafka's message is FAILED before and after.
LEMMA RefuseInv == ASSUME FanInv, NEW m \in Messages, Refuse(m) PROVE FanInv'
<1>1. /\ handler[m].at = "read" /\ msg[m].state = "running"
      /\ UNCHANGED <<fixed, launch, steps, written, row>>
      /\ row' \in {"STARTING", "STARTED"} \cup Terminal
      /\ row' = "FAILED" => SomeFailed
    BY DEF Refuse, FanInv, HandsInv, FanTyped, StepsInv
<1>2. CASE Requeue(m)
    BY <1>1, <1>2, RequeueInv
<1>3. CASE transport = "kafka"
    <2> DEFINE n == msg[m].deliveries - 1
    <2>1. msg \in [Messages -> MsgType] /\ msg[m].deliveries # 0
        BY <1>1 DEF FanInv, FanTyped, HandsInv, MsgType
    <2>2. n \in Nat
        BY <2>1 DEF MsgType
    <2>3. /\ msg' = [msg EXCEPT ![m] = [state |-> "queued", deliveries |-> n]]
          /\ handler' = [handler EXCEPT ![m] = Asleep]
        BY <1>3 DEF Refuse
    <2>4. n = msg[m].deliveries - 1
        OBVIOUS
    <2> HIDE DEF n
    <2> QED BY <1>1, <2>2, <2>3, <2>4, ReturnedInv
<1> QED BY <1>2, <1>3 DEF Refuse

\* execute marks the row STARTED: the handler has everything ahead of it still.
LEMMA EnterInv == ASSUME FanInv, NEW m \in Messages, Enter(m) PROVE FanInv'
<1> USE DEF FanInv
<1>1. /\ UNCHANGED <<fixed, launch, msg, steps, written>> /\ row' = "STARTED"
      /\ handler[m].at = "read" /\ handler' = [handler EXCEPT ![m].at = "started"]
    BY DEF Enter
<1>2. /\ Ordinals' = Ordinals
      /\ \A q : Slice(q)' = Slice(q) /\ Length(q)' = Length(q) /\ Own(q)' = Own(q)
    BY <1>1, FixedStays
<1>3. Ordinals \subseteq Messages
    BY OrdinalsAreMessages
<1>4. handler \in [Messages -> HandlerType]
    BY DEF FanTyped, HandlerType
<1>5. /\ handler' \in [Messages -> HandlerType] /\ handler'[m].at = "started"
      /\ \A q \in Messages \ {m} : handler'[q] = handler[q]
    BY <1>1, <1>4 DEF HandlerType
<1>6. FanTyped'
    BY <1>1, <1>5 DEF FanTyped, fixed, HandlerType
<1>7. HandsInv' /\ SentInv'
    <2>1. HandsInv'
        BY <1>1, <1>2, <1>5 DEF HandsInv
    <2> QED BY <1>1, <2>1, SentStays
<1>8. PosInv'
    BY <1>2, <1>5 DEF PosInv, Terminal
<1>9. KnownSlices => OnceInv'
    <2>1. \A q \in Ordinals : \A r : Ahead(q, r)' => Ahead(q, r)
        BY <1>1, <1>2, <1>3, <1>5 DEF Ahead
    <2> QED BY <1>1, <1>2, <2>1 DEF OnceInv
<1>10. StepsInv'
    BY <1>1, <1>5 DEF StepsInv, SomeFailed
<1>11. WroteInv'
    <2>1. \A q \in Ordinals : \A r : Behind(q, r)' => Behind(q, r)
        BY <1>1, <1>2, <1>3, <1>5 DEF Behind
    <2> QED BY <1>1, <1>2, <2>1 DEF WroteInv, SomeFailed
<1> QED BY <1>6, <1>7, <1>8, <1>9, <1>10, <1>11 DEF KnownSlices, EveryRecordRead

\* The acknowledgement: nothing failed, or a FAILED step row says so.
LEMMA SettleRowInv == ASSUME FanInv, NEW m \in Messages, SettleRow(m) PROVE FanInv'
<1> USE DEF FanInv
<1>1. /\ UNCHANGED <<fixed, launch, steps, written>> /\ row' = handler[m].at
      /\ handler[m].at \in Terminal
      /\ msg' = [msg EXCEPT ![m].state = "acked"] /\ handler' = [handler EXCEPT ![m] = Asleep]
    BY DEF SettleRow
<1>2. /\ Ordinals' = Ordinals
      /\ \A q : Slice(q)' = Slice(q) /\ Length(q)' = Length(q) /\ Own(q)' = Own(q)
    BY <1>1, FixedStays
<1>3. Ordinals \subseteq Messages
    BY OrdinalsAreMessages
<1>4. /\ msg' \in [Messages -> MsgType] /\ OnlyMessage(m)
      /\ msg'[m].state = "acked" /\ msg'[m].deliveries = msg[m].deliveries
    <2>1. msg \in [Messages -> MsgType]
        BY DEF FanTyped, MsgType
    <2>2. msg' \in [Messages -> MsgType]
        BY <1>1, <2>1 DEF MsgType
    <2> QED BY <1>1, <2>1, <2>2 DEF OnlyMessage, FanTyped
<1>5. handler' \in [Messages -> HandlerType] /\ handler'[m].at = "none"
    <2>1. Asleep \in HandlerType /\ Asleep.at = "none"
        BY DEF Asleep, HandlerType
    <2> QED BY <1>1, <2>1 DEF FanTyped, HandlerType
<1>6. msg[m].state = "running"
    BY <1>1 DEF HandsInv, Terminal
<1>7. FanTyped'
    BY <1>1, <1>4, <1>5 DEF FanTyped, fixed, MsgType, HandlerType
<1>8. HandsInv'
    BY <1>2, <1>4, <1>5, <1>6 DEF HandsInv, OnlyMessage
<1>9. SentInv'
    <2>1. \A q \in Messages : msg'[q].state = "unsent" <=> msg[q].state = "unsent"
        BY <1>4, <1>6 DEF OnlyMessage
    <2> QED BY <1>1, <2>1, SentStays
<1>10. PosInv'
    BY <1>2, <1>4, <1>5 DEF PosInv, OnlyMessage, Terminal
<1>11. KnownSlices => OnceInv'
    <2>1. \A q \in Ordinals : /\ msg'[q].deliveries = msg[q].deliveries
                              /\ \A r : Ahead(q, r)' => Ahead(q, r)
        BY <1>2, <1>3, <1>4, <1>5 DEF Ahead, OnlyMessage
    <2> QED BY <1>1, <1>2, <2>1 DEF OnceInv
<1>12. StepsInv'
    BY <1>1, <1>4, <1>5 DEF StepsInv, SomeFailed, OnlyMessage
<1>13. WroteInv'
    <2> SUFFICES ASSUME ~SomeFailed, NEW q \in Ordinals, NEW r \in Own(q), Behind(q, r)'
                 PROVE  Behind(q, r)
        BY <1>1, <1>2 DEF WroteInv, SomeFailed
    <2>1. CASE q = m
        <3>1. handler[m].at = "COMPLETED" /\ handler[m].pos = Length(m)
            BY <1>1 DEF StepsInv, PosInv, Terminal
        <3>2. /\ Length(m) = Slice(m)[2] - Slice(m)[1]
              /\ Slice(m)[1] \in Nat /\ Slice(m)[2] \in Nat /\ r \in Nat /\ r < Slice(m)[2]
            BY <2>1, SliceFacts DEF Own
        <3> QED BY <2>1, <3>1, <3>2 DEF Behind
    <2>2. CASE q # m
        BY <1>2, <1>3, <1>4, <2>2 DEF Behind, OnlyMessage
    <2> QED BY <2>1, <2>2
<1> QED BY <1>7, <1>8, <1>9, <1>10, <1>11, <1>12, <1>13 DEF KnownSlices, EveryRecordRead

-----------------------------------------------------------------------------
(***************************************************************************)
(* A handler opens its step row, runs its chunks and ends the row.  Its    *)
(* message is one of the launch, so its slice is its own.                  *)
(***************************************************************************)
LEMMA StepRows ==
    ASSUME FanInv
    PROVE  /\ Len(steps) \in Nat /\ DOMAIN steps = 1 .. Len(steps)
           /\ \A i \in DOMAIN steps : /\ steps[i] \in StepType
                                      /\ steps[i].status \in {"STARTING"} \cup Terminal
                                      /\ steps[i].chunks \in Nat
<1>1. steps \in Seq(StepType)
    BY DEF FanInv, FanTyped, StepType
<1>2. \A i \in DOMAIN steps : steps[i] \in StepType
    BY <1>1
<1>3. \A e \in StepType : e.status \in {"STARTING"} \cup Terminal /\ e.chunks \in Nat
    BY DEF StepType
<1> QED BY <1>1, <1>2, <1>3

\* The messages that handlers work on are the launch's.
LEMMA HandlersOwn ==
    ASSUME FanInv, NEW m \in Messages, handler[m].at # "none"
    PROVE  m \in Ordinals
BY DEF FanInv, HandsInv

\* A step that finds no FAILED one before it begins at the start of its slice.
LEMMA OpenStepInv == ASSUME FanInv, NEW m \in Messages, OpenStep(m) PROVE FanInv'
<1> DEFINE prior == IF handler[m].entry = "FAILED" /\ steps # <<>> THEN steps[Len(steps)]
                    ELSE [status |-> "none", chunks |-> 0]
           chunks == IF prior.status = "FAILED" THEN prior.chunks ELSE 0
           at == Min({Length(m), chunks * ChunkLength(m)})
           opened == [status |-> "STARTING", chunks |-> chunks]
<1> USE DEF FanInv
<1>1. /\ UNCHANGED <<fixed, row, launch, msg, written>>
      /\ handler[m].at = "started"
      /\ steps' = Append(steps, opened)
      /\ handler' = [handler EXCEPT ![m].at = "chunks", ![m].step = Len(steps) + 1, ![m].pos = at]
    BY DEF OpenStep
<1>2. /\ Ordinals' = Ordinals
      /\ \A q : Slice(q)' = Slice(q) /\ Length(q)' = Length(q) /\ Own(q)' = Own(q)
    BY <1>1, FixedStays
<1>3. Ordinals \subseteq Messages /\ m \in Ordinals
    BY <1>1, OrdinalsAreMessages, HandlersOwn
<1>4. chunks \in Nat /\ (~SomeFailed => chunks = 0)
    <2>1. CASE handler[m].entry = "FAILED" /\ steps # <<>>
        <3>1. Len(steps) \in DOMAIN steps
            BY <2>1, StepRows DEF FanTyped
        <3> QED BY <2>1, <3>1, StepRows DEF SomeFailed
    <2>2. CASE ~(handler[m].entry = "FAILED" /\ steps # <<>>)
        BY <2>2
    <2> QED BY <2>1, <2>2
<1> HIDE DEF chunks, prior
<1>5. at \in Nat /\ at <= Length(m) /\ (~SomeFailed => at = 0)
    <2>1. Length(m) \in Nat /\ ChunkLength(m) \in Nat
        BY <1>3, SliceFacts
    <2>2. chunks * ChunkLength(m) \in Nat /\ (chunks = 0 => chunks * ChunkLength(m) = 0)
        BY <1>4, <2>1
    <2> QED BY <1>4, <2>1, <2>2, LesserOfTwo
<1>6. opened \in StepType /\ opened.status = "STARTING"
    BY <1>4 DEF StepType
<1> HIDE DEF at, opened
<1>7. /\ steps' \in Seq(StepType) /\ DOMAIN steps' = 1 .. Len(steps) + 1
      /\ steps'[Len(steps) + 1].status = "STARTING"
      /\ \A i \in DOMAIN steps : steps'[i] = steps[i]
    BY <1>1, <1>6, StepRows DEF FanTyped, StepType
<1>8. SomeFailed' <=> SomeFailed
    BY <1>7, StepRows DEF SomeFailed
<1>9. handler \in [Messages -> HandlerType]
    BY DEF FanTyped, HandlerType
<1>10. /\ handler' \in [Messages -> HandlerType]
       /\ handler'[m].at = "chunks" /\ handler'[m].step = Len(steps) + 1 /\ handler'[m].pos = at
       /\ \A q \in Messages \ {m} : handler'[q] = handler[q]
    <2> DEFINE n == Len(steps) + 1
    <2>1. n \in Nat
        BY StepRows
    <2> HIDE DEF n
    <2>2. handler' = [handler EXCEPT ![m].at = "chunks", ![m].step = n, ![m].pos = at]
        BY <1>1 DEF n
    <2>3. /\ handler'[m].at = "chunks" /\ handler'[m].step = n /\ handler'[m].pos = at
          /\ \A q \in Messages \ {m} : handler'[q] = handler[q]
        BY <1>9, <2>2 DEF HandlerType
    <2>4. handler' \in [Messages -> HandlerType]
        BY <1>5, <1>9, <2>1, <2>2 DEF HandlerType
    <2> QED BY <2>3, <2>4 DEF n
<1>11. FanTyped'
    BY <1>1, <1>7, <1>10 DEF FanTyped, fixed, HandlerType, StepType
<1>12. HandsInv' /\ SentInv'
    <2>1. HandsInv'
        BY <1>1, <1>2, <1>10 DEF HandsInv
    <2> QED BY <1>1, <2>1, SentStays
<1>13. PosInv'
    <2>1. at \in 0 .. Length(m)
        BY <1>3, <1>5, SliceFacts
    <2> QED BY <1>2, <1>10, <2>1 DEF PosInv, Terminal
<1>14. KnownSlices => OnceInv'
    <2>1. \A q \in Ordinals : \A r : Ahead(q, r)' => Ahead(q, r)
        BY <1>1, <1>2, <1>3, <1>10 DEF Ahead
    <2> QED BY <1>1, <1>2, <2>1 DEF OnceInv
<1>15. StepsInv'
    <2> SUFFICES ASSUME NEW p \in Messages
                 PROVE  /\ handler'[p].at = "chunks" =>
                               /\ handler'[p].step \in DOMAIN steps'
                               /\ steps'[handler'[p].step].status = "STARTING"
                               /\ \A q \in Messages \ {p} :
                                      handler'[q].at = "chunks" => handler'[q].step # handler'[p].step
                        /\ handler'[p].at = "FAILED" => SomeFailed'
        BY <1>1, <1>8 DEF StepsInv
    <2>1. \A q \in Messages : handler[q].at = "chunks" =>
              handler[q].step \in DOMAIN steps /\ handler[q].step # Len(steps) + 1
        BY StepRows DEF StepsInv
    <2>2. CASE p = m
        BY <1>7, <1>10, <2>1, <2>2, StepRows
    <2>3. CASE p # m
        BY <1>7, <1>8, <1>10, <2>1, <2>3, StepRows DEF StepsInv
    <2> QED BY <2>2, <2>3
<1>16. WroteInv'
    <2> SUFFICES ASSUME ~SomeFailed, NEW q \in Ordinals, NEW r \in Own(q), Behind(q, r)'
                 PROVE  Behind(q, r)
        BY <1>1, <1>2, <1>8 DEF WroteInv
    <2>1. CASE q = m
        <3>1. Slice(m)[1] \in Nat /\ r \in Nat /\ Slice(m)[1] <= r
            BY <2>1, SliceFacts DEF Own
        <3> QED BY <1>1, <1>2, <1>5, <1>10, <2>1, <3>1 DEF Behind
    <2>2. CASE q # m
        BY <1>1, <1>2, <1>3, <1>10, <2>2 DEF Behind
    <2> QED BY <2>1, <2>2
<1> QED BY <1>11, <1>12, <1>13, <1>14, <1>15, <1>16 DEF KnownSlices, EveryRecordRead

\* A chunk is ahead of its handler, which is then behind it.
LEMMA RunChunkInv == ASSUME FanInv, NEW m \in Messages, RunChunk(m) PROVE FanInv'
<1> DEFINE from == handler[m].pos
           to == Min({Length(m), from + ChunkLength(m)})
           lo == Slice(m)[1]
           k == handler[m].step
<1> USE DEF FanInv
<1>1. /\ UNCHANGED <<fixed, row, launch, msg>>
      /\ handler[m].at = "chunks" /\ from < Length(m)
      /\ written' = [r \in DOMAIN written |->
                         IF r - lo \in from .. to - 1 THEN written[r] + 1 ELSE written[r]]
      /\ handler' = [handler EXCEPT ![m].pos = to]
      /\ steps' = [steps EXCEPT ![k].chunks = @ + 1]
    BY DEF RunChunk
<1>2. /\ Ordinals' = Ordinals
      /\ \A q : Slice(q)' = Slice(q) /\ Length(q)' = Length(q) /\ Own(q)' = Own(q)
    BY <1>1, FixedStays
<1>3. Ordinals \subseteq Messages /\ m \in Ordinals
    BY <1>1, OrdinalsAreMessages, HandlersOwn
<1>4. handler \in [Messages -> HandlerType] /\ from \in Nat
    BY DEF FanTyped, HandlerType
<1>5. /\ lo \in Nat /\ Slice(m)[2] \in Nat /\ Length(m) = Slice(m)[2] - lo /\ Length(m) \in Nat
      /\ ChunkLength(m) \in Nat
    BY <1>3, SliceFacts
<1>6. to \in Nat /\ from <= to /\ to <= Length(m)
    <2>1. from + ChunkLength(m) \in Nat /\ from <= from + ChunkLength(m)
        BY <1>4, <1>5
    <2>2. to = IF Length(m) <= from + ChunkLength(m) THEN Length(m) ELSE from + ChunkLength(m)
        BY <1>5, <2>1, LesserOfTwo
    <2> QED BY <1>1, <1>4, <1>5, <2>1, <2>2
<1> HIDE DEF to
<1>7. /\ handler' \in [Messages -> HandlerType]
      /\ handler'[m].at = "chunks" /\ handler'[m].step = handler[m].step /\ handler'[m].pos = to
      /\ \A q \in Messages \ {m} : handler'[q] = handler[q]
      /\ \A q \in Messages : handler'[q].at = handler[q].at /\ handler'[q].step = handler[q].step
    BY <1>1, <1>4, <1>6 DEF HandlerType
<1>8. k \in DOMAIN steps
    BY <1>1 DEF StepsInv
<1>9. /\ steps' \in Seq(StepType) /\ DOMAIN steps' = DOMAIN steps
      /\ \A i \in DOMAIN steps : steps'[i].status = steps[i].status
    <2>1. steps \in Seq(StepType)
        BY DEF FanTyped, StepType
    <2>2. DOMAIN steps' = DOMAIN steps /\ \A i \in DOMAIN steps \ {k} : steps'[i] = steps[i]
        BY <1>1
    <2>3. steps'[k] = [steps[k] EXCEPT !.chunks = @ + 1]
        BY <1>1, <1>8
    <2>4. \A e \in StepType : /\ [e EXCEPT !.chunks = @ + 1] \in StepType
                              /\ [e EXCEPT !.chunks = @ + 1].status = e.status
        BY DEF StepType
    <2>5. steps'[k] \in StepType /\ steps'[k].status = steps[k].status
        BY <1>8, <2>3, <2>4, StepRows
    <2>6. steps' = [i \in 1 .. Len(steps) |-> steps'[i]]
        BY <1>1, StepRows
    <2>7. \A i \in 1 .. Len(steps) : steps'[i] \in StepType
        BY <2>2, <2>5, StepRows
    <2>8. steps' \in Seq(StepType)
        BY <2>6, <2>7, StepRows
    <2> QED BY <2>2, <2>5, <2>8
<1>10. SomeFailed' <=> SomeFailed
    BY <1>9 DEF SomeFailed
<1>11. /\ DOMAIN written = 0 .. total - 1 /\ written' \in [0 .. total - 1 -> Nat]
       /\ \A r \in 0 .. total - 1 : written[r] \in Nat
       /\ \A r \in 0 .. total - 1 :
              written'[r] = IF r - lo \in from .. to - 1 THEN written[r] + 1 ELSE written[r]
    BY <1>1 DEF FanTyped
<1> HIDE DEF lo, from, k
<1>12. FanTyped'
    BY <1>1, <1>7, <1>9, <1>11 DEF FanTyped, fixed, HandlerType, StepType
<1>13. HandsInv' /\ SentInv'
    <2>1. HandsInv'
        BY <1>1, <1>2, <1>7 DEF HandsInv
    <2> QED BY <1>1, <2>1, SentStays
<1>14. PosInv'
    <2>1. to \in 0 .. Length(m)
        BY <1>5, <1>6
    <2> QED BY <1>2, <1>7, <2>1 DEF PosInv, Terminal
<1>15. StepsInv'
    BY <1>1, <1>7, <1>9, <1>10 DEF StepsInv
<1>16. ASSUME KnownSlices, NEW q \in Ordinals, NEW r \in Own(q), r - lo \in from .. to - 1
       PROVE  q = m
    <2>1. r \in 0 .. total - 1 /\ r \in Nat
        BY DEF Own
    <2>2. lo <= r /\ r < Slice(m)[2]
        BY <1>4, <1>5, <1>6, <1>16, <2>1
    <2>3. r \in Own(m)
        BY <2>1, <2>2 DEF Own, lo
    <2> QED BY <1>3, <1>16, <2>3, OwnersTile
<1>17. KnownSlices => OnceInv'
    <2> SUFFICES ASSUME KnownSlices, NEW q \in Ordinals, NEW r \in Own(q)
                 PROVE  /\ written'[r] <= msg[q].deliveries
                        /\ Ahead(q, r)' => written'[r] < msg[q].deliveries
        BY <1>1, <1>2 DEF OnceInv
    <2>1. /\ written[r] <= msg[q].deliveries
          /\ Ahead(q, r) => written[r] < msg[q].deliveries
        BY DEF OnceInv
    <2>2. r \in 0 .. total - 1 /\ r \in Nat /\ msg[q].deliveries \in Nat /\ q \in Messages
        BY <1>3 DEF Own, FanTyped
    <2>3. CASE r - lo \in from .. to - 1
        <3>1. q = m
            BY <1>16, <2>3
        <3>2. Ahead(m, r)
            BY <1>1, <1>4, <1>5, <1>6, <2>2, <2>3 DEF Ahead, lo, from
        <3>3. ~Ahead(m, r)'
            BY <1>2, <1>4, <1>5, <1>6, <1>7, <2>2, <2>3 DEF Ahead, lo
        <3>4. written'[r] = written[r] + 1
            BY <1>11, <2>2, <2>3
        <3> QED BY <1>11, <2>1, <2>2, <3>1, <3>2, <3>3, <3>4
    <2>4. CASE r - lo \notin from .. to - 1
        <3>1. written'[r] = written[r]
            BY <1>11, <2>2, <2>4
        <3>2. Ahead(q, r)' => Ahead(q, r)
            <4>1. CASE q = m
                BY <1>1, <1>2, <1>4, <1>5, <1>6, <1>7, <2>2, <4>1 DEF Ahead, lo, from
            <4>2. CASE q # m
                BY <1>2, <1>7, <2>2, <4>2 DEF Ahead
            <4> QED BY <4>1, <4>2
        <3> QED BY <2>1, <3>1, <3>2
    <2> QED BY <2>3, <2>4
<1>18. WroteInv'
    <2> SUFFICES ASSUME ~SomeFailed, NEW q \in Ordinals, NEW r \in Own(q), Behind(q, r)'
                 PROVE  written'[r] > 0
        BY <1>2, <1>10 DEF WroteInv
    <2>1. r \in 0 .. total - 1 /\ r \in Nat /\ q \in Messages
        BY <1>3 DEF Own
    <2>2. CASE r - lo \in from .. to - 1
        BY <1>11, <2>1, <2>2
    <2>3. CASE r - lo \notin from .. to - 1
        <3>1. Behind(q, r)
            <4>1. CASE q = m
                BY <1>1, <1>2, <1>4, <1>5, <1>6, <1>7, <2>1, <2>3, <4>1 DEF Behind, lo, from
            <4>2. CASE q # m
                BY <1>1, <1>2, <1>7, <2>1, <4>2 DEF Behind
            <4> QED BY <4>1, <4>2
        <3>2. written[r] > 0
            BY <3>1 DEF WroteInv
        <3> QED BY <1>11, <2>1, <2>3, <3>2
    <2> QED BY <2>2, <2>3
<1> QED BY <1>12, <1>13, <1>14, <1>15, <1>17, <1>18 DEF KnownSlices, EveryRecordRead

\* The row of a step that ends is its handler's own; a FAILED row stays.
LEMMA EndStepInv ==
    ASSUME FanInv, NEW m \in Messages, NEW s \in Terminal, EndStep(m, s),
           handler[m].at = "chunks", s = "COMPLETED" => handler[m].pos = Length(m),
           UNCHANGED <<fixed, row, launch, msg, written>>
    PROVE  FanInv'
<1> DEFINE k == handler[m].step
<1> USE DEF FanInv
<1>1. /\ handler' = [handler EXCEPT ![m].at = s]
      /\ steps' = [steps EXCEPT ![k].status = s]
    BY DEF EndStep
<1>2. /\ Ordinals' = Ordinals
      /\ \A q : Slice(q)' = Slice(q) /\ Length(q)' = Length(q) /\ Own(q)' = Own(q)
    BY FixedStays
<1>3. Ordinals \subseteq Messages /\ m \in Ordinals
    BY OrdinalsAreMessages, HandlersOwn
<1>4. handler \in [Messages -> HandlerType]
    BY DEF FanTyped, HandlerType
<1>5. /\ handler' \in [Messages -> HandlerType]
      /\ handler'[m].at = s /\ handler'[m].pos = handler[m].pos
      /\ \A q \in Messages \ {m} : handler'[q] = handler[q]
    BY <1>1, <1>4 DEF HandlerType
<1>6. k \in DOMAIN steps /\ steps[k].status = "STARTING"
    BY DEF StepsInv
<1>7. /\ steps' \in Seq(StepType) /\ DOMAIN steps' = DOMAIN steps
      /\ steps'[k].status = s /\ \A i \in DOMAIN steps \ {k} : steps'[i] = steps[i]
    <2>1. DOMAIN steps' = DOMAIN steps /\ \A i \in DOMAIN steps \ {k} : steps'[i] = steps[i]
        BY <1>1
    <2>2. steps'[k] = [steps[k] EXCEPT !.status = s]
        BY <1>1, <1>6
    <2>3. \A e \in StepType : /\ [e EXCEPT !.status = s] \in StepType
                              /\ [e EXCEPT !.status = s].status = s
        BY DEF StepType
    <2>4. steps'[k] \in StepType /\ steps'[k].status = s
        BY <1>6, <2>2, <2>3, StepRows
    <2>5. steps' = [i \in 1 .. Len(steps) |-> steps'[i]]
        BY <1>1, StepRows
    <2>6. \A i \in 1 .. Len(steps) : steps'[i] \in StepType
        BY <2>1, <2>4, StepRows
    <2>7. steps' \in Seq(StepType)
        BY <2>5, <2>6, StepRows
    <2> QED BY <2>1, <2>4, <2>7
<1> HIDE DEF k
<1>8. (SomeFailed => SomeFailed') /\ (s = "FAILED" => SomeFailed')
    <2>1. s = "FAILED" => SomeFailed'
        BY <1>6, <1>7 DEF SomeFailed
    <2>2. SomeFailed => SomeFailed'
        BY <1>6, <1>7 DEF SomeFailed
    <2> QED BY <2>1, <2>2
<1>9. FanTyped'
    BY <1>5, <1>7 DEF FanTyped, fixed, HandlerType, StepType
<1>10. HandsInv' /\ SentInv'
    <2>1. HandsInv'
        BY <1>2, <1>5 DEF HandsInv
    <2> QED BY <2>1, SentStays
<1>11. PosInv'
    BY <1>2, <1>5 DEF PosInv, Terminal
<1>12. KnownSlices => OnceInv'
    <2>1. \A q \in Ordinals : \A r : Ahead(q, r)' => Ahead(q, r)
        BY <1>2, <1>3, <1>5 DEF Ahead, Terminal
    <2> QED BY <1>2, <2>1 DEF OnceInv
<1>13. StepsInv'
    <2> SUFFICES ASSUME NEW p \in Messages
                 PROVE  /\ handler'[p].at = "chunks" =>
                               /\ handler'[p].step \in DOMAIN steps'
                               /\ steps'[handler'[p].step].status = "STARTING"
                               /\ \A q \in Messages \ {p} :
                                      handler'[q].at = "chunks" => handler'[q].step # handler'[p].step
                        /\ handler'[p].at = "FAILED" => SomeFailed'
        BY <1>8 DEF StepsInv
    <2>1. CASE p = m
        BY <1>5, <1>8, <2>1 DEF Terminal
    <2>2. CASE p # m
        <3>1. handler'[p] = handler[p] /\ (handler[p].at = "chunks" => handler[p].step # k)
            BY <1>5, <2>2 DEF StepsInv, k
        <3> QED BY <1>5, <1>7, <1>8, <2>2, <3>1 DEF StepsInv, Terminal
    <2> QED BY <2>1, <2>2
<1>14. WroteInv'
    <2>1. \A q \in Ordinals : \A r : Behind(q, r)' => Behind(q, r)
        BY <1>2, <1>3, <1>5 DEF Behind, Terminal
    <2> QED BY <1>2, <1>8, <2>1 DEF WroteInv
<1> QED BY <1>9, <1>10, <1>11, <1>12, <1>13, <1>14 DEF KnownSlices, EveryRecordRead

-----------------------------------------------------------------------------
\* Every step of the launch, of a handler or of a fault keeps the invariant.
LEMMA FanNextInv == FanInv /\ [Next]_vars => FanInv'
<1> SUFFICES ASSUME FanInv, [Next]_vars PROVE FanInv'
    OBVIOUS
<1>1. CASE Send \/ SendFails \/ \E answer \in Answers(transport) : LaunchTask(answer)
    BY <1>1, LaunchInv
<1>2. ASSUME NEW m \in Messages, Handle(m) \/ FailStep(m) \/ WorkerDies(m) PROVE FanInv'
    <2>1. CASE Deliver(m)
        BY <2>1, DeliverInv
    <2>2. CASE Refuse(m)
        BY <2>2, RefuseInv
    <2>3. CASE Enter(m)
        BY <2>3, EnterInv
    <2>4. CASE OpenStep(m)
        BY <2>4, OpenStepInv
    <2>5. CASE RunChunk(m)
        BY <2>5, RunChunkInv
    <2>6. CASE CompleteStep(m)
        BY <2>6, EndStepInv DEF CompleteStep, Terminal
    <2>7. CASE FailStep(m)
        BY <2>7, EndStepInv DEF FailStep, Terminal
    <2>8. CASE SettleRow(m)
        BY <2>8, SettleRowInv
    <2>9. CASE ExitFailed(m)
        BY <2>9, RequeueInv DEF ExitFailed, FanInv, HandsInv, StepsInv, Terminal
    <2>10. CASE WorkerDies(m)
        BY <2>10, RequeueInv DEF WorkerDies, FanInv, FanTyped, StepsInv
    <2> QED BY <1>2, <2>1, <2>2, <2>3, <2>4, <2>5, <2>6, <2>7, <2>8, <2>9, <2>10 DEF Handle
<1>3. CASE UNCHANGED vars
    <2>1. UNCHANGED <<fixed, row, launch, msg, handler, steps, written>>
        BY <1>3 DEF vars, fixed
    <2>2. /\ Ordinals' = Ordinals
          /\ \A q : Slice(q)' = Slice(q) /\ Length(q)' = Length(q) /\ Own(q)' = Own(q)
        BY <2>1, FixedStays
    <2>3. FanTyped' /\ HandsInv' /\ PosInv' /\ StepsInv'
        BY <2>1, <2>2 DEF FanInv, FanTyped, HandsInv, PosInv, StepsInv, SomeFailed, fixed
    <2>4. SentInv'
        BY <2>1, SentStays
    <2>5. (KnownSlices => OnceInv') /\ WroteInv'
        BY <2>1, <2>2 DEF FanInv, OnceInv, WroteInv, Ahead, Behind, SomeFailed
    <2> QED BY <2>3, <2>4, <2>5 DEF FanInv, KnownSlices, EveryRecordRead
<1> QED BY <1>1, <1>2, <1>3 DEF Next

\* The invariant of every launch, whatever is delivered, dies or fails.
THEOREM FanInductiveInvariant == EveryRecordRead /\ Spec => []FanInv
<1>1. EveryRecordRead /\ Init => FanInv
    <2> SUFFICES ASSUME EveryRecordRead, Init PROVE FanInv
        OBVIOUS
    <2> USE DEF Init
    <2>1. Asleep.at = "none" /\ Asleep \in HandlerType
        BY DEF Asleep, HandlerType
    <2>2. \A m \in Messages : /\ msg[m].state = "unsent" /\ msg[m].deliveries = 0
                              /\ handler[m].at = "none"
        BY <2>1
    <2>3. FanTyped
        <3>1. handler \in [Messages -> HandlerType]
            BY <2>1
        <3> QED BY <3>1 DEF FanTyped, HandlerType
    <2>4. Messages \subseteq Nat /\ Ordinals \subseteq Messages
        BY <2>3, OrdinalsAreMessages
    <2>5. HandsInv /\ SentInv /\ PosInv /\ StepsInv
        BY <2>2, <2>4 DEF HandsInv, SentInv, PosInv, StepsInv, Terminal
    <2>6. OnceInv
        BY <2>2, <2>4 DEF OnceInv, Ahead, Own
    <2>7. WroteInv
        BY <2>2, <2>4 DEF WroteInv, Behind
    <2> QED BY <2>3, <2>5, <2>6, <2>7 DEF FanInv
<1> QED BY <1>1, FanNextInv, PTL DEF Spec

(***************************************************************************)
(* "process ONLY the partition's range": with readers that know their      *)
(* slice, no handler of BullmqRuntime, KafkaRuntime or BatchWorkerRunner   *)
(* writes a record of another partition, and none writes a record twice in *)
(* one delivery, for every count, size of the input and interleaving.      *)
(***************************************************************************)
THEOREM OnlyTheirRanges == KnownSlices /\ Spec => []OnlyItsRange
<1> SUFFICES ASSUME KnownSlices PROVE Spec => []OnlyItsRange
    OBVIOUS
<1>1. FanInv => OnlyItsRange
    <2> SUFFICES ASSUME FanInv, NEW r \in DOMAIN written
                 PROVE  \E m \in Ordinals :
                            /\ Partitioned => /\ DefaultRange(m, count, total)[1] <= r
                                              /\ r < DefaultRange(m, count, total)[2]
                            /\ written[r] <= msg[m].deliveries
        BY DEF OnlyItsRange
    <2>1. r \in 0 .. total - 1
        BY DEF FanInv, FanTyped
    <2>2. PICK m \in Ordinals : r \in Own(m)
        BY <2>1, OwnersTile DEF FanInv
    <2>3. Partitioned => Slice(m) = DefaultRange(m, count, total)
        BY SliceFacts DEF FanInv
    <2> QED BY <2>2, <2>3 DEF FanInv, OnceInv, Own
<1>2. EveryRecordRead
    BY DEF EveryRecordRead
<1> QED BY <1>1, <1>2, FanInductiveInvariant, PTL

(***************************************************************************)
(* A record that nobody wrote is never silent: although a partition's      *)
(* SettleRow overwrites another's FAILED on the shared row, the launch     *)
(* threw, or a message ran out of attempts, or a FAILED step row says so.  *)
(* The hypothesis leaves out the case in which the code does lose records  *)
(* silently, readers that do not know their slice and a Kafka executor     *)
(* that ends each after as many records as its range has; BullMQ, which    *)
(* does not, is covered whatever its readers know.                         *)
(***************************************************************************)
THEOREM LossIsNeverSilent == EveryRecordRead /\ Spec => []NoSilentLoss
<1>1. FanInv => NoSilentLoss
    <2> SUFFICES ASSUME FanInv, Settled, NEW r \in DOMAIN written, written[r] = 0,
                        launch.end # "thrown", \A m \in Messages : msg[m].state # "dead",
                        ~SomeFailed
                 PROVE  FALSE
        BY DEF NoSilentLoss, SomeFailed
    <2>1. r \in 0 .. total - 1 /\ launch.end = "returned"
        BY DEF FanInv, FanTyped, Settled
    <2>2. PICK m \in Ordinals : r \in Own(m)
        BY <2>1, OwnersTile DEF FanInv
    <2>3. ~RefusedForEver(m)
        BY DEF RefusedForEver, FanInv, StepsInv
    <2>4. msg[m].state = "acked"
        BY <2>1, <2>3, OrdinalsAreMessages DEF FanInv, SentInv, Settled
    <2>5. Behind(m, r)
        BY <2>4 DEF Behind
    <2> QED BY <2>2, <2>5 DEF FanInv, WroteInv
<1> QED BY <1>1, FanInductiveInvariant, PTL

-----------------------------------------------------------------------------
(***************************************************************************)
(* Proofs about the command line of a task, for any command of any words.  *)
(* The parse is recursive from the first word to the last, so that it is   *)
(* known from the end: facts about it are shown by looking at the least    *)
(* number of last words that refutes them.                                 *)
(***************************************************************************)
\* The value that a parse f finds from word i on.
Taken(argv, name, f, i) ==
    IF i > Len(argv) THEN "undefined"
    ELSE LET found == f[i + ParsedAt(argv, i).words]
         IN  IF found = "undefined" /\ argv[i].kind # "word" /\ argv[i].name = name
             THEN ParsedAt(argv, i).value
             ELSE found

\* The parser always goes on, by one word or by two.
LEMMA OneOrTwoWords == ASSUME NEW argv PROVE \A i \in Nat : ParsedAt(argv, i).words \in {1, 2}
BY DEF ParsedAt

\* f is right about the last d words.
ParsesLast(argv, name, f, d) ==
    \A i \in Nat : i + d > Len(argv) => f[i] = Taken(argv, name, f, i)

\* There is such a parse: were there a least d for which nothing is right about
\* the last d words, what is right about the last d - 1 could be extended.
LEMMA ParseExists ==
    ASSUME NEW argv, NEW name, Len(argv) \in Nat
    PROVE  \E f : f = [i \in Nat |-> Taken(argv, name, f, i)]
<1> DEFINE Stuck == {d \in Nat : ~\E f : ParsesLast(argv, name, f, d)}
<1>1. Stuck = {}
  <2> SUFFICES ASSUME Stuck # {} PROVE FALSE
    OBVIOUS
  <2>1. PICK d \in Stuck : \A c \in Stuck : ~(<<c, d>> \in OpToRel(<, Nat))
    <3>1. Stuck \subseteq Nat
        OBVIOUS
    <3> QED BY <3>1, NatLessThanWellFounded, WFMin
  <2>2. d \in Nat /\ ~\E f : ParsesLast(argv, name, f, d)
    OBVIOUS
  <2>3. d # 0
    <3>1. ParsesLast(argv, name, [i \in Nat |-> "undefined"], 0)
        BY DEF ParsesLast, Taken
    <3> QED BY <2>2, <3>1
  <2>4. PICK c \in Nat : d = c + 1
    BY <2>2, <2>3
  <2>5. PICK g : ParsesLast(argv, name, g, c)
    <3>1. <<c, d>> \in OpToRel(<, Nat)
        BY <2>2, <2>4 DEF OpToRel
    <3> QED BY <2>1, <3>1
  <2> DEFINE f == [i \in Nat |-> IF i + c > Len(argv) THEN g[i] ELSE Taken(argv, name, g, i)]
  <2>6. ASSUME NEW i \in Nat, i + d > Len(argv) PROVE f[i] = Taken(argv, name, f, i)
    <3>1. PICK w \in {1, 2} : w = ParsedAt(argv, i).words
        BY OneOrTwoWords
    <3>2. f[i + w] = g[i + w]
        <4>1. i + w \in Nat /\ i + w + c > Len(argv)
            BY <2>2, <2>4, <2>6
        <4> QED BY <4>1
    <3>3. Taken(argv, name, f, i) = Taken(argv, name, g, i)
        BY <3>1, <3>2 DEF Taken
    <3>4. i + c > Len(argv) => g[i] = Taken(argv, name, g, i)
        BY <2>5 DEF ParsesLast
    <3> QED BY <3>3, <3>4
  <2>7. ParsesLast(argv, name, f, d)
    BY <2>6 DEF ParsesLast
  <2> QED BY <2>2, <2>7
<1>2. PICK g : ParsesLast(argv, name, g, Len(argv) + 1)
  <2>1. Len(argv) + 1 \in Nat /\ Len(argv) + 1 \notin Stuck
    BY <1>1
  <2> QED BY <2>1
<1> DEFINE f == [i \in Nat |-> g[i]]
<1>3. \A i \in Nat : f[i] = Taken(argv, name, f, i)
  <2> TAKE i \in Nat
  <2>1. PICK w \in {1, 2} : w = ParsedAt(argv, i).words
    BY OneOrTwoWords
  <2>2. f[i + w] = g[i + w] /\ f[i] = g[i]
    OBVIOUS
  <2>3. g[i] = Taken(argv, name, g, i)
    BY <1>2 DEF ParsesLast
  <2> QED BY <2>1, <2>2, <2>3 DEF Taken
<1>4. f = [i \in Nat |-> Taken(argv, name, f, i)]
    BY <1>3
<1> QED BY <1>4

\* f is right about all words.
Parse(argv, name, f) == \A i \in Nat : f[i] = Taken(argv, name, f, i)

\* ParseBatchWorkerArgs begins such a parse at the first word.
LEMMA Parsed ==
    ASSUME NEW argv, NEW name, Len(argv) \in Nat
    PROVE  \E f : Parse(argv, name, f) /\ ParseBatchWorkerArgs(argv, name) = f[1]
<1> DEFINE f == CHOOSE f : f = [i \in Nat |-> Taken(argv, name, f, i)]
<1>1. f = [i \in Nat |-> Taken(argv, name, f, i)]
    BY ParseExists
<1>2. ParseBatchWorkerArgs(argv, name) = f[1]
    BY DEF ParseBatchWorkerArgs, Taken
<1> HIDE DEF f
<1> QED BY <1>1, <1>2 DEF Parse
\* The words of a command line.
ArgWords == [kind : {"flag", "flagWith", "word"}, name : STRING, value : STRING]

\* The words of the strategy stand after the command.
LEMMA WordsAppended ==
    ASSUME NEW command \in Seq(ArgWords), NEW job, NEW execution, NEW params
    PROVE  LET argv == BuildWorkerArgs(command, job, execution, params)
               n == Len(command)
           IN  /\ n \in Nat /\ Len(argv) = n + 6
               /\ argv[n + 1] = Flag("job-id") /\ argv[n + 2] = Word(job)
               /\ argv[n + 3] = Flag("job-execution-id") /\ argv[n + 4] = Word(execution)
               /\ argv[n + 5] = Flag("params-json") /\ argv[n + 6] = Word(params)
<1> DEFINE S == {command[i] : i \in 1..Len(command)} \cup
                {Flag("job-id"), Word(job), Flag("job-execution-id"), Word(execution),
                 Flag("params-json"), Word(params)}
           own == <<Flag("job-id"), Word(job), Flag("job-execution-id"), Word(execution),
                    Flag("params-json"), Word(params)>>
<1>1. PICK n \in Nat : n = Len(command)
    OBVIOUS
<1>2. own \in Seq(S) /\ Len(own) = 6
    OBVIOUS
<1>3. command \in Seq(S)
    OBVIOUS
<1>4. /\ own[1] = Flag("job-id") /\ own[2] = Word(job)
      /\ own[3] = Flag("job-execution-id") /\ own[4] = Word(execution)
      /\ own[5] = Flag("params-json") /\ own[6] = Word(params)
    OBVIOUS
<1> HIDE DEF own, S
<1>5. Len(command \o own) = n + 6 /\ \A i \in 1..6 : (command \o own)[n + i] = own[i]
  <2>1. Len(command \o own) = n + 6
        /\ \A i \in 1..n + 6 : (command \o own)[i] = IF i <= n THEN command[i] ELSE own[i - n]
    <3>1. /\ Len(command \o own) = Len(command) + Len(own)
          /\ \A i \in 1 .. Len(command) + Len(own) : (command \o own)[i] =
                IF i <= Len(command) THEN command[i] ELSE own[i - Len(command)]
        BY <1>2, <1>3, ConcatProperties
    <3> QED BY <1>1, <1>2, <3>1
  <2>2. ASSUME NEW i \in 1..6 PROVE (command \o own)[n + i] = own[i]
    <3>1. PICK j \in 1..n + 6 : j = n + i /\ ~(j <= n) /\ j - n = i
        OBVIOUS
    <3> QED BY <2>1, <3>1
  <2> QED BY <2>1, <2>2
<1>6. BuildWorkerArgs(command, job, execution, params) = command \o own
    BY DEF BuildWorkerArgs, own
<1>7. \A i \in 1..6 : BuildWorkerArgs(command, job, execution, params)[n + i] = own[i]
    BY <1>5, <1>6
<1> QED BY <1>1, <1>4, <1>5, <1>6, <1>7

\* A flag that ends a command does not take the flag after it for its value, so
\* the parse comes to the strategy's first word, and what it finds there stays.
LEMMA LastWordsWin ==
    ASSUME NEW argv, NEW name, NEW f, NEW n \in Nat, Len(argv) \in Nat, n < Len(argv),
           argv[n + 1].kind = "flag", Parse(argv, name, f),
           f[n + 1] # "undefined"
    PROVE  f[1] = f[n + 1]
<1> DEFINE Lost == {j \in 0..n : f[n + 1 - j] # f[n + 1]}
<1>1. SUFFICES ASSUME f[1] # f[n + 1] PROVE FALSE
    OBVIOUS
<1>2. n \in Lost
    BY <1>1
<1>3. PICK j \in Lost : \A k \in Lost : ~(<<k, j>> \in OpToRel(<, Nat))
  <2>1. Lost \subseteq Nat
    OBVIOUS
  <2> QED BY <1>2, <2>1, NatLessThanWellFounded, WFMin
<1>4. j \in 0..n /\ f[n + 1 - j] # f[n + 1] /\ j # 0
    OBVIOUS
<1>5. PICK i \in 1..n : i = n + 1 - j
    BY <1>4
<1>6. PICK w \in {1, 2} : w = ParsedAt(argv, i).words
    BY OneOrTwoWords
<1>7. i + w <= n + 1
  <2>1. w = 2 => argv[i + 1].kind = "word"
    BY <1>6 DEF ParsedAt
  <2> QED BY <1>5, <1>6, <2>1
<1>8. f[i + w] = f[n + 1]
  <2>1. PICK k \in 0..n : i + w = n + 1 - k /\ k < j
    <3>1. n + 1 - (i + w) \in 0..n /\ n + 1 - (i + w) < j
        BY <1>4, <1>5, <1>6, <1>7
    <3> QED BY <3>1
  <2>2. <<k, j>> \in OpToRel(<, Nat)
    BY <1>4, <2>1 DEF OpToRel
  <2>3. k \notin Lost
    BY <1>3, <2>2
  <2> QED BY <2>1, <2>3
<1>9. f[i] = f[i + w]
  <2>1. ~(i > Len(argv))
    BY <1>5
  <2> QED BY <1>6, <1>8, <2>1 DEF Parse, Taken
<1> QED BY <1>4, <1>5, <1>8, <1>9

\* A word has its own value.
LEMMA WordRead == ASSUME NEW value PROVE Word(value).kind = "word" /\ Word(value).value = value
BY DEF Word

\* What the worker makes of the words of the strategy.
LEMMA OwnWordsParsed ==
    ASSUME NEW command \in Seq(ArgWords), NEW name, NEW value,
           <<name, value>> \in {<<"job-id", "job">>, <<"job-execution-id", "execution">>,
                               <<"params-json", "params">>}
    PROVE  ParseBatchWorkerArgs(BuildWorkerArgs(command, "job", "execution", "params"), name) = value
<1>1. PICK argv : argv = BuildWorkerArgs(command, "job", "execution", "params")
    OBVIOUS
<1>2. PICK n \in Nat : n = Len(command)
    OBVIOUS
<1>3. /\ Len(argv) = n + 6
      /\ argv[n + 1] = Flag("job-id") /\ argv[n + 2] = Word("job")
      /\ argv[n + 3] = Flag("job-execution-id") /\ argv[n + 4] = Word("execution")
      /\ argv[n + 5] = Flag("params-json") /\ argv[n + 6] = Word("params")
    BY <1>1, <1>2, WordsAppended
<1>4. PICK f : Parse(argv, name, f) /\ ParseBatchWorkerArgs(argv, name) = f[1]
    BY <1>3, Parsed
<1>5. f[n + 7] = "undefined"
    BY <1>3, <1>4 DEF Parse, Taken
<1>6. /\ ParsedAt(argv, n + 1) = [value |-> "job", words |-> 2]
      /\ ParsedAt(argv, n + 3) = [value |-> "execution", words |-> 2]
      /\ ParsedAt(argv, n + 5) = [value |-> "params", words |-> 2]
  <2>1. n + 1 + 1 = n + 2 /\ n + 3 + 1 = n + 4 /\ n + 5 + 1 = n + 6
    OBVIOUS
  <2>2. n + 1 < Len(argv) /\ n + 3 < Len(argv) /\ n + 5 < Len(argv)
    BY <1>3
  <2>3. argv[n + 1 + 1] = Word("job") /\ argv[n + 3 + 1] = Word("execution") /\ argv[n + 5 + 1] = Word("params")
    BY <1>3, <2>1
  <2>4. argv[n + 1].kind = "flag" /\ argv[n + 3].kind = "flag" /\ argv[n + 5].kind = "flag"
    BY <1>3 DEF Flag
  <2>5. /\ argv[n + 1 + 1].kind = "word" /\ argv[n + 1 + 1].value = "job"
        /\ argv[n + 3 + 1].kind = "word" /\ argv[n + 3 + 1].value = "execution"
        /\ argv[n + 5 + 1].kind = "word" /\ argv[n + 5 + 1].value = "params"
    BY <2>3, WordRead
  <2> QED BY <2>2, <2>4, <2>5 DEF ParsedAt
<1>7. f[n + 5] = IF name = "params-json" THEN "params" ELSE "undefined"
  <2>1. n + 5 \in Nat /\ ~(n + 5 > Len(argv)) /\ n + 5 + 2 = n + 7
    BY <1>3
  <2>2. argv[n + 5].kind = "flag" /\ argv[n + 5].name = "params-json"
    BY <1>3 DEF Flag
  <2> QED BY <1>4, <1>5, <1>6, <2>1, <2>2 DEF Parse, Taken
<1>8. f[n + 3] = IF name = "job-execution-id" THEN "execution" ELSE f[n + 5]
  <2>1. n + 3 \in Nat /\ ~(n + 3 > Len(argv)) /\ n + 3 + 2 = n + 5
    BY <1>3
  <2>2. argv[n + 3].kind = "flag" /\ argv[n + 3].name = "job-execution-id"
    BY <1>3 DEF Flag
  <2> QED BY <1>4, <1>6, <1>7, <2>1, <2>2 DEF Parse, Taken
<1>9. f[n + 1] = IF name = "job-id" THEN "job" ELSE f[n + 3]
  <2>1. n + 1 \in Nat /\ ~(n + 1 > Len(argv)) /\ n + 1 + 2 = n + 3
    BY <1>3
  <2>2. argv[n + 1].kind = "flag" /\ argv[n + 1].name = "job-id"
    BY <1>3 DEF Flag
  <2> QED BY <1>4, <1>6, <1>7, <1>8, <2>1, <2>2 DEF Parse, Taken
<1>10. f[n + 1] = value /\ value # "undefined"
    BY <1>7, <1>8, <1>9
<1>11. argv[n + 1].kind = "flag" /\ n < Len(argv) /\ Len(argv) \in Nat
    BY <1>3 DEF Flag
<1>12. f[1] = f[n + 1]
    BY <1>4, <1>10, <1>11, LastWordsWin
<1> QED BY <1>1, <1>4, <1>10, <1>12

(***************************************************************************)
(* A worker runs the row that its launch created, for any command that a   *)
(* deployment configures: nothing in front of the strategy's words, a flag *)
(* without a value or one of the same name among them, changes what they   *)
(* are parsed to.                                                          *)
(***************************************************************************)
THEOREM TasksNameTheirRow == Spec => []TaskNamesItsRow
<1>1. TaskNamesItsRow
  <2> SUFFICES ASSUME NEW command \in Commands
               PROVE  LET argv == BuildWorkerArgs(command, "job", "execution", "params")
                      IN  /\ ExecutionOf(argv) = "execution"
                          /\ ParseBatchWorkerArgs(argv, "job-id") = "job"
                          /\ ParseBatchWorkerArgs(argv, "params-json") = "params"
    BY DEF TaskNamesItsRow
  <2>1. command \in Seq(ArgWords)
    BY FanOutAssumption DEF ArgWords
  <2> DEFINE argv == BuildWorkerArgs(command, "job", "execution", "params")
  <2>2. /\ ParseBatchWorkerArgs(argv, "job-execution-id") = "execution"
        /\ ParseBatchWorkerArgs(argv, "job-id") = "job"
        /\ ParseBatchWorkerArgs(argv, "params-json") = "params"
    BY <2>1, OwnWordsParsed
  <2> HIDE DEF argv
  <2>3. ExecutionOf(argv) = "execution"
    BY <2>2 DEF ExecutionOf
  <2> QED BY <2>2, <2>3 DEF argv
<1> QED BY <1>1, PTL
=============================================================================
