------------------------- MODULE ItemStreams_proofs -------------------------
(***************************************************************************)
(* Proofs about ItemStreams, for any file, any table and any sizes.  The   *)
(* three properties speak of different things, and rest on one reading of  *)
(* a position: but for a paging reader whose table has lost a row, it is   *)
(* the id of the last record read (StreamInv).  From there, the records up *)
(* to the checkpoint are accounted for and those up to the reader are too, *)
(* or in the chunk (AccountInv); what a file holds lies below the          *)
(* checkpoint (FileInv); and the chunks already put cut the input where    *)
(* any later run cuts it (CutsInv), because a position and the input       *)
(* determine where a chunk ends.                                           *)
(***************************************************************************)
EXTENDS ItemStreams, FiniteSetTheorems, SequenceTheorems, WellFoundedInduction, TLAPS

Pcs == {"idle", "read", "write", "checkpoint", "finish", "failing", "completed"}
Readers == [at : Nat, buffer : Seq(1..Rows)]
Checkpoints == [at : Nat, header : BOOLEAN, chunk : Nat]

StreamTyped ==
    /\ reader \in LineReader \cup TableReader /\ writer \in Writer
    /\ onRead \in OnError /\ onWrite \in OnError
    /\ table \in Seq(1..Rows) /\ Len(table) <= Rows
    /\ saved \in Checkpoints /\ resumable \in BOOLEAN
    /\ rd \in Readers
    /\ wr \in [header : BOOLEAN, chunk : Nat]
    /\ pc \in Pcs
    /\ slot \in 0..ChunkSize
    /\ chunk \in Seq(Nat \ {0})
    /\ file \in Seq(Nat)
    /\ objects \in [ChunkNumbers -> SUBSET Nat]
    /\ deletes \in Nat /\ runs \in Nat /\ skippedWrites \in Nat

\* The position of a paging reader counts rows; without deleted rows row i has
\* id i, and a position is the id of the last record read, whatever the reader.
Aligned == reader = "paging" => deletes = 0

\* While the step runs, and when it is to be resumed, its checkpoint counts.
Underway == pc # "idle" \/ resumable

\* Ids ascend, and without deletions row i has id i.
TableInv ==
    /\ \A i, j \in 1..Len(table) : i < j => table[i] < table[j]
    /\ deletes = 0 => Len(table) = Rows /\ \A i \in 1..Rows : table[i] = i

\* The rows in the buffer of a table reader at a position: the next ones, some
\* of which may be gone from the table.
Buffered(at, rows) ==
    /\ \A i \in 1..Len(rows) : rows[i] > at
    /\ \A i, j \in 1..Len(rows) : i < j => rows[i] < rows[j]
    /\ \A k \in 1..Len(table) : table[k] > at =>
          \/ \E i \in 1..Len(rows) : rows[i] = table[k]
          \/ \A i \in 1..Len(rows) : rows[i] < table[k]
    /\ reader = "paging" => /\ \A i \in 1..Len(rows) : rows[i] = at + i
                            /\ at + Len(rows) <= Rows

BufferInv == reader \in TableReader => Buffered(rd.at, rd.buffer)

\* A position within the input, or the one before it.
Place(at) ==
    /\ FirstPosition(reader) <= at
    /\ IF reader \in LineReader THEN at <= Len(Lines) \/ at = FirstPosition(reader) ELSE at <= Rows

\* The number of a chunk is not above its position.
PlaceInv ==
    /\ Underway => saved.chunk <= saved.at /\ Place(saved.at)
    /\ pc \in {"read", "write", "checkpoint"} => Place(rd.at)
    /\ pc = "read" => saved.at <= rd.at /\ Len(chunk) <= slot
    /\ pc \in {"read", "write"} => wr.chunk = saved.chunk
    /\ pc \in {"write", "checkpoint"} => chunk # <<>>
    /\ pc = "checkpoint" => wr.chunk <= rd.at
    /\ chunk # <<>> /\ pc \in {"read", "write", "checkpoint"} =>
            saved.at < rd.at
    /\ pc # "idle" => runs > 0
    /\ runs = 0 \/ pc # "idle" => ~resumable

\* The chunk is read in order, after the checkpoint.
ChunkInv ==
    pc \in {"read", "write", "checkpoint"} =>
        /\ \A i \in 1..Len(chunk) : saved.at < chunk[i] /\ chunk[i] <= rd.at
        /\ \A i, j \in 1..Len(chunk) : i < j => chunk[i] < chunk[j]

StreamInv == StreamTyped /\ (Aligned => TableInv /\ BufferInv /\ PlaceInv /\ ChunkInv)

-----------------------------------------------------------------------------
\* A record that the first n chunks of the run account for.
Accounted(id, n) ==
    \/ \E i \in 1..Len(file) : file[i] = id
    \/ \E k \in ChunkNumbers : k < n /\ id \in objects[k]
    \/ id \in reported
    \/ reader \in LineReader /\ id \in passed
    \/ reader = "s3" /\ \E i \in 1..(id - 1) : Lines[i] = "null"

InChunk(id) == \E i \in 1..Len(chunk) : chunk[i] = id

\* Up to the checkpoint every record is accounted for; up to the reader it is, or
\* is in the chunk.
AccountInv ==
    Aligned =>
        /\ Underway => \A id \in Input : id <= saved.at => Accounted(id, saved.chunk)
        /\ pc \in {"read", "write"} =>
              \A id \in Input : id <= rd.at => Accounted(id, saved.chunk) \/ InChunk(id)
        /\ pc = "checkpoint" => \A id \in Input : id <= rd.at => Accounted(id, wr.chunk)
        /\ pc \in {"finish", "completed"} /\ slot < ChunkSize =>
              \A id \in Input : Accounted(id, saved.chunk)

-----------------------------------------------------------------------------
\* What the file holds lies below the checkpoint, and no record is there twice.
FileInv ==
    ~unsure /\ ~fresh /\ deletes = 0 =>
        /\ \A i, j \in 1..Len(file) : i # j /\ file[i] # Header => file[i] # file[j]
        /\ runs = 0 => file = <<>>
        /\ Underway /\ pc # "checkpoint" => \A i \in 1..Len(file) : file[i] <= saved.at
        /\ pc = "checkpoint" => \A i \in 1..Len(file) : file[i] <= rd.at

-----------------------------------------------------------------------------
\* What takes a slot of a chunk: a retried bad line takes none.
TakesSlot == {id \in Input : onRead = "retry" => ~Unreadable(id)}
Slots(lo, p) == {id \in TakesSlot : lo < id /\ id <= p}
NoNull(lo, p) == reader = "s3" => \A i \in 1..Len(Lines) : lo < i /\ i <= p => Lines[i] # "null"

\* The three ways a chunk that begins after lo ends at p: it is full, it is cut
\* off by a null line, or it has reached the end of the input.
EndsFull(lo, p) == Cardinality(Slots(lo, p)) = ChunkSize /\ p \in TakesSlot /\ NoNull(lo, p)
EndsAtNull(lo, p) ==
    /\ Cardinality(Slots(lo, p)) < ChunkSize /\ NoNull(lo, p - 1)
    /\ reader = "s3" /\ p \in 1..Len(Lines) /\ Lines[p] = "null"
EndsAtEnd(lo, p) ==
    /\ Cardinality(Slots(lo, p)) < ChunkSize /\ NoNull(lo, p)
    /\ IF reader \in LineReader THEN p = Len(Lines) ELSE p \in Input /\ \A id \in Input : id <= p

EndsAt(lo, p) == lo < p /\ (EndsFull(lo, p) \/ EndsAtNull(lo, p) \/ EndsAtEnd(lo, p))

\* The chunk in hand: its slots so far, or, once read, where it ends.
SlotInv ==
    SameChunks =>
        /\ pc = "read" => /\ slot = Cardinality(Slots(saved.at, rd.at))
                          /\ NoNull(saved.at, rd.at)
                          /\ slot = ChunkSize => rd.at \in TakesSlot
        /\ pc \in {"write", "checkpoint"} => EndsAt(saved.at, rd.at)

\* Where the first n chunks of the input begin, what has been put of them, and
\* which of them the positions are at.
Cut(n, b) ==
    /\ b[0] = FirstPosition(reader)
    /\ \A c \in 0..n : c < n => EndsAt(b[c], b[c + 1])
    /\ \A c, d \in 0..n : c < d => b[c] < b[d]
PutWithin(n, b) ==
    \A c \in ChunkNumbers : \A id \in objects[c] : c < n /\ b[c] < id /\ id <= b[c + 1]
AtCuts(n, b) ==
    /\ Underway => saved.chunk <= n /\ saved.at = b[saved.chunk]
    /\ pc = "checkpoint" => wr.chunk <= n /\ rd.at = b[wr.chunk]

\* The objects were put at cuts of the input; other writers put none.
CutsInv ==
    /\ writer # "s3" => \A k \in ChunkNumbers : objects[k] = {}
    /\ SameChunks /\ writer = "s3" =>
          \E n \in Nat : \E b \in [0..n -> Nat] : Cut(n, b) /\ PutWithin(n, b) /\ AtCuts(n, b)

-----------------------------------------------------------------------------
(***************************************************************************)
(* What read() answers.                                                    *)
(***************************************************************************)
\* A set of naturals has a least element.
LEMMA LeastNatural ==
    ASSUME NEW T \in SUBSET Nat, T # {}
    PROVE  \E i \in T : \A j \in T : i <= j
<1>1. PICK i \in T : \A j \in T : ~(<<j, i>> \in OpToRel(<, Nat))
    BY NatLessThanWellFounded, WFMin
<1>2. \A j \in T : ~(j < i)
    BY <1>1 DEF OpToRel
<1> QED
    BY <1>2

\* NextLine is the first line after the position that is not passed over.
LEMMA NextLineIs ==
    ASSUME NEW kind, NEW at \in Nat
    PROVE  /\ NextLine(kind, at) \in Nat
           /\ NextLine(kind, at) = 0 => \A i \in (at + 1)..Len(Lines) : Passable(kind, Lines[i])
           /\ NextLine(kind, at) # 0 =>
                 /\ NextLine(kind, at) \in (at + 1)..Len(Lines)
                 /\ ~Passable(kind, Lines[NextLine(kind, at)])
                 /\ \A i \in (at + 1)..(NextLine(kind, at) - 1) : Passable(kind, Lines[i])
<1> DEFINE stops == {i \in (at + 1)..Len(Lines) : ~Passable(kind, Lines[i])}
<1>0. Len(Lines) \in Nat
    BY ItemStreamsAssumption
<1>1. CASE stops = {}
    <2>1. NextLine(kind, at) = 0
        BY <1>1 DEF NextLine
    <2> QED
        BY <2>1, <1>1
<1>2. CASE stops # {}
    <2>1. PICK i \in stops : \A j \in stops : i <= j
        <3>1. stops \in SUBSET Nat
            BY <1>0
        <3> QED
            BY <3>1, <1>2, LeastNatural
    <2>2. NextLine(kind, at) = CHOOSE k \in stops : \A j \in stops : k <= j
        BY <1>2 DEF NextLine
    <2>3. NextLine(kind, at) \in stops /\ \A j \in stops : NextLine(kind, at) <= j
        BY <2>1, <2>2
    <2>4. PICK n \in stops : n = NextLine(kind, at) /\ \A j \in stops : n <= j
        BY <2>3
    <2>5. n \in (at + 1)..Len(Lines) /\ n # 0 /\ ~Passable(kind, Lines[n])
        BY <1>0
    <2>6. \A i2 \in (at + 1)..(n - 1) : Passable(kind, Lines[i2])
        BY <1>0, <2>4, <2>5
    <2> QED
        BY <2>4, <2>5, <2>6
<1> QED
    BY <1>1, <1>2

\* UpTo counts the rows whose id is not above the cursor.
LEMMA UpToIs ==
    ASSUME StreamTyped, TableInv, NEW id \in Nat
    PROVE  /\ UpTo(id) \in 0..Len(table)
           /\ \A i \in 1..Len(table) : table[i] <= id <=> i <= UpTo(id)
<1> DEFINE above == {i \in 1..Len(table) : table[i] > id}
<1>0. Len(table) \in Nat /\ \A i \in 1..Len(table) : table[i] \in Nat
    BY ItemStreamsAssumption DEF StreamTyped
<1>1. \E n \in 0..Len(table) : \A i \in 1..Len(table) : table[i] <= id <=> i <= n
    <2>1. CASE above = {}
        <3>1. \A i \in 1..Len(table) : table[i] <= id <=> i <= Len(table)
            BY <2>1, <1>0
        <3> QED
            BY <3>1, <1>0, SMTT(20)
    <2>2. CASE above # {}
        <3>1. PICK m \in above : \A j \in above : m <= j
            <4>1. above \in SUBSET Nat
                BY <1>0
            <4> QED
                BY <4>1, <2>2, LeastNatural
        <3>2. m \in 1..Len(table) /\ table[m] > id
            OBVIOUS
        <3>3. ASSUME NEW i \in 1..Len(table) PROVE table[i] <= id <=> i <= m - 1
            <4>1. CASE i < m
                BY <4>1, <3>1, <1>0
            <4>2. CASE i >= m
                <5>1. table[m] <= table[i]
                    BY <4>2, <3>2, <1>0 DEF TableInv
                <5> QED
                    BY <5>1, <4>2, <3>2, <1>0
            <4> QED
                BY <4>1, <4>2, <3>2, <1>0
        <3>4. m - 1 \in 0..Len(table)
            BY <3>2, <1>0
        <3> QED
            BY <3>3, <3>4
    <2> QED
        BY <2>1, <2>2
<1> QED
    BY <1>1 DEF UpTo

\* An entry of a sequence is of the set it is over.
LEMMA EntryOf ==
    ASSUME NEW S, NEW s \in Seq(S), NEW i \in 1..Len(s)
    PROVE  s[i] \in S
OBVIOUS

\* What a page holds: PageSize rows, or all there are, from the one after before.
LEMMA PageIs ==
    ASSUME StreamTyped, NEW before \in Nat,
           NEW page, page = SubSeq(table, before + 1, IF before + PageSize < Len(table) THEN before + PageSize ELSE Len(table))
    PROVE  /\ page \in Seq(1..Rows)
           /\ before + Len(page) <= Len(table) \/ page = <<>>
           /\ \A i \in 1..Len(page) : page[i] = table[before + i]
           /\ page = <<>> => Len(table) <= before
<1> DEFINE last == IF before + PageSize < Len(table) THEN before + PageSize ELSE Len(table)
<1>1. Len(table) \in Nat /\ PageSize \in Nat /\ PageSize > 0 /\ last \in Nat /\ last <= Len(table)
    BY ItemStreamsAssumption DEF StreamTyped
<1>2. \A i \in (before + 1)..last : table[i] \in 1..Rows
    <2> TAKE i \in (before + 1)..last
    <2>1. i \in 1..Len(table)
        BY <1>1
    <2>2. table \in Seq(1..Rows)
        BY DEF StreamTyped
    <2> QED
        BY <2>1, <2>2, EntryOf
<1>3. /\ SubSeq(table, before + 1, last) \in Seq(1..Rows)
      /\ Len(SubSeq(table, before + 1, last)) = IF before + 1 <= last THEN last - (before + 1) + 1 ELSE 0
      /\ \A i \in 1..(last - (before + 1) + 1) : SubSeq(table, before + 1, last)[i] = table[(before + 1) + i - 1]
    <2>1. before + 1 \in Int /\ last \in Int
        BY <1>1
    <2> QED
        BY <1>2, <2>1, SubSeqProperties
<1>4. page = SubSeq(table, before + 1, last)
    OBVIOUS
<1> HIDE DEF last
<1>5. page \in Seq(1..Rows) /\ Len(page) = IF before < last THEN last - before ELSE 0
    BY <1>1, <1>3, <1>4
<1>6. \A i \in 1..Len(page) : page[i] = table[before + i]
    <2> TAKE i \in 1..Len(page)
    <2>1. i \in 1..(last - (before + 1) + 1) /\ (before + 1) + i - 1 = before + i
        BY <1>1, <1>5
    <2> QED
        BY <2>1, <1>3, <1>4
<1>7. before + Len(page) <= Len(table) \/ page = <<>>
    BY <1>1, <1>5
<1>8. page = <<>> => Len(table) <= before
    <2>1. page = <<>> => Len(page) = 0
        OBVIOUS
    <2>2. ~(before < last) => Len(table) <= before
        BY <1>1 DEF last
    <2> QED
        BY <2>1, <2>2, <1>1, <1>5
<1> QED
    BY <1>5, <1>6, <1>7, <1>8

-----------------------------------------------------------------------------
\* No record lies strictly between two positions.
Nothing(lo, hi) == \A id \in Input : ~(lo < id /\ id < hi)

\* The three answers: the next record; a null line, which ends the input; the end.
Found(item, q) ==
    /\ rd.at < item /\ q.at = item /\ (reader \in LineReader \/ deletes = 0 => item \in Input)
    /\ Nothing(rd.at, item) /\ NoNull(rd.at, item)
CutOff(q) ==
    /\ reader = "s3" /\ q.at \in 1..Len(Lines) /\ Lines[q.at] = "null"
    /\ rd.at < q.at /\ Nothing(rd.at, q.at) /\ NoNull(rd.at, q.at - 1)
AtEnd(q) ==
    /\ \A id \in Input : id <= rd.at
    /\ reader = "s3" => \A i \in 1..Len(Lines) : rd.at < i => Lines[i] # "null"
    /\ IF reader \in LineReader THEN q.at = Len(Lines) ELSE q.at = rd.at

\* A line reader's answers.
LEMMA LineAnswer ==
    ASSUME StreamTyped, PlaceInv, pc = "read", reader \in LineReader
    PROVE  /\ Answer.rd \in Readers /\ Answer.item \in Nat
           /\ Answer.item # 0 => Found(Answer.item, Answer.rd)
           /\ Answer.item = 0 => AtEnd(Answer.rd) \/ CutOff(Answer.rd)
<1>0. /\ Len(Lines) \in Nat /\ rd \in Readers /\ rd.at \in Nat
      /\ \A i \in 1..Len(Lines) : Lines[i] \in {"item", "blank", "null", "bad"}
    <2>1. Lines \in Seq({"item", "blank", "null", "bad"})
        BY ItemStreamsAssumption
    <2> QED
        BY <2>1, EntryOf DEF StreamTyped, Readers
<1>1. PICK i : i = NextLine(reader, rd.at)
    OBVIOUS
<1>2. /\ i \in Nat
      /\ i = 0 => \A j \in (rd.at + 1)..Len(Lines) : Passable(reader, Lines[j])
      /\ i # 0 => /\ i \in (rd.at + 1)..Len(Lines) /\ ~Passable(reader, Lines[i])
                  /\ \A j \in (rd.at + 1)..(i - 1) : Passable(reader, Lines[j])
    BY <1>0, <1>1, NextLineIs
<1>3. PICK a : a = Answer
    OBVIOUS
<1>4. a = [rd |-> [rd EXCEPT !.at = IF i = 0 THEN Len(Lines) ELSE i],
           item |-> IF i # 0 /\ Lines[i] = "null" THEN 0 ELSE i]
    BY <1>1, <1>3 DEF Answer, ReadLine
<1>5. /\ a.rd = [rd EXCEPT !.at = IF i = 0 THEN Len(Lines) ELSE i]
      /\ a.item = IF i # 0 /\ Lines[i] = "null" THEN 0 ELSE i
    BY <1>4
<1>6. a.rd \in Readers /\ a.rd.at = IF i = 0 THEN Len(Lines) ELSE i
    BY <1>0, <1>2, <1>5 DEF Readers
<1>7. Place(rd.at) /\ FirstPosition(reader) \in Nat
    BY DEF PlaceInv, FirstPosition
<1>8. Input = {id \in (FirstPosition(reader) + 1)..Len(Lines) : Lines[id] \in {"item", "bad"}}
    BY DEF Input
<1>9. ASSUME i = 0 PROVE a.item = 0 /\ AtEnd(a.rd)
    <2>1. \A id \in Input : id <= rd.at
        BY <1>0, <1>2, <1>7, <1>8, <1>9 DEF Passable
    <2>2. reader = "s3" => \A j \in 1..Len(Lines) : rd.at < j => Lines[j] # "null"
        BY <1>0, <1>2, <1>9 DEF Passable
    <2> QED
        BY <2>1, <2>2, <1>5, <1>6, <1>9 DEF AtEnd
<1>10. ASSUME i # 0 PROVE Nothing(rd.at, i) /\ NoNull(rd.at, i - 1)
    <2>1. Nothing(rd.at, i)
        BY <1>0, <1>2, <1>7, <1>8, <1>10 DEF Passable, Nothing
    <2>2. NoNull(rd.at, i - 1)
        BY <1>0, <1>2, <1>10 DEF Passable, NoNull
    <2> QED
        BY <2>1, <2>2
<1>11. ASSUME i # 0, Lines[i] = "null" PROVE a.item = 0 /\ CutOff(a.rd)
    <2>1. reader = "s3"
        BY <1>2, <1>11 DEF Passable
    <2> QED
        BY <2>1, <1>0, <1>2, <1>5, <1>6, <1>10, <1>11 DEF CutOff
<1>12. ASSUME i # 0, Lines[i] # "null" PROVE a.item = i /\ Found(a.item, a.rd)
    <2>1. i \in Input
        <3>1. Lines[i] \in {"item", "bad"}
            BY <1>0, <1>2, <1>12 DEF Passable
        <3>2. i \in (FirstPosition(reader) + 1)..Len(Lines)
            BY <1>0, <1>2, <1>7, <1>12 DEF Place
        <3> QED
            BY <3>1, <3>2, <1>8
    <2>2. NoNull(rd.at, i)
        <3>1. \A j \in 1..Len(Lines) : rd.at < j /\ j <= i => j = i \/ (rd.at < j /\ j <= i - 1)
            BY <1>0, <1>2
        <3> QED
            BY <3>1, <1>10, <1>12 DEF NoNull
    <2> QED
        BY <2>1, <2>2, <1>0, <1>2, <1>5, <1>6, <1>10, <1>12 DEF Found
<1> QED
    BY <1>2, <1>3, <1>5, <1>6, <1>9, <1>11, <1>12

\* The rows a table reader takes the next one from.
NextRows == IF rd.buffer = <<>> THEN Page(reader, rd.at) ELSE rd.buffer

\* The rows a read finds in the buffer, or fetches when it is empty.
LEMMA NextRowsAre ==
    ASSUME StreamTyped, Aligned, TableInv, BufferInv, PlaceInv, pc = "read", reader \in TableReader
    PROVE  /\ NextRows \in Seq(1..Rows) /\ Buffered(rd.at, NextRows)
           /\ NextRows = <<>> => \A k \in 1..Len(table) : table[k] <= rd.at
<1>0. /\ Len(table) \in Nat /\ rd \in Readers /\ rd.at \in Nat /\ rd.buffer \in Seq(1..Rows)
      /\ \A i \in 1..Len(table) : table[i] \in Nat
    <2>1. table \in Seq(1..Rows) /\ rd \in Readers /\ Rows \in Nat
        BY ItemStreamsAssumption DEF StreamTyped
    <2> QED
        BY <2>1, EntryOf DEF Readers
<1>1. CASE rd.buffer # <<>>
    BY <1>0, <1>1 DEF NextRows, BufferInv
<1>2. CASE rd.buffer = <<>>
    <2>1. PICK before \in Nat : before = IF reader = "paging" THEN rd.at ELSE UpTo(rd.at)
        BY <1>0, UpToIs, SMTT(20)
    <2>2. \A k \in 1..Len(table) : table[k] <= rd.at <=> k <= before
        <3>1. CASE reader = "paging"
            <4>1. \A k \in 1..Len(table) : table[k] = k
                BY <3>1 DEF Aligned, TableInv
            <4> QED
                BY <4>1, <3>1, <2>1
        <3>2. CASE reader # "paging"
            BY <1>0, <3>2, <2>1, UpToIs
        <3> QED
            BY <3>1, <3>2
    <2>3. PICK page : page = SubSeq(table, before + 1, IF before + PageSize < Len(table)
                                                       THEN before + PageSize ELSE Len(table))
        OBVIOUS
    <2>4. /\ page \in Seq(1..Rows)
          /\ before + Len(page) <= Len(table) \/ page = <<>>
          /\ \A i \in 1..Len(page) : page[i] = table[before + i]
          /\ page = <<>> => Len(table) <= before
        BY <2>3, PageIs
    <2>5. NextRows = page
        BY <1>2, <2>1, <2>3 DEF NextRows, Page
    <2>6. /\ Len(page) \in Nat
          /\ \A i \in 1..Len(page) : before + i \in 1..Len(table) /\ page[i] \in Nat
        <3>1. \A i \in 1..Len(page) : page # <<>>
            BY <2>4
        <3> QED
            BY <1>0, <2>4, <3>1
    <2>7. \A i \in 1..Len(page) : page[i] > rd.at
        BY <1>0, <2>2, <2>4, <2>6
    <2>8. \A i, j \in 1..Len(page) : i < j => page[i] < page[j]
        BY <2>4, <2>6 DEF TableInv
    <2>9. ASSUME NEW k \in 1..Len(table), table[k] > rd.at
          PROVE  \/ \E i \in 1..Len(page) : page[i] = table[k]
                 \/ \A i \in 1..Len(page) : page[i] < table[k]
        <3>1. k > before
            BY <1>0, <2>2, <2>9
        <3>2. CASE k <= before + Len(page)
            <4>1. k - before \in 1..Len(page) /\ before + (k - before) = k
                BY <1>0, <2>6, <3>1, <3>2
            <4> QED
                BY <4>1, <2>4
        <3>3. CASE k > before + Len(page)
            BY <1>0, <2>4, <2>6, <3>3 DEF TableInv
        <3> QED
            BY <1>0, <2>6, <3>2, <3>3
    <2>10. ASSUME reader = "paging"
           PROVE  (\A i \in 1..Len(page) : page[i] = rd.at + i) /\ rd.at + Len(page) <= Rows
        <3>1. Len(table) = Rows /\ before = rd.at /\ \A i \in 1..Rows : table[i] = i
            BY <2>1, <2>10 DEF Aligned, TableInv
        <3>2. rd.at <= Rows
            BY <2>10 DEF PlaceInv, Place, LineReader
        <3>3. page = <<>> => Len(page) = 0
            OBVIOUS
        <3> QED
            BY <1>0, <2>4, <2>6, <3>1, <3>2, <3>3
    <2>11. page = <<>> => \A k \in 1..Len(table) : table[k] <= rd.at
        BY <1>0, <2>2, <2>4
    <2> QED
        BY <2>4, <2>5, <2>7, <2>8, <2>9, <2>10, <2>11 DEF Buffered
<1> QED
    BY <1>1, <1>2

\* The answer of a table reader in terms of those rows.
LEMMA RowAnswerIs ==
    ASSUME reader \in TableReader
    PROVE  /\ NextRows = <<>> => Answer.rd = rd /\ Answer.item = 0
           /\ NextRows # <<>> =>
                 /\ Answer.rd = [at |-> IF reader = "paging" THEN rd.at + 1 ELSE Head(NextRows),
                                 buffer |-> Tail(NextRows)]
                 /\ Answer.item = Head(NextRows)
<1>1. reader \notin LineReader
    BY DEF TableReader, LineReader
<1>2. PICK rows : rows = NextRows
    OBVIOUS
<1>3. Answer = IF rows = <<>> THEN [rd |-> rd, item |-> 0]
               ELSE [rd |-> [at |-> IF reader = "paging" THEN rd.at + 1 ELSE Head(rows), buffer |-> Tail(rows)],
                     item |-> Head(rows)]
    BY <1>1, <1>2 DEF Answer, ReadRow, NextRows
<1> QED
    BY <1>2, <1>3

\* A table reader: the next row by id, or the end.
LEMMA RowAnswer ==
    ASSUME StreamTyped, Aligned, TableInv, BufferInv, PlaceInv, pc = "read", reader \in TableReader
    PROVE  /\ Answer.rd \in Readers /\ Answer.item \in Nat
           /\ Answer.item # 0 => Found(Answer.item, Answer.rd)
           /\ Answer.item = 0 => AtEnd(Answer.rd)
           /\ Buffered(Answer.rd.at, Answer.rd.buffer)
           /\ Answer.item <= Rows
<1>0. rd \in Readers /\ rd.at \in Nat /\ rd.buffer \in Seq(1..Rows) /\ Rows \in Nat /\ Len(table) \in Nat
    BY ItemStreamsAssumption DEF StreamTyped, Readers
<1>1. /\ reader \notin LineReader /\ reader # "s3"
      /\ Input = {table[i] : i \in 1..Len(table)}
    <2>1. reader \notin LineReader /\ reader # "s3"
        BY DEF TableReader, LineReader
    <2>2. table \in Seq(1..Rows)
        BY DEF StreamTyped
    <2> QED
        BY <2>1, <2>2 DEF Input
<1>2. PICK rows \in Seq(1..Rows) : rows = NextRows
    BY NextRowsAre
<1>3. Buffered(rd.at, rows) /\ (rows = <<>> => \A k \in 1..Len(table) : table[k] <= rd.at)
    BY <1>2, NextRowsAre
<1>4. CASE rows = <<>>
    <2>1. Answer.rd = rd /\ Answer.item = 0
        BY <1>2, <1>4, RowAnswerIs
    <2>2. AtEnd(rd)
        BY <1>1, <1>3, <1>4 DEF AtEnd
    <2>3. Buffered(rd.at, rd.buffer)
        BY DEF BufferInv
    <2> QED
        BY <2>1, <2>2, <2>3, <1>0
<1>5. CASE rows # <<>>
    <2>1. PICK head \in 1..Rows, tail \in Seq(1..Rows) :
              /\ head = Head(rows) /\ tail = Tail(rows)
              /\ Len(tail) = Len(rows) - 1 /\ \A i \in 1..Len(tail) : tail[i] = rows[i + 1]
        <3>1. /\ Head(rows) \in 1..Rows /\ Tail(rows) \in Seq(1..Rows)
              /\ Len(Tail(rows)) = Len(rows) - 1
              /\ \A i \in 1..Len(Tail(rows)) : Tail(rows)[i] = rows[i + 1]
            BY <1>5, HeadTailProperties
        <3> QED
            BY <3>1
    <2>2. Len(rows) \in Nat /\ Len(rows) > 0 /\ head = rows[1] /\ Len(tail) \in Nat
        BY <1>5, <2>1
    <2>2a. \A i \in 1..Len(rows) : rows[i] \in Nat
        <3>1. \A i \in 1..Len(rows) : rows[i] \in 1..Rows
            BY EntryOf
        <3> QED
            BY <3>1, <1>0
    <2>3. /\ \A i \in 1..Len(rows) : rows[i] > rd.at
          /\ \A i, j \in 1..Len(rows) : i < j => rows[i] < rows[j]
          /\ \A k \in 1..Len(table) : table[k] > rd.at =>
                \/ \E i \in 1..Len(rows) : rows[i] = table[k]
                \/ \A i \in 1..Len(rows) : rows[i] < table[k]
          /\ reader = "paging" => /\ \A i \in 1..Len(rows) : rows[i] = rd.at + i
                                  /\ rd.at + Len(rows) <= Rows
        BY <1>3 DEF Buffered
    <2>4. Answer.rd = [at |-> head, buffer |-> tail] /\ Answer.item = head
        <3>1. reader = "paging" => rd.at + 1 = head
            BY <2>2, <2>3
        <3> QED
            BY <1>2, <1>5, <2>1, <3>1, RowAnswerIs
    <2>5. \A k \in 1..Len(table) : table[k] \in Nat
        <3>1. table \in Seq(1..Rows)
            BY DEF StreamTyped
        <3>2. \A k \in 1..Len(table) : table[k] \in 1..Rows
            BY <3>1, EntryOf
        <3> QED
            BY <3>2, <1>0
    <2>6. ASSUME NEW k \in 1..Len(table), rd.at < table[k] PROVE ~(table[k] < head)
        <3>0. 1 \in 1..Len(rows) /\ table[k] \in Nat /\ head \in Nat /\ head = rows[1] /\ table[k] > rd.at
            BY <1>0, <2>2, <2>5, <2>6
        <3>1. ASSUME NEW i \in 1..Len(rows), rows[i] = table[k] PROVE ~(table[k] < head)
            <4>1. i = 1 \/ rows[1] < rows[i]
                BY <2>2, <2>3
            <4> QED
                BY <3>0, <3>1, <4>1
        <3>2. ASSUME \A i \in 1..Len(rows) : rows[i] < table[k] PROVE ~(table[k] < head)
            <4>1. rows[1] < table[k]
                BY <3>0, <3>2
            <4> QED
                BY <3>0, <4>1
        <3> QED
            BY <3>0, <3>1, <3>2, <2>3
    <2>7. Nothing(rd.at, head)
        BY <2>6, <1>1 DEF Nothing
    <2>8. deletes = 0 => head \in Input
        BY <1>1, <1>0 DEF TableInv
    <2>9. Found(head, [at |-> head, buffer |-> tail])
        <3>1. rd.at < head
            BY <1>0, <2>2, <2>3
        <3> QED
            BY <1>1, <2>7, <2>8, <3>1 DEF Found, NoNull
    <2>10. Buffered(head, tail)
        <3>1. \A i \in 1..Len(tail) : tail[i] > head
            BY <2>1, <2>2, <2>2a, <2>3
        <3>2. \A i, j \in 1..Len(tail) : i < j => tail[i] < tail[j]
            BY <2>1, <2>2, <2>2a, <2>3
        <3>3. ASSUME NEW k \in 1..Len(table), table[k] > head
              PROVE  \/ \E i \in 1..Len(tail) : tail[i] = table[k]
                     \/ \A i \in 1..Len(tail) : tail[i] < table[k]
            <4>1. table[k] > rd.at
                BY <1>0, <2>2, <2>2a, <2>3, <2>5, <3>3, SMTT(20)
            <4>2. ASSUME NEW i \in 1..Len(rows), rows[i] = table[k] PROVE \E j \in 1..Len(tail) : tail[j] = table[k]
                <5>1. i # 1
                    BY <2>2, <2>2a, <3>3, <4>2
                <5>2. i - 1 \in 1..Len(tail) /\ (i - 1) + 1 = i
                    BY <5>1, <2>1, <2>2
                <5> QED
                    BY <5>2, <2>1, <4>2
            <4>3. ASSUME \A i \in 1..Len(rows) : rows[i] < table[k] PROVE \A i \in 1..Len(tail) : tail[i] < table[k]
                BY <4>3, <2>1, <2>2
            <4> QED
                BY <4>1, <4>2, <4>3, <2>3
        <3>4. reader = "paging" => /\ \A i \in 1..Len(tail) : tail[i] = head + i
                                   /\ head + Len(tail) <= Rows
            <4> SUFFICES ASSUME reader = "paging"
                         PROVE  /\ \A i \in 1..Len(tail) : tail[i] = head + i
                                /\ head + Len(tail) <= Rows
                OBVIOUS
            <4>1. 1 \in 1..Len(rows) /\ \A i \in 1..Len(tail) : i + 1 \in 1..Len(rows)
                BY <2>1, <2>2
            <4>2. head = rd.at + 1 /\ \A i \in 1..Len(tail) : tail[i] = rd.at + (i + 1)
                BY <2>1, <2>2, <2>3, <4>1
            <4>3. rd.at + Len(rows) <= Rows
                BY <2>3
            <4>4. \A i \in 1..Len(tail) : tail[i] = head + i
                <5> TAKE i \in 1..Len(tail)
                <5>1. PICK at \in Nat : at = rd.at
                    BY <1>0
                <5>2. tail[i] = at + (i + 1) /\ head = at + 1 /\ i \in Nat
                    BY <4>2, <5>1, <2>2
                <5> QED
                    BY <5>2
            <4> QED
                BY <4>2, <4>3, <4>4, <1>0, <2>1, <2>2
        <3> QED
            BY <3>1, <3>2, <3>3, <3>4 DEF Buffered
    <2>11. [at |-> head, buffer |-> tail] \in Readers
        BY <1>0 DEF Readers
    <2> QED
        BY <1>0, <2>4, <2>9, <2>10, <2>11
<1> QED
    BY <1>4, <1>5

\* Whatever the reader, and whether or not its position counts rows still there.
LEMMA AnswerTyped ==
    ASSUME StreamInv, pc = "read"
    PROVE  Answer.rd \in Readers /\ Answer.item \in Nat
<1>1. StreamTyped /\ (Aligned => TableInv /\ BufferInv /\ PlaceInv)
    BY DEF StreamInv
<1>2. CASE ~Aligned
    <2>1. reader = "paging" /\ reader \in TableReader /\ rd \in Readers /\ rd.at \in Nat /\ rd.buffer \in Seq(1..Rows)
        BY <1>1, <1>2 DEF Aligned, TableReader, StreamTyped, Readers
    <2>2. NextRows \in Seq(1..Rows)
        <3>1. PICK page : page = SubSeq(table, rd.at + 1, IF rd.at + PageSize < Len(table)
                                                         THEN rd.at + PageSize ELSE Len(table))
            OBVIOUS
        <3>2. page \in Seq(1..Rows)
            BY <1>1, <2>1, <3>1, PageIs
        <3> QED
            BY <2>1, <3>1, <3>2 DEF NextRows, Page
    <2>3. NextRows # <<>> => Head(NextRows) \in 1..Rows /\ Tail(NextRows) \in Seq(1..Rows)
        BY <2>2, HeadTailProperties
    <2>4. NextRows = <<>> => Answer.rd = rd /\ Answer.item = 0
        BY <2>1, RowAnswerIs
    <2>5. NextRows # <<>> => /\ Answer.rd = [at |-> rd.at + 1, buffer |-> Tail(NextRows)]
                             /\ Answer.item = Head(NextRows)
        BY <2>1, RowAnswerIs
    <2>6. CASE NextRows = <<>>
        BY <2>1, <2>4, <2>6
    <2>7. CASE NextRows # <<>>
        <3>1. rd.at + 1 \in Nat
            BY <2>1
        <3>2. [at |-> rd.at + 1, buffer |-> Tail(NextRows)] \in Readers
            BY <2>3, <2>7, <3>1 DEF Readers
        <3>3. Head(NextRows) \in Nat
            BY <2>3, <2>7, ItemStreamsAssumption
        <3> QED
            BY <2>5, <2>7, <3>2, <3>3
    <2> QED
        BY <2>6, <2>7
<1>3. CASE Aligned
    <2>1. reader \in LineReader \/ reader \in TableReader
        BY <1>1 DEF StreamTyped
    <2> QED
        BY <1>1, <1>3, <2>1, LineAnswer, RowAnswer
<1> QED
    BY <1>2, <1>3

-----------------------------------------------------------------------------
(***************************************************************************)
(* What a write and another client's deletion leave.                       *)
(***************************************************************************)
\* A file is extended by the chunk, a header of h lines before it.
Appended(h) ==
    /\ h \in 0..1
    /\ Len(file') = Len(file) + h + Len(chunk)
    /\ \A i \in 1..Len(file) : file'[i] = file[i]
    /\ h = 1 => file'[Len(file) + 1] = Header
    /\ \A i \in 1..Len(chunk) : file'[Len(file) + h + i] = chunk[i]

\* A file or table writer appends the chunk, the header once before it.
LEMMA FileTaken ==
    ASSUME StreamTyped, Taken, writer # "s3"
    PROVE  /\ file' \in Seq(Nat) /\ objects' = objects
           /\ \E h \in 0..1 : Appended(h)
<1>1. PICK hl \in Seq(Nat) : hl = HeaderLines /\ Len(hl) \in 0..1 /\ (Len(hl) = 1 => hl[1] = Header)
    <2>1. <<Header>> \in Seq(Nat) /\ <<>> \in Seq(Nat) /\ Len(<<Header>>) = 1 /\ <<Header>>[1] = Header
        BY DEF Header
    <2>2. Len(<<>>) = 0 /\ Len(<<>>) \in 0..1 /\ Len(<<Header>>) \in 0..1
        OBVIOUS
    <2>3. HeaderLines = <<Header>> \/ HeaderLines = <<>>
        BY DEF HeaderLines
    <2>4. HeaderLines \in Seq(Nat) /\ Len(HeaderLines) \in 0..1
        BY <2>1, <2>2, <2>3
    <2>5. Len(HeaderLines) = 1 => HeaderLines[1] = Header
        BY <2>1, <2>2, <2>3
    <2> QED
        BY <2>4, <2>5
<1>2. file \in Seq(Nat) /\ chunk \in Seq(Nat) /\ Len(file) \in Nat /\ Len(chunk) \in Nat
    <2>1. chunk \in Seq(Nat \ {0})
        BY DEF StreamTyped
    <2>2. \A i \in 1..Len(chunk) : chunk[i] \in Nat
        BY <2>1, EntryOf
    <2> QED
        BY <2>1, <2>2 DEF StreamTyped
<1>3. PICK first \in Seq(Nat) :
          /\ first = file \o hl /\ Len(first) = Len(file) + Len(hl)
          /\ \A i \in 1..(Len(file) + Len(hl)) : first[i] = IF i <= Len(file) THEN file[i] ELSE hl[i - Len(file)]
    <2>1. /\ file \o hl \in Seq(Nat)
          /\ Len(file \o hl) = Len(file) + Len(hl)
          /\ \A i \in 1..(Len(file) + Len(hl)) :
                (file \o hl)[i] = IF i <= Len(file) THEN file[i] ELSE hl[i - Len(file)]
        BY <1>1, <1>2, ConcatProperties
    <2> QED
        BY <2>1
<1>4. PICK whole \in Seq(Nat) :
          /\ whole = first \o chunk /\ Len(whole) = Len(first) + Len(chunk)
          /\ \A i \in 1..(Len(first) + Len(chunk)) :
                whole[i] = IF i <= Len(first) THEN first[i] ELSE chunk[i - Len(first)]
    <2>1. /\ first \o chunk \in Seq(Nat)
          /\ Len(first \o chunk) = Len(first) + Len(chunk)
          /\ \A i \in 1..(Len(first) + Len(chunk)) :
                (first \o chunk)[i] = IF i <= Len(first) THEN first[i] ELSE chunk[i - Len(first)]
        BY <1>2, <1>3, ConcatProperties
    <2> QED
        BY <2>1
<1>5. file' = whole /\ objects' = objects
    BY <1>1, <1>3, <1>4 DEF Taken
<1>6. \A i \in 1..Len(file) : whole[i] = file[i]
    BY <1>1, <1>2, <1>3, <1>4
<1>7. Len(hl) = 1 => whole[Len(file) + 1] = Header
    BY <1>1, <1>2, <1>3, <1>4
<1>8. \A i \in 1..Len(chunk) : whole[Len(file) + Len(hl) + i] = chunk[i]
    <2> TAKE i \in 1..Len(chunk)
    <2>1. PICK k \in Nat : k = Len(file) + Len(hl) + i
        BY <1>1, <1>2
    <2>2. k \in 1..(Len(first) + Len(chunk)) /\ ~(k <= Len(first)) /\ k - Len(first) = i
        BY <2>1, <1>1, <1>2, <1>3
    <2> QED
        BY <2>1, <2>2, <1>4
<1>9. Appended(Len(hl))
    BY <1>1, <1>2, <1>3, <1>4, <1>5, <1>6, <1>7, <1>8 DEF Appended
<1> QED
    BY <1>1, <1>4, <1>5, <1>9

\* The records of the chunk in hand.
Handful == {chunk[i] : i \in 1..Len(chunk)}

\* S3's writer puts the chunk as the object of its number.
LEMMA ObjectTaken ==
    ASSUME StreamTyped, Taken, writer = "s3"
    PROVE  /\ file' = file /\ objects' \in [ChunkNumbers -> SUBSET Nat]
           /\ \A k \in ChunkNumbers : objects'[k] = IF k = wr.chunk THEN Handful ELSE objects[k]
<1>1. chunk \in Seq(Nat \ {0})
    BY DEF StreamTyped
<1>2. Handful = {chunk[i] : i \in DOMAIN chunk}
    BY <1>1 DEF Handful
<1>3. Handful \subseteq Nat
    BY <1>1, EntryOf DEF Handful
<1>4. file' = file /\ objects' = [objects EXCEPT ![wr.chunk] = Handful]
    BY <1>2 DEF Taken
<1>5. objects \in [ChunkNumbers -> SUBSET Nat]
    BY DEF StreamTyped
<1> QED
    BY <1>3, <1>4, <1>5

\* Either way what was written stays of its type.
LEMMA TakenTyped ==
    ASSUME StreamTyped, Taken
    PROVE  file' \in Seq(Nat) /\ objects' \in [ChunkNumbers -> SUBSET Nat]
<1>1. CASE writer = "s3"
    BY <1>1, ObjectTaken DEF StreamTyped
<1>2. CASE writer # "s3"
    BY <1>2, FileTaken DEF StreamTyped
<1> QED
    BY <1>1, <1>2

\* The table without its row i.
Without(i) == SubSeq(table, 1, i - 1) \o SubSeq(table, i + 1, Len(table))

\* The table without its i-th row.
LEMMA RowDeleted ==
    ASSUME StreamTyped, NEW i \in 1..Len(table), NEW left,
           left = Without(i)
    PROVE  /\ left \in Seq(1..Rows) /\ Len(left) = Len(table) - 1
           /\ \A k \in 1..Len(left) : left[k] = IF k < i THEN table[k] ELSE table[k + 1]
<1>1. table \in Seq(1..Rows) /\ Len(table) \in Nat /\ i \in 1..Len(table)
    BY DEF StreamTyped
<1>2. \A k \in 1..Len(table) : table[k] \in 1..Rows
    BY <1>1, EntryOf
<1>3. /\ SubSeq(table, 1, i - 1) \in Seq(1..Rows)
      /\ Len(SubSeq(table, 1, i - 1)) = IF 1 <= i - 1 THEN (i - 1) - 1 + 1 ELSE 0
      /\ \A k \in 1..((i - 1) - 1 + 1) : SubSeq(table, 1, i - 1)[k] = table[1 + k - 1]
    <2>1. \A k \in 1..(i - 1) : table[k] \in 1..Rows
        BY <1>1, <1>2
    <2>2. i - 1 \in Int
        BY <1>1
    <2> QED
        BY <2>1, <2>2, SubSeqProperties
<1>4. /\ SubSeq(table, i + 1, Len(table)) \in Seq(1..Rows)
      /\ Len(SubSeq(table, i + 1, Len(table))) = IF i + 1 <= Len(table) THEN Len(table) - (i + 1) + 1 ELSE 0
      /\ \A k \in 1..(Len(table) - (i + 1) + 1) : SubSeq(table, i + 1, Len(table))[k] = table[(i + 1) + k - 1]
    <2>1. \A k \in (i + 1)..Len(table) : table[k] \in 1..Rows
        BY <1>1, <1>2
    <2>2. i + 1 \in Int /\ Len(table) \in Int
        BY <1>1
    <2> QED
        BY <2>1, <2>2, SubSeqProperties
<1>5. PICK before \in Seq(1..Rows) :
          /\ before = SubSeq(table, 1, i - 1) /\ Len(before) = i - 1
          /\ \A k \in 1..(i - 1) : before[k] = table[k]
    <2>1. Len(SubSeq(table, 1, i - 1)) = i - 1
        BY <1>1, <1>3
    <2>2. \A k \in 1..(i - 1) : SubSeq(table, 1, i - 1)[k] = table[k]
        BY <1>1, <1>3
    <2> QED
        BY <2>1, <2>2, <1>3
<1>6. PICK after \in Seq(1..Rows) :
          /\ after = SubSeq(table, i + 1, Len(table)) /\ Len(after) = Len(table) - i
          /\ \A k \in 1..(Len(table) - i) : after[k] = table[i + k]
    <2>1. Len(SubSeq(table, i + 1, Len(table))) = Len(table) - i
        BY <1>1, <1>4
    <2>2. \A k \in 1..(Len(table) - i) : SubSeq(table, i + 1, Len(table))[k] = table[i + k]
        <3> TAKE k \in 1..(Len(table) - i)
        <3>1. k \in 1..(Len(table) - (i + 1) + 1) /\ (i + 1) + k - 1 = i + k
            BY <1>1
        <3> QED
            BY <3>1, <1>4
    <2> QED
        BY <2>1, <2>2, <1>4
<1>7. /\ before \o after \in Seq(1..Rows)
      /\ Len(before \o after) = Len(before) + Len(after)
      /\ \A k \in 1..(Len(before) + Len(after)) :
            (before \o after)[k] = IF k <= Len(before) THEN before[k] ELSE after[k - Len(before)]
    BY ConcatProperties
<1>8. /\ left \in Seq(1..Rows) /\ Len(left) = (i - 1) + (Len(table) - i) /\ Len(left) \in Nat
      /\ \A k \in 1..Len(left) : left[k] = IF k <= i - 1 THEN before[k] ELSE after[k - (i - 1)]
    <2>1. left = before \o after
        BY <1>5, <1>6 DEF Without
    <2>2. left \in Seq(1..Rows) /\ Len(left) = Len(before) + Len(after)
        BY <1>7, <2>1
    <2>3. Len(left) = (i - 1) + (Len(table) - i) /\ Len(left) \in Nat
        <3>1. Len(before) = i - 1
            BY <1>5
        <3>2. Len(after) = Len(table) - i
            BY <1>6
        <3>3. Len(left) = (i - 1) + (Len(table) - i)
            BY <2>2, <3>1, <3>2
        <3> QED
            BY <2>2, <3>3
    <2>4. \A k \in 1..Len(left) : left[k] = IF k <= Len(before) THEN before[k] ELSE after[k - Len(before)]
        BY <1>7, <2>1, <2>2
    <2> QED
        BY <1>5, <2>2, <2>3, <2>4
<1>9. ASSUME NEW k \in 1..Len(left) PROVE left[k] = IF k < i THEN table[k] ELSE table[k + 1]
    <2>1. k \in Nat /\ k >= 1 /\ k <= (i - 1) + (Len(table) - i)
        <3>1. Len(left) \in Nat /\ k <= Len(left)
            BY <1>8
        <3>2. Len(left) = (i - 1) + (Len(table) - i)
            BY <1>8
        <3> QED
            BY <3>1, <3>2
    <2>2. CASE k < i
        <3>1. k <= i - 1 /\ k \in 1..(i - 1)
            BY <1>1, <2>1, <2>2
        <3> QED
            BY <3>1, <2>1, <2>2, <1>5, <1>8
    <2>3. CASE k >= i
        <3>1. ~(k <= i - 1) /\ ~(k < i) /\ k - (i - 1) \in 1..(Len(table) - i) /\ i + (k - (i - 1)) = k + 1
            BY <1>1, <2>1, <2>3
        <3> QED
            BY <3>1, <1>6, <1>8
    <2> QED
        BY <1>1, <2>1, <2>2, <2>3
<1> QED
    <2>1. Len(left) = Len(table) - 1
        <3>1. Len(left) = (i - 1) + (Len(table) - i)
            BY <1>8
        <3> QED
            BY <1>1, <3>1
    <2> QED
        BY <1>8, <1>9, <2>1

-----------------------------------------------------------------------------
(***************************************************************************)
(* The types, and the meaning of a position.                               *)
(***************************************************************************)
\* A step leaves a paging reader's position meaning what it did only if it did
\* before.
LEMMA AlignedBefore ==
    ASSUME StreamTyped, [Next]_vars, Aligned'
    PROVE  Aligned
<1>1. reader' = reader /\ (deletes' = deletes \/ deletes' = deletes + 1)
    BY DEF Next, vars, config, repo, target, history, StartRun, ReadItem, EndRead, ReadThrows, WriteChunk,
           WriteThrows, SaveCheckpoint, FailStep, FinishStep, Crash, DeleteRow
<1> QED
    BY <1>1 DEF Aligned, StreamTyped

\* Every step keeps the types.
LEMMA TypedStep ==
    ASSUME StreamInv, [Next]_vars
    PROVE  StreamTyped'
<1>0. /\ StreamTyped /\ rd \in Readers /\ saved \in Checkpoints /\ chunk \in Seq(Nat \ {0})
      /\ slot \in 0..ChunkSize /\ ChunkSize \in Nat \ {0} /\ runs \in Nat /\ deletes \in Nat
      /\ wr \in [header : BOOLEAN, chunk : Nat]
    BY ItemStreamsAssumption DEF StreamInv, StreamTyped
<1>1. ASSUME StartRun PROVE StreamTyped'
    <2>1. FreshContext \in Checkpoints
        BY DEF FreshContext, FirstPosition, Checkpoints
    <2>2. PICK ctx \in Checkpoints : ctx = IF resumable THEN saved ELSE FreshContext
        BY <1>0, <2>1
    <2>3. /\ saved' = ctx /\ rd' = [at |-> ctx.at, buffer |-> <<>>]
          /\ wr' = [header |-> ctx.header, chunk |-> ctx.chunk]
        BY <1>1, <2>2 DEF StartRun
    <2>4. rd' \in Readers /\ wr' \in [header : BOOLEAN, chunk : Nat]
        BY <2>2, <2>3 DEF Readers, Checkpoints
    <2>5. <<>> \in Seq(Nat \ {0}) /\ runs + 1 \in Nat /\ 0 \in 0..ChunkSize
        BY <1>0
    <2> QED
        BY <1>0, <1>1, <2>3, <2>4, <2>5 DEF StartRun, StreamTyped, config, target, Pcs
<1>2. ASSUME ReadItem PROVE StreamTyped'
    <2>1. Answer.rd \in Readers /\ Answer.item \in Nat \ {0}
        BY <1>2, AnswerTyped DEF ReadItem
    <2>2. Append(chunk, Answer.item) \in Seq(Nat \ {0})
        BY <1>0, <2>1, AppendProperties
    <2>3. slot + 1 \in 0..ChunkSize
        BY <1>0, <1>2 DEF ReadItem
    <2> QED
        BY <1>0, <1>2, <2>1, <2>2, <2>3 DEF ReadItem, StreamTyped, config, repo, target, history
<1>3. ASSUME EndRead PROVE StreamTyped'
    <2>1. rd' \in Readers
        BY <1>0, <1>3, AnswerTyped DEF EndRead
    <2> QED
        BY <1>0, <1>3, <2>1 DEF EndRead, StreamTyped, config, repo, target, history, Pcs
<1>4. ASSUME ReadThrows PROVE StreamTyped'
    <2>1. rd' \in Readers
        BY <1>0, <1>4, AnswerTyped DEF ReadThrows
    <2>2. slot' \in 0..ChunkSize /\ pc' \in Pcs
        BY <1>0, <1>4 DEF ReadThrows, Pcs
    <2> QED
        BY <1>0, <1>4, <2>1, <2>2 DEF ReadThrows, StreamTyped, config, repo, target
<1>5. ASSUME WriteChunk PROVE StreamTyped'
    <2>1. file' \in Seq(Nat) /\ objects' \in [ChunkNumbers -> SUBSET Nat]
        BY <1>0, <1>5, TakenTyped DEF WriteChunk
    <2>2. wr' \in [header : BOOLEAN, chunk : Nat]
        BY <1>0, <1>5 DEF WriteChunk, WriteDone
    <2> QED
        BY <1>0, <1>5, <2>1, <2>2 DEF WriteChunk, StreamTyped, config, repo, history, Pcs
<1>6. ASSUME WriteThrows PROVE StreamTyped'
    <2>1. file' \in Seq(Nat) /\ objects' \in [ChunkNumbers -> SUBSET Nat]
        <3>1. CASE Taken
            BY <1>0, <3>1, TakenTyped
        <3>2. CASE UNCHANGED target
            BY <1>0, <3>2 DEF target, StreamTyped
        <3> QED
            BY <1>6, <3>1, <3>2 DEF WriteThrows
    <2>2. wr' \in [header : BOOLEAN, chunk : Nat]
        BY <1>0, <1>6 DEF WriteThrows, WriteFailed
    <2>3. pc' \in Pcs
        BY <1>0, <1>6 DEF WriteThrows, Pcs
    <2> QED
        BY <1>0, <1>6, <2>1, <2>2, <2>3 DEF WriteThrows, StreamTyped, config, repo
<1>7. ASSUME SaveCheckpoint PROVE StreamTyped'
    <2>1. saved' \in Checkpoints
        BY <1>0, <1>7 DEF SaveCheckpoint, Checkpoints, Readers
    <2>2. <<>> \in Seq(Nat \ {0}) /\ 0 \in 0..ChunkSize
        BY <1>0
    <2> QED
        BY <1>0, <1>7, <2>1, <2>2 DEF SaveCheckpoint, StreamTyped, config, target, history, Pcs
<1>8. ASSUME FailStep \/ FinishStep \/ Crash PROVE StreamTyped'
    BY <1>0, <1>8 DEF FailStep, FinishStep, Crash, StreamTyped, config, repo, target, history, Pcs
<1>9. ASSUME NEW i \in 1..Rows, DeleteRow(i) PROVE StreamTyped'
    <2>1. i \in 1..Len(table)
        BY <1>0, <1>9 DEF DeleteRow, StreamTyped
    <2>2. table' = Without(i)
        BY <1>9 DEF DeleteRow, Without
    <2>3. table' \in Seq(1..Rows) /\ Len(table') = Len(table) - 1
        BY <1>0, <2>1, <2>2, RowDeleted
    <2>4. Len(table') <= Rows
        BY <1>0, <2>3, ItemStreamsAssumption DEF StreamTyped
    <2>5. deletes' \in Nat
        BY <1>0, <1>9 DEF DeleteRow
    <2> QED
        BY <1>0, <1>9, <2>3, <2>4, <2>5 DEF DeleteRow, StreamTyped, config, repo, target, history
<1>10. ASSUME UNCHANGED vars PROVE StreamTyped'
    BY <1>0, <1>10 DEF vars, StreamTyped, config, repo, target, history
<1> QED
    BY <1>1, <1>2, <1>3, <1>4, <1>5, <1>6, <1>7, <1>8, <1>9, <1>10 DEF Next

\* Only a deletion changes the table.
LEMMA TableKept ==
    ASSUME [Next]_vars, ~(\E i \in 1..Rows : DeleteRow(i))
    PROVE  table' = table /\ reader' = reader /\ deletes' = deletes /\ onRead' = onRead /\ writer' = writer
BY DEF Next, vars, config, repo, target, history, StartRun, ReadItem, EndRead, ReadThrows, WriteChunk,
       WriteThrows, SaveCheckpoint, FailStep, FinishStep, Crash

\* What a deletion leaves of the table.
LEMMA RowsLeft ==
    ASSUME StreamTyped, NEW i \in 1..Rows, DeleteRow(i)
    PROVE  /\ Len(table') = Len(table) - 1
           /\ reader' = reader /\ deletes' > 0
           /\ \A k \in 1..Len(table') : \E j \in 1..Len(table) :
                 j = (IF k < i THEN k ELSE k + 1) /\ table'[k] = table[j]
<1>1. i \in 1..Len(table) /\ Len(table) \in Nat
    BY DEF DeleteRow, StreamTyped
<1>2. table' = Without(i)
    BY DEF DeleteRow, Without
<1>3. Len(table') = Len(table) - 1 /\ \A k \in 1..Len(table') : table'[k] = IF k < i THEN table[k] ELSE table[k + 1]
    BY <1>1, <1>2, RowDeleted
<1>4. ASSUME NEW k \in 1..Len(table')
      PROVE  \E j \in 1..Len(table) : j = (IF k < i THEN k ELSE k + 1) /\ table'[k] = table[j]
    <2>1. (IF k < i THEN k ELSE k + 1) \in 1..Len(table)
        BY <1>1, <1>3
    <2> QED
        BY <2>1, <1>3
<1>5. reader' = reader /\ deletes' > 0
    BY DEF DeleteRow, config, StreamTyped
<1> QED
    BY <1>3, <1>4, <1>5

\* The table stays in the order of its ids.
LEMMA TableStep ==
    ASSUME StreamInv, [Next]_vars, Aligned'
    PROVE  TableInv'
<1>0. StreamTyped /\ TableInv /\ Len(table) \in Nat
    BY AlignedBefore DEF StreamInv, StreamTyped
<1>1. ASSUME NEW i \in 1..Rows, DeleteRow(i) PROVE TableInv'
    <2>1. /\ Len(table') = Len(table) - 1 /\ deletes' > 0
          /\ \A k \in 1..Len(table') : \E j \in 1..Len(table) :
                j = (IF k < i THEN k ELSE k + 1) /\ table'[k] = table[j]
        BY <1>0, <1>1, RowsLeft
    <2>2. ASSUME NEW k \in 1..Len(table'), NEW m \in 1..Len(table'), k < m
          PROVE  table'[k] < table'[m]
        <3>1. PICK j \in 1..Len(table) : j = (IF k < i THEN k ELSE k + 1) /\ table'[k] = table[j]
            BY <2>1
        <3>2. PICK l \in 1..Len(table) : l = (IF m < i THEN m ELSE m + 1) /\ table'[m] = table[l]
            BY <2>1
        <3>3. j < l
            BY <1>0, <2>1, <2>2, <3>1, <3>2
        <3> QED
            BY <1>0, <3>1, <3>2, <3>3 DEF TableInv
    <2> QED
        BY <2>1, <2>2 DEF TableInv
<1>2. ASSUME ~(\E i \in 1..Rows : DeleteRow(i)) PROVE TableInv'
    BY <1>0, <1>2, TableKept DEF TableInv
<1> QED
    BY <1>1, <1>2

\* The rows in a buffer are the next ones still after a deletion.
LEMMA BufferOutlives ==
    ASSUME StreamTyped, NEW i \in 1..Rows, DeleteRow(i), Aligned', NEW at, NEW rows, Buffered(at, rows)
    PROVE  Buffered(at, rows)'
<1>1. /\ reader' = reader /\ deletes' > 0
      /\ \A k \in 1..Len(table') : \E j \in 1..Len(table) :
            j = (IF k < i THEN k ELSE k + 1) /\ table'[k] = table[j]
    BY RowsLeft
<1>2. reader' # "paging"
    BY <1>1 DEF Aligned
<1>3. ASSUME NEW k \in 1..Len(table'), table'[k] > at
      PROVE  \/ \E n \in 1..Len(rows) : rows[n] = table'[k]
             \/ \A n \in 1..Len(rows) : rows[n] < table'[k]
    <2>1. PICK j \in 1..Len(table) : table'[k] = table[j]
        BY <1>1
    <2> QED
        BY <2>1, <1>3 DEF Buffered
<1> QED
    BY <1>2, <1>3 DEF Buffered

\* The buffer stays the rows after the position of the reader.
LEMMA BufferStep ==
    ASSUME StreamInv, [Next]_vars, Aligned'
    PROVE  BufferInv'
<1>0. StreamTyped /\ Aligned /\ TableInv /\ BufferInv /\ PlaceInv
    BY AlignedBefore DEF StreamInv
<1>1. ASSUME NEW i \in 1..Rows, DeleteRow(i) PROVE BufferInv'
    <2>1. rd' = rd /\ reader' = reader
        BY <1>1 DEF DeleteRow, config
    <2>2. PICK r : r = rd
        OBVIOUS
    <2>3. reader \in TableReader => Buffered(r.at, r.buffer)'
        BY <1>0, <1>1, <2>2, BufferOutlives DEF BufferInv
    <2> QED
        BY <2>1, <2>2, <2>3 DEF BufferInv
<1>2. ASSUME ~(\E i \in 1..Rows : DeleteRow(i)) PROVE BufferInv'
    <2>1. reader' = reader /\ table' = table
        BY <1>2, TableKept
    <2>2. SUFFICES ASSUME reader \in TableReader PROVE Buffered(rd.at, rd.buffer)'
        BY <2>1 DEF BufferInv
    <2>3. reader \notin LineReader
        BY <2>2 DEF TableReader, LineReader
    <2>4. PICK r : r = rd'
        OBVIOUS
    <2>5. SUFFICES Buffered(r.at, r.buffer)
        BY <2>1, <2>4 DEF Buffered
    <2>6. CASE UNCHANGED rd
        BY <1>0, <2>2, <2>4, <2>6 DEF BufferInv
    <2>7. CASE pc = "read" /\ rd' = Answer.rd
        BY <1>0, <2>2, <2>4, <2>7, RowAnswer
    <2>8. CASE StartRun
        <3>1. r.buffer = <<>> /\ r.at \in Nat
            <4>1. \E at \in Nat : r = [at |-> at, buffer |-> <<>>]
                BY <1>0, <2>4, <2>8 DEF StartRun, FreshContext, FirstPosition, StreamTyped, Checkpoints
            <4> QED
                BY <4>1
        <3>2. reader = "paging" => r.at <= Rows
            BY <1>0, <2>2, <2>3, <2>4, <2>8, ItemStreamsAssumption
               DEF StartRun, FreshContext, FirstPosition, PlaceInv, Place, Underway
        <3>3. Len(r.buffer) = 0
            BY <3>1
        <3>4. \A k \in 1..Len(r.buffer) : FALSE
            BY <3>3
        <3>5. r.at + Len(r.buffer) = r.at
            BY <3>1, <3>3
        <3> QED
            BY <3>2, <3>4, <3>5 DEF Buffered
    <2>9. UNCHANGED rd \/ (pc = "read" /\ rd' = Answer.rd) \/ StartRun
        BY <1>2, <2>3 DEF Next, vars, ReadItem, EndRead, ReadThrows, WriteChunk,
                          WriteThrows, SaveCheckpoint, FailStep, FinishStep, Crash
    <2> QED
        BY <2>6, <2>7, <2>8, <2>9
<1> QED
    BY <1>1, <1>2

\* An answer moves the position on, within the input.
LEMMA AnswerMoves ==
    ASSUME StreamInv, Aligned, pc = "read"
    PROVE  /\ Answer.rd.at \in Nat /\ rd.at \in Nat
           /\ Answer.item # 0 => Place(Answer.rd.at) /\ rd.at < Answer.rd.at /\ Answer.rd.at = Answer.item
           /\ Answer.item = 0 /\ chunk # <<>> => Place(Answer.rd.at) /\ rd.at <= Answer.rd.at
<1>0. /\ StreamTyped /\ TableInv /\ BufferInv /\ PlaceInv /\ Place(rd.at) /\ rd.at \in Nat /\ Rows \in Nat
      /\ saved.at \in Nat /\ Place(saved.at) /\ Len(Lines) \in Nat /\ FirstPosition(reader) \in Nat
    BY ItemStreamsAssumption
       DEF StreamInv, PlaceInv, StreamTyped, Readers, Checkpoints, Underway, FirstPosition
<1>1. reader \in LineReader \/ (reader \in TableReader /\ reader \notin LineReader)
    BY <1>0 DEF StreamTyped, LineReader, TableReader
<1>2. PICK a : a = Answer
    OBVIOUS
<1>3. a.rd.at \in Nat
    BY <1>2, AnswerTyped DEF Readers
<1>4. a.item # 0 => Found(a.item, a.rd)
    BY <1>0, <1>1, <1>2, LineAnswer, RowAnswer
<1>5. a.item = 0 => AtEnd(a.rd) \/ CutOff(a.rd)
    BY <1>0, <1>1, <1>2, LineAnswer, RowAnswer
<1>6. reader \notin LineReader => a.item <= Rows
    BY <1>0, <1>1, <1>2, RowAnswer
<1>7. ASSUME a.item # 0 PROVE Place(a.rd.at) /\ rd.at < a.rd.at /\ a.rd.at = a.item
    <2>1. rd.at < a.rd.at /\ a.rd.at = a.item
        BY <1>4, <1>7 DEF Found
    <2>2. reader \in LineReader => a.item <= Len(Lines)
        BY <1>0, <1>4, <1>7 DEF Found, Input
    <2>3. FirstPosition(reader) <= a.rd.at
        BY <1>0, <1>3, <2>1 DEF Place
    <2> QED
        BY <1>6, <2>1, <2>2, <2>3 DEF Place
<1>8. ASSUME a.item = 0, chunk # <<>> PROVE Place(a.rd.at) /\ rd.at <= a.rd.at
    <2>1. saved.at < rd.at
        BY <1>0, <1>8 DEF PlaceInv
    <2>2. FirstPosition(reader) < rd.at
        BY <1>0, <2>1 DEF Place
    <2>3. reader \in LineReader => rd.at <= Len(Lines)
        BY <1>0, <2>2 DEF Place
    <2>4. CASE AtEnd(a.rd)
        BY <1>0, <2>2, <2>3, <2>4 DEF AtEnd, Place
    <2>5. CASE CutOff(a.rd)
        BY <1>0, <1>3, <2>2, <2>5 DEF CutOff, Place, LineReader
    <2> QED
        BY <1>5, <1>8, <2>4, <2>5
<1> QED
    BY <1>0, <1>2, <1>3, <1>7, <1>8

\* The positions stay those of the last record read or saved.
LEMMA PlaceStep ==
    ASSUME StreamInv, [Next]_vars, Aligned'
    PROVE  PlaceInv'
<1>0. /\ StreamTyped /\ Aligned /\ PlaceInv
      /\ saved.at \in Nat /\ saved.chunk \in Nat /\ rd.at \in Nat /\ wr.chunk \in Nat /\ slot \in Nat
      /\ chunk \in Seq(Nat \ {0}) /\ Len(chunk) \in Nat /\ runs \in Nat
    BY AlignedBefore, ItemStreamsAssumption DEF StreamInv, StreamTyped, Readers, Checkpoints
<1>p. ASSUME reader' = reader, NEW at PROVE Place(at)' <=> Place(at)
    BY <1>p DEF Place
<1>1. ASSUME StartRun PROVE PlaceInv'
    <2>1. FreshContext.at = FirstPosition(reader) /\ FreshContext.chunk = 0 /\ FirstPosition(reader) \in Nat
        BY DEF FreshContext, FirstPosition
    <2>2. Place(FirstPosition(reader))
        BY <1>0, ItemStreamsAssumption, <2>1 DEF Place, FirstPosition, StreamTyped, LineReader
    <2>3. PICK ctx : ctx = IF resumable THEN saved ELSE FreshContext
        OBVIOUS
    <2>4. ctx.at \in Nat /\ ctx.chunk \in Nat /\ ctx.chunk <= ctx.at /\ Place(ctx.at)
        BY <1>0, <2>1, <2>2, <2>3 DEF PlaceInv, Underway
    <2>5. /\ saved' = ctx /\ rd' = [at |-> ctx.at, buffer |-> <<>>]
          /\ wr' = [header |-> ctx.header, chunk |-> ctx.chunk]
          /\ pc' = "read" /\ slot' = 0 /\ chunk' = <<>> /\ runs' = runs + 1 /\ resumable' = FALSE
          /\ reader' = reader
        BY <1>1, <2>3 DEF StartRun, config
    <2>6. rd'.at = ctx.at /\ wr'.chunk = ctx.chunk /\ Len(chunk') = 0
        BY <2>5
    <2>7. Place(saved.at)' /\ Place(rd.at)'
        BY <2>4, <2>5, <2>6, <1>p
    <2> QED
        BY <1>0, <2>4, <2>5, <2>6, <2>7 DEF PlaceInv
<1>2. ASSUME ReadItem PROVE PlaceInv'
    <2>1. /\ pc = "read" /\ pc' = "read" /\ rd' = Answer.rd /\ Answer.item # 0
          /\ slot' = slot + 1 /\ chunk' = Append(chunk, Answer.item)
          /\ saved' = saved /\ wr' = wr /\ reader' = reader /\ runs' = runs /\ resumable' = resumable
        BY <1>2 DEF ReadItem, config, repo
    <2>2. PICK q : q = rd' /\ q.at \in Nat /\ Place(q.at) /\ rd.at < q.at
        BY <2>1, <1>0, AnswerMoves
    <2>3. Place(saved.at)' /\ Place(rd.at)'
        BY <1>0, <2>1, <2>2, <1>p DEF PlaceInv, Underway
    <2>4. Len(chunk') = Len(chunk) + 1
        <3>1. Answer.item \in Nat \ {0}
            BY <2>1, AnswerTyped
        <3> QED
            BY <1>0, <2>1, <3>1, AppendProperties
    <2> QED
        BY <1>0, <2>1, <2>2, <2>3, <2>4 DEF PlaceInv, Underway
<1>3. ASSUME EndRead PROVE PlaceInv'
    <2>1. /\ pc = "read" /\ (rd' = rd \/ (Answer.item = 0 /\ rd' = Answer.rd))
          /\ pc' = IF chunk = <<>> THEN "finish" ELSE "write"
          /\ slot' = slot /\ chunk' = chunk
          /\ saved' = saved /\ wr' = wr /\ reader' = reader /\ runs' = runs /\ resumable' = resumable
        BY <1>3 DEF EndRead, config, repo
    <2>2. Place(saved.at)'
        BY <1>0, <2>1, <1>p DEF PlaceInv, Underway
    <2>3. CASE chunk = <<>>
        BY <1>0, <2>1, <2>2, <2>3 DEF PlaceInv, Underway
    <2>4. CASE chunk # <<>>
        <3>1. PICK q : q = rd' /\ q.at \in Nat /\ Place(q.at) /\ rd.at <= q.at
            BY <2>1, <2>4, <1>0, AnswerMoves DEF PlaceInv
        <3>2. Place(rd.at)'
            BY <2>1, <3>1, <1>p
        <3> QED
            BY <1>0, <2>1, <2>2, <2>4, <3>1, <3>2 DEF PlaceInv, Underway
    <2> QED
        BY <2>3, <2>4
<1>4. ASSUME ReadThrows PROVE PlaceInv'
    <2>1. /\ pc = "read" /\ (rd' = rd \/ (Answer.item # 0 /\ rd' = Answer.rd))
          /\ pc' \in {"read", "failing"} /\ slot' \in {slot, slot + 1} /\ chunk' = chunk
          /\ saved' = saved /\ wr' = wr /\ reader' = reader /\ runs' = runs /\ resumable' = resumable
        BY <1>4 DEF ReadThrows, config, repo
    <2>2. PICK q : q = rd' /\ q.at \in Nat /\ Place(q.at) /\ rd.at <= q.at
        BY <2>1, <1>0, AnswerMoves DEF PlaceInv
    <2>3. Place(saved.at)' /\ Place(rd.at)'
        BY <1>0, <2>1, <2>2, <1>p DEF PlaceInv, Underway
    <2> QED
        BY <1>0, <2>1, <2>2, <2>3 DEF PlaceInv, Underway
<1>5. ASSUME WriteChunk \/ WriteThrows PROVE PlaceInv'
    <2>1. /\ pc = "write" /\ pc' \in {"write", "checkpoint", "failing"} /\ rd' = rd /\ chunk' = chunk
          /\ wr'.chunk \in {wr.chunk, wr.chunk + 1} /\ (pc' = "write" => wr'.chunk = wr.chunk)
          /\ saved' = saved /\ reader' = reader /\ runs' = runs /\ resumable' = resumable
        BY <1>0, <1>5 DEF WriteChunk, WriteThrows, WriteDone, WriteFailed, config, repo, StreamTyped
    <2>2. Place(saved.at)' /\ Place(rd.at)'
        BY <1>0, <2>1, <1>p DEF PlaceInv, Underway
    <2> QED
        BY <1>0, <2>1, <2>2 DEF PlaceInv, Underway
<1>6. ASSUME SaveCheckpoint PROVE PlaceInv'
    <2>1. /\ pc = "checkpoint" /\ pc' = "read" /\ rd' = rd /\ chunk' = <<>> /\ slot' = 0 /\ wr' = wr
          /\ saved'.at = rd.at /\ saved'.chunk = wr.chunk /\ Len(chunk') = 0
          /\ reader' = reader /\ runs' = runs /\ resumable' = resumable
        BY <1>6 DEF SaveCheckpoint, config
    <2>2. Place(saved.at)' /\ Place(rd.at)'
        BY <1>0, <2>1, <1>p DEF PlaceInv
    <2> QED
        BY <1>0, <2>1, <2>2 DEF PlaceInv, Underway
<1>7. ASSUME FailStep \/ FinishStep \/ Crash PROVE PlaceInv'
    <2>1. /\ pc' \in {"idle", "completed"} /\ (resumable' = resumable \/ (resumable' /\ pc = "failing"))
          /\ pc # "idle" /\ (pc' = "completed" => resumable' = resumable)
          /\ saved' = saved /\ reader' = reader /\ runs' = runs
        BY <1>7 DEF FailStep, FinishStep, Crash, config, repo
    <2>2. Place(saved.at) => Place(saved.at)'
        BY <2>1, <1>p
    <2> QED
        BY <1>0, <2>1, <2>2 DEF PlaceInv, Underway
<1>8. ASSUME (\E i \in 1..Rows : DeleteRow(i)) \/ UNCHANGED vars PROVE PlaceInv'
    <2>1. /\ pc' = pc /\ rd' = rd /\ chunk' = chunk /\ slot' = slot /\ wr' = wr
          /\ saved' = saved /\ reader' = reader /\ runs' = runs /\ resumable' = resumable
        BY <1>8 DEF DeleteRow, vars, config, repo
    <2>2. (Place(saved.at) => Place(saved.at)') /\ (Place(rd.at) => Place(rd.at)')
        BY <2>1, <1>p
    <2> QED
        BY <1>0, <2>1, <2>2 DEF PlaceInv, Underway
<1> QED
    BY <1>1, <1>2, <1>3, <1>4, <1>5, <1>6, <1>7, <1>8 DEF Next

\* The chunk in hand stays in order, between the two positions.
LEMMA ChunkOrdered ==
    ASSUME StreamInv, [Next]_vars, Aligned'
    PROVE  ChunkInv'
<1>0. /\ StreamTyped /\ Aligned /\ PlaceInv /\ ChunkInv
      /\ saved.at \in Nat /\ rd.at \in Nat
      /\ chunk \in Seq(Nat \ {0}) /\ Len(chunk) \in Nat /\ \A i \in 1..Len(chunk) : chunk[i] \in Nat
    <2>1. StreamTyped /\ Aligned /\ PlaceInv /\ ChunkInv
        BY AlignedBefore DEF StreamInv
    <2>2. saved.at \in Nat /\ rd.at \in Nat /\ chunk \in Seq(Nat \ {0})
        BY <2>1 DEF StreamTyped, Readers, Checkpoints
    <2> QED
        BY <2>1, <2>2, EntryOf
<1>1. ASSUME StartRun \/ SaveCheckpoint PROVE ChunkInv'
    <2>1. Len(chunk') = 0
        BY <1>1 DEF StartRun, SaveCheckpoint
    <2> QED
        BY <2>1 DEF ChunkInv
<1>2. ASSUME ReadItem PROVE ChunkInv'
    <2>1. /\ pc = "read" /\ rd' = Answer.rd /\ Answer.item # 0 /\ saved' = saved
          /\ chunk' = Append(chunk, Answer.item)
        BY <1>2 DEF ReadItem, repo
    <2>2. PICK item \in Nat \ {0} : item = Answer.item /\ rd'.at = item /\ rd.at < item
        BY <2>1, <1>0, AnswerMoves
    <2>3. /\ Len(chunk') = Len(chunk) + 1 /\ chunk'[Len(chunk) + 1] = item
          /\ \A i \in 1..Len(chunk) : chunk'[i] = chunk[i]
        BY <1>0, <2>1, <2>2, AppendProperties
    <2>4. /\ saved.at <= rd.at
          /\ \A i \in 1..Len(chunk) : saved.at < chunk[i] /\ chunk[i] <= rd.at
          /\ \A i, j \in 1..Len(chunk) : i < j => chunk[i] < chunk[j]
        BY <1>0, <2>1 DEF ChunkInv, PlaceInv
    <2>5. ASSUME NEW i \in 1..Len(chunk') PROVE saved.at < chunk'[i] /\ chunk'[i] <= item
        <3>1. i \in 1..Len(chunk) \/ i = Len(chunk) + 1
            BY <1>0, <2>3
        <3> QED
            BY <3>1, <1>0, <2>2, <2>3, <2>4, SMTT(20)
    <2>6. ASSUME NEW i \in 1..Len(chunk'), NEW j \in 1..Len(chunk'), i < j PROVE chunk'[i] < chunk'[j]
        <3>1. i \in 1..Len(chunk) /\ (j \in 1..Len(chunk) \/ j = Len(chunk) + 1)
            BY <1>0, <2>3, <2>6
        <3> QED
            BY <3>1, <1>0, <2>2, <2>3, <2>4, <2>6
    <2> QED
        BY <2>1, <2>2, <2>5, <2>6 DEF ChunkInv
<1>3. ASSUME EndRead \/ ReadThrows PROVE ChunkInv'
    <2>1. /\ pc = "read" /\ chunk' = chunk /\ saved' = saved
          /\ rd' = rd \/ rd' = Answer.rd
        BY <1>3 DEF EndRead, ReadThrows, repo
    <2>2. CASE chunk = <<>>
        <3>1. Len(chunk') = 0
            BY <2>1, <2>2
        <3> QED
            BY <3>1 DEF ChunkInv
    <2>3. CASE chunk # <<>>
        <3>1. rd'.at \in Nat /\ rd.at <= rd'.at
            BY <1>0, <2>1, <2>3, AnswerMoves, AnswerTyped
        <3>2. /\ \A i \in 1..Len(chunk) : saved.at < chunk[i] /\ chunk[i] <= rd'.at
            BY <1>0, <2>1, <3>1 DEF ChunkInv
        <3> QED
            BY <1>0, <2>1, <3>2 DEF ChunkInv
    <2> QED
        BY <2>2, <2>3
<1>4. ASSUME \/ WriteChunk \/ WriteThrows \/ FailStep \/ FinishStep \/ Crash
             \/ \E i \in 1..Rows : DeleteRow(i)
             \/ UNCHANGED vars
      PROVE  ChunkInv'
    <2>1. /\ chunk' = chunk /\ saved' = saved /\ rd' = rd
          /\ pc' \in {"read", "write", "checkpoint"} => pc \in {"read", "write", "checkpoint"}
        BY <1>4 DEF WriteChunk, WriteThrows, FailStep, FinishStep, Crash, DeleteRow, vars, repo
    <2> QED
        BY <1>0, <2>1 DEF ChunkInv
<1> QED
    BY <1>1, <1>2, <1>3, <1>4 DEF Next

\* The step is read from its checkpoint on, record by record and in order.
THEOREM StreamsInOrder == Spec => []StreamInv
<1>1. Init => StreamInv
    <2> SUFFICES ASSUME Init PROVE StreamInv
        OBVIOUS
    <2>1. Rows \in Nat /\ ChunkSize \in Nat
        BY ItemStreamsAssumption
    <2>2. table \in Seq(1..Rows) /\ Len(table) = Rows /\ \A i \in 1..Rows : table[i] = i
        BY <2>1 DEF Init
    <2>3. FreshContext \in Checkpoints
        BY DEF FreshContext, FirstPosition, Checkpoints
    <2>4. rd \in Readers /\ rd.buffer = <<>> /\ rd.at = 0 /\ Len(rd.buffer) = 0
        <3>1. <<>> \in Seq(1..Rows)
            OBVIOUS
        <3> QED
            BY <3>1 DEF Init, Readers
    <2>5. StreamTyped
        <3>1. wr \in [header : BOOLEAN, chunk : Nat]
            BY DEF Init
        <3>2. objects \in [ChunkNumbers -> SUBSET Nat]
            BY DEF Init
        <3>3. chunk \in Seq(Nat \ {0}) /\ file \in Seq(Nat)
            BY DEF Init
        <3>4. /\ saved \in Checkpoints /\ resumable \in BOOLEAN /\ pc \in Pcs /\ slot \in 0..ChunkSize
              /\ deletes \in Nat /\ runs \in Nat /\ skippedWrites \in Nat
            <4>1. /\ saved = FreshContext /\ resumable = FALSE /\ pc = "idle" /\ slot = 0
                  /\ deletes = 0 /\ runs = 0 /\ skippedWrites = 0
                BY DEF Init
            <4>2. resumable \in BOOLEAN
                BY <4>1, Zenon
            <4>3. saved \in Checkpoints
                BY <2>3, <4>1, Zenon
            <4> QED
                BY <2>1, <4>1, <4>2, <4>3 DEF Pcs
        <3>5. /\ reader \in LineReader \cup TableReader /\ writer \in Writer
              /\ onRead \in OnError /\ onWrite \in OnError
            BY DEF Init
        <3>6. table \in Seq(1..Rows) /\ Len(table) <= Rows
            BY <2>1, <2>2
        <3> QED
            BY <2>4, <3>1, <3>2, <3>3, <3>4, <3>5, <3>6 DEF StreamTyped
    <2>6. TableInv
        BY <2>1, <2>2 DEF TableInv
    <2>7. BufferInv
        <3>1. Buffered(rd.at, rd.buffer)
            BY <2>1, <2>4 DEF Buffered
        <3> QED
            BY <3>1 DEF BufferInv
    <2>8. PlaceInv /\ ChunkInv
        BY DEF Init, PlaceInv, ChunkInv, Underway
    <2> QED
        BY <2>5, <2>6, <2>7, <2>8 DEF StreamInv
<1>2. StreamInv /\ [Next]_vars => StreamInv'
    BY TypedStep, TableStep, BufferStep, PlaceStep, ChunkOrdered DEF StreamInv
<1> QED
    BY <1>1, <1>2, PTL DEF Spec

-----------------------------------------------------------------------------
(***************************************************************************)
(* EveryRecordAccounted.                                                   *)
(***************************************************************************)
\* A step keeps what accounts for the first n chunks.
Keeps(n) ==
    /\ reader' = reader /\ reported \subseteq reported' /\ passed \subseteq passed'
    /\ \A i \in 1..Len(file) : i \in 1..Len(file') /\ file'[i] = file[i]
    /\ \A k \in ChunkNumbers : k < n => objects[k] \subseteq objects'[k]

\* What is accounted for stays so in a step that loses nothing.
LEMMA AccountedKept ==
    ASSUME NEW id, NEW n, Keeps(n), Accounted(id, n)
    PROVE  Accounted(id, n)'
BY DEF Keeps, Accounted

\* What fewer chunks account for, more do.
LEMMA AccountedEarlier ==
    ASSUME NEW id, NEW n \in Nat, NEW m \in Nat, n <= m, Accounted(id, n)
    PROVE  Accounted(id, m)
<1>1. \A k \in ChunkNumbers : k < n => k < m
    BY DEF ChunkNumbers
<1> QED
    BY <1>1 DEF Accounted

\* A write touches no chunk before the one in hand.
LEMMA NothingLost ==
    ASSUME StreamInv, [Next]_vars, Aligned', NEW n \in Nat, pc = "write" => n <= saved.chunk
    PROVE  Keeps(n)
<1>0. StreamTyped /\ Aligned /\ PlaceInv /\ file \in Seq(Nat) /\ Len(file) \in Nat
    BY AlignedBefore DEF StreamInv, StreamTyped
<1>1. reader' = reader /\ reported \subseteq reported' /\ passed \subseteq passed'
    BY DEF Next, vars, config, repo, target, history, StartRun, ReadItem, EndRead, ReadThrows, WriteChunk,
           WriteThrows, SaveCheckpoint, FailStep, FinishStep, Crash, DeleteRow
<1>2. CASE UNCHANGED <<file, objects>>
    BY <1>0, <1>1, <1>2 DEF Keeps
<1>3. CASE pc = "write" /\ Taken
    <2>1. wr.chunk = saved.chunk /\ wr.chunk \in Nat
        BY <1>0, <1>3 DEF PlaceInv, StreamTyped
    <2>2. CASE writer = "s3"
        <3>1. /\ file' = file
              /\ \A k \in ChunkNumbers : objects'[k] = IF k = wr.chunk THEN Handful ELSE objects[k]
            BY <1>0, <1>3, <2>2, ObjectTaken
        <3>2. \A k \in ChunkNumbers : k < n => k # wr.chunk
            BY <1>3, <2>1 DEF ChunkNumbers
        <3> QED
            BY <1>0, <1>1, <3>1, <3>2 DEF Keeps
    <2>3. CASE writer # "s3"
        <3>1. objects' = objects /\ file' \in Seq(Nat) /\ \E h \in 0..1 : Appended(h)
            BY <1>0, <1>3, <2>3, FileTaken
        <3>2. PICK h \in 0..1 : Appended(h)
            BY <3>1
        <3>3. Len(file) <= Len(file') /\ Len(file') \in Nat
            BY <1>0, <3>1, <3>2 DEF Appended, StreamTyped
        <3>4. \A i \in 1..Len(file) : i \in 1..Len(file') /\ file'[i] = file[i]
            BY <1>0, <3>2, <3>3 DEF Appended
        <3> QED
            BY <1>1, <3>1, <3>4 DEF Keeps
    <2> QED
        BY <2>2, <2>3
<1>4. UNCHANGED <<file, objects>> \/ (pc = "write" /\ Taken)
    BY DEF Next, vars, target, StartRun, ReadItem, EndRead, ReadThrows, WriteChunk,
           WriteThrows, SaveCheckpoint, FailStep, FinishStep, Crash, DeleteRow
<1> QED
    BY <1>2, <1>3, <1>4

\* Records are counted from the first position.
LEMMA InputTyped ==
    ASSUME StreamTyped, NEW id \in Input
    PROVE  id \in Nat /\ FirstPosition(reader) < id /\ (reader \in TableReader => id <= Rows)
<1>1. CASE reader \in LineReader
    BY <1>1, ItemStreamsAssumption DEF Input, FirstPosition, LineReader, TableReader
<1>2. CASE reader \notin LineReader
    <2>1. table \in Seq(1..Rows) /\ FirstPosition(reader) = 0 /\ Rows \in Nat
        BY <1>2, ItemStreamsAssumption DEF StreamTyped, FirstPosition, LineReader
    <2>2. \A i \in 1..Len(table) : table[i] \in 1..Rows
        BY <2>1, EntryOf
    <2>3. PICK i \in 1..Len(table) : id = table[i]
        BY <1>2, <2>1 DEF Input
    <2> QED
        BY <2>1, <2>2, <2>3
<1> QED
    BY <1>1, <1>2

\* No step adds to the input.
LEMMA InputShrinks ==
    ASSUME StreamTyped, [Next]_vars
    PROVE  \A id \in Input' : id \in Input
<1>1. ASSUME NEW i \in 1..Rows, DeleteRow(i) PROVE \A id \in Input' : id \in Input
    <2>1. reader' = reader /\ reader \notin LineReader
        BY <1>1 DEF DeleteRow, config, TableReader, LineReader
    <2>2. \A k \in 1..Len(table') : \E j \in 1..Len(table) : table'[k] = table[j]
        BY <1>1, RowsLeft
    <2>3. DOMAIN table = 1..Len(table) /\ DOMAIN table' = 1..Len(table')
        <3>1. i \in 1..Len(table)
            BY <1>1 DEF DeleteRow, StreamTyped
        <3>2. table' = Without(i)
            BY <1>1 DEF DeleteRow, Without
        <3>3. table' \in Seq(1..Rows)
            BY <3>1, <3>2, RowDeleted
        <3> QED
            BY <3>3 DEF StreamTyped
    <2> QED
        BY <2>1, <2>2, <2>3 DEF Input
<1>2. ASSUME ~(\E i \in 1..Rows : DeleteRow(i)) PROVE \A id \in Input' : id \in Input
    BY <1>2, TableKept DEF Input
<1> QED
    BY <1>1, <1>2

\* The chunk in hand, once taken.
LEMMA ChunkTaken ==
    ASSUME StreamInv, Aligned, pc = "write", Taken, NEW id, InChunk(id)
    PROVE  \/ \E i \in 1..Len(file') : file'[i] = id
           \/ writer = "s3" /\ wr.chunk \in ChunkNumbers /\ id \in objects'[wr.chunk]
<1>0. StreamTyped /\ PlaceInv /\ file \in Seq(Nat) /\ Len(file) \in Nat /\ Len(chunk) \in Nat
    BY DEF StreamInv, StreamTyped
<1>1. PICK i \in 1..Len(chunk) : chunk[i] = id
    BY DEF InChunk
<1>2. CASE writer = "s3"
    <2>1. /\ wr.chunk = saved.chunk /\ saved.chunk <= saved.at /\ saved.at < rd.at /\ Place(rd.at)
          /\ FirstPosition(reader) <= saved.at
        BY <1>0 DEF PlaceInv, Underway, Place
    <2>2. saved.at \in Nat /\ rd.at \in Nat /\ wr.chunk \in Nat /\ Rows \in Nat /\ Len(Lines) \in Nat
          /\ FirstPosition(reader) \in Nat
        BY <1>0, ItemStreamsAssumption DEF StreamTyped, Readers, Checkpoints, FirstPosition
    <2>3. rd.at <= Len(Lines) + Rows
        BY <2>1, <2>2 DEF Place
    <2>4. wr.chunk \in ChunkNumbers
        BY <2>1, <2>2, <2>3 DEF ChunkNumbers
    <2>5. objects'[wr.chunk] = Handful
        BY <1>0, <1>2, <2>4, ObjectTaken
    <2> QED
        BY <1>1, <1>2, <2>4, <2>5 DEF Handful
<1>3. CASE writer # "s3"
    <2>1. file' \in Seq(Nat) /\ \E h \in 0..1 : Appended(h)
        BY <1>0, <1>3, FileTaken
    <2>2. PICK h \in 0..1 : Appended(h)
        BY <2>1
    <2>3. PICK j \in Nat : j = Len(file) + h + i
        BY <1>0
    <2>4. j \in 1..Len(file') /\ file'[j] = id
        BY <1>0, <1>1, <2>2, <2>3 DEF Appended
    <2> QED
        BY <2>4
<1> QED
    BY <1>2, <1>3

\* The records up to the checkpoint are accounted for.
LEMMA CheckpointAccounted ==
    ASSUME StreamInv, AccountInv, [Next]_vars, StreamInv', Aligned'
    PROVE  Underway' => \A id \in Input' : id <= saved'.at => Accounted(id, saved.chunk)'
<1>0. StreamTyped /\ Aligned /\ PlaceInv
    BY AlignedBefore DEF StreamInv
<1>1. PICK n \in Nat : n = saved'.chunk
    BY DEF StreamInv, StreamTyped, Checkpoints
<1>2. SUFFICES ASSUME Underway', NEW id \in Input', id <= saved'.at
               PROVE  Accounted(id, n)'
    BY <1>1 DEF Accounted
<1>3. id \in Input /\ id \in Nat /\ FirstPosition(reader) < id
    BY <1>0, <1>2, InputShrinks, InputTyped
<1>4. CASE StartRun /\ ~resumable
    <2>1. saved'.at = FirstPosition(reader) /\ FirstPosition(reader) \in Nat
        BY <1>4 DEF StartRun, FreshContext, FirstPosition
    <2> QED
        BY <1>2, <1>3, <2>1
<1>5. CASE SaveCheckpoint
    <2>1. pc = "checkpoint" /\ saved'.at = rd.at /\ n = wr.chunk
        BY <1>1, <1>5 DEF SaveCheckpoint
    <2>2. Accounted(id, n)
        BY <1>0, <1>2, <1>3, <2>1 DEF AccountInv
    <2>3. Keeps(n)
        BY <2>1, NothingLost
    <2> QED
        BY <2>2, <2>3, AccountedKept
<1>6. CASE saved' = saved /\ Underway
    <2>1. Accounted(id, n)
        BY <1>0, <1>1, <1>2, <1>3, <1>6 DEF AccountInv
    <2>2. Keeps(n)
        BY <1>1, <1>6, NothingLost
    <2> QED
        BY <2>1, <2>2, AccountedKept
<1>7. \/ StartRun /\ ~resumable
      \/ SaveCheckpoint
      \/ saved' = saved /\ Underway
    BY <1>2 DEF Next, vars, repo, StartRun, ReadItem, EndRead, ReadThrows, WriteChunk, WriteThrows,
                SaveCheckpoint, FailStep, FinishStep, Crash, DeleteRow, Underway
<1> QED
    BY <1>4, <1>5, <1>6, <1>7

\* The records up to the reader are too, or in the chunk.
LEMMA ChunkAccounted ==
    ASSUME StreamInv, AccountInv, [Next]_vars, StreamInv', Aligned', pc' \in {"read", "write"}
    PROVE  \A id \in Input' : id <= rd'.at => Accounted(id, saved.chunk)' \/ InChunk(id)'
<1>0. StreamTyped /\ Aligned /\ PlaceInv /\ TableInv /\ BufferInv
    BY AlignedBefore DEF StreamInv
<1>1. PICK n \in Nat : n = saved'.chunk
    BY DEF StreamInv, StreamTyped, Checkpoints
<1>2. SUFFICES ASSUME NEW id \in Input', id <= rd'.at
               PROVE  Accounted(id, n)' \/ InChunk(id)'
    BY <1>1 DEF Accounted
<1>3. id \in Input /\ id \in Nat
    BY <1>0, <1>2, InputShrinks, InputTyped
<1>4. CASE StartRun \/ SaveCheckpoint
    <2>1. rd'.at = saved'.at /\ Underway'
        BY <1>4 DEF StartRun, SaveCheckpoint, Underway
    <2>2. Accounted(id, saved.chunk)'
        BY <1>2, <2>1, CheckpointAccounted
    <2> QED
        BY <1>1, <2>2 DEF Accounted
<1>5. ASSUME pc \in {"read", "write"}, saved' = saved PROVE Keeps(n)
    BY <1>1, <1>5, NothingLost
<1>6. ASSUME pc \in {"read", "write"}, saved' = saved, chunk' = chunk, id <= rd.at
      PROVE  Accounted(id, n)' \/ InChunk(id)'
    <2>1. Accounted(id, n) \/ InChunk(id)
        BY <1>0, <1>1, <1>3, <1>6 DEF AccountInv
    <2> QED
        BY <1>5, <1>6, <2>1, AccountedKept DEF InChunk
<1>7. CASE ReadItem
    <2>1. /\ pc = "read" /\ saved' = saved /\ rd' = Answer.rd /\ Answer.item # 0
          /\ chunk' = Append(chunk, Answer.item)
        BY <1>7 DEF ReadItem, repo
    <2>2. chunk \in Seq(Nat \ {0}) /\ Answer.item \in Nat \ {0} /\ Len(chunk) \in Nat
        BY <1>0, <2>1, AnswerTyped DEF StreamTyped
    <2>3. /\ Len(chunk') = Len(chunk) + 1 /\ chunk'[Len(chunk) + 1] = Answer.item
          /\ \A i \in 1..Len(chunk) : chunk'[i] = chunk[i]
        BY <2>1, <2>2, AppendProperties
    <2>4. id <= rd.at \/ id = Answer.item
        <3>1. Found(Answer.item, Answer.rd)
            BY <1>0, <2>1, LineAnswer, RowAnswer DEF StreamTyped
        <3>2. rd.at \in Nat
            BY <1>0 DEF StreamTyped, Readers
        <3> QED
            BY <1>2, <1>3, <2>1, <2>2, <3>1, <3>2 DEF Found, Nothing
    <2>5. CASE id <= rd.at
        <3>1. Accounted(id, n) \/ InChunk(id)
            BY <1>0, <1>1, <1>3, <2>1, <2>5 DEF AccountInv
        <3>2. InChunk(id) => InChunk(id)'
            <4>1. \A i \in 1..Len(chunk) : i \in 1..Len(chunk')
                BY <2>2, <2>3
            <4> QED
                BY <2>3, <4>1 DEF InChunk
        <3> QED
            BY <1>5, <2>1, <3>1, <3>2, AccountedKept
    <2>6. CASE id = Answer.item
        <3>1. Len(chunk) + 1 \in 1..Len(chunk')
            BY <2>2, <2>3
        <3> QED
            BY <2>3, <2>6, <3>1 DEF InChunk
    <2> QED
        BY <2>4, <2>5, <2>6
<1>8. CASE EndRead
    <2>1. /\ pc = "read" /\ saved' = saved /\ chunk' = chunk
          /\ rd' = rd \/ (Answer.item = 0 /\ rd' = Answer.rd)
        BY <1>8 DEF EndRead, repo
    <2>2. id <= rd.at
        <3>1. CASE rd' = rd
            BY <1>2, <3>1
        <3>2. CASE Answer.item = 0 /\ rd' = Answer.rd
            <4>1. AtEnd(Answer.rd) \/ CutOff(Answer.rd)
                BY <1>0, <2>1, <3>2, LineAnswer, RowAnswer DEF StreamTyped
            <4>2. CASE AtEnd(Answer.rd)
                BY <1>3, <4>2 DEF AtEnd
            <4>3. CASE CutOff(Answer.rd)
                <5>1. id # Answer.rd.at
                    BY <1>3, <4>3 DEF CutOff, Input, LineReader
                <5>2. Answer.rd.at \in Nat /\ rd.at \in Nat
                    BY <1>0, <2>1, AnswerTyped DEF Readers, StreamTyped
                <5> QED
                    BY <1>2, <1>3, <3>2, <4>3, <5>1, <5>2 DEF CutOff, Nothing
            <4> QED
                BY <4>1, <4>2, <4>3
        <3> QED
            BY <2>1, <3>1, <3>2
    <2> QED
        BY <1>6, <2>1, <2>2
<1>9. CASE ReadThrows
    <2>1. /\ pc = "read" /\ pc' = "read" /\ saved' = saved /\ chunk' = chunk
          /\ Answer.item # 0
          /\ rd' = IF reader \in LineReader THEN Answer.rd ELSE rd
          /\ reader \in LineReader => Answer.item \in reported' \cup passed'
          /\ reader' = reader
        BY <1>9 DEF ReadThrows, repo, config
    <2>2. CASE reader \notin LineReader
        BY <1>2, <1>6, <2>1, <2>2
    <2>3. CASE reader \in LineReader
        <3>1. Found(Answer.item, Answer.rd)
            BY <1>0, <2>1, <2>3, LineAnswer
        <3>2. Answer.item \in Nat /\ rd.at \in Nat
            BY <1>0, <2>1, AnswerTyped DEF StreamTyped, Readers
        <3>3. id <= rd.at \/ id = Answer.item
            BY <1>2, <1>3, <2>1, <2>3, <3>1, <3>2 DEF Found, Nothing
        <3>4. id = Answer.item => Accounted(id, n)'
            BY <2>1, <2>3 DEF Accounted
        <3> QED
            BY <1>6, <2>1, <3>3, <3>4
    <2> QED
        BY <2>2, <2>3
<1>10. CASE WriteThrows \/ (\E i \in 1..Rows : DeleteRow(i)) \/ UNCHANGED vars
    <2>1. pc \in {"read", "write"} /\ saved' = saved /\ chunk' = chunk /\ rd' = rd
        BY <1>10 DEF WriteThrows, DeleteRow, vars, repo
    <2> QED
        BY <1>2, <1>6, <2>1
<1> QED
    BY <1>4, <1>7, <1>8, <1>9, <1>10
       DEF Next, WriteChunk, FailStep, FinishStep, Crash

\* After the write the chunk is accounted for.
LEMMA WrittenAccounted ==
    ASSUME StreamInv, AccountInv, [Next]_vars, StreamInv', Aligned', pc' = "checkpoint"
    PROVE  \A id \in Input' : id <= rd'.at => Accounted(id, wr.chunk)'
<1>0. StreamTyped /\ Aligned /\ PlaceInv /\ wr.chunk \in Nat /\ saved.chunk \in Nat
    BY AlignedBefore DEF StreamInv, StreamTyped, Checkpoints
<1>1. PICK n \in Nat : n = wr'.chunk
    BY DEF StreamInv, StreamTyped
<1>2. SUFFICES ASSUME NEW id \in Input', id <= rd'.at PROVE Accounted(id, n)'
    BY <1>1 DEF Accounted
<1>3. id \in Input /\ id \in Nat
    BY <1>0, <1>2, InputShrinks, InputTyped
<1>4. CASE UNCHANGED vars
    <2>1. pc = "checkpoint" /\ rd' = rd /\ n = wr.chunk
        BY <1>1, <1>4 DEF vars
    <2>2. Accounted(id, n)
        BY <1>0, <1>2, <1>3, <2>1 DEF AccountInv
    <2> QED
        BY <2>1, <2>2, NothingLost, AccountedKept
<1>5. CASE WriteChunk \/ WriteThrows
    <2>1. /\ pc = "write" /\ rd' = rd /\ wr.chunk = saved.chunk
          /\ wr.chunk <= n
        BY <1>0, <1>1, <1>5 DEF WriteChunk, WriteThrows, WriteDone, WriteFailed, PlaceInv, StreamTyped
    <2>2. Accounted(id, wr.chunk) \/ InChunk(id)
        BY <1>0, <1>2, <1>3, <2>1 DEF AccountInv
    <2>3. CASE Accounted(id, wr.chunk)
        <3>1. PICK c \in Nat : c = wr.chunk
            BY <1>0
        <3>2. Keeps(c)
            BY <1>0, <2>1, <3>1, NothingLost
        <3>3. Accounted(id, c)'
            BY <2>3, <3>1, <3>2, AccountedKept
        <3>4. \A k \in ChunkNumbers : k < c => k < n
            BY <2>1, <3>1 DEF ChunkNumbers
        <3> QED
            BY <3>3, <3>4 DEF Accounted
    <2>4. CASE InChunk(id) /\ WriteChunk
        <3>1. Taken /\ (writer = "s3" => n = wr.chunk + 1)
            BY <1>1, <2>4 DEF WriteChunk, WriteDone
        <3>2. \/ \E i \in 1..Len(file') : file'[i] = id
              \/ writer = "s3" /\ wr.chunk \in ChunkNumbers /\ id \in objects'[wr.chunk]
            BY <1>0, <2>1, <2>4, <3>1, ChunkTaken
        <3>3. writer = "s3" => wr.chunk < n
            BY <1>0, <3>1
        <3> QED
            BY <3>2, <3>3 DEF Accounted
    <2>5. CASE InChunk(id) /\ WriteThrows
        <3>1. reported' = reported \cup {chunk[i] : i \in DOMAIN chunk}
            BY <1>2, <2>5 DEF WriteThrows
        <3>2. DOMAIN chunk = 1..Len(chunk)
            BY <1>0 DEF StreamTyped
        <3>3. id \in reported'
            BY <2>5, <3>1, <3>2 DEF InChunk
        <3> QED
            BY <3>3 DEF Accounted
    <2> QED
        BY <1>5, <2>2, <2>3, <2>4, <2>5
<1>6. WriteChunk \/ WriteThrows \/ UNCHANGED vars
    BY DEF Next, StartRun, ReadItem, EndRead, ReadThrows, SaveCheckpoint, FailStep, FinishStep, Crash, DeleteRow
<1> QED
    BY <1>4, <1>5, <1>6

\* A step that ends has reached the end of its input.
LEMMA AllAccounted ==
    ASSUME StreamInv, AccountInv, [Next]_vars, StreamInv', Aligned',
           pc' \in {"finish", "completed"}, slot' < ChunkSize
    PROVE  \A id \in Input' : Accounted(id, saved.chunk)'
<1>0. StreamTyped /\ Aligned /\ PlaceInv /\ TableInv /\ BufferInv
    BY AlignedBefore DEF StreamInv
<1>1. PICK n \in Nat : n = saved'.chunk
    BY DEF StreamInv, StreamTyped, Checkpoints
<1>2. SUFFICES ASSUME NEW id \in Input' PROVE Accounted(id, n)'
    BY <1>1
<1>3. id \in Input /\ id \in Nat
    BY <1>0, <1>2, InputShrinks, InputTyped
<1>4. SUFFICES ASSUME saved' = saved, pc # "write" PROVE Accounted(id, n)
    <2>1. saved' = saved /\ pc # "write"
        BY DEF Next, vars, repo, StartRun, ReadItem, EndRead, ReadThrows, WriteChunk, WriteThrows,
               SaveCheckpoint, FailStep, FinishStep, Crash, DeleteRow
    <2> QED
        BY <1>4, <2>1, NothingLost, AccountedKept
<1>5. CASE EndRead
    <2>1. pc = "read" /\ chunk = <<>> /\ Answer.item = 0
        <3>1. slot' = slot /\ slot # ChunkSize
            BY <1>5, ItemStreamsAssumption DEF EndRead
        <3> QED
            BY <1>5, <3>1 DEF EndRead
    <2>2. ~InChunk(id)
        <3>1. Len(chunk) = 0
            BY <2>1
        <3> QED
            BY <3>1 DEF InChunk
    <2>3. id <= rd.at => Accounted(id, n)
        BY <1>0, <1>1, <1>3, <1>4, <2>1, <2>2 DEF AccountInv
    <2>4. rd.at \in Nat /\ Answer.rd.at \in Nat
        BY <1>0, <2>1, AnswerTyped DEF StreamTyped, Readers
    <2>5. CASE AtEnd(Answer.rd)
        BY <1>3, <2>3, <2>5 DEF AtEnd
    <2>6. CASE CutOff(Answer.rd)
        <3>1. id # Answer.rd.at
            BY <1>3, <2>6 DEF CutOff, Input, LineReader
        <3>2. id <= rd.at \/ Answer.rd.at < id
            BY <1>3, <2>4, <2>6, <3>1 DEF CutOff, Nothing
        <3>3. Answer.rd.at < id => Answer.rd.at \in 1..(id - 1)
            BY <1>3, <2>4, <2>6 DEF CutOff
        <3>4. Answer.rd.at < id => Accounted(id, n)
            BY <2>6, <3>3 DEF CutOff, Accounted
        <3> QED
            BY <2>3, <3>2, <3>4
    <2>7. AtEnd(Answer.rd) \/ CutOff(Answer.rd)
        BY <1>0, <2>1, LineAnswer, RowAnswer DEF StreamTyped
    <2> QED
        BY <2>5, <2>6, <2>7
<1>6. CASE pc \in {"finish", "completed"} /\ slot' = slot
    BY <1>0, <1>1, <1>3, <1>4, <1>6 DEF AccountInv
<1>7. EndRead \/ (pc \in {"finish", "completed"} /\ slot' = slot)
    BY DEF Next, vars, StartRun, ReadItem, ReadThrows, WriteChunk, WriteThrows, SaveCheckpoint, FailStep,
           FinishStep, Crash, DeleteRow
<1> QED
    BY <1>5, <1>6, <1>7

\* A completed step has accounted for every record, with the readers' exceptions.
THEOREM RecordsAreAccounted == Spec => []EveryRecordAccounted
<1>1. Init => AccountInv
    <2> SUFFICES ASSUME Init PROVE AccountInv
        OBVIOUS
    <2> QED
        BY DEF Init, AccountInv, Underway
<1>2. StreamInv /\ StreamInv' /\ AccountInv /\ [Next]_vars => AccountInv'
    <2> SUFFICES ASSUME StreamInv, StreamInv', AccountInv, [Next]_vars, Aligned'
                 PROVE  AccountInv'
        BY DEF AccountInv
    <2> QED
        BY CheckpointAccounted, ChunkAccounted, WrittenAccounted, AllAccounted DEF AccountInv
<1>3. StreamInv /\ AccountInv => EveryRecordAccounted
    <2> SUFFICES ASSUME StreamInv, AccountInv, pc = "completed", slot < ChunkSize, NEW id \in Input, Aligned
                 PROVE  \/ Written(id) \/ id \in reported
                        \/ reader \in LineReader /\ id \in passed
                        \/ reader = "s3" /\ \E i \in 1..(id - 1) : Lines[i] = "null"
        BY DEF EveryRecordAccounted, Aligned, StreamInv, StreamTyped
    <2>1. Accounted(id, saved.chunk)
        BY DEF AccountInv
    <2>2. DOMAIN file = 1..Len(file)
        BY DEF StreamInv, StreamTyped
    <2> QED
        BY <2>1, <2>2 DEF Accounted, Written
<1> QED
    BY <1>1, <1>2, <1>3, StreamsInOrder, PTL DEF Spec

-----------------------------------------------------------------------------
(***************************************************************************)
(* RestartRepeatsNothing.                                                  *)
(***************************************************************************)
\* Where an entry of an extended file comes from.
LEMMA EntryFrom ==
    ASSUME StreamTyped, NEW h, Appended(h), NEW i \in 1..Len(file')
    PROVE  \/ i \in 1..Len(file) /\ file'[i] = file[i]
           \/ file'[i] = Header
           \/ \E k \in 1..Len(chunk) : i = Len(file) + h + k /\ file'[i] = chunk[k]
<1>0. Len(file) \in Nat /\ Len(chunk) \in Nat /\ h \in Nat /\ i \in Int
    BY DEF StreamTyped, Appended
<1>1. CASE i <= Len(file)
    BY <1>0, <1>1 DEF Appended
<1>2. CASE i > Len(file) /\ i <= Len(file) + h
    <2>1. h = 1 /\ i = Len(file) + 1
        BY <1>0, <1>2 DEF Appended
    <2> QED
        BY <2>1 DEF Appended
<1>3. CASE i > Len(file) + h
    <2>1. PICK s \in Nat : s = Len(file) + h
        BY <1>0
    <2>2. i <= s + Len(chunk) /\ i > s
        BY <1>0, <1>3, <2>1 DEF Appended
    <2>3. i - s \in 1..Len(chunk) /\ i = s + (i - s)
        BY <1>0, <2>1, <2>2
    <2> QED
        BY <2>1, <2>3 DEF Appended
<1> QED
    BY <1>0, <1>1, <1>2, <1>3 DEF Appended

\* A file without repetition below the checkpoint stays without it, and within
\* the reader's position, when the chunk is added.
LEMMA FileGrows ==
    ASSUME StreamInv, Aligned, pc = "write", Taken, rd' = rd,
           \A i, j \in 1..Len(file) : i # j /\ file[i] # Header => file[i] # file[j],
           \A i \in 1..Len(file) : file[i] <= saved.at
    PROVE  /\ \A i, j \in 1..Len(file') : i # j /\ file'[i] # Header => file'[i] # file'[j]
           /\ \A i \in 1..Len(file') : file'[i] <= rd'.at
<1>0. /\ StreamTyped /\ PlaceInv /\ ChunkInv
      /\ Len(file) \in Nat /\ Len(chunk) \in Nat /\ saved.at \in Nat /\ rd.at \in Nat /\ saved.at < rd.at
      /\ \A i \in 1..Len(chunk) : chunk[i] \in Nat
      /\ \A i \in 1..Len(file) : file[i] \in Nat
    <2>1. StreamTyped /\ PlaceInv /\ ChunkInv
        BY DEF StreamInv
    <2>2. file \in Seq(Nat) /\ chunk \in Seq(Nat \ {0}) /\ saved.at \in Nat /\ rd.at \in Nat
        BY <2>1 DEF StreamTyped, Readers, Checkpoints
    <2>3. saved.at < rd.at
        BY <2>1 DEF PlaceInv
    <2> QED
        BY <2>1, <2>2, <2>3, EntryOf
<1>1. /\ \A i \in 1..Len(chunk) : saved.at < chunk[i] /\ chunk[i] <= rd.at
      /\ \A i, j \in 1..Len(chunk) : i < j => chunk[i] < chunk[j]
    BY <1>0 DEF ChunkInv
<1>2. CASE writer = "s3"
    <2>1. file' = file
        BY <1>0, <1>2, ObjectTaken
    <2> QED
        BY <1>0, <2>1
<1>3. CASE writer # "s3"
    <2>1. PICK h \in 0..1 : Appended(h)
        BY <1>0, <1>3, FileTaken
    <2>2. ASSUME NEW i \in 1..Len(file') PROVE file'[i] <= rd'.at
        <3>1. CASE i \in 1..Len(file) /\ file'[i] = file[i]
            BY <1>0, <3>1
        <3>2. CASE file'[i] = Header
            BY <1>0, <3>2 DEF Header
        <3>3. CASE \E k \in 1..Len(chunk) : i = Len(file) + h + k /\ file'[i] = chunk[k]
            BY <1>1, <3>3
        <3> QED
            BY <1>0, <2>1, <3>1, <3>2, <3>3, EntryFrom
    <2>3. ASSUME NEW i \in 1..Len(file'), NEW j \in 1..Len(file'), i # j, file'[i] # Header,
                 file'[i] = file'[j]
          PROVE  FALSE
        <3>1. CASE i \in 1..Len(file) /\ file'[i] = file[i]
            <4>1. CASE j \in 1..Len(file) /\ file'[j] = file[j]
                BY <2>3, <3>1, <4>1
            <4>2. CASE \E k \in 1..Len(chunk) : j = Len(file) + h + k /\ file'[j] = chunk[k]
                <5>1. PICK k \in 1..Len(chunk) : file'[j] = chunk[k]
                    BY <4>2
                <5>2. file[i] <= saved.at /\ saved.at < chunk[k] /\ file[i] = chunk[k]
                    BY <1>1, <2>3, <3>1, <5>1
                <5> QED
                    BY <1>0, <3>1, <5>2
            <4> QED
                BY <1>0, <2>1, <2>3, <4>1, <4>2, EntryFrom
        <3>2. CASE \E k \in 1..Len(chunk) : i = Len(file) + h + k /\ file'[i] = chunk[k]
            <4>0. PICK k \in 1..Len(chunk) : i = Len(file) + h + k /\ file'[i] = chunk[k]
                BY <3>2
            <4>1. CASE j \in 1..Len(file) /\ file'[j] = file[j]
                <5>1. file[j] <= saved.at /\ saved.at < chunk[k] /\ file[j] = chunk[k]
                    BY <1>1, <2>3, <4>0, <4>1
                <5> QED
                    BY <1>0, <4>1, <5>1
            <4>2. CASE \E l \in 1..Len(chunk) : j = Len(file) + h + l /\ file'[j] = chunk[l]
                <5>1. PICK l \in 1..Len(chunk) : j = Len(file) + h + l /\ file'[j] = chunk[l]
                    BY <4>2
                <5>2. k # l /\ chunk[k] = chunk[l]
                    BY <2>3, <4>0, <5>1
                <5>3. k < l \/ l < k
                    BY <5>2
                <5> QED
                    BY <1>0, <1>1, <5>2, <5>3
            <4> QED
                BY <1>0, <2>1, <2>3, <4>1, <4>2, EntryFrom
        <3> QED
            BY <1>0, <2>1, <2>3, <3>1, <3>2, EntryFrom
    <2> QED
        BY <2>2, <2>3
<1> QED
    BY <1>2, <1>3

\* The file keeps to what is below the checkpoint.
LEMMA FileStep ==
    ASSUME StreamInv, FileInv, [Next]_vars, StreamInv'
    PROVE  FileInv'
<1> SUFFICES ASSUME ~unsure', ~fresh', deletes' = 0
             PROVE  /\ \A i, j \in 1..Len(file') : i # j /\ file'[i] # Header => file'[i] # file'[j]
                    /\ runs' = 0 => file' = <<>>
                    /\ Underway' /\ pc' # "checkpoint" => \A i \in 1..Len(file') : file'[i] <= saved'.at
                    /\ pc' = "checkpoint" => \A i \in 1..Len(file') : file'[i] <= rd'.at
    BY DEF FileInv
<1>0. Aligned' /\ Aligned /\ StreamTyped /\ PlaceInv /\ ChunkInv
    <2>1. Aligned'
        BY DEF Aligned
    <2> QED
        BY <2>1, AlignedBefore DEF StreamInv
<1>1. ~unsure /\ ~fresh /\ deletes = 0
    <2>1. deletes' = deletes \/ deletes' = deletes + 1
        BY DEF Next, vars, config, repo, target, history, StartRun, ReadItem, EndRead, ReadThrows, WriteChunk,
               WriteThrows, SaveCheckpoint, FailStep, FinishStep, Crash, DeleteRow
    <2>2. unsure' = unsure \/ unsure' = TRUE
        BY DEF Next, vars, config, repo, target, history, StartRun, ReadItem, EndRead, ReadThrows, WriteChunk,
               WriteThrows, SaveCheckpoint, FailStep, FinishStep, Crash, DeleteRow
    <2>3. fresh' = fresh \/ fresh' = (fresh \/ (runs > 0 /\ ~resumable))
        BY DEF Next, vars, config, repo, target, history, StartRun, ReadItem, EndRead, ReadThrows, WriteChunk,
               WriteThrows, SaveCheckpoint, FailStep, FinishStep, Crash, DeleteRow
    <2>4. ~unsure
        BY <2>2, Zenon
    <2>5. ~fresh
        BY <2>3, Zenon
    <2>6. deletes = 0
        BY <1>0, <2>1 DEF StreamTyped
    <2> QED
        BY <2>4, <2>5, <2>6, Zenon
<1>2. /\ \A i, j \in 1..Len(file) : i # j /\ file[i] # Header => file[i] # file[j]
      /\ runs = 0 => file = <<>>
      /\ Underway /\ pc # "checkpoint" => \A i \in 1..Len(file) : file[i] <= saved.at
      /\ pc = "checkpoint" => \A i \in 1..Len(file) : file[i] <= rd.at
    BY <1>1 DEF FileInv
<1>3. /\ saved.at \in Nat /\ rd.at \in Nat /\ runs \in Nat
      /\ \A i \in 1..Len(file) : file[i] \in Nat
    <2>1. file \in Seq(Nat) /\ saved.at \in Nat /\ rd.at \in Nat /\ runs \in Nat
        BY <1>0 DEF StreamTyped, Readers, Checkpoints
    <2> QED
        BY <2>1, EntryOf
<1>4. CASE StartRun
    <2>0. runs > 0 => resumable
        <3>1. fresh' = (fresh \/ (runs > 0 /\ ~resumable))
            BY <1>4 DEF StartRun
        <3> QED
            BY <3>1, Zenon
    <2>1. file' = file /\ pc' = "read" /\ runs' # 0 /\ (runs > 0 => resumable)
          /\ pc = "idle" /\ (resumable => saved' = saved)
        BY <1>3, <1>4, <2>0 DEF StartRun, target
    <2>2. CASE resumable
        BY <1>2, <2>1, <2>2 DEF Underway
    <2>3. CASE ~resumable
        <3>1. file' = <<>>
            BY <1>2, <1>3, <2>1, <2>3
        <3>2. Len(file') = 0
            BY <3>1
        <3> QED
            BY <2>1, <3>2
    <2> QED
        BY <2>2, <2>3
<1>5. CASE WriteChunk
    <2>1. pc = "write" /\ pc' = "checkpoint" /\ Taken /\ rd' = rd /\ runs' = runs
        BY <1>5 DEF WriteChunk, repo
    <2>2. runs > 0
        BY <1>0, <2>1 DEF PlaceInv
    <2>3. \A i \in 1..Len(file) : file[i] <= saved.at
        BY <1>2, <2>1 DEF Underway
    <2> QED
        BY <1>0, <1>2, <1>3, <2>1, <2>2, <2>3, FileGrows
<1>6. CASE WriteThrows
    <2>1. pc = "write" /\ file' = file /\ rd' = rd /\ runs' = runs /\ saved' = saved
        BY <1>6 DEF WriteThrows, repo, target
    <2>2. \A i \in 1..Len(file) : file[i] <= saved.at
        BY <1>2, <2>1 DEF Underway
    <2>3. saved.at < rd.at
        BY <1>0, <2>1 DEF PlaceInv
    <2> QED
        BY <1>2, <1>3, <2>1, <2>2, <2>3
<1>7. CASE SaveCheckpoint
    <2>1. pc = "checkpoint" /\ pc' = "read" /\ file' = file /\ saved'.at = rd.at /\ runs' = runs
        BY <1>7 DEF SaveCheckpoint, target
    <2> QED
        BY <1>2, <2>1
<1>8. CASE ReadItem \/ EndRead \/ ReadThrows
    <2>1. pc = "read" /\ pc' # "checkpoint" /\ file' = file /\ saved' = saved /\ runs' = runs
        BY <1>8 DEF ReadItem, EndRead, ReadThrows, repo, target
    <2> QED
        BY <1>2, <2>1 DEF Underway
<1>9. CASE FailStep \/ FinishStep \/ Crash
    <2>1. pc # "idle" /\ pc' \in {"idle", "completed"} /\ file' = file /\ saved' = saved /\ runs' = runs
          /\ (pc = "checkpoint" => pc' = "idle" /\ resumable' = resumable)
        BY <1>9 DEF FailStep, FinishStep, Crash, repo, target
    <2>2. ~resumable
        BY <1>0, <2>1 DEF PlaceInv
    <2>3. Underway' => pc # "checkpoint"
        BY <2>1, <2>2 DEF Underway
    <2> QED
        BY <1>2, <2>1, <2>3 DEF Underway
<1>10. CASE (\E i \in 1..Rows : DeleteRow(i)) \/ UNCHANGED vars
    <2>1. file' = file /\ pc' = pc /\ saved' = saved /\ runs' = runs /\ rd' = rd /\ resumable' = resumable
        BY <1>10 DEF DeleteRow, vars, repo, target
    <2> QED
        BY <1>2, <2>1 DEF Underway
<1> QED
    BY <1>4, <1>5, <1>6, <1>7, <1>8, <1>9, <1>10 DEF Next

\* A restart from a checkpoint writes no record a second time.
THEOREM RestartsDoNotRepeat == Spec => []RestartRepeatsNothing
<1>1. Init => FileInv
    <2> SUFFICES ASSUME Init PROVE FileInv
        OBVIOUS
    <2>1. file = <<>> /\ Len(file) = 0
        BY DEF Init
    <2> QED
        BY <2>1 DEF FileInv
<1>2. StreamInv /\ StreamInv' /\ FileInv /\ [Next]_vars => FileInv'
    BY FileStep
<1>3. StreamInv /\ FileInv => RestartRepeatsNothing
    <2> SUFFICES ASSUME StreamInv, FileInv PROVE RestartRepeatsNothing
        OBVIOUS
    <2>1. DOMAIN file = 1..Len(file)
        BY DEF StreamInv, StreamTyped
    <2> QED
        BY <2>1 DEF FileInv, RestartRepeatsNothing
<1> QED
    BY <1>1, <1>2, <1>3, StreamsInOrder, PTL DEF Spec

-----------------------------------------------------------------------------
(***************************************************************************)
(* OneObjectPerRecord: where a chunk ends.                                 *)
(***************************************************************************)
LEMMA SlotsFinite ==
    ASSUME StreamTyped, NEW lo, NEW p
    PROVE  IsFiniteSet(Slots(lo, p)) /\ Cardinality(Slots(lo, p)) \in Nat
<1>1. Len(Lines) \in Nat /\ Rows \in Nat
    BY ItemStreamsAssumption
<1>2. Slots(lo, p) \in SUBSET (1..(Len(Lines) + Rows))
    <2>1. ASSUME NEW id \in Input PROVE id \in 1..(Len(Lines) + Rows)
        <3>1. id \in Nat /\ FirstPosition(reader) < id /\ (reader \in TableReader => id <= Rows)
            BY InputTyped
        <3>2. reader \notin TableReader => id <= Len(Lines)
            BY <1>1 DEF Input, StreamTyped
        <3>3. 0 < id
            BY <3>1 DEF FirstPosition
        <3> QED
            BY <1>1, <3>1, <3>2, <3>3
    <2> QED
        BY <2>1 DEF Slots, TakesSlot
<1>3. IsFiniteSet(1..(Len(Lines) + Rows))
    BY <1>1, FS_Interval
<1>4. IsFiniteSet(Slots(lo, p))
    BY <1>2, <1>3, FS_Subset
<1> QED
    BY <1>4, FS_CardinalityType

\* Of two places where a chunk might end, none is before the other.
LEMMA EndsNotBefore ==
    ASSUME StreamTyped, NEW lo \in Nat, NEW p \in Nat, NEW q \in Nat, EndsAt(lo, p), EndsAt(lo, q), p < q
    PROVE  FALSE
<1>0. /\ ChunkSize \in Nat /\ Len(Lines) \in Nat
      /\ Cardinality(Slots(lo, p)) \in Nat /\ Cardinality(Slots(lo, q)) \in Nat /\ lo < p
      /\ \A id \in Input : id \in Nat
    BY ItemStreamsAssumption, SlotsFinite, InputTyped DEF EndsAt
<1>1. Slots(lo, p) \in SUBSET Slots(lo, q)
    <2>1. \A id \in TakesSlot : id \in Nat
        BY <1>0 DEF TakesSlot
    <2> QED
        BY <2>1 DEF Slots
<1>2. Cardinality(Slots(lo, p)) <= Cardinality(Slots(lo, q))
    BY <1>1, SlotsFinite, FS_Subset
<1>3. CASE EndsFull(lo, p)
    <2>1. CASE EndsFull(lo, q)
        <3>1. q \in Slots(lo, q) /\ q \notin Slots(lo, p)
            BY <1>0, <2>1 DEF EndsFull, Slots
        <3>2. Cardinality(Slots(lo, p)) = Cardinality(Slots(lo, q))
            BY <1>3, <2>1 DEF EndsFull
        <3>3. Slots(lo, p) = Slots(lo, q)
            BY <1>1, <3>2, SlotsFinite, FS_Subset
        <3> QED
            BY <3>1, <3>3
    <2>2. CASE EndsAtNull(lo, q) \/ EndsAtEnd(lo, q)
        BY <1>0, <1>2, <1>3, <2>2 DEF EndsFull, EndsAtNull, EndsAtEnd
    <2> QED
        BY <2>1, <2>2 DEF EndsAt
<1>4. CASE EndsAtNull(lo, p)
    <2>1. reader = "s3" /\ p \in 1..Len(Lines) /\ Lines[p] = "null"
        BY <1>4 DEF EndsAtNull
    <2>2. ~NoNull(lo, q) /\ ~NoNull(lo, q - 1)
        BY <1>0, <2>1 DEF NoNull
    <2> QED
        BY <2>2 DEF EndsAt, EndsFull, EndsAtNull, EndsAtEnd
<1>5. CASE EndsAtEnd(lo, p)
    <2>1. q \notin Input
        <3>1. CASE reader \in LineReader
            BY <1>0, <1>5, <3>1 DEF EndsAtEnd, Input
        <3>2. CASE reader \notin LineReader
            BY <1>0, <1>5, <3>2 DEF EndsAtEnd
        <3> QED
            BY <3>1, <3>2
    <2>2. ~EndsFull(lo, q)
        BY <2>1 DEF EndsFull, TakesSlot
    <2>3. ~EndsAtNull(lo, q)
        BY <1>0, <1>5 DEF EndsAtNull, EndsAtEnd, LineReader
    <2>4. ~EndsAtEnd(lo, q)
        BY <1>0, <1>5, <2>1 DEF EndsAtEnd
    <2> QED
        BY <2>2, <2>3, <2>4 DEF EndsAt
<1> QED
    BY <1>3, <1>4, <1>5 DEF EndsAt

\* A position and the input determine where the chunk after it ends.
LEMMA EndsOnce ==
    ASSUME StreamTyped, NEW lo \in Nat, NEW p \in Nat, NEW q \in Nat, EndsAt(lo, p), EndsAt(lo, q)
    PROVE  p = q
<1>1. p < q \/ q < p \/ p = q
    OBVIOUS
<1> QED
    BY <1>1, EndsNotBefore

\* The record read next is the one that takes a slot, if any does.
LEMMA SlotAdded ==
    ASSUME StreamTyped, NEW lo \in Nat, NEW item \in Nat, lo <= rd.at, rd.at < item, Nothing(rd.at, item)
    PROVE  /\ item \notin Slots(lo, rd.at)
           /\ Slots(lo, item) = Slots(lo, rd.at) \cup (IF item \in TakesSlot THEN {item} ELSE {})
<1>1. rd.at \in Nat /\ \A id \in TakesSlot : id \in Nat /\ id \in Input
    BY InputTyped DEF StreamTyped, Readers, TakesSlot
<1>2. \A id \in TakesSlot : id <= item => id <= rd.at \/ id = item
    BY <1>1 DEF Nothing
<1> QED
    BY <1>1, <1>2 DEF Slots

\* And none does between the last record and the end.
LEMMA SlotsEnd ==
    ASSUME StreamTyped, NEW lo \in Nat, NEW q \in Nat, lo <= rd.at, rd.at <= q,
           \A id \in Input : id <= rd.at \/ q < id
    PROVE  Slots(lo, q) = Slots(lo, rd.at)
<1>1. rd.at \in Nat /\ \A id \in TakesSlot : id \in Nat /\ id \in Input
    BY InputTyped DEF StreamTyped, Readers, TakesSlot
<1> QED
    BY <1>1 DEF Slots

\* Where chunks end depends on the input and on the policy only.
LEMMA EndsKept ==
    ASSUME table' = table, reader' = reader, onRead' = onRead
    PROVE  /\ Input' = Input /\ TakesSlot' = TakesSlot
           /\ \A lo, p : /\ Slots(lo, p)' = Slots(lo, p)
                         /\ NoNull(lo, p)' <=> NoNull(lo, p)
                         /\ EndsAt(lo, p)' <=> EndsAt(lo, p)
<1>1. Input' = Input
    BY DEF Input
<1>2. \A id : Unreadable(id)' <=> Unreadable(id)
    BY DEF Unreadable
<1>3. TakesSlot' = TakesSlot
    BY <1>1, <1>2 DEF TakesSlot
<1>4. ASSUME NEW lo, NEW p PROVE Slots(lo, p)' = Slots(lo, p) /\ (NoNull(lo, p)' <=> NoNull(lo, p))
    BY <1>3 DEF Slots, NoNull
<1>5. ASSUME NEW lo, NEW p PROVE EndsAt(lo, p)' <=> EndsAt(lo, p)
    BY <1>1, <1>3, <1>4 DEF EndsAt, EndsFull, EndsAtNull, EndsAtEnd
<1> QED
    BY <1>1, <1>3, <1>4, <1>5

\* Chunks that are the same in all runs were so before the step, and no row went.
LEMMA SameChunksBefore ==
    ASSUME StreamTyped, [Next]_vars, SameChunks'
    PROVE  /\ SameChunks /\ deletes = 0 /\ Aligned /\ Aligned'
           /\ skippedWrites' = skippedWrites
           /\ ~(\E i \in 1..Rows : DeleteRow(i))
<1>1. /\ deletes' = 0 /\ skippedWrites' = 0 /\ 0 \notin reported'
      /\ \A id \in passed' : id # 0 => Unreadable(id)'
    BY DEF SameChunks
<1>2. deletes \in Nat /\ skippedWrites \in Nat
    BY DEF StreamTyped
<1>3. /\ deletes' = deletes \/ deletes' = deletes + 1
      /\ skippedWrites' = skippedWrites \/ skippedWrites' = skippedWrites + 1
      /\ reported \subseteq reported' /\ passed \subseteq passed' /\ reader' = reader
    BY DEF Next, vars, config, repo, target, history, StartRun, ReadItem, EndRead, ReadThrows, WriteChunk,
           WriteThrows, SaveCheckpoint, FailStep, FinishStep, Crash, DeleteRow
<1>4. deletes = 0 /\ skippedWrites = 0 /\ 0 \notin reported
    BY <1>1, <1>2, <1>3
<1>5. \A id \in passed : id # 0 => Unreadable(id)
    BY <1>1, <1>3 DEF Unreadable
<1>6. ~(\E i \in 1..Rows : DeleteRow(i))
    <2>1. (\E i \in 1..Rows : DeleteRow(i)) => deletes' = deletes + 1
        BY DEF DeleteRow
    <2> QED
        BY <1>1, <1>2, <2>1
<1> QED
    BY <1>1, <1>4, <1>5, <1>6 DEF SameChunks, Aligned

\* No slot before the first record.
LEMMA NoSlots ==
    ASSUME StreamTyped, NEW lo \in Nat
    PROVE  Slots(lo, lo) = {} /\ Cardinality(Slots(lo, lo)) = 0 /\ NoNull(lo, lo)
<1>1. \A id \in TakesSlot : id \in Nat
    BY InputTyped DEF TakesSlot
<1>2. Slots(lo, lo) = {}
    BY <1>1 DEF Slots
<1>3. NoNull(lo, lo)
    BY ItemStreamsAssumption DEF NoNull
<1> QED
    BY <1>2, <1>3, FS_EmptySet

\* What the read of a record does to the slots.
LEMMA SlotRead ==
    ASSUME StreamInv, Aligned, deletes = 0, pc = "read", Answer.item # 0, NoNull(saved.at, rd.at)
    PROVE  /\ Answer.rd.at \in TakesSlot =>
                Cardinality(Slots(saved.at, Answer.rd.at)) = Cardinality(Slots(saved.at, rd.at)) + 1
           /\ Answer.rd.at \notin TakesSlot => Slots(saved.at, Answer.rd.at) = Slots(saved.at, rd.at)
           /\ NoNull(saved.at, Answer.rd.at)
           /\ Answer.rd.at = Answer.item /\ Answer.item \in Input
<1>0. /\ StreamTyped /\ TableInv /\ BufferInv /\ PlaceInv
      /\ saved.at \in Nat /\ rd.at \in Nat /\ saved.at <= rd.at
    <2>1. StreamTyped /\ TableInv /\ BufferInv /\ PlaceInv
        BY DEF StreamInv
    <2> QED
        BY <2>1 DEF StreamTyped, Readers, Checkpoints, PlaceInv
<1>1. PICK a : a = Answer
    OBVIOUS
<1>2. Found(a.item, a.rd) /\ a.item \in Nat
    BY <1>0, <1>1, LineAnswer, RowAnswer, AnswerTyped DEF StreamTyped
<1>3. PICK item \in Nat : item = a.item /\ a.rd.at = item /\ rd.at < item /\ Nothing(rd.at, item)
    BY <1>2 DEF Found
<1>4. /\ item \notin Slots(saved.at, rd.at)
      /\ Slots(saved.at, item) = Slots(saved.at, rd.at) \cup (IF item \in TakesSlot THEN {item} ELSE {})
    BY <1>0, <1>3, SlotAdded
<1>5. item \in TakesSlot => Cardinality(Slots(saved.at, item)) = Cardinality(Slots(saved.at, rd.at)) + 1
    BY <1>0, <1>4, SlotsFinite, FS_AddElement
<1>6. NoNull(saved.at, item)
    <2>1. NoNull(rd.at, item)
        BY <1>2, <1>3 DEF Found
    <2>2. \A i \in 1..Len(Lines) : saved.at < i /\ i <= item => (saved.at < i /\ i <= rd.at) \/ (rd.at < i /\ i <= item)
        BY <1>0, ItemStreamsAssumption
    <2> QED
        BY <2>1, <2>2 DEF NoNull
<1>7. item \in Input
    BY <1>2, <1>3 DEF Found
<1> QED
    BY <1>1, <1>3, <1>4, <1>5, <1>6, <1>7

\* The chunk in hand stays the one that begins at the saved position.
LEMMA SlotStep ==
    ASSUME StreamInv, SlotInv, [Next]_vars, StreamInv'
    PROVE  SlotInv'
<1> SUFFICES ASSUME SameChunks'
             PROVE  /\ pc' = "read" => /\ slot' = Cardinality(Slots(saved.at, rd.at)')
                                       /\ NoNull(saved.at, rd.at)'
                                       /\ slot' = ChunkSize => rd'.at \in TakesSlot'
                    /\ pc' \in {"write", "checkpoint"} => EndsAt(saved.at, rd.at)'
    BY DEF SlotInv
<1>0. /\ StreamTyped /\ Aligned /\ TableInv /\ BufferInv /\ PlaceInv
      /\ saved.at \in Nat /\ rd.at \in Nat /\ slot \in Nat /\ ChunkSize \in Nat \ {0} /\ deletes = 0
    <2>1. StreamTyped /\ Aligned /\ deletes = 0
        BY SameChunksBefore DEF StreamInv
    <2> QED
        BY <2>1, ItemStreamsAssumption DEF StreamInv, StreamTyped, Readers, Checkpoints
<1>1. PICK lo, p : lo = saved'.at /\ p = rd'.at
    OBVIOUS
<1>2. lo \in Nat /\ p \in Nat
    BY <1>1 DEF StreamInv, StreamTyped, Readers, Checkpoints
<1>3. /\ TakesSlot' = TakesSlot
      /\ Slots(lo, p)' = Slots(lo, p) /\ (NoNull(lo, p)' <=> NoNull(lo, p)) /\ (EndsAt(lo, p)' <=> EndsAt(lo, p))
    <2>1. table' = table /\ reader' = reader /\ onRead' = onRead
        BY <1>0, SameChunksBefore, TableKept
    <2> QED
        BY <2>1, EndsKept
<1>4. SUFFICES /\ pc' = "read" => /\ slot' = Cardinality(Slots(lo, p)) /\ NoNull(lo, p)
                                  /\ slot' = ChunkSize => p \in TakesSlot
               /\ pc' \in {"write", "checkpoint"} => EndsAt(lo, p)
    BY <1>1, <1>3 DEF Slots, NoNull, EndsAt, EndsFull, EndsAtNull, EndsAtEnd
<1>5. /\ pc = "read" => /\ slot = Cardinality(Slots(saved.at, rd.at)) /\ NoNull(saved.at, rd.at)
                        /\ slot = ChunkSize => rd.at \in TakesSlot
      /\ pc \in {"write", "checkpoint"} => EndsAt(saved.at, rd.at)
    BY <1>0, SameChunksBefore DEF SlotInv
<1>6. CASE StartRun \/ SaveCheckpoint
    <2>1. p = lo /\ slot' = 0 /\ pc' = "read"
        BY <1>1, <1>6 DEF StartRun, SaveCheckpoint
    <2> QED
        BY <1>0, <1>2, <2>1, NoSlots
<1>7. CASE ReadItem
    <2>1. /\ pc = "read" /\ pc' = "read" /\ slot' = slot + 1 /\ lo = saved.at /\ p = Answer.rd.at
          /\ Answer.item # 0 /\ ~Unreadable(Answer.item)
        BY <1>1, <1>7 DEF ReadItem, repo
    <2>2. p \in TakesSlot
        BY <1>0, <1>5, <2>1, SlotRead DEF TakesSlot
    <2> QED
        BY <1>0, <1>5, <2>1, <2>2, SlotRead
<1>8. CASE ReadThrows
    <2>1. /\ pc = "read" /\ lo = saved.at /\ Answer.item # 0
          /\ p = IF reader \in LineReader THEN Answer.rd.at ELSE rd.at
          /\ \/ onRead = "skip" /\ slot' = slot + 1
                /\ reported' = reported \cup {IF reader \in LineReader THEN Answer.item ELSE 0}
             \/ onRead = "retry" /\ slot' = slot /\ slot < ChunkSize
                /\ passed' = passed \cup {IF reader \in LineReader THEN Answer.item ELSE 0}
             \/ pc' = "failing"
          /\ pc' \in {"read", "failing"}
        BY <1>1, <1>8 DEF ReadThrows, repo
    <2>2. CASE pc' = "failing"
        BY <2>2
    <2>3. CASE onRead = "skip" /\ slot' = slot + 1
                /\ reported' = reported \cup {IF reader \in LineReader THEN Answer.item ELSE 0}
        <3>1. reader \in LineReader
            BY <2>3 DEF SameChunks
        <3>2. p = Answer.rd.at /\ p \in TakesSlot
            BY <1>0, <1>5, <2>1, <2>3, <3>1, SlotRead DEF TakesSlot
        <3> QED
            BY <1>0, <1>5, <2>1, <2>3, <3>2, SlotRead
    <2>4. CASE onRead = "retry" /\ slot' = slot /\ slot < ChunkSize
                /\ passed' = passed \cup {IF reader \in LineReader THEN Answer.item ELSE 0}
        <3>1. slot' # ChunkSize
            BY <1>0, <2>4
        <3>2. CASE reader \in LineReader
            <4>1. Unreadable(Answer.item)
                <5>1. PICK item : item = Answer.item
                    OBVIOUS
                <5>2. item \in passed' /\ item # 0
                    BY <2>1, <2>4, <3>2, <5>1
                <5>3. reader' = reader
                    BY <1>8 DEF ReadThrows, config
                <5>4. \A id \in passed' : id # 0 => Unreadable(id)
                    BY <5>3 DEF SameChunks, Unreadable
                <5> QED
                    BY <5>1, <5>2, <5>4
            <4>2. p = Answer.rd.at /\ p \notin TakesSlot
                BY <1>0, <1>5, <2>1, <2>4, <3>2, <4>1, SlotRead DEF TakesSlot
            <4> QED
                BY <1>0, <1>5, <2>1, <2>4, <3>1, <4>2, SlotRead
        <3>3. CASE reader \notin LineReader
            BY <1>5, <2>1, <2>4, <3>1, <3>3
        <3> QED
            BY <3>2, <3>3
    <2> QED
        BY <2>1, <2>2, <2>3, <2>4
<1>9. CASE EndRead /\ pc' = "write"
    <2>1. /\ pc = "read" /\ lo = saved.at /\ chunk # <<>>
          /\ \/ slot = ChunkSize /\ p = rd.at
             \/ slot < ChunkSize /\ Answer.item = 0 /\ p = Answer.rd.at
        BY <1>1, <1>9 DEF EndRead, repo
    <2>2. saved.at < rd.at /\ Place(rd.at) /\ Place(saved.at)
        BY <1>0, <2>1 DEF PlaceInv, Underway
    <2>3. CASE slot = ChunkSize /\ p = rd.at
        BY <1>5, <1>9, <2>1, <2>2, <2>3 DEF EndsAt, EndsFull
    <2>4. CASE slot < ChunkSize /\ Answer.item = 0 /\ p = Answer.rd.at
        <3>1. rd.at <= p
            BY <1>0, <2>1, <2>4, AnswerMoves
        <3>2. AtEnd(Answer.rd) \/ CutOff(Answer.rd)
            BY <1>0, <2>1, <2>4, LineAnswer, RowAnswer DEF StreamTyped
        <3>3. CASE AtEnd(Answer.rd)
            <4>1. \A id \in Input : id <= rd.at \/ p < id
                BY <3>3 DEF AtEnd
            <4>2. Slots(lo, p) = Slots(saved.at, rd.at)
                BY <1>0, <1>2, <2>1, <2>2, <3>1, <4>1, SlotsEnd
            <4>3. Cardinality(Slots(lo, p)) < ChunkSize
                BY <1>5, <2>1, <2>4, <4>2
            <4>4. NoNull(lo, p)
                BY <1>0, <1>5, <2>1, <3>3, ItemStreamsAssumption DEF NoNull, AtEnd
            <4>5. IF reader \in LineReader THEN p = Len(Lines) ELSE p \in Input /\ \A id \in Input : id <= p
                <5>1. CASE reader \in LineReader
                    BY <2>4, <3>3, <5>1 DEF AtEnd
                <5>2. CASE reader \notin LineReader
                    <6>1. p = rd.at /\ \A id \in Input : id <= p
                        BY <2>4, <3>3, <5>2 DEF AtEnd
                    <6>2. p \in 1..Rows /\ Len(table) = Rows /\ table[p] = p
                        BY <1>0, <2>2, <5>2, <6>1, ItemStreamsAssumption DEF Place, TableInv
                    <6>3. p \in Input
                        <7>1. DOMAIN table = 1..Len(table)
                            BY <1>0 DEF StreamTyped
                        <7> QED
                            BY <5>2, <6>2, <7>1 DEF Input
                    <6> QED
                        BY <5>2, <6>1, <6>3
                <5> QED
                    BY <5>1, <5>2
            <4>6. lo < p
                BY <1>0, <1>2, <2>1, <2>2, <3>1
            <4> QED
                BY <1>9, <4>3, <4>4, <4>5, <4>6 DEF EndsAt, EndsAtEnd
        <3>4. CASE CutOff(Answer.rd)
            <4>1. reader = "s3" /\ p \in 1..Len(Lines) /\ Lines[p] = "null" /\ rd.at < p
                  /\ Nothing(rd.at, p) /\ NoNull(rd.at, p - 1)
                BY <2>4, <3>4 DEF CutOff
            <4>2. \A id \in Input : id <= rd.at \/ p < id
                <5>1. p \notin Input
                    BY <4>1 DEF Input, LineReader
                <5>2. \A id \in Input : id \in Nat
                    BY <1>0, InputTyped
                <5> QED
                    BY <1>0, <1>2, <4>1, <5>1, <5>2 DEF Nothing
            <4>3. Slots(lo, p) = Slots(saved.at, rd.at)
                BY <1>0, <1>2, <2>1, <2>2, <3>1, <4>2, SlotsEnd
            <4>4. Cardinality(Slots(lo, p)) < ChunkSize
                BY <1>5, <2>1, <2>4, <4>3
            <4>5. NoNull(lo, p - 1)
                BY <1>0, <1>2, <1>5, <2>1, <4>1, ItemStreamsAssumption DEF NoNull
            <4>6. lo < p
                BY <1>0, <1>2, <2>1, <2>2, <3>1
            <4> QED
                BY <1>9, <4>1, <4>4, <4>5, <4>6 DEF EndsAt, EndsAtNull
        <3> QED
            BY <3>2, <3>3, <3>4
    <2> QED
        BY <2>1, <2>3, <2>4, <1>9
<1>10. CASE pc' \notin {"read", "write", "checkpoint"}
    BY <1>10
<1>11. CASE \/ UNCHANGED vars
            \/ WriteChunk \/ WriteThrows
    <2>1. /\ lo = saved.at /\ p = rd.at
          /\ \/ pc \in {"write", "checkpoint"} /\ pc' \in {"write", "checkpoint", "failing"}
             \/ pc' = pc /\ slot' = slot
        BY <1>1, <1>11 DEF vars, repo, WriteChunk, WriteThrows
    <2> QED
        BY <1>5, <2>1
<1> QED
    BY <1>0, <1>6, <1>7, <1>8, <1>9, <1>10, <1>11, SameChunksBefore
       DEF Next, EndRead, FailStep, FinishStep, Crash

\* The cuts (n, b), and chunk k ending at p.
Extended(n, b, k, p) ==
    \E m \in Nat : \E c \in [0..m -> Nat] :
        /\ Cut(m, c) /\ n <= m /\ (\A i \in 0..n : c[i] = b[i])
        /\ k < m /\ c[k + 1] = p

\* The chunk in hand is the one that began there before, or the next one.
LEMMA CutExtended ==
    ASSUME StreamTyped, NEW n \in Nat, NEW b \in [0..n -> Nat], Cut(n, b),
           NEW k \in 0..n, NEW p \in Nat, EndsAt(b[k], p)
    PROVE  Extended(n, b, k, p)
<1>0. \A i \in 0..n : b[i] \in Nat
    OBVIOUS
<1>1. CASE k < n
    <2>1. EndsAt(b[k], b[k + 1]) /\ k + 1 \in 0..n
        BY <1>1 DEF Cut
    <2>2. b[k + 1] = p
        BY <1>0, <2>1, EndsOnce
    <2> QED
        BY <1>1, <2>2 DEF Extended
<1>2. CASE k = n
    <2> DEFINE c == [i \in 0..(n + 1) |-> IF i <= n THEN b[i] ELSE p]
    <2>1. c \in [0..(n + 1) -> Nat] /\ n + 1 \in Nat
        BY <1>0
    <2>2. (\A i \in 0..n : c[i] = b[i]) /\ c[n + 1] = p
        OBVIOUS
    <2> HIDE DEF c
    <2>3. b[n] < p
        BY <1>2 DEF EndsAt
    <2>4. ASSUME NEW i \in 0..(n + 1), i < n + 1 PROVE EndsAt(c[i], c[i + 1])
        <3>1. CASE i < n
            <4>1. i \in 0..n /\ i + 1 \in 0..n
                BY <3>1
            <4> QED
                BY <2>2, <3>1, <4>1 DEF Cut
        <3>2. CASE i = n
            BY <1>2, <2>2, <3>2
        <3> QED
            BY <2>4, <3>1, <3>2
    <2>5. ASSUME NEW i \in 0..(n + 1), NEW j \in 0..(n + 1), i < j PROVE c[i] < c[j]
        <3>1. i \in 0..n /\ (j \in 0..n \/ j = n + 1)
            BY <2>5
        <3>2. \A l \in 0..n : b[l] <= b[n]
            <4> TAKE l \in 0..n
            <4>1. l = n \/ l < n
                OBVIOUS
            <4> QED
                BY <1>0, <4>1 DEF Cut
        <3>3. CASE j \in 0..n
            BY <2>2, <2>5, <3>1, <3>3 DEF Cut
        <3>4. CASE j = n + 1
            BY <1>0, <2>2, <2>3, <3>1, <3>2, <3>4
        <3> QED
            BY <3>1, <3>3, <3>4
    <2>6. Cut(n + 1, c)
        <3>1. c[0] = FirstPosition(reader)
            BY <2>2 DEF Cut
        <3> QED
            BY <2>4, <2>5, <3>1 DEF Cut
    <2> QED
        BY <1>2, <2>1, <2>2, <2>6 DEF Extended
<1>3. k < n \/ k = n
    OBVIOUS
<1> QED
    BY <1>1, <1>2, <1>3

\* Only the s3 writer puts objects.
LEMMA OthersPutNothing ==
    ASSUME StreamInv, CutsInv, [Next]_vars, writer' # "s3"
    PROVE  \A k \in ChunkNumbers : objects'[k] = {}
<1>1. writer' = writer
    BY DEF Next, vars, config, StartRun, ReadItem, EndRead, ReadThrows, WriteChunk,
           WriteThrows, SaveCheckpoint, FailStep, FinishStep, Crash, DeleteRow
<1>2. objects' = objects
    BY <1>1 DEF Next, vars, target, StartRun, ReadItem, EndRead, ReadThrows, WriteChunk,
           WriteThrows, SaveCheckpoint, FailStep, FinishStep, Crash, DeleteRow, Taken
<1> QED
    BY <1>1, <1>2 DEF CutsInv

\* Cuts of the input still say where each object begins and ends after the step.
LEMMA CutsStep ==
    ASSUME StreamInv, SlotInv, CutsInv, [Next]_vars, StreamInv', SameChunks', writer' = "s3"
    PROVE  \E n \in Nat : \E b \in [0..n -> Nat] : (Cut(n, b) /\ PutWithin(n, b) /\ AtCuts(n, b))'
<1>0. /\ StreamTyped /\ PlaceInv /\ ChunkInv /\ SameChunks /\ writer = "s3" /\ skippedWrites' = skippedWrites
      /\ saved.at \in Nat /\ rd.at \in Nat /\ saved.chunk \in Nat /\ wr.chunk \in Nat
    <2>1. StreamTyped /\ PlaceInv /\ ChunkInv /\ SameChunks /\ skippedWrites' = skippedWrites
        BY SameChunksBefore DEF StreamInv
    <2>2. writer = "s3"
        BY DEF Next, vars, config, StartRun, ReadItem, EndRead, ReadThrows, WriteChunk,
               WriteThrows, SaveCheckpoint, FailStep, FinishStep, Crash, DeleteRow
    <2> QED
        BY <2>1, <2>2 DEF StreamTyped, Readers, Checkpoints
<1>1. PICK n \in Nat : \E b \in [0..n -> Nat] : Cut(n, b) /\ PutWithin(n, b) /\ AtCuts(n, b)
    BY <1>0 DEF CutsInv
<1>2. PICK b \in [0..n -> Nat] : Cut(n, b) /\ PutWithin(n, b) /\ AtCuts(n, b)
    BY <1>1
<1>3. reader' = reader /\ \A lo, p : EndsAt(lo, p)' <=> EndsAt(lo, p)
    <2>1. table' = table /\ reader' = reader /\ onRead' = onRead
        BY <1>0, SameChunksBefore, TableKept
    <2> QED
        BY <2>1, EndsKept
<1>4. ASSUME NEW m \in Nat, NEW c \in [0..m -> Nat], Cut(m, c) PROVE Cut(m, c)'
    BY <1>3, <1>4 DEF Cut
<1>5. CASE pc = "write" /\ Taken /\ saved' = saved /\ rd' = rd /\ (pc' = "checkpoint" => wr'.chunk = wr.chunk + 1)
    <2>1. PICK k \in 0..n : k = saved.chunk /\ k = wr.chunk /\ saved.at = b[k]
        BY <1>0, <1>2, <1>5 DEF AtCuts, Underway, PlaceInv
    <2>2. EndsAt(b[k], rd.at)
        BY <1>0, <1>5, <2>1 DEF SlotInv
    <2>3. PICK m \in Nat : \E c \in [0..m -> Nat] :
              /\ Cut(m, c) /\ n <= m /\ (\A i \in 0..n : c[i] = b[i])
              /\ k < m /\ c[k + 1] = rd.at
        <3>1. Extended(n, b, k, rd.at)
            BY <1>0, <1>2, <2>2, CutExtended
        <3> QED
            BY <3>1 DEF Extended
    <2>4. PICK c \in [0..m -> Nat] :
              /\ Cut(m, c) /\ n <= m /\ (\A i \in 0..n : c[i] = b[i])
              /\ k < m /\ c[k + 1] = rd.at
        BY <2>3
    <2>5. ASSUME NEW i \in ChunkNumbers, NEW id \in objects'[i]
          PROVE  i < m /\ c[i] < id /\ id <= c[i + 1]
        <3>1. objects'[i] = IF i = wr.chunk THEN Handful ELSE objects[i]
            BY <1>0, <1>5, ObjectTaken
        <3>2. CASE i = wr.chunk
            <4>1. PICK j \in 1..Len(chunk) : id = chunk[j]
                BY <2>5, <3>1, <3>2 DEF Handful
            <4>2. saved.at < id /\ id <= rd.at
                BY <1>0, <1>5, <4>1 DEF ChunkInv
            <4> QED
                BY <2>1, <2>4, <3>2, <4>2
        <3>3. CASE i # wr.chunk
            <4>1. i < n /\ b[i] < id /\ id <= b[i + 1]
                BY <1>2, <2>5, <3>1, <3>3 DEF PutWithin
            <4>2. i \in 0..n /\ i + 1 \in 0..n
                BY <4>1 DEF ChunkNumbers
            <4> QED
                BY <2>4, <4>1, <4>2
        <3> QED
            BY <3>2, <3>3
    <2>6. PutWithin(m, c)'
        BY <2>5 DEF PutWithin
    <2>7. AtCuts(m, c)'
        BY <1>5, <2>1, <2>4 DEF AtCuts
    <2> QED
        BY <1>4, <2>4, <2>6, <2>7
<1>6. CASE objects' = objects
    <2>1. PutWithin(n, b)'
        BY <1>2, <1>6 DEF PutWithin
    <2>2. CASE StartRun
        <3>1. pc' = "read" /\ saved' = IF resumable THEN saved ELSE FreshContext
            BY <2>2 DEF StartRun
        <3>2. FreshContext.at = b[0] /\ FreshContext.chunk = 0
            BY <1>2 DEF FreshContext, Cut
        <3>3. AtCuts(n, b)'
            BY <1>2, <3>1, <3>2 DEF AtCuts, Underway
        <3> QED
            BY <1>2, <1>4, <2>1, <3>3
    <2>3. CASE SaveCheckpoint
        <3>1. pc = "checkpoint" /\ pc' = "read" /\ saved'.at = rd.at /\ saved'.chunk = wr.chunk
            BY <2>3 DEF SaveCheckpoint
        <3>2. AtCuts(n, b)'
            BY <1>2, <3>1 DEF AtCuts
        <3> QED
            BY <1>2, <1>4, <2>1, <3>2
    <2>4. CASE saved' = saved /\ (Underway' => Underway)
               /\ (pc' = "checkpoint" => pc = "checkpoint" /\ wr' = wr /\ rd' = rd)
        <3>1. AtCuts(n, b)'
            BY <1>2, <2>4 DEF AtCuts
        <3> QED
            BY <1>2, <1>4, <2>1, <3>1
    <2>5. \/ StartRun \/ SaveCheckpoint \/ WriteChunk
          \/ saved' = saved /\ (Underway' => Underway)
             /\ (pc' = "checkpoint" => pc = "checkpoint" /\ wr' = wr /\ rd' = rd)
        <3>1. CASE WriteThrows
            <4>1. pc' # "checkpoint"
                <5>1. pc' = "checkpoint" => skippedWrites' = skippedWrites + 1
                    BY <3>1 DEF WriteThrows
                <5> QED
                    BY <1>0, <5>1 DEF StreamTyped
            <4> QED
                BY <3>1, <4>1 DEF WriteThrows, repo, Underway
        <3>2. CASE ~WriteThrows
            BY <3>2 DEF Next, vars, repo, ReadItem, EndRead, ReadThrows, FailStep, FinishStep, Crash,
                        DeleteRow, Underway
        <3> QED
            BY <3>1, <3>2
    <2>6. CASE WriteChunk
        <3>1. pc = "write" /\ Taken /\ saved' = saved /\ rd' = rd /\ (pc' = "checkpoint" => wr'.chunk = wr.chunk + 1)
            BY <1>0, <2>6 DEF WriteChunk, WriteDone, repo
        <3> QED
            BY <1>5, <3>1
    <2> QED
        BY <2>2, <2>3, <2>4, <2>5, <2>6
<1>7. objects' = objects \/ ((WriteChunk \/ WriteThrows) /\ Taken)
    BY DEF Next, vars, target, StartRun, ReadItem, EndRead, ReadThrows, WriteChunk,
           WriteThrows, SaveCheckpoint, FailStep, FinishStep, Crash, DeleteRow
<1>8. (WriteChunk \/ WriteThrows) => pc = "write" /\ saved' = saved /\ rd' = rd
                                     /\ (pc' = "checkpoint" => wr'.chunk = wr.chunk + 1)
    <2>1. CASE WriteChunk
        BY <1>0, <2>1 DEF WriteChunk, WriteDone, repo
    <2>2. CASE WriteThrows
        <3>1. pc' = "checkpoint" => skippedWrites' = skippedWrites + 1
            BY <2>2 DEF WriteThrows
        <3>2. pc' # "checkpoint"
            BY <1>0, <3>1 DEF StreamTyped
        <3> QED
            BY <2>2, <3>2 DEF WriteThrows, repo
    <2> QED
        BY <2>1, <2>2
<1> QED
    BY <1>5, <1>6, <1>7, <1>8

\* The s3 writer keeps a record in one object.
THEOREM RecordsHaveOneObject == Spec => []OneObjectPerRecord
<1>1. Init => SlotInv /\ CutsInv
    <2> SUFFICES ASSUME Init PROVE SlotInv /\ CutsInv
        OBVIOUS
    <2>1. pc = "idle" /\ ~Underway /\ \A k \in ChunkNumbers : objects[k] = {}
        BY DEF Init, Underway
    <2>2. SlotInv
        BY <2>1 DEF SlotInv
    <2>3. \E n \in Nat : \E b \in [0..n -> Nat] : Cut(n, b) /\ PutWithin(n, b) /\ AtCuts(n, b)
        <3> DEFINE b == [i \in 0..0 |-> FirstPosition(reader)]
        <3>1. b \in [0..0 -> Nat] /\ b[0] = FirstPosition(reader)
            BY DEF FirstPosition
        <3> HIDE DEF b
        <3>2. Cut(0, b) /\ PutWithin(0, b) /\ AtCuts(0, b)
            BY <2>1, <3>1 DEF Cut, PutWithin, AtCuts
        <3> QED
            BY <3>1, <3>2
    <2> QED
        BY <2>1, <2>2, <2>3 DEF CutsInv
<1>2. StreamInv /\ StreamInv' /\ SlotInv /\ CutsInv /\ [Next]_vars => SlotInv' /\ CutsInv'
    <2> SUFFICES ASSUME StreamInv, StreamInv', SlotInv, CutsInv, [Next]_vars PROVE SlotInv' /\ CutsInv'
        OBVIOUS
    <2>1. SlotInv'
        BY SlotStep
    <2>2. writer' # "s3" => \A k \in ChunkNumbers : objects'[k] = {}
        BY OthersPutNothing
    <2>3. SameChunks' /\ writer' = "s3" =>
            \E n \in Nat : \E b \in [0..n -> Nat] : (Cut(n, b) /\ PutWithin(n, b) /\ AtCuts(n, b))'
        BY CutsStep
    <2> QED
        BY <2>1, <2>2, <2>3 DEF CutsInv
<1>3. StreamInv /\ CutsInv => OneObjectPerRecord
    <2> SUFFICES ASSUME StreamInv, CutsInv, SameChunks, NEW k \in ChunkNumbers, NEW m \in ChunkNumbers, k < m,
                        NEW id \in objects[k], id \in objects[m]
                 PROVE  FALSE
        <3>1. ASSUME NEW k \in ChunkNumbers, NEW m \in ChunkNumbers, k # m PROVE k < m \/ m < k
            BY <3>1 DEF ChunkNumbers
        <3> QED
            BY <3>1 DEF OneObjectPerRecord
    <2>1. writer = "s3"
        BY DEF CutsInv
    <2>2. PICK n \in Nat : \E b \in [0..n -> Nat] : Cut(n, b) /\ PutWithin(n, b) /\ AtCuts(n, b)
        BY <2>1 DEF CutsInv
    <2>3. PICK b \in [0..n -> Nat] : Cut(n, b) /\ PutWithin(n, b)
        BY <2>2
    <2>4. k < n /\ m < n /\ id <= b[k + 1] /\ b[m] < id
        BY <2>3 DEF PutWithin
    <2>5. k \in Nat /\ m \in Nat /\ k + 1 \in 0..n /\ m \in 0..n
        BY <2>4 DEF ChunkNumbers
    <2>6. k + 1 = m \/ k + 1 < m
        BY <2>5
    <2>7. b[k + 1] \in Nat /\ b[m] \in Nat /\ b[k + 1] <= b[m]
        BY <2>3, <2>5, <2>6 DEF Cut
    <2>8. id \in Nat
        BY DEF StreamInv, StreamTyped
    <2> QED
        BY <2>4, <2>7, <2>8
<1> QED
    BY <1>1, <1>2, <1>3, StreamsInOrder, PTL DEF Spec

=============================================================================
