--------------------------- MODULE SensorDataProofs ---------------------------
(***************************************************************************)
(* TypeOK, ReadingsInPlace, PointsKept and OffsetsSaved of SensorData for  *)
(* any nodes, channels, sizes, frames, commands and threads.               *)
(*                                                                         *)
(* ReadingsInPlace: between two values valuePtr is where the least channel *)
(* that is left begins, and distinct channels of a frame begin at distinct *)
(* bytes.  PointsKept: each point is in one of the places it passes on its *)
(* way, and a point is logged once for no frame brings it again.           *)
(* OffsetsSaved: while no command to tare has met another, one at most is  *)
(* under way, and where it is tells which of the offset, the mapping and   *)
(* the file is ahead of the next.                                          *)
(***************************************************************************)
EXTENDS SensorData, WellFoundedInduction, FiniteSetTheorems, SequenceTheorems, TLAPS

(* The invariant of the commands.                                          *)

Steps == {"idle", "subtract", "return", "map", "load", "save"}

TareTypes ==
  /\ offset \in Offsets /\ mapping \in Offsets /\ file \in Offsets
  /\ step \in [Operators -> Steps]
  /\ tare \in [Operators -> [channel : Ids, by : Int, result : Int]]
  /\ \A o \in Operators : step[o] # "idle" => tare[o].channel \in Channels
  /\ image \in [Operators -> Offsets]
  /\ overlapped \in BOOLEAN /\ unsaved \in BOOLEAN

Alone == \A o, p \in Operators : step[o] # "idle" /\ step[p] # "idle" => o = p

Mapped ==
  \A c \in Configured :
    \/ mapping[c] = offset[c]
    \/ \E o \in Operators : step[o] \in {"return", "map"} /\ tare[o].channel = c

Returned ==
  \A o \in Operators : step[o] = "map" => tare[o].result = offset[tare[o].channel]

Loaded == \A o \in Operators : step[o] = "save" => image[o] = mapping

Written ==
  unsaved \/ file = mapping \/ \E o \in Operators : step[o] \in {"load", "save"}

InOrder == Alone /\ Mapped /\ Returned /\ Loaded /\ Written

TareInv == TareTypes /\ (overlapped \/ InOrder)
-----------------------------------------------------------------------------
(* The invariant of the receivers.  ReceiveTypes says of what sort          *)
(* everything is; InPlace, where valuePtr points to; OneLogs, who has       *)
(* loggerMtx; Fresh, that what is still to be read has not been logged.     *)

ReceiveTypes ==
  /\ work = [r \in Receivers |-> work[r]] /\ todo \in [Receivers -> SUBSET Ids]
  /\ ptr \in [Receivers -> Nat] /\ pc \in [Receivers -> {"next", "read", "logging"}]
  /\ reading \in [Receivers -> Readings] /\ latest \in [Channels -> Readings]
  /\ inputs \in 0 .. MaxInputs

GoodFrame(f) ==
  /\ f.node \in AllNodes /\ f.n \in 1 .. inputs
  /\ f.mask \subseteq ChannelMap[f.node] \cup {Unknown}

GoodFrames(frames) == DOMAIN frames \subseteq Nat /\ \A i \in DOMAIN frames : GoodFrame(frames[i])

Reading(r) ==
  /\ todo[r] # {} => DOMAIN work[r] # {} /\ todo[r] \subseteq Frame(r).mask
  /\ pc[r] # "next" =>
       /\ todo[r] # {} /\ Current(r) \in ChannelMap[Frame(r).node]
       /\ reading[r].n = Frame(r).n

InPlace(r) ==
  /\ todo[r] # {} => /\ ptr[r] = Begins(Frame(r).mask, Current(r))
                     /\ todo[r] = {d \in Frame(r).mask : d >= Current(r)}
  /\ pc[r] # "next" => reading[r].of = {Current(r)}

OneLogs ==
  /\ stage = "idle" => \A r \in Receivers : pc[r] # "logging"
  /\ stage # "idle" =>
       \E r \in Receivers :
         /\ pc[r] = "logging" /\ \A q \in Receivers \ {r} : pc[q] # "logging"
         /\ stage = "point" => point = <<Current(r), Frame(r).n>>

(* The channels of the frame at position i whose points are still to come. *)
Expected(r, i) ==
  LET mine == ChannelMap[work[r][i].node]
  IN  IF i # First(work[r]) THEN work[r][i].mask \cap mine
      ELSE IF pc[r] = "logging" /\ stage # "point" THEN (todo[r] \cap mine) \ {Current(r)}
      ELSE todo[r] \cap mine

Apart(f, g) == f.n # g.n \/ ChannelMap[f.node] \cap ChannelMap[g.node] = {}

Fresh ==
  /\ \A p \in logged : p[2] <= inputs
  /\ \A r \in Receivers : \A i, j \in DOMAIN work[r] : i # j => Apart(work[r][i], work[r][j])
  /\ \A r, q \in Receivers : r # q =>
       \A i \in DOMAIN work[r], j \in DOMAIN work[q] : Apart(work[r][i], work[q][j])
  /\ \A r \in Receivers : \A i \in DOMAIN work[r] :
       \A c \in Expected(r, i) : <<c, work[r][i].n>> \notin logged

ReceiveInv ==
  /\ ReceiveTypes /\ \A r \in Receivers : GoodFrames(work[r]) /\ Reading(r)
  /\ \A r \in Receivers : InPlace(r)
  /\ ReadingsInPlace
  /\ OneLogs /\ Fresh
-----------------------------------------------------------------------------
(* The invariant of the writer: where each point is.                        *)

WriterTypes ==
  /\ stage \in {"idle", "point", "full"} /\ torn \in BOOLEAN /\ alive \in BOOLEAN
  /\ point \in Points \cup {None} /\ (stage = "point" <=> point # None)
  /\ current \in Buffers /\ db \in [Points -> Nat] /\ lost \in [Points -> Nat]
  /\ queue \in Seq(Buffers \ {<<>>}) /\ available \in Seq({<<>>})
  /\ sending \in [SendThreads -> [buffer : (Buffers \ {<<>>}) \cup {None}, sent : BOOLEAN]]
  /\ connected \in [SendThreads -> BOOLEAN]
  /\ logged \subseteq Points

Entries  == [point : Points, whole : BOOLEAN]
Entry(p) == [point |-> p, whole |-> TRUE]

Once(buffer, p) == \E i \in DOMAIN buffer : Whole(buffer, p) = {i}
Free(buffer, p) == Whole(buffer, p) = {}
Unsent(t)       == sending[t].buffer # None /\ ~sending[t].sent

NoneQueued(p)  == \A k \in DOMAIN queue : Free(queue[k], p)
NoneSent(p)    == \A t \in SendThreads : Unsent(t) => Free(sending[t].buffer, p)
Uncounted(p)   == db[p] = 0 /\ lost[p] = 0

InCurrent(p) == Once(current, p) /\ NoneQueued(p) /\ NoneSent(p) /\ Uncounted(p)
InQueue(p) ==
  /\ Free(current, p) /\ NoneSent(p) /\ Uncounted(p)
  /\ \E k \in DOMAIN queue :
       Once(queue[k], p) /\ \A j \in DOMAIN queue \ {k} : Free(queue[j], p)
InSending(p) ==
  /\ Free(current, p) /\ NoneQueued(p) /\ Uncounted(p)
  /\ \E t \in SendThreads :
       /\ Unsent(t) /\ Once(sending[t].buffer, p)
       /\ \A s \in SendThreads \ {t} : Unsent(s) => Free(sending[s].buffer, p)
Counts(p) ==
  /\ Free(current, p) /\ NoneQueued(p) /\ NoneSent(p)
  /\ db[p] + lost[p] = 1
Nowhere(p) == Free(current, p) /\ NoneQueued(p) /\ NoneSent(p) /\ Uncounted(p)

KeptAt(p) ==
  IF p \in logged THEN InCurrent(p) \/ InQueue(p) \/ InSending(p) \/ Counts(p) ELSE Nowhere(p)

Kept == \A p \in Points : KeptAt(p)
-----------------------------------------------------------------------------
(* What the writer does to its buffers.                                     *)

\* A part of a point is no point; a whole one is added at the end.
LEMMA WholeAppend ==
  ASSUME NEW buffer \in Buffers, NEW e \in Entries, NEW p \in Points,
         NEW new, new = Append(buffer, e)
  PROVE  /\ new \in Buffers \ {<<>>}
         /\ e # Entry(p) => Whole(new, p) = Whole(buffer, p)
         /\ e = Entry(p) /\ Free(buffer, p) => Once(new, p)
<1>1. /\ buffer \in Seq(Entries) /\ new \in Seq(Entries) /\ Len(new) = Len(buffer) + 1
      /\ \A i \in 1 .. Len(buffer) : new[i] = buffer[i]
      /\ new[Len(buffer) + 1] = e /\ Len(buffer) \in Nat
      /\ DOMAIN new = 1 .. Len(buffer) + 1 /\ DOMAIN buffer = 1 .. Len(buffer)
  BY DEF Buffers, Entries
<1>2. new # <<>>
  BY <1>1
<1>3. /\ Whole(new, p) = {i \in 1 .. Len(buffer) + 1 : new[i] = Entry(p)}
      /\ Whole(buffer, p) = {i \in 1 .. Len(buffer) : buffer[i] = Entry(p)}
  BY <1>1 DEF Whole, Entry
<1>4. e # Entry(p) => Whole(new, p) = Whole(buffer, p)
  BY <1>1, <1>3
<1>5. ASSUME e = Entry(p), Free(buffer, p) PROVE Once(new, p)
  <2>1. \A i \in 1 .. Len(buffer) : new[i] # e
    BY <1>1, <1>3, <1>5 DEF Free
  <2>2. Whole(new, p) = {Len(buffer) + 1}
    BY <1>1, <1>3, <1>5, <2>1
  <2>3. Len(buffer) + 1 \in DOMAIN new
    BY <1>1
  <2> QED BY Zenon, <2>2, <2>3 DEF Once
<1> QED BY <1>1, <1>2, <1>4, <1>5 DEF Buffers, Entries

LEMMA EmptyBuffer == <<>> \in Buffers /\ \A p : Free(<<>>, p)
BY DEF Buffers, Whole, Free

LEMMA PlaceInBuffer ==
  ASSUME NEW buffer \in Buffers, NEW p, Free(buffer, p)
  PROVE  Len(buffer) + 1 \notin DOMAIN buffer
BY DEF Buffers

LEMMA WriterStarts == WriterInit => WriterTypes /\ Kept
<1> SUFFICES ASSUME WriterInit PROVE WriterTypes /\ Kept
  OBVIOUS
<1>1. [i \in 1 .. PoolSize |-> <<>>] \in Seq({<<>>})
  BY WriterOK
<1>2. <<>> \in Seq(Buffers \ {<<>>}) /\ DOMAIN <<>> = {}
  OBVIOUS
<1>3. WriterTypes
  BY <1>1, <1>2, EmptyBuffer, WriterOK DEF WriterInit, WriterTypes
<1>4. ASSUME NEW p \in Points PROVE Nowhere(p)
  BY <1>2, EmptyBuffer
     DEF WriterInit, Nowhere, NoneQueued, NoneSent, Unsent, Uncounted
<1> QED BY <1>3, <1>4 DEF Kept, KeptAt, WriterInit

\* The first and the last of a sequence of empty buffers.
LEMMA TakenFromPool ==
  ASSUME NEW pool \in Seq({<<>>}), pool # <<>>
  PROVE  /\ pool[Len(pool)] = <<>>
         /\ SubSeq(pool, 1, Len(pool) - 1) \in Seq({<<>>})
<1>1. Len(pool) \in Nat \ {0} /\ \A i \in 1 .. Len(pool) : pool[i] \in {<<>>}
  OBVIOUS
<1> QED BY <1>1

LEMMA RemovedAt ==
  ASSUME NEW S, NEW s \in Seq(S), NEW i \in 1 .. Len(s)
  PROVE  LET rest == SubSeq(s, 1, i - 1) \o SubSeq(s, i + 1, Len(s))
         IN  /\ rest \in Seq(S) /\ DOMAIN rest = 1 .. Len(s) - 1
             /\ \A j \in 1 .. Len(s) - 1 : rest[j] = IF j < i THEN s[j] ELSE s[j + 1]
<1> DEFINE a == SubSeq(s, 1, i - 1)
           b == SubSeq(s, i + 1, Len(s))
<1>1. Len(s) \in Nat /\ i \in Nat
  OBVIOUS
<1>2. a \in Seq(S) /\ Len(a) = i - 1 /\ \A j \in 1 .. i - 1 : a[j] = s[j]
  BY <1>1
<1>3. b \in Seq(S) /\ Len(b) = Len(s) - i /\ \A j \in 1 .. Len(s) - i : b[j] = s[j + i]
  BY <1>1
<1> HIDE DEF a, b
<1>4. a \o b \in Seq(S) /\ Len(a \o b) = Len(a) + Len(b)
  BY <1>2, <1>3, ConcatProperties
<1>7. DOMAIN (a \o b) = 1 .. Len(s) - 1
  BY <1>1, <1>2, <1>3, <1>4
<1>5. \A j \in 1 .. Len(a) + Len(b) :
        (a \o b)[j] = IF j <= Len(a) THEN a[j] ELSE b[j - Len(a)]
  BY <1>2, <1>3, ConcatProperties
<1>6. \A j \in 1 .. Len(s) - 1 : (a \o b)[j] = IF j < i THEN s[j] ELSE s[j + 1]
  BY <1>1, <1>2, <1>3, <1>5
<1> QED BY <1>4, <1>6, <1>7 DEF a, b

\* The buffer that is queued holds the points of the current one: each is in the queue now.
LEMMA QueueTakes ==
  ASSUME WriterTypes, Kept, NEW buffer \in Buffers \ {<<>>}, Queue(buffer),
         \A p \in Points : Whole(buffer, p) = Whole(current, p),
         UNCHANGED <<sending, db, lost, logged>>
  PROVE  /\ current' \in Buffers /\ queue' \in Seq(Buffers \ {<<>>})
         /\ available' \in Seq({<<>>}) /\ Kept'
<1>1. current' = <<>> /\ available' \in Seq({<<>>})
  BY TakenFromPool DEF Queue, WriterTypes
<1> DEFINE n == Len(queue) + 1
           B == Buffers \ {<<>>}
<1>2. queue \in Seq(B) /\ buffer \in B /\ queue' = Append(queue, buffer)
  BY DEF Queue, WriterTypes
<1> HIDE DEF B
<1>3. /\ queue' \in Seq(B) /\ DOMAIN queue = 1 .. n - 1 /\ DOMAIN queue' = 1 .. n
      /\ n \in Nat \ {0}
      /\ \A k \in 1 .. n - 1 : queue'[k] = queue[k]
      /\ queue'[n] = buffer
  BY <1>2
<1> HIDE DEF n
<1>4. ASSUME NEW p \in Points PROVE KeptAt(p)'
  <2>1. /\ Whole(buffer, p) = Whole(current, p) /\ KeptAt(p)
        /\ Free(buffer, p) <=> Free(current, p)
        /\ NoneSent(p)' = NoneSent(p) /\ Uncounted(p)' = Uncounted(p)
        /\ (p \in logged)' = (p \in logged)
    BY DEF Kept, Free, NoneSent, Unsent, Uncounted
  <2>2. Free(current, p)'
    BY <1>1, EmptyBuffer
  <2>3. NoneQueued(p) /\ Free(current, p) => NoneQueued(p)'
    BY <1>3, <2>1 DEF NoneQueued
  <2>4. CASE p \in logged
    <3>1. CASE InCurrent(p)
      <4>1. Once(queue'[n], p) /\ \A k \in DOMAIN queue' \ {n} : Free(queue'[k], p)
        <5>1. PICK i \in DOMAIN current : Whole(current, p) = {i}
          BY <3>1 DEF InCurrent, Once
        <5>2. i \in DOMAIN buffer
          BY <2>1, <5>1 DEF Whole
        <5>3. Once(buffer, p)
          BY <2>1, <5>1, <5>2 DEF Once
        <5> QED BY <1>3, <3>1, <5>3 DEF InCurrent, NoneQueued
      <4>2. InQueue(p)'
        BY <1>3, <2>1, <2>2, <3>1, <4>1 DEF InQueue, InCurrent
      <4> QED BY <2>1, <2>4, <4>2 DEF KeptAt
    <3>2. CASE InQueue(p)
      <4>1. PICK k \in DOMAIN queue :
              Once(queue[k], p) /\ \A j \in DOMAIN queue \ {k} : Free(queue[j], p)
        BY <3>2 DEF InQueue
      <4>2. Free(buffer, p)
        BY <2>1, <3>2 DEF InQueue
      <4>3. k \in DOMAIN queue' /\ Once(queue'[k], p)
        BY <1>3, <4>1
      <4>4. \A j \in DOMAIN queue' \ {k} : Free(queue'[j], p)
        BY <1>3, <4>1, <4>2
      <4>5. InQueue(p)'
        BY <2>1, <2>2, <3>2, <4>3, <4>4 DEF InQueue
      <4> QED BY <2>1, <2>4, <4>5 DEF KeptAt
    <3>3. CASE InSending(p)
      <4>1. InSending(p)'
        BY <2>1, <2>2, <2>3, <3>3 DEF InSending, Unsent
      <4> QED BY <2>1, <2>4, <4>1 DEF KeptAt
    <3>4. CASE Counts(p)
      <4>1. Counts(p)'
        BY <2>1, <2>2, <2>3, <3>4 DEF Counts
      <4> QED BY <2>1, <2>4, <4>1 DEF KeptAt
    <3> QED BY <2>1, <2>4, <3>1, <3>2, <3>3, <3>4 DEF KeptAt
  <2>5. CASE p \notin logged
    BY <2>1, <2>2, <2>3, <2>5 DEF KeptAt, Nowhere
  <2> QED BY <2>4, <2>5
<1> QED BY <1>1, <1>3, <1>4, EmptyBuffer DEF Kept, B

LEMMA KeptUnchanged ==
  ASSUME Kept, UNCHANGED <<current, queue, sending, db, lost, logged>>
  PROVE  Kept'
BY DEF Kept, KeptAt, InCurrent, InQueue, InSending, Counts, Nowhere, NoneQueued, NoneSent,
       Uncounted, Unsent

LEMMA PushKeeps ==
  ASSUME WriterTypes, Kept, Push, UNCHANGED <<sending, db, lost, logged>>
  PROVE  /\ current' \in Buffers /\ queue' \in Seq(Buffers \ {<<>>})
         /\ available' \in Seq({<<>>}) /\ Kept'
<1>1. CASE current = <<>>
  BY <1>1, KeptUnchanged DEF Push, WriterTypes
<1>2. CASE current # <<>>
  BY <1>2, QueueTakes DEF Push, WriterTypes
<1> QED BY <1>1, <1>2

\* A point that is appended in whole was nowhere before.
LEMMA EndDataPointKeeps ==
  ASSUME WriterTypes, Kept, EndDataPoint, point \notin logged
  PROVE  WriterTypes' /\ Kept'
<1>1. point \in Points /\ torn \in BOOLEAN /\ current \in Buffers
  BY DEF EndDataPoint, WriterTypes
<1>2. UNCHANGED <<available, queue, sending, connected, alive, db, lost>>
  BY DEF EndDataPoint
<1>3. /\ current' \in Buffers \ {<<>>}
      /\ \A p \in Points : /\ torn \/ point # p => Whole(current', p) = Whole(current, p)
                           /\ ~torn /\ point = p /\ Free(current, p) => Once(current', p)
  <2> DEFINE e == [point |-> point, whole |-> ~torn]
  <2>1. e \in Entries /\ current' = Append(current, e)
    BY <1>1 DEF EndDataPoint, Entries
  <2>2. ASSUME NEW p \in Points
        PROVE  /\ torn \/ point # p => e # Entry(p)
               /\ ~torn /\ point = p => e = Entry(p)
    BY <1>1 DEF Entry
  <2> HIDE DEF e
  <2>3. ASSUME NEW p \in Points
        PROVE  /\ current' \in Buffers \ {<<>>}
               /\ torn \/ point # p => Whole(current', p) = Whole(current, p)
               /\ ~torn /\ point = p /\ Free(current, p) => Once(current', p)
    BY <1>1, <2>1, <2>2, WholeAppend
  <2> QED BY <1>1, <2>3
<1>4. logged' = IF torn THEN logged ELSE logged \cup {point}
  BY DEF EndDataPoint
<1>5. WriterTypes'
  <2>1. stage' \in {"idle", "full"} /\ point' = None /\ torn' = FALSE
    BY DEF EndDataPoint
  <2> QED BY <1>1, <1>2, <1>3, <1>4, <2>1 DEF WriterTypes
<1>6. ASSUME NEW p \in Points PROVE KeptAt(p)'
  <2>1. /\ NoneQueued(p)' = NoneQueued(p) /\ NoneSent(p)' = NoneSent(p)
        /\ Uncounted(p)' = Uncounted(p)
    BY <1>2 DEF NoneQueued, NoneSent, Unsent, Uncounted
  <2>2. CASE torn \/ point # p
    <3>1. Whole(current', p) = Whole(current, p) /\ (p \in logged' <=> p \in logged)
      BY <1>3, <1>4, <2>2
    <3>2. Free(current, p)' = Free(current, p)
      BY <3>1 DEF Free
    <3>3. Once(current, p) => Once(current, p)'
      BY <3>1 DEF Once, Whole
    <3> QED BY <1>2, <2>1, <3>1, <3>2, <3>3
            DEF Kept, KeptAt, InCurrent, InQueue, InSending, Counts, Nowhere, Unsent
  <2>3. CASE ~torn /\ point = p
    <3>1. Nowhere(p)
      BY <2>3 DEF Kept, KeptAt, EndDataPoint
    <3>3. Once(current', p)
      BY <1>3, <2>3, <3>1 DEF Nowhere
    <3>4. InCurrent(p)'
      BY <2>1, <3>1, <3>3 DEF InCurrent, Nowhere
    <3> QED BY <1>4, <2>3, <3>4 DEF KeptAt
  <2> QED BY <2>2, <2>3
<1> QED BY <1>5, <1>6 DEF Kept

LEMMA FlushKeeps ==
  ASSUME WriterTypes, Kept, Flush
  PROVE  WriterTypes' /\ Kept'
<1>1. UNCHANGED <<stage, point, sending, connected, db, lost, logged>>
  BY DEF Flush
<1>2. CASE Push /\ UNCHANGED <<torn, alive>>
  BY <1>1, <1>2, PushKeeps DEF WriterTypes
<1>3. CASE /\ stage = "point" /\ torn' = TRUE /\ UNCHANGED alive
           /\ Queue(Append(current, [point |-> point, whole |-> FALSE]))
  <2> DEFINE e == [point |-> point, whole |-> FALSE]
             taken == Append(current, e)
  <2>1. /\ current \in Buffers /\ e \in Entries /\ point \in Points
        /\ \A p \in Points : e # Entry(p)
    BY <1>3 DEF WriterTypes, Entries, Entry
  <2> HIDE DEF e
  <2>2. taken \in Buffers \ {<<>>} /\ \A p \in Points : Whole(taken, p) = Whole(current, p)
    BY <2>1, WholeAppend
  <2>3. Queue(taken)
    BY <1>3 DEF e
  <2> HIDE DEF taken
  <2>4. /\ current' \in Buffers /\ queue' \in Seq(Buffers \ {<<>>})
        /\ available' \in Seq({<<>>}) /\ Kept'
    BY <1>1, <2>2, <2>3, QueueTakes
  <2> QED BY <1>1, <1>3, <2>4 DEF WriterTypes
<1>4. CASE /\ stage = "point" /\ alive' = FALSE
           /\ UNCHANGED <<queue, current, available, torn>>
  BY <1>1, <1>4, KeptUnchanged DEF WriterTypes
<1> QED BY <1>2, <1>3, <1>4 DEF Flush

LEMMA FlushFullKeeps ==
  ASSUME WriterTypes, Kept, FlushFull
  PROVE  WriterTypes' /\ Kept'
BY PushKeeps DEF FlushFull, WriterTypes

LEMMA StartKeeps ==
  ASSUME WriterTypes, Kept, NEW p \in Points, StartDataPoint(p)
  PROVE  WriterTypes' /\ Kept'
BY KeptUnchanged, WriterOK DEF StartDataPoint, WriterTypes

LEMMA DequeueKeeps ==
  ASSUME WriterTypes, Kept, NEW t \in SendThreads, Dequeue(t)
  PROVE  WriterTypes' /\ Kept'
<1> DEFINE B == Buffers \ {<<>>}
           n == Len(queue)
<1>1. queue \in Seq(B) /\ DOMAIN queue = 1 .. n /\ n \in Nat
  BY DEF WriterTypes
<1>2. PICK i \in 1 .. n :
        /\ sending' = [sending EXCEPT ![t] = [buffer |-> queue[i], sent |-> FALSE]]
        /\ queue' = SubSeq(queue, 1, i - 1) \o SubSeq(queue, i + 1, n)
  BY <1>1 DEF Dequeue
<1>3. queue[i] \in B /\ queue[i] # None /\ sending[t].buffer = None
  BY <1>1, <1>2, WriterOK DEF Dequeue
<1>4. UNCHANGED <<stage, point, torn, current, available, connected, alive, db, lost, logged>>
  BY DEF Dequeue
<1> HIDE DEF B
<1>5. /\ queue' \in Seq(B) /\ DOMAIN queue' = 1 .. n - 1
      /\ \A j \in 1 .. n - 1 : queue'[j] = IF j < i THEN queue[j] ELSE queue[j + 1]
  BY <1>1, <1>2, RemovedAt
<1> DEFINE at(j) == IF j < i THEN j ELSE j + 1
<1>a. /\ \A j \in 1 .. n - 1 : at(j) \in (1 .. n) \ {i} /\ queue'[j] = queue[at(j)]
      /\ \A j, l \in 1 .. n - 1 : at(j) = at(l) => j = l
  BY <1>1, <1>5
<1>b. \A k \in (1 .. n) \ {i} : \E l \in 1 .. n - 1 : at(l) = k
  <2> SUFFICES ASSUME NEW k \in (1 .. n) \ {i} PROVE \E l \in 1 .. n - 1 : at(l) = k
    OBVIOUS
  <2>1. IF k < i THEN k \in 1 .. n - 1 /\ at(k) = k ELSE k - 1 \in 1 .. n - 1 /\ at(k - 1) = k
    BY <1>1
  <2> QED BY <2>1
<1> HIDE DEF n, at
<1>6. /\ sending' \in [SendThreads -> [buffer : B \cup {None}, sent : BOOLEAN]]
      /\ sending'[t].buffer = queue[i] /\ ~sending'[t].sent
      /\ \A s \in SendThreads \ {t} : sending'[s] = sending[s]
  <2>1. [buffer |-> queue[i], sent |-> FALSE] \in [buffer : B \cup {None}, sent : BOOLEAN]
    BY <1>3
  <2> QED BY <1>2, <2>1 DEF WriterTypes, B
<1>7. WriterTypes'
  BY <1>4, <1>5, <1>6 DEF WriterTypes, B
<1>8. ASSUME NEW p \in Points PROVE KeptAt(p)'
  <2>1. /\ KeptAt(p) /\ Free(current, p)' = Free(current, p) /\ Uncounted(p)' = Uncounted(p)
        /\ (p \in logged)' = (p \in logged) /\ Once(current, p)' = Once(current, p)
        /\ current' = current
    BY <1>4 DEF Kept, Free, Once, Whole, Uncounted
  <2>2. NoneQueued(p) => NoneQueued(p)' /\ Free(queue[i], p)
    BY <1>1, <1>5, <1>a DEF NoneQueued
  <2>3. NoneSent(p) /\ Free(queue[i], p) => NoneSent(p)'
    BY <1>6 DEF NoneSent, Unsent
  <2>4. CASE p \notin logged
    BY <2>1, <2>2, <2>3, <2>4 DEF KeptAt, Nowhere
  <2>7. CASE InCurrent(p) /\ p \in logged
    BY <2>1, <2>2, <2>3, <2>7 DEF KeptAt, InCurrent
  <2>8. CASE Counts(p) /\ p \in logged
    <3>1. Counts(p)'
      BY <1>4, <2>1, <2>2, <2>3, <2>8 DEF Counts
    <3> QED BY <2>1, <2>8, <3>1 DEF KeptAt
  <2>5. CASE InQueue(p) /\ p \in logged
    <3>1. PICK k \in 1 .. n : Once(queue[k], p) /\ \A j \in 1 .. n \ {k} : Free(queue[j], p)
      BY <1>1, <2>5 DEF InQueue
    <3>2. CASE k = i
      <4>1. NoneQueued(p)'
        BY <1>5, <1>a, <3>1, <3>2 DEF NoneQueued
      <4>2. Unsent(t)' /\ Once(sending'[t].buffer, p)
        BY <1>3, <1>6, <3>1, <3>2 DEF Unsent
      <4>3. \A s \in SendThreads \ {t} : Unsent(s)' => Free(sending'[s].buffer, p)
        BY <1>6, <2>5 DEF InQueue, NoneSent, Unsent
      <4>4. InSending(p)'
        BY <2>1, <2>5, <4>1, <4>2, <4>3 DEF InSending, InQueue
      <4> QED BY <2>1, <2>5, <4>4 DEF KeptAt
    <3>3. CASE k # i
      <4>1. PICK l \in 1 .. n - 1 : at(l) = k
        BY <1>b, <3>1, <3>3
      <4>2. queue'[l] = queue[k] /\ \A j \in 1 .. n - 1 : j # l => Free(queue'[j], p)
        BY <1>a, <3>1, <4>1
      <4>3. NoneSent(p)'
        BY <1>2, <2>3, <2>5, <3>1, <3>3 DEF InQueue
      <4>4. InQueue(p)'
        <5>1. Once(queue'[l], p) /\ \A j \in DOMAIN queue' \ {l} : Free(queue'[j], p)
          BY <1>5, <3>1, <4>1, <4>2
        <5> QED BY <1>5, <2>1, <2>5, <4>1, <4>3, <5>1 DEF InQueue
      <4> QED BY <2>1, <2>5, <4>4 DEF KeptAt
    <3> QED BY <3>2, <3>3
  <2>6. CASE InSending(p) /\ p \in logged
    <3>1. PICK u \in SendThreads :
            /\ Unsent(u) /\ Once(sending[u].buffer, p)
            /\ \A s \in SendThreads \ {u} : Unsent(s) => Free(sending[s].buffer, p)
      BY <2>6 DEF InSending
    <3>2. u # t /\ sending'[u] = sending[u]
      BY <1>3, <1>6, <3>1 DEF Unsent
    <3>3. Unsent(u)' /\ Once(sending'[u].buffer, p)
      BY <3>1, <3>2 DEF Unsent
    <3>4. \A s \in SendThreads \ {u} : Unsent(s)' => Free(sending'[s].buffer, p)
      BY <1>6, <2>2, <2>6, <3>1 DEF Unsent, InSending
    <3>5. InSending(p)'
      BY <2>1, <2>2, <2>6, <3>3, <3>4 DEF InSending
    <3> QED BY <2>1, <2>6, <3>5 DEF KeptAt
  <2> QED BY <2>1, <2>4, <2>5, <2>6, <2>7, <2>8 DEF KeptAt
<1> QED BY <1>7, <1>8 DEF Kept

LEMMA CountedOnce ==
  ASSUME NEW buffer \in Buffers, NEW counts \in [Points -> Nat]
  PROVE  /\ Counted(counts, buffer) \in [Points -> Nat]
         /\ \A p \in Points :
              /\ Free(buffer, p) => Counted(counts, buffer)[p] = counts[p]
              /\ Once(buffer, p) => Counted(counts, buffer)[p] = counts[p] + 1
<1>1. ASSUME NEW p \in Points PROVE Cardinality(Whole(buffer, p)) \in Nat
  <2>1. IsFiniteSet(1 .. Len(buffer)) /\ Whole(buffer, p) \subseteq 1 .. Len(buffer)
    <3>1. Len(buffer) \in Nat /\ DOMAIN buffer = 1 .. Len(buffer)
      BY DEF Buffers
    <3> QED BY <3>1, FS_Interval DEF Whole
  <2> QED BY <2>1, FS_Subset, FS_CardinalityType
<1>2. ASSUME NEW p \in Points, Free(buffer, p)
      PROVE  Counted(counts, buffer)[p] = counts[p]
  <2>1. Cardinality(Whole(buffer, p)) = 0
    BY <1>2, FS_EmptySet DEF Free
  <2> QED BY <2>1 DEF Counted
<1>3. ASSUME NEW p \in Points, Once(buffer, p)
      PROVE  Counted(counts, buffer)[p] = counts[p] + 1
  <2>1. Cardinality(Whole(buffer, p)) = 1
    BY <1>3, FS_Singleton DEF Once
  <2> QED BY <2>1 DEF Counted
<1>4. Counted(counts, buffer) \in [Points -> Nat]
  BY <1>1 DEF Counted
<1> QED BY <1>2, <1>3, <1>4

LEMMA SendDataKeeps ==
  ASSUME WriterTypes, Kept, NEW t \in SendThreads, SendData(t)
  PROVE  WriterTypes' /\ Kept'
<1> DEFINE b == sending[t].buffer
<1>1. b \in Buffers \ {<<>>} /\ Unsent(t)
  BY DEF SendData, WriterTypes, Unsent
<1>2. UNCHANGED <<stage, point, torn, current, available, queue, logged>>
  BY DEF SendData
<1>3. /\ sending' \in [SendThreads -> [buffer : (Buffers \ {<<>>}) \cup {None}, sent : BOOLEAN]]
      /\ sending'[t].sent /\ \A s \in SendThreads \ {t} : sending'[s] = sending[s]
  <2>1. [buffer |-> b, sent |-> TRUE] \in [buffer : (Buffers \ {<<>>}) \cup {None}, sent : BOOLEAN]
    BY <1>1
  <2> HIDE DEF b
  <2>2. sending' = [sending EXCEPT ![t] = [buffer |-> b, sent |-> TRUE]]
    BY DEF SendData, b
  <2> QED BY <2>1, <2>2 DEF WriterTypes
<1>4. \/ db' = Counted(db, b) /\ lost' = lost
      \/ lost' = Counted(lost, b) /\ db' = db
  BY DEF SendData
<1>5. connected' \in [SendThreads -> BOOLEAN] /\ alive' \in BOOLEAN
  BY DEF SendData, WriterTypes
<1> HIDE DEF b
<1>6. db \in [Points -> Nat] /\ lost \in [Points -> Nat]
  BY DEF WriterTypes
<1>7. /\ db' \in [Points -> Nat] /\ lost' \in [Points -> Nat]
      /\ \A p \in Points :
           /\ Free(b, p) => db'[p] = db[p] /\ lost'[p] = lost[p]
           /\ Once(b, p) => db'[p] + lost'[p] = db[p] + lost[p] + 1
  <2>1. CASE db' = Counted(db, b) /\ lost' = lost
    BY <1>1, <1>6, <2>1, CountedOnce
  <2>2. CASE lost' = Counted(lost, b) /\ db' = db
    BY <1>1, <1>6, <2>2, CountedOnce
  <2> QED BY <1>4, <2>1, <2>2
<1>8. WriterTypes'
  BY <1>2, <1>3, <1>5, <1>7 DEF WriterTypes
<1>9. ASSUME NEW p \in Points PROVE KeptAt(p)'
  <2>1. /\ KeptAt(p) /\ Free(current, p)' = Free(current, p)
        /\ NoneQueued(p)' = NoneQueued(p)
        /\ (p \in logged)' = (p \in logged) /\ Once(current, p)' = Once(current, p)
    BY <1>2 DEF Kept, Free, Once, Whole, NoneQueued
  <2>2. \A s \in SendThreads : Unsent(s)' => s # t /\ Unsent(s) /\ sending'[s] = sending[s]
    BY <1>3 DEF Unsent
  <2>3. NoneSent(p) => NoneSent(p)' /\ Free(b, p)
    BY <1>1, <2>2 DEF NoneSent, b
  <2>4. Free(b, p) /\ Uncounted(p) => Uncounted(p)'
    BY <1>7 DEF Uncounted
  <2>5. CASE p \notin logged
    BY <2>1, <2>3, <2>4, <2>5 DEF KeptAt, Nowhere
  <2>6. CASE p \in logged /\ InCurrent(p)
    BY <2>1, <2>3, <2>4, <2>6 DEF KeptAt, InCurrent
  <2>7. CASE p \in logged /\ InQueue(p)
    <3>1. InQueue(p)'
      BY <1>2, <2>1, <2>3, <2>4, <2>7 DEF InQueue
    <3> QED BY <2>1, <2>7, <3>1 DEF KeptAt
  <2>8. CASE p \in logged /\ Counts(p)
    <3>1. Counts(p)'
      BY <1>7, <2>1, <2>3, <2>8 DEF Counts
    <3> QED BY <2>1, <2>8, <3>1 DEF KeptAt
  <2>9. CASE p \in logged /\ InSending(p)
    <3>1. PICK u \in SendThreads :
            /\ Unsent(u) /\ Once(sending[u].buffer, p)
            /\ \A s \in SendThreads \ {u} : Unsent(s) => Free(sending[s].buffer, p)
      BY <2>9 DEF InSending
    <3>2. CASE u = t
      <4>1. Once(b, p) /\ NoneSent(p)'
        BY <2>2, <3>1, <3>2 DEF NoneSent, b
      <4>2. db'[p] + lost'[p] = 1
        BY <1>6, <1>7, <2>9, <4>1 DEF InSending, Uncounted
      <4>3. Counts(p)'
        BY <2>1, <2>9, <4>1, <4>2 DEF Counts, InSending
      <4> QED BY <2>1, <2>9, <4>3 DEF KeptAt
    <3>3. CASE u # t
      <4>1. Free(b, p) /\ sending'[u] = sending[u]
        BY <1>1, <1>3, <3>1, <3>3 DEF b
      <4>2. Unsent(u)' /\ Once(sending'[u].buffer, p)
        BY <3>1, <4>1 DEF Unsent
      <4>3. \A s \in SendThreads \ {u} : Unsent(s)' => Free(sending'[s].buffer, p)
        BY <2>2, <3>1
      <4>4. InSending(p)'
        BY <2>1, <2>4, <2>9, <4>1, <4>2, <4>3 DEF InSending
      <4> QED BY <2>1, <2>9, <4>4 DEF KeptAt
    <3> QED BY <3>2, <3>3
  <2> QED BY <2>1, <2>5, <2>6, <2>7, <2>8, <2>9 DEF KeptAt
<1> QED BY <1>8, <1>9 DEF Kept

LEMMA ReturnBufferKeeps ==
  ASSUME WriterTypes, Kept, NEW t \in SendThreads, ReturnBuffer(t)
  PROVE  WriterTypes' /\ Kept'
<1>1. UNCHANGED <<stage, point, torn, current, queue, connected, alive, db, lost, logged>>
  BY DEF ReturnBuffer
<1>2. available' \in Seq({<<>>})
  BY DEF ReturnBuffer, WriterTypes
<1>3. /\ sending' \in [SendThreads -> [buffer : (Buffers \ {<<>>}) \cup {None}, sent : BOOLEAN]]
      /\ sending'[t].buffer = None /\ \A s \in SendThreads \ {t} : sending'[s] = sending[s]
  <2>1. [buffer |-> None, sent |-> FALSE]
          \in [buffer : (Buffers \ {<<>>}) \cup {None}, sent : BOOLEAN]
    OBVIOUS
  <2>2. sending' = [sending EXCEPT ![t] = [buffer |-> None, sent |-> FALSE]]
    BY DEF ReturnBuffer
  <2> QED BY <2>1, <2>2 DEF WriterTypes
<1>4. WriterTypes'
  BY <1>1, <1>2, <1>3 DEF WriterTypes
<1>5. /\ \A s \in SendThreads : Unsent(s)' <=> Unsent(s)
      /\ \A s \in SendThreads : Unsent(s) => sending'[s] = sending[s]
  BY <1>3 DEF Unsent, ReturnBuffer
<1>6. ASSUME NEW p \in Points PROVE KeptAt(p)'
  <2>1. /\ KeptAt(p) /\ Free(current, p)' = Free(current, p) /\ NoneQueued(p)' = NoneQueued(p)
        /\ Uncounted(p)' = Uncounted(p)
        /\ (p \in logged)' = (p \in logged) /\ Once(current, p)' = Once(current, p)
    BY <1>1 DEF Kept, Free, Once, Whole, NoneQueued, Uncounted
  <2>2. NoneSent(p) => NoneSent(p)'
    BY <1>5 DEF NoneSent
  <2>3. CASE p \notin logged
    BY <2>1, <2>2, <2>3 DEF KeptAt, Nowhere
  <2>4. CASE p \in logged /\ InCurrent(p)
    BY <2>1, <2>2, <2>4 DEF KeptAt, InCurrent
  <2>5. CASE p \in logged /\ InQueue(p)
    <3>1. InQueue(p)'
      BY <1>1, <2>1, <2>2, <2>5 DEF InQueue
    <3> QED BY <2>1, <2>5, <3>1 DEF KeptAt
  <2>6. CASE p \in logged /\ Counts(p)
    <3>1. Counts(p)'
      BY <1>1, <2>1, <2>2, <2>6 DEF Counts
    <3> QED BY <2>1, <2>6, <3>1 DEF KeptAt
  <2>7. CASE p \in logged /\ InSending(p)
    <3>1. InSending(p)'
      BY <1>5, <2>1, <2>7 DEF InSending
    <3> QED BY <2>1, <2>7, <3>1 DEF KeptAt
  <2> QED BY <2>1, <2>3, <2>4, <2>5, <2>6, <2>7 DEF KeptAt
<1> QED BY <1>4, <1>6 DEF Kept

LEMMA SendThreadKeeps ==
  ASSUME WriterTypes, Kept, NEW t \in SendThreads, SendThread(t)
  PROVE  WriterTypes' /\ Kept'
BY DequeueKeeps, SendDataKeeps, ReturnBufferKeeps DEF SendThread

\* Where each point is makes the places add up.
LEMMA KeptMeans == WriterTypes /\ Kept => PointsKept
<1> SUFFICES ASSUME WriterTypes, Kept, NEW p \in logged
             PROVE  Cardinality(Places(p)) + db[p] + lost[p] = 1
  BY DEF PointsKept
<1>1. p \in Points /\ db[p] \in Nat /\ lost[p] \in Nat /\ KeptAt(p)
  BY DEF WriterTypes, Kept
<1> DEFINE S == {s \in SendThreads : sending[s].buffer # None /\ ~sending[s].sent}
           C == {<<"current", 0>>} \X Whole(current, p)
           Q == UNION {{<<"queue", i>>} \X Whole(queue[i], p) : i \in DOMAIN queue}
           A == UNION {{<<"available", i>>} \X Whole(available[i], p) : i \in DOMAIN available}
           T == UNION {{<<"sending", t>>} \X Whole(sending[t].buffer, p) : t \in S}
<1>2. Places(p) = C \cup Q \cup A \cup T
  BY DEF Places
<1>3. A = {}
  <2>1. \A i \in DOMAIN available : available[i] = <<>>
    BY DEF WriterTypes
  <2> QED BY <2>1, EmptyBuffer DEF Free
<1>4. Free(current, p) => C = {}
  BY DEF Free
<1>5. NoneQueued(p) => Q = {}
  BY DEF NoneQueued, Free
<1>6. NoneSent(p) => T = {}
  BY DEF NoneSent, Free, Unsent
<1>7. Once(current, p) => \E x : C = {x}
  <2> SUFFICES ASSUME NEW i \in DOMAIN current, Whole(current, p) = {i}
               PROVE  \E x : C = {x}
    BY DEF Once
  <2>1. C = {<<<<"current", 0>>, i>>}
    OBVIOUS
  <2> QED BY <2>1
<1>8. InQueue(p) => \E x : Q = {x}
  <2> SUFFICES ASSUME InQueue(p) PROVE \E x : Q = {x}
    OBVIOUS
  <2>1. PICK k \in DOMAIN queue :
          Once(queue[k], p) /\ \A j \in DOMAIN queue \ {k} : Free(queue[j], p)
    BY DEF InQueue
  <2>2. PICK i \in DOMAIN queue[k] : Whole(queue[k], p) = {i}
    BY <2>1 DEF Once
  <2>3. Q = {<<<<"queue", k>>, i>>}
    BY <2>1, <2>2 DEF Free
  <2> QED BY <2>3
<1>9. InSending(p) => \E x : T = {x}
  <2> SUFFICES ASSUME InSending(p) PROVE \E x : T = {x}
    OBVIOUS
  <2>1. PICK t \in SendThreads :
          /\ Unsent(t) /\ Once(sending[t].buffer, p)
          /\ \A s \in SendThreads \ {t} : Unsent(s) => Free(sending[s].buffer, p)
    BY DEF InSending
  <2>2. PICK i \in DOMAIN sending[t].buffer : Whole(sending[t].buffer, p) = {i}
    BY <2>1 DEF Once
  <2>3. T = {<<<<"sending", t>>, i>>}
    BY <2>1, <2>2 DEF Free, Unsent
  <2> QED BY <2>3
<1> HIDE DEF C, Q, A, T
<1>10. CASE InCurrent(p) \/ InQueue(p) \/ InSending(p)
  <2>1. \E x : Places(p) = {x}
    BY <1>2, <1>3, <1>4, <1>5, <1>6, <1>7, <1>8, <1>9, <1>10
       DEF InCurrent, InQueue, InSending
  <2>2. Cardinality(Places(p)) = 1
    BY <2>1, FS_Singleton
  <2>3. db[p] = 0 /\ lost[p] = 0
    BY <1>10 DEF InCurrent, InQueue, InSending, Uncounted
  <2> QED BY <2>2, <2>3
<1>11. CASE Counts(p)
  <2>1. Places(p) = {}
    BY <1>2, <1>3, <1>4, <1>5, <1>6, <1>11 DEF Counts
  <2>2. Cardinality(Places(p)) = 0
    BY <2>1, FS_EmptySet
  <2> QED BY <1>1, <1>11, <2>2 DEF Counts
<1> QED BY <1>1, <1>10, <1>11 DEF KeptAt
-----------------------------------------------------------------------------
(* Least elements, induction and sums.  The library's induction theorems    *)
(* take an operator; sets of numbers do as well.                            *)

LEMMA Least ==
  ASSUME NEW T \in SUBSET Nat, T # {}
  PROVE  \E x \in T : \A y \in T : x <= y
<1>1. PICK x \in T : \A y \in T : <<y, x>> \notin OpToRel(<, Nat)
  BY WFMin, NatLessThanWellFounded
<1>2. \A y \in T : ~(y < x)
  BY <1>1 DEF OpToRel
<1> QED BY <1>2

LEMMA MinIs ==
  ASSUME NEW T \in SUBSET Nat, T # {}
  PROVE  Min(T) \in T /\ \A y \in T : Min(T) <= y
BY Least DEF Min

LEMMA Induction ==
  ASSUME NEW S \in SUBSET Nat, 0 \in S, \A n \in Nat : n \in S => n + 1 \in S
  PROVE  Nat \subseteq S
<1> SUFFICES ASSUME Nat \ S # {} PROVE FALSE
  OBVIOUS
<1>1. PICK x \in Nat \ S : \A y \in Nat \ S : x <= y
  BY Least
<1>2. x - 1 \in Nat /\ x - 1 \notin S
  BY <1>1
<1> QED BY <1>1, <1>2

\* The sums of W up to n.
SumsTo(W, n, h) ==
  /\ h \in [0 .. n -> Nat] /\ h[0] = 0
  /\ \A k \in 1 .. n : h[k] = h[k - 1] + W[k - 1]

LEMMA SumsExist ==
  ASSUME NEW W \in [Nat -> Nat]
  PROVE  \A n \in Nat : \E h : SumsTo(W, n, h)
<1> DEFINE S == {n \in Nat : \E h : SumsTo(W, n, h)}
<1>1. 0 \in S
  <2>1. SumsTo(W, 0, [k \in 0 .. 0 |-> 0])
    BY DEF SumsTo
  <2> QED BY <2>1
<1>2. ASSUME NEW n \in S PROVE n + 1 \in S
  <2>1. PICK h : SumsTo(W, n, h)
    BY <1>2
  <2> DEFINE g == [k \in 0 .. n + 1 |-> IF k = n + 1 THEN h[n] + W[n] ELSE h[k]]
  <2>2. n \in Nat /\ h \in [0 .. n -> Nat] /\ h[0] = 0
        /\ \A k \in 1 .. n : h[k] = h[k - 1] + W[k - 1]
    BY <1>2, <2>1 DEF SumsTo
  <2>3. g \in [0 .. n + 1 -> Nat] /\ g[0] = 0
    <3>1. 0 \in 0 .. n + 1 /\ 0 # n + 1 /\ h[n] + W[n] \in Nat
      BY <2>2
    <3>2. ASSUME NEW k \in 0 .. n + 1, k # n + 1 PROVE h[k] \in Nat
      <4>1. k \in 0 .. n
        BY <2>2, <3>2
      <4> QED BY <2>2, <4>1
    <3>3. \A k \in 0 .. n + 1 : g[k] \in Nat
      BY <3>1, <3>2
    <3>4. g \in [0 .. n + 1 -> Nat]
      BY <3>3
    <3> QED BY <2>2, <3>1, <3>4
  <2>4. ASSUME NEW k \in 1 .. n + 1 PROVE g[k] = g[k - 1] + W[k - 1]
    <3>1. k \in 0 .. n + 1 /\ k - 1 \in 0 .. n /\ k - 1 \in 0 .. n + 1 /\ k - 1 # n + 1
      BY <2>2
    <3>2. g[k - 1] = h[k - 1]
      BY <3>1
    <3>3. CASE k = n + 1
      <4>1. g[k] = h[n] + W[n] /\ k - 1 = n
        BY <2>2, <3>1, <3>3
      <4> QED BY <3>2, <4>1
    <3>4. CASE k # n + 1
      <4>1. g[k] = h[k] /\ k \in 1 .. n
        BY <2>2, <3>1, <3>4
      <4> QED BY <2>2, <3>2, <4>1
    <3> QED BY <3>3, <3>4
  <2> HIDE DEF g
  <2>5. SumsTo(W, n + 1, g)
    BY <2>3, <2>4 DEF SumsTo
  <2> QED BY <2>2, <2>5
<1> HIDE DEF S
<1>3. Nat \subseteq S
  BY <1>1, <1>2, Induction DEF S
<1> QED BY <1>3 DEF S

LEMMA SumsAgree ==
  ASSUME NEW W \in [Nat -> Nat], NEW n \in Nat, NEW m \in Nat, n <= m, NEW g, NEW h,
         SumsTo(W, n, g), SumsTo(W, m, h)
  PROVE  g[n] = h[n]
<1> DEFINE S == {k \in Nat : k <= n => g[k] = h[k]}
<1>1. 0 \in S
  BY DEF SumsTo
<1>2. ASSUME NEW k \in S PROVE k + 1 \in S
  <2> SUFFICES ASSUME k + 1 <= n PROVE g[k + 1] = h[k + 1]
    OBVIOUS
  <2>1. k + 1 \in 1 .. n /\ k + 1 \in 1 .. m /\ (k + 1) - 1 = k /\ g[k] = h[k]
    OBVIOUS
  <2>2. g[k + 1] = g[k] + W[k] /\ h[k + 1] = h[k] + W[k]
    BY <2>1 DEF SumsTo
  <2> QED BY <2>1, <2>2
<1> HIDE DEF S
<1>3. Nat \subseteq S
  BY <1>1, <1>2, Induction DEF S
<1> QED BY <1>3 DEF S

\* So the function that adds up one value after the other exists.
LEMMA Sums ==
  ASSUME NEW W \in [Nat -> Nat]
  PROVE  \E f : f = [d \in Nat |-> IF d = 0 THEN 0 ELSE f[d - 1] + W[d - 1]]
<1> DEFINE H(n) == CHOOSE h : SumsTo(W, n, h)
           f == [n \in Nat |-> H(n)[n]]
<1>1. \A n \in Nat : SumsTo(W, n, H(n))
  BY SumsExist
<1> HIDE DEF H
<1>2. f[0] = 0
  BY <1>1 DEF SumsTo
<1>3. ASSUME NEW d \in Nat, d # 0 PROVE f[d] = f[d - 1] + W[d - 1]
  <2>1. d - 1 \in Nat /\ d - 1 <= d /\ d \in 1 .. d
    BY <1>3
  <2>2. H(d)[d] = H(d)[d - 1] + W[d - 1]
    BY <1>1, <2>1 DEF SumsTo
  <2>3. H(d - 1)[d - 1] = H(d)[d - 1]
    BY <1>1, <2>1, SumsAgree
  <2> QED BY <2>1, <2>2, <2>3
<1>4. f = [d \in Nat |-> IF d = 0 THEN 0 ELSE f[d - 1] + W[d - 1]]
  <2> DEFINE e == [d \in Nat |-> IF d = 0 THEN 0 ELSE f[d - 1] + W[d - 1]]
  <2>1. \A d \in Nat : f[d] = e[d]
    BY <1>2, <1>3
  <2>2. f = [d \in Nat |-> f[d]] /\ e = [d \in Nat |-> e[d]]
    OBVIOUS
  <2> HIDE DEF f, e
  <2>3. f = e
    BY <2>1, <2>2
  <2> QED BY <2>3 DEF e
<1> HIDE DEF f
<1> QED BY <1>4
-----------------------------------------------------------------------------
(* Where values begin *)

Size(mask, d) == IF d \in mask THEN Width[d] ELSE 0

LEMMA BeginsIs ==
  ASSUME NEW mask \in SUBSET Ids
  PROVE  /\ Begins(mask, 0) = 0
         /\ \A d \in Nat : Begins(mask, d + 1) = Begins(mask, d) + Size(mask, d)
<1> DEFINE begins[d \in Nat] ==
             IF d = 0 THEN 0 ELSE begins[d - 1] + (IF d - 1 \in mask THEN Width[d - 1] ELSE 0)
           W == [d \in Nat |-> Size(mask, d)]
<1>1. \A c : Begins(mask, c) = begins[c]
  BY DEF Begins
<1>2. W \in [Nat -> Nat]
  BY SensorsOK DEF Size, Ids
<1>3. \E f : f = [d \in Nat |-> IF d = 0 THEN 0 ELSE f[d - 1] + W[d - 1]]
  BY <1>2, Sums
<1>4. \E f : f = [d \in Nat |-> IF d = 0 THEN 0
                                ELSE f[d - 1] + (IF d - 1 \in mask THEN Width[d - 1] ELSE 0)]
  <2>1. PICK f : f = [d \in Nat |-> IF d = 0 THEN 0 ELSE f[d - 1] + W[d - 1]]
    BY <1>3
  <2>2. \A d \in Nat : d # 0 => W[d - 1] = IF d - 1 \in mask THEN Width[d - 1] ELSE 0
    BY SensorsOK DEF Size, Ids
  <2> HIDE DEF W
  <2>3. f = [d \in Nat |-> IF d = 0 THEN 0
                           ELSE f[d - 1] + (IF d - 1 \in mask THEN Width[d - 1] ELSE 0)]
    BY <2>1, <2>2
  <2> QED BY <2>3
<1>5. begins = [d \in Nat |-> IF d = 0 THEN 0
                    ELSE begins[d - 1] + (IF d - 1 \in mask THEN Width[d - 1] ELSE 0)]
  BY <1>4
<1> HIDE DEF begins
<1>6. begins[0] = 0
  BY <1>5
<1>7. ASSUME NEW d \in Nat PROVE begins[d + 1] = begins[d] + Size(mask, d)
  <2>1. d + 1 \in Nat /\ d + 1 # 0 /\ (d + 1) - 1 = d
    OBVIOUS
  <2> QED BY <1>5, <2>1 DEF Size
<1> QED BY <1>1, <1>6, <1>7

LEMMA BeginsType ==
  ASSUME NEW mask \in SUBSET Ids
  PROVE  \A d \in Nat : Begins(mask, d) \in Nat /\ Size(mask, d) \in Nat
<1> DEFINE S == {d \in Nat : Begins(mask, d) \in Nat}
<1>1. \A d \in Nat : Size(mask, d) \in Nat
  BY SensorsOK DEF Size, Ids
<1>2. 0 \in S
  BY BeginsIs
<1>3. ASSUME NEW d \in S PROVE d + 1 \in S
  <2>1. d \in Nat /\ d + 1 \in Nat /\ Begins(mask, d) \in Nat
    OBVIOUS
  <2>2. Begins(mask, d + 1) = Begins(mask, d) + Size(mask, d)
    BY <2>1, BeginsIs
  <2>3. Begins(mask, d + 1) \in Nat
    BY <1>1, <2>1, <2>2
  <2> QED BY <2>1, <2>3
<1> HIDE DEF S
<1>4. Nat \subseteq S
  BY <1>2, <1>3, Induction DEF S
<1> QED BY <1>1, <1>4 DEF S

\* Values of earlier channels do not begin later, and each takes a byte at least.
LEMMA BeginsGrows ==
  ASSUME NEW mask \in SUBSET Ids, NEW c \in Nat
  PROVE  \A d \in Nat : d >= c + 1 => Begins(mask, d) >= Begins(mask, c) + Size(mask, c)
<1> DEFINE S == {k \in Nat : Begins(mask, (c + 1) + k) >= Begins(mask, c) + Size(mask, c)}
<1>a. \A d \in Nat : /\ Begins(mask, d) \in Nat /\ Size(mask, d) \in Nat
                      /\ Begins(mask, d + 1) = Begins(mask, d) + Size(mask, d)
  BY BeginsIs, BeginsType
<1>1. 0 \in S
  <2>1. (c + 1) + 0 = c + 1
    OBVIOUS
  <2> QED BY <1>a, <2>1
<1>2. ASSUME NEW k \in S PROVE k + 1 \in S
  <2> DEFINE d == (c + 1) + k
  <2>1. d \in Nat /\ (c + 1) + (k + 1) = d + 1 /\ k + 1 \in Nat /\ d + 1 \in Nat
    OBVIOUS
  <2>2. Begins(mask, d) >= Begins(mask, c) + Size(mask, c)
    OBVIOUS
  <2> HIDE DEF d
  <2>3. Begins(mask, d + 1) >= Begins(mask, c) + Size(mask, c)
    BY <1>a, <2>1, <2>2
  <2> QED BY <2>1, <2>3
<1> HIDE DEF S
<1>3. Nat \subseteq S
  BY <1>1, <1>2, Induction DEF S
<1>4. ASSUME NEW d \in Nat, d >= c + 1 PROVE d - (c + 1) \in Nat /\ (c + 1) + (d - (c + 1)) = d
  BY <1>4
<1> QED BY <1>3, <1>4 DEF S

\* Only the value of channel c begins where it does.
LEMMA BeginsOnce ==
  ASSUME NEW mask \in SUBSET Ids, NEW c \in mask
  PROVE  {d \in mask : Begins(mask, d) = Begins(mask, c)} = {c}
<1>1. mask \subseteq Nat /\ \A d \in mask : Size(mask, d) \in 1 .. 4
  BY SensorsOK DEF Size, Ids
<1>2. ASSUME NEW d \in mask, d # c PROVE Begins(mask, d) # Begins(mask, c)
  <2>1. CASE d > c
    <3>1. Begins(mask, d) >= Begins(mask, c) + Size(mask, c)
      BY <1>1, <2>1, BeginsGrows
    <3> QED BY <1>1, <3>1, BeginsType
  <2>2. CASE c > d
    <3>1. Begins(mask, c) >= Begins(mask, d) + Size(mask, d)
      BY <1>1, <2>2, BeginsGrows
    <3> QED BY <1>1, <3>1, BeginsType
  <2> QED BY <1>1, <1>2, <2>1, <2>2
<1> QED BY <1>2

\* Channels that are not in the frame take no bytes.
LEMMA BeginsSkips ==
  ASSUME NEW mask \in SUBSET Ids, NEW c \in Nat, NEW d \in Nat, c <= d,
         \A e \in mask : e < c \/ d <= e
  PROVE  Begins(mask, d) = Begins(mask, c)
<1> DEFINE S == {k \in Nat : c + k <= d => Begins(mask, c + k) = Begins(mask, c)}
<1>1. 0 \in S
  OBVIOUS
<1>2. ASSUME NEW k \in S PROVE k + 1 \in S
  <2> SUFFICES ASSUME c + (k + 1) <= d PROVE Begins(mask, c + (k + 1)) = Begins(mask, c)
    OBVIOUS
  <2> DEFINE e == c + k
  <2>1. e \in Nat /\ c + (k + 1) = e + 1 /\ e < d /\ ~(e < c) /\ ~(d <= e)
    OBVIOUS
  <2>2. e \notin mask
    BY <2>1
  <2>3. Begins(mask, e) = Begins(mask, c)
    BY <2>1
  <2> HIDE DEF e
  <2>4. Begins(mask, e + 1) = Begins(mask, e)
    <3>1. Size(mask, e) = 0
      BY <2>2 DEF Size
    <3>2. Begins(mask, e) \in Nat /\ Begins(mask, e + 1) = Begins(mask, e) + Size(mask, e)
      BY <2>1, BeginsIs, BeginsType
    <3> QED BY <3>1, <3>2
  <2> QED BY <2>1, <2>3, <2>4
<1> HIDE DEF S
<1>3. Nat \subseteq S
  BY <1>1, <1>2, Induction DEF S
<1>4. d - c \in Nat /\ c + (d - c) = d /\ d <= d
  OBVIOUS
<1>5. d - c \in S
  BY <1>3, <1>4
<1> QED BY <1>4, <1>5 DEF S
-----------------------------------------------------------------------------
(* The receivers *)

LEMMA FirstIs ==
  ASSUME NEW frames, DOMAIN frames \subseteq Nat, DOMAIN frames # {}
  PROVE  First(frames) \in DOMAIN frames
BY MinIs DEF First

\* The current channel is the least that is left.
LEMMA CurrentIs ==
  ASSUME ReceiveInv, NEW r \in Receivers, todo[r] # {}
  PROVE  /\ Current(r) \in todo[r] /\ \A c \in todo[r] : Current(r) <= c
         /\ First(work[r]) \in DOMAIN work[r]
         /\ GoodFrame(Frame(r)) /\ Frame(r).mask \in SUBSET Ids /\ Frame(r).mask \in SUBSET Nat
         /\ Current(r) \in Frame(r).mask /\ Frame(r).n \in 1 .. MaxInputs
<1>1. /\ DOMAIN work[r] # {} /\ todo[r] \subseteq Frame(r).mask /\ GoodFrames(work[r])
      /\ inputs \in 0 .. MaxInputs
  BY DEF ReceiveInv, Reading, ReceiveTypes
<1>2. First(work[r]) \in DOMAIN work[r] /\ GoodFrame(Frame(r))
  BY <1>1, FirstIs DEF GoodFrames, Frame
<1>3. Frame(r).mask \subseteq Ids /\ Ids \subseteq Nat /\ Frame(r).n \in 1 .. MaxInputs
  BY <1>1, <1>2, SensorsOK DEF GoodFrame, Ids
<1>4. todo[r] \in SUBSET Nat
  BY <1>1, <1>3
<1>5. Current(r) \in todo[r] /\ \A c \in todo[r] : Current(r) <= c
  BY <1>4, MinIs DEF Current
<1> QED BY <1>1, <1>2, <1>3, <1>5

\* What stays true while the receivers do nothing and no point ends.
LEMMA ReceiversRest ==
  ASSUME ReceiveInv, UNCHANGED <<receiveVars, stage, point, logged>>,
         inputs' \in inputs .. MaxInputs, logged \subseteq Points
  PROVE  ReceiveInv'
<1>1. UNCHANGED <<work, todo, ptr, pc, reading, latest>> /\ inputs \in Nat
  BY SensorsOK DEF receiveVars, ReceiveInv, ReceiveTypes
<1>2. ReceiveTypes'
  BY <1>1, SensorsOK DEF ReceiveInv, ReceiveTypes
<1>3. \A f : GoodFrame(f) => GoodFrame(f)'
  BY <1>1, SensorsOK DEF GoodFrame
<1>4. \A r \in Receivers : GoodFrames(work[r])' /\ Reading(r)' /\ InPlace(r)'
  BY <1>1, <1>3 DEF ReceiveInv, GoodFrames, Reading, InPlace, Frame, Current
<1>5. ReadingsInPlace' /\ OneLogs'
  BY <1>1 DEF ReceiveInv, ReadingsInPlace, OneLogs, Frame, Current
<1>6. \A p \in logged' : p[2] <= inputs'
  <2>1. \A p \in logged : p[2] <= inputs
    BY DEF ReceiveInv, Fresh
  <2>2. \A p \in logged : p[2] \in Nat
    BY SensorsOK
  <2> QED BY <1>1, <2>1, <2>2, SensorsOK
<1>7. Fresh'
  BY <1>1, <1>6 DEF ReceiveInv, Fresh, Expected, Current
<1> QED BY <1>2, <1>4, <1>5, <1>7 DEF ReceiveInv

\* A receiver that begins with other frames, of which nothing has been logged.
LEMMA BeginKeeps ==
  ASSUME ReceiveInv, NEW r \in Receivers, pc[r] = "next", NEW frames, Begin(r, frames),
         UNCHANGED <<pc, reading, latest, stage, point, logged>>,
         inputs' \in inputs .. MaxInputs, logged \subseteq Points,
         GoodFrames(frames)',
         \A i, j \in DOMAIN frames : i # j => Apart(frames[i], frames[j]),
         \A q \in Receivers \ {r} : \A i \in DOMAIN frames, j \in DOMAIN work[q] :
           Apart(frames[i], work[q][j]),
         \A i \in DOMAIN frames : \A c \in frames[i].mask \cap ChannelMap[frames[i].node] :
           <<c, frames[i].n>> \notin logged
  PROVE  ReceiveInv'
<1> DEFINE T == IF DOMAIN frames = {} THEN {} ELSE frames[First(frames)].mask
<1>1. inputs \in Nat /\ MaxInputs \in Nat
  BY SensorsOK DEF ReceiveInv, ReceiveTypes
<1>2. /\ work' = [q \in Receivers |-> work'[q]] /\ work'[r] = frames
      /\ \A q \in Receivers \ {r} : work'[q] = work[q]
  BY DEF Begin, ReceiveInv, ReceiveTypes
<1>3. DOMAIN frames # {} =>
        /\ First(frames) \in DOMAIN frames /\ GoodFrame(frames[First(frames)])'
        /\ T = frames[First(frames)].mask
  BY FirstIs DEF GoodFrames
<1>4. T \in SUBSET Ids /\ (T # {} => DOMAIN frames # {})
  BY <1>3, SensorsOK DEF GoodFrame, Ids
<1>5. /\ todo' \in [Receivers -> SUBSET Ids] /\ todo'[r] = T
      /\ \A q \in Receivers \ {r} : todo'[q] = todo[q]
  <2>1. todo' = [todo EXCEPT ![r] = T]
    BY DEF Begin
  <2> HIDE DEF T
  <2> QED BY <1>4, <2>1 DEF ReceiveInv, ReceiveTypes
<1>6. /\ ptr' \in [Receivers -> Nat] /\ ptr'[r] = 0
      /\ \A q \in Receivers \ {r} : ptr'[q] = ptr[q]
  BY DEF Begin, ReceiveInv, ReceiveTypes
<1>7. inputs' \in 0 .. MaxInputs
  BY <1>1
<1>8. ReceiveTypes'
  BY <1>2, <1>5, <1>6, <1>7 DEF ReceiveInv, ReceiveTypes
<1>9. ASSUME NEW q \in Receivers \ {r}
      PROVE  /\ Frame(q)' = Frame(q) /\ Current(q)' = Current(q)
             /\ GoodFrames(work[q])' /\ Reading(q)' /\ InPlace(q)'
  <2>1. \A f : GoodFrame(f) => GoodFrame(f)'
    BY <1>1 DEF GoodFrame
  <2>2. Frame(q)' = Frame(q) /\ Current(q)' = Current(q)
    BY <1>2, <1>5 DEF Frame, Current
  <2>3. GoodFrames(work[q])'
    BY <1>2, <2>1 DEF GoodFrames, ReceiveInv
  <2> QED BY <1>2, <1>5, <1>6, <2>2, <2>3 DEF ReceiveInv, Reading, InPlace
<1>10. T # {} => Frame(r)' = frames[First(frames)] /\ Current(r)' = Min(T)
  BY <1>2, <1>5 DEF Frame, Current
<1>11. GoodFrames(work[r])' /\ Reading(r)'
  BY <1>2, <1>3, <1>4, <1>5, <1>10 DEF Reading
<1>12. InPlace(r)'
  <2>1. ASSUME T # {}
        PROVE  ptr'[r] = Begins(T, Min(T)) /\ T = {d \in T : d >= Min(T)}
    <3>1. T \in SUBSET Nat
      BY <1>4, SensorsOK DEF Ids
    <3>2. Min(T) \in T /\ \A d \in T : Min(T) <= d
      BY <2>1, <3>1, MinIs
    <3>3. Min(T) \in Nat /\ 0 <= Min(T) /\ \A d \in T : d < 0 \/ Min(T) <= d
      BY <3>1, <3>2
    <3> HIDE DEF T
    <3>4. Begins(T, Min(T)) = 0
      BY <1>4, <3>3, BeginsSkips, BeginsIs
    <3> QED BY <1>6, <3>1, <3>2, <3>4
  <2>2. T # {} => Frame(r)'.mask = T
    BY <1>3, <1>4, <1>10
  <2> QED BY <1>5, <1>10, <2>1, <2>2 DEF InPlace
<1> HIDE DEF T
<1>13. ReadingsInPlace'
  BY DEF ReceiveInv, ReadingsInPlace
<1>14. OneLogs'
  BY <1>9 DEF ReceiveInv, OneLogs
<1>15. Fresh'
  <2>1. \A p \in logged' : p[2] <= inputs'
    <3>1. \A p \in logged : p[2] <= inputs /\ p[2] \in Nat
      BY SensorsOK DEF ReceiveInv, Fresh
    <3> QED BY <1>1, <3>1
  <2>2. \A q \in Receivers : \A i, j \in DOMAIN work'[q] :
          i # j => Apart(work'[q][i], work'[q][j])
    BY <1>2 DEF ReceiveInv, Fresh
  <2>3. \A q, s \in Receivers : q # s =>
          \A i \in DOMAIN work'[q], j \in DOMAIN work'[s] : Apart(work'[q][i], work'[s][j])
    <3>1. \A f, g : Apart(f, g) <=> Apart(g, f)
      BY DEF Apart
    <3>2. ASSUME NEW q \in Receivers, NEW s \in Receivers, q # s,
                 NEW i \in DOMAIN work'[q], NEW j \in DOMAIN work'[s]
          PROVE  Apart(work'[q][i], work'[s][j])
      <4>1. CASE q = r
        BY <1>2, <3>2, <4>1
      <4>2. CASE s = r
        BY <1>2, <3>1, <3>2, <4>2
      <4>3. CASE q # r /\ s # r
        BY <1>2, <3>2, <4>3 DEF ReceiveInv, Fresh
      <4> QED BY <4>1, <4>2, <4>3
    <3> QED BY <3>2
  <2>4. ASSUME NEW q \in Receivers, NEW i \in DOMAIN work'[q], NEW c \in Expected(q, i)'
        PROVE  <<c, work'[q][i].n>> \notin logged'
    <3>1. CASE q = r
      <4>1. i \in DOMAIN frames /\ c \in frames[i].mask \cap ChannelMap[frames[i].node]
        BY <1>2, <1>3, <1>5, <2>4, <3>1 DEF Expected
      <4> QED BY <1>2, <3>1, <4>1
    <3>2. CASE q # r
      <4>1. i \in DOMAIN work[q] /\ c \in Expected(q, i)
        BY <1>2, <1>5, <2>4, <3>2 DEF Expected, Current
      <4> QED BY <1>2, <3>2, <4>1 DEF ReceiveInv, Fresh
    <3> QED BY <3>1, <3>2
  <2> QED BY <2>1, <2>2, <2>3, <2>4 DEF Fresh, Apart
<1> QED BY <1>2, <1>8, <1>9, <1>11, <1>12, <1>13, <1>14, <1>15 DEF ReceiveInv

\* What arrives has a number of its own, so that nothing of it was logged before.
LEMMA Arrives ==
  ASSUME ReceiveInv, logged \subseteq Points, NEW r \in Receivers, DOMAIN work[r] = {}, Input,
         NEW frames, DOMAIN frames \subseteq Nat, Begin(r, frames),
         UNCHANGED <<pc, reading, latest, stage, point, logged>>,
         \A i \in DOMAIN frames :
           /\ frames[i].node \in AllNodes /\ frames[i].n = inputs'
           /\ frames[i].mask \subseteq ChannelMap[frames[i].node] \cup {Unknown},
         \A i, j \in DOMAIN frames : i # j => frames[i].node # frames[j].node
  PROVE  ReceiveInv'
<1>1. /\ inputs \in 0 .. MaxInputs /\ MaxInputs \in Nat
      /\ inputs' = inputs + 1 /\ inputs' \in inputs .. MaxInputs /\ inputs' \in 1 .. MaxInputs
  BY SensorsOK DEF ReceiveInv, ReceiveTypes, Input
<1>2. pc[r] = "next"
  BY DEF ReceiveInv, Reading
<1>3. GoodFrames(frames)'
  BY <1>1 DEF GoodFrames, GoodFrame
<1>4. \A i, j \in DOMAIN frames : i # j => Apart(frames[i], frames[j])
  BY SensorsOK DEF Apart
<1>5. \A q \in Receivers : \A j \in DOMAIN work[q] : work[q][j].n <= inputs /\ work[q][j].n \in Nat
  BY <1>1 DEF ReceiveInv, GoodFrames, GoodFrame
<1>6. \A q \in Receivers \ {r} : \A i \in DOMAIN frames, j \in DOMAIN work[q] :
        Apart(frames[i], work[q][j])
  BY <1>1, <1>5 DEF Apart
<1>7. \A i \in DOMAIN frames : \A c : <<c, frames[i].n>> \notin logged
  BY <1>1 DEF ReceiveInv, Fresh
<1> QED BY <1>1, <1>2, <1>3, <1>4, <1>6, <1>7, BeginKeeps

LEMMA CANFrameKeeps ==
  ASSUME ReceiveInv, logged \subseteq Points, CANFrame
  PROVE  ReceiveInv'
<1>a. PICK n \in Nodes : \E f \in Frames(n) : Begin("CAN", <<f>>)
  BY DEF CANFrame
<1>1. PICK f \in Frames(n) : Begin("CAN", <<f>>)
  BY <1>a
<1>2. /\ f.node \in AllNodes /\ f.n = inputs'
      /\ f.mask \subseteq ChannelMap[f.node] \cup {Unknown}
  BY DEF Frames, Masks, AllNodes
<1> DEFINE frames == <<f>>
<1>3. DOMAIN frames = {1} /\ frames[1] = f
  OBVIOUS
<1> HIDE DEF frames
<1>4. "CAN" \in Receivers /\ DOMAIN work["CAN"] = {} /\ Input
  BY DEF Receivers, CANFrame
<1>5. UNCHANGED <<pc, reading, latest, stage, point, logged>>
  BY DEF CANFrame, writerVars
<1>6. Begin("CAN", frames)
  BY <1>1 DEF frames
<1> QED BY <1>2, <1>3, <1>4, <1>5, <1>6, Arrives

\* Each used frame of a datagram is of the node at its position.
LEMMA UsedFramesAre ==
  ASSUME NEW blocks, DOMAIN blocks = DOMAIN LoraNodes,
         \A i \in DOMAIN blocks : blocks[i] \in Blocks(LoraNodes[i])
  PROVE  /\ DOMAIN UsedFrames(blocks) \subseteq DOMAIN LoraNodes
         /\ \A i \in DOMAIN UsedFrames(blocks) : UsedFrames(blocks)[i] \in Frames(LoraNodes[i])
<1> DEFINE bad  == {i \in DOMAIN blocks : blocks[i].option = "unrecognized"}
           used == {i \in DOMAIN blocks : blocks[i].option = "used" /\ \A j \in bad : i < j}
<1>1. UsedFrames(blocks) = [i \in used |-> blocks[i].frame]
  BY DEF UsedFrames
<1>2. ASSUME NEW i \in used PROVE blocks[i].frame \in Frames(LoraNodes[i])
  <2>1. blocks[i] \in Blocks(LoraNodes[i]) /\ blocks[i].option = "used"
    OBVIOUS
  <2>2. [option |-> "empty"].option = "empty" /\ [option |-> "unrecognized"].option = "unrecognized"
    OBVIOUS
  <2>3. PICK f \in Frames(LoraNodes[i]) : blocks[i] = [option |-> "used", frame |-> f]
    BY <2>1, <2>2 DEF Blocks
  <2>4. blocks[i].frame = f
    BY <2>3
  <2> QED BY <2>4
<1>3. used \subseteq DOMAIN LoraNodes
  OBVIOUS
<1> HIDE DEF used
<1> QED BY <1>1, <1>2, <1>3

LEMMA AsyncListenKeeps ==
  ASSUME ReceiveInv, logged \subseteq Points, AsyncListen
  PROVE  ReceiveInv'
<1>1. PICK blocks : /\ DOMAIN blocks = DOMAIN LoraNodes
                    /\ \A i \in DOMAIN blocks : blocks[i] \in Blocks(LoraNodes[i])
                    /\ Begin("UDP", UsedFrames(blocks))
  BY DEF AsyncListen
<1> DEFINE frames == UsedFrames(blocks)
<1>2. /\ DOMAIN frames \subseteq DOMAIN LoraNodes
      /\ \A i \in DOMAIN frames : frames[i] \in Frames(LoraNodes[i])
  BY <1>1, UsedFramesAre
<1> HIDE DEF frames
<1>3. DOMAIN frames \subseteq Nat /\ \A i \in DOMAIN frames : LoraNodes[i] \in AllNodes
  BY <1>2, SensorsOK DEF AllNodes, LoraIds
<1>4. \A i \in DOMAIN frames :
        /\ frames[i].node = LoraNodes[i] /\ frames[i].n = inputs'
        /\ frames[i].mask \subseteq ChannelMap[frames[i].node] \cup {Unknown}
  BY <1>2 DEF Frames, Masks
<1>5. \A i, j \in DOMAIN frames : i # j => frames[i].node # frames[j].node
  BY <1>2, <1>4, SensorsOK
<1>6. "UDP" \in Receivers /\ DOMAIN work["UDP"] = {} /\ Input
  BY DEF Receivers, AsyncListen
<1>7. UNCHANGED <<pc, reading, latest, stage, point, logged>>
  BY DEF AsyncListen, writerVars
<1>8. Begin("UDP", frames)
  BY <1>1 DEF frames
<1> QED BY <1>3, <1>4, <1>5, <1>6, <1>7, <1>8, Arrives

LEMMA FinishKeeps ==
  ASSUME ReceiveInv, logged \subseteq Points, NEW r \in Receivers, Finish(r)
  PROVE  ReceiveInv'
<1>a. PICK frames : frames = Rest(work[r])
  OBVIOUS
<1>1. /\ DOMAIN frames = DOMAIN work[r] \ {First(work[r])}
      /\ \A i \in DOMAIN frames : frames[i] = work[r][i]
  BY <1>a DEF Rest, Restrict
<1>2. pc[r] = "next" /\ Begin(r, frames) /\ inputs' = inputs
      /\ UNCHANGED <<pc, reading, latest, stage, point, logged>>
  BY <1>a DEF Finish, writerVars
<1>3. inputs' \in inputs .. MaxInputs
  BY <1>2, SensorsOK DEF ReceiveInv, ReceiveTypes
<1>4. GoodFrames(frames)'
  BY <1>1, <1>2 DEF ReceiveInv, GoodFrames, GoodFrame
<1>5. \A i, j \in DOMAIN frames : i # j => Apart(frames[i], frames[j])
  BY <1>1 DEF ReceiveInv, Fresh
<1>6. \A q \in Receivers \ {r} : \A i \in DOMAIN frames, j \in DOMAIN work[q] :
        Apart(frames[i], work[q][j])
  BY <1>1 DEF ReceiveInv, Fresh
<1>7. \A i \in DOMAIN frames : \A c \in frames[i].mask \cap ChannelMap[frames[i].node] :
        <<c, frames[i].n>> \notin logged
  BY <1>1 DEF ReceiveInv, Fresh, Expected
<1> QED BY <1>2, <1>3, <1>4, <1>5, <1>6, <1>7, BeginKeeps

\* The bytes at valuePtr are those of the current channel, and of no other.
LEMMA ReadKeeps ==
  ASSUME ReceiveInv, TareTypes, logged \subseteq Points, NEW r \in Receivers, Read(r)
  PROVE  ReceiveInv'
<1>1. pc[r] = "next" /\ todo[r] # {} /\ UNCHANGED <<latest, stage, point, logged, inputs>>
  BY DEF Read, writerVars
<1>2. inputs' \in inputs .. MaxInputs
  BY <1>1, SensorsOK DEF ReceiveInv, ReceiveTypes
<1>3. CASE Current(r) \notin ChannelMap[Frame(r).node]
  <2>1. Begin(r, <<>>) /\ UNCHANGED <<reading, pc>>
    BY <1>3 DEF Read
  <2> DEFINE frames == <<>>
  <2>2. DOMAIN frames = {}
    OBVIOUS
  <2>3. Begin(r, frames)
    BY <2>1
  <2> HIDE DEF frames
  <2>4. GoodFrames(frames)'
    BY <2>2 DEF GoodFrames
  <2> QED BY <1>1, <1>2, <2>1, <2>2, <2>3, <2>4, BeginKeeps
<1>4. CASE Current(r) \in ChannelMap[Frame(r).node]
  <2> DEFINE new == [of |-> {c \in Frame(r).mask : Begins(Frame(r).mask, c) = ptr[r]},
                     n |-> Frame(r).n, value |-> offset[Current(r)]]
  <2>1. /\ Current(r) \in Frame(r).mask /\ Frame(r).mask \in SUBSET Ids
        /\ GoodFrame(Frame(r)) /\ Frame(r).n \in Nat
    BY <1>1, CurrentIs
  <2>2. offset[Current(r)] \in Int /\ Current(r) \in Ids
    <3>1. Current(r) \in Channels
      BY <1>4, <2>1, SensorsOK DEF GoodFrame
    <3> QED BY <3>1 DEF TareTypes, Offsets, Ids
  <2>3. new.of = {Current(r)} /\ new.n = Frame(r).n /\ new \in Readings
    <3>1. ptr[r] = Begins(Frame(r).mask, Current(r))
      BY <1>1 DEF ReceiveInv, InPlace
    <3>2. {c \in Frame(r).mask : Begins(Frame(r).mask, c) = ptr[r]} = {Current(r)}
      BY <2>1, <3>1, BeginsOnce
    <3> QED BY <2>1, <2>2, <3>2 DEF Readings
  <2>4. /\ reading' = [reading EXCEPT ![r] = new] /\ pc' = [pc EXCEPT ![r] = "read"]
        /\ UNCHANGED <<work, todo, ptr>>
    BY <1>4 DEF Read
  <2> HIDE DEF new
  <2>5. /\ reading' \in [Receivers -> Readings] /\ reading'[r] = new
        /\ \A q \in Receivers \ {r} : reading'[q] = reading[q]
    BY <2>3, <2>4 DEF ReceiveInv, ReceiveTypes
  <2>6. /\ pc' \in [Receivers -> {"next", "read", "logging"}] /\ pc'[r] = "read"
        /\ \A q \in Receivers \ {r} : pc'[q] = pc[q]
    BY <2>4 DEF ReceiveInv, ReceiveTypes
  <2>7. \A q \in Receivers : Frame(q)' = Frame(q) /\ Current(q)' = Current(q)
    BY <2>4 DEF Frame, Current
  <2>8. ReceiveTypes'
    BY <1>1, <2>4, <2>5, <2>6 DEF ReceiveInv, ReceiveTypes
  <2>9. \A q \in Receivers : GoodFrames(work[q])'
    BY <1>1, <2>4 DEF ReceiveInv, GoodFrames, GoodFrame
  <2>10. ASSUME NEW q \in Receivers PROVE Reading(q)' /\ InPlace(q)'
    <3>1. CASE q = r
      BY <1>1, <1>4, <2>3, <2>4, <2>5, <2>6, <2>7, <3>1 DEF ReceiveInv, Reading, InPlace
    <3>2. CASE q # r
      BY <2>4, <2>5, <2>6, <2>7, <3>2 DEF ReceiveInv, Reading, InPlace
    <3> QED BY <3>1, <3>2
  <2>11. ReadingsInPlace'
    BY <1>1 DEF ReceiveInv, ReadingsInPlace
  <2>12. OneLogs'
    BY <1>1, <2>6, <2>7 DEF ReceiveInv, OneLogs
  <2>13. \A q \in Receivers : \A i : Expected(q, i)' = Expected(q, i)
    BY <1>1, <2>4, <2>6, <2>7 DEF Expected
  <2>14. Fresh'
    BY <1>1, <2>4, <2>13 DEF ReceiveInv, Fresh, Apart
  <2> QED BY <2>8, <2>9, <2>10, <2>11, <2>12, <2>14 DEF ReceiveInv
<1> QED BY <1>3, <1>4

\* The reading goes where it belongs, and one receiver at a time logs.
LEMMA WriteKeeps ==
  ASSUME ReceiveInv, logged \subseteq Points, NEW r \in Receivers, Write(r)
  PROVE  /\ <<Current(r), reading[r].n>> \in Points
         /\ ReceiveInv'
<1>1. pc[r] = "read" /\ stage = "idle" /\ UNCHANGED <<work, todo, ptr, reading, inputs, logged>>
  BY DEF Write, StartDataPoint
<1>2. todo[r] # {} /\ Current(r) \in ChannelMap[Frame(r).node] /\ reading[r].n = Frame(r).n
  BY <1>1 DEF ReceiveInv, Reading
<1>3. GoodFrame(Frame(r)) /\ Frame(r).n \in 1 .. MaxInputs
  BY <1>2, CurrentIs
<1>4. Current(r) \in Channels
  BY <1>2, <1>3, SensorsOK DEF GoodFrame
<1>5. <<Current(r), reading[r].n>> \in Points
  BY <1>2, <1>3, <1>4, SensorsOK
<1>6. stage' = "point" /\ point' = <<Current(r), reading[r].n>>
  BY DEF Write, StartDataPoint
<1>7. /\ pc' \in [Receivers -> {"next", "read", "logging"}] /\ pc'[r] = "logging"
      /\ \A q \in Receivers \ {r} : pc'[q] = pc[q]
  BY DEF Write, ReceiveInv, ReceiveTypes
<1> DEFINE c == Current(r)
<1>8. /\ latest' \in [Channels -> Readings] /\ latest'[c] = reading[r]
      /\ \A d \in Channels \ {c} : latest'[d] = latest[d]
  <2>1. reading[r] \in Readings /\ latest \in [Channels -> Readings]
    BY DEF ReceiveInv, ReceiveTypes
  <2>2. latest' = [latest EXCEPT ![c] = reading[r]]
    BY DEF Write
  <2> HIDE DEF c
  <2> QED BY <1>4, <2>1, <2>2 DEF c
<1>9. \A q \in Receivers : Frame(q)' = Frame(q) /\ Current(q)' = Current(q)
  BY <1>1 DEF Frame, Current
<1>10. ReceiveTypes'
  BY <1>1, <1>7, <1>8 DEF ReceiveInv, ReceiveTypes
<1>11. \A q \in Receivers : GoodFrames(work[q])'
  BY <1>1 DEF ReceiveInv, GoodFrames, GoodFrame
<1>12. ASSUME NEW q \in Receivers PROVE Reading(q)' /\ InPlace(q)'
  <2>1. CASE q = r
    BY <1>1, <1>2, <1>7, <1>9, <2>1 DEF ReceiveInv, Reading, InPlace
  <2>2. CASE q # r
    BY <1>1, <1>7, <1>9, <2>2 DEF ReceiveInv, Reading, InPlace
  <2> QED BY <2>1, <2>2
<1>13. ReadingsInPlace'
  <2>1. reading[r].of = {c}
    BY <1>1 DEF ReceiveInv, InPlace
  <2> HIDE DEF c
  <2> QED BY <1>8, <2>1 DEF ReceiveInv, ReadingsInPlace
<1>14. OneLogs'
  <2>1. \A q \in Receivers \ {r} : pc'[q] # "logging"
    BY <1>1, <1>7 DEF ReceiveInv, OneLogs
  <2> QED BY <1>2, <1>6, <1>7, <1>9, <2>1 DEF OneLogs
<1>15. \A q \in Receivers : pc[q] # "logging"
  BY <1>1 DEF ReceiveInv, OneLogs
<1>16. \A q \in Receivers : \A i : Expected(q, i)' = Expected(q, i)
  BY <1>1, <1>6, <1>9, <1>15 DEF Expected
<1>17. Fresh'
  BY <1>1, <1>16 DEF ReceiveInv, Fresh, Apart
<1> QED BY <1>5, <1>10, <1>11, <1>12, <1>13, <1>14, <1>17 DEF ReceiveInv

\* The point that is logged is the one that its receiver expects, and nobody else.
LEMMA LoggedOnce ==
  ASSUME ReceiveInv, NEW r \in Receivers, pc[r] = "logging",
         logged' \subseteq logged \cup {<<Current(r), Frame(r).n>>}
  PROVE  /\ \A p \in logged' : p[2] <= inputs
         /\ \A q \in Receivers : \A i \in DOMAIN work[q] :
              \A c \in Expected(q, i) :
                (q = r /\ i = First(work[r]) => c # Current(r)) =>
                  <<c, work[q][i].n>> \notin logged'
<1> DEFINE p == <<Current(r), Frame(r).n>>
<1>1. /\ todo[r] # {} /\ Current(r) \in ChannelMap[Frame(r).node]
  BY DEF ReceiveInv, Reading
<1>2. First(work[r]) \in DOMAIN work[r] /\ GoodFrame(Frame(r)) /\ Frame(r) = work[r][First(work[r])]
  BY <1>1, CurrentIs DEF Frame
<1>3. p[1] = Current(r) /\ p[2] = Frame(r).n /\ p[2] <= inputs
  BY <1>2, SensorsOK DEF GoodFrame, ReceiveInv, ReceiveTypes
<1>4. \A x \in logged' : x[2] <= inputs
  BY <1>3 DEF ReceiveInv, Fresh
<1>5. ASSUME NEW q \in Receivers, NEW i \in DOMAIN work[q], NEW c \in Expected(q, i),
             ~(q = r /\ i = First(work[r]) /\ c = Current(r))
      PROVE  <<c, work[q][i].n>> \notin logged'
  <2>1. <<c, work[q][i].n>> \notin logged
    BY DEF ReceiveInv, Fresh
  <2>2. c \in ChannelMap[work[q][i].node]
    BY DEF Expected
  <2>3. <<c, work[q][i].n>> # p
    <3>1. CASE q = r /\ i = First(work[r])
      BY <1>5, <3>1
    <3>2. CASE ~(q = r /\ i = First(work[r]))
      <4>1. Apart(work[q][i], Frame(r))
        BY <1>2, <3>2 DEF ReceiveInv, Fresh
      <4>2. c # Current(r) \/ work[q][i].n # Frame(r).n
        BY <1>1, <2>2, <4>1 DEF Apart
      <4> QED BY <4>2
    <3> QED BY <3>1, <3>2
  <2> QED BY <2>1, <2>3
<1> QED BY <1>4, <1>5

\* The value that follows begins where that of the current channel ends.
LEMMA NextInPlace ==
  ASSUME ReceiveInv, NEW r \in Receivers, todo[r] # {},
         NEW left, left = todo[r] \ {Current(r)}, left # {}
  PROVE  /\ ptr[r] + Width[Current(r)] = Begins(Frame(r).mask, Min(left))
         /\ left = {d \in Frame(r).mask : d >= Min(left)}
<1> DEFINE mask == Frame(r).mask
           c == Current(r)
           m == Min(left)
<1>1. /\ mask \in SUBSET Ids /\ mask \in SUBSET Nat /\ c \in mask
      /\ ptr[r] = Begins(mask, c) /\ todo[r] = {d \in mask : d >= c}
      /\ left = todo[r] \ {c}
  BY CurrentIs DEF ReceiveInv, InPlace
<1>2. left \in SUBSET Nat
  BY <1>1
<1>3. m \in left /\ \A d \in left : m <= d
  BY <1>2, MinIs
<1> HIDE DEF mask, c, m
<1>4. left = {d \in mask : d > c}
  <2>1. \A d \in mask : d >= c /\ d # c <=> d > c
    BY <1>1
  <2> QED BY <1>1, <2>1
<1>5. c \in Nat /\ m \in Nat /\ c + 1 <= m
  BY <1>1, <1>3, <1>4
<1>6. \A e \in mask : e < c + 1 \/ m <= e
  BY <1>1, <1>3, <1>4, <1>5
<1>7. Begins(mask, m) = Begins(mask, c + 1)
  BY <1>1, <1>5, <1>6, BeginsSkips
<1>8. Begins(mask, c + 1) = ptr[r] + Width[c]
  <2>1. Size(mask, c) = Width[c]
    BY <1>1 DEF Size
  <2> QED BY <1>1, <1>5, <2>1, BeginsIs
<1>9. left = {d \in mask : d >= m}
  <2>1. ASSUME NEW d \in mask PROVE d \in left <=> d >= m
    <3>1. d \in Nat /\ (d \in left <=> d > c) /\ (d \in left => m <= d)
      BY <1>1, <1>3, <1>4
    <3> QED BY <1>5, <3>1
  <2> QED BY <1>4, <2>1
<1> QED BY <1>7, <1>8, <1>9 DEF mask, c, m

LEMMA AdvanceKeeps ==
  ASSUME ReceiveInv, NEW r \in Receivers, pc[r] = "logging", Advance(r),
         reading' = [reading EXCEPT ![r] = NoReading],
         UNCHANGED <<work, latest, inputs>>, stage' = "idle", logged \subseteq Points,
         logged' \subseteq logged \cup {<<Current(r), Frame(r).n>>}
  PROVE  ReceiveInv'
<1> DEFINE left == todo[r] \ {Current(r)}
<1>a. PICK next : next = left
  OBVIOUS
<1>1. /\ todo[r] # {} /\ todo[r] \subseteq Frame(r).mask
  BY DEF ReceiveInv, Reading
<1>2. /\ Current(r) \in Frame(r).mask /\ Frame(r).mask \in SUBSET Ids
      /\ Current(r) \in todo[r] /\ First(work[r]) \in DOMAIN work[r]
  BY <1>1, CurrentIs
<1>3. /\ todo' \in [Receivers -> SUBSET Ids] /\ todo'[r] = next
      /\ \A q \in Receivers \ {r} : todo'[q] = todo[q]
  <2>1. next \in SUBSET Ids /\ todo' = [todo EXCEPT ![r] = next]
    BY <1>a, <1>1, <1>2 DEF Advance
  <2> QED BY <2>1 DEF ReceiveInv, ReceiveTypes
<1>4. /\ ptr' \in [Receivers -> Nat] /\ ptr'[r] = ptr[r] + Width[Current(r)]
      /\ \A q \in Receivers \ {r} : ptr'[q] = ptr[q]
  <2> DEFINE x == ptr[r] + Width[Current(r)]
  <2>1. x \in Nat
    <3>1. Current(r) \in Ids /\ ptr[r] \in Nat
      BY <1>2 DEF ReceiveInv, ReceiveTypes
    <3>2. Width[Current(r)] \in 1 .. 4
      BY <3>1, SensorsOK
    <3> QED BY <3>1, <3>2
  <2>2. ptr' = [ptr EXCEPT ![r] = x]
    BY DEF Advance
  <2> HIDE DEF x
  <2>3. ptr' \in [Receivers -> Nat] /\ ptr'[r] = x /\ \A q \in Receivers \ {r} : ptr'[q] = ptr[q]
    BY <2>1, <2>2 DEF ReceiveInv, ReceiveTypes
  <2> QED BY <2>3 DEF x
<1>5. /\ pc' \in [Receivers -> {"next", "read", "logging"}] /\ pc'[r] = "next"
      /\ \A q \in Receivers \ {r} : pc'[q] = pc[q]
  BY DEF Advance, ReceiveInv, ReceiveTypes
<1>6. /\ reading' \in [Receivers -> Readings]
      /\ \A q \in Receivers \ {r} : reading'[q] = reading[q]
  <2>1. NoReading \in Readings
    BY DEF NoReading, Readings
  <2> QED BY <2>1 DEF ReceiveInv, ReceiveTypes
<1>7. ReceiveTypes'
  BY <1>3, <1>4, <1>5, <1>6 DEF ReceiveInv, ReceiveTypes
<1>8. \A q \in Receivers : GoodFrames(work[q])' /\ Frame(q)' = Frame(q)
  BY DEF ReceiveInv, GoodFrames, GoodFrame, Frame
<1>9. \A q \in Receivers \ {r} : Current(q)' = Current(q)
  BY <1>3 DEF Current
<1>10. ASSUME NEW q \in Receivers PROVE Reading(q)' /\ InPlace(q)'
  <2>1. CASE q = r
    <3>1. Reading(r)'
      BY <1>a, <1>1, <1>3, <1>5, <1>8 DEF ReceiveInv, Reading
    <3>2. next # {} => /\ ptr'[r] = Begins(Frame(r).mask, Min(next))
                       /\ next = {d \in Frame(r).mask : d >= Min(next)}
      BY <1>a, <1>1, <1>4, NextInPlace
    <3>3. Current(r)' = Min(next)
      BY <1>3 DEF Current
    <3>4. InPlace(r)'
      BY <1>3, <1>5, <1>8, <3>2, <3>3 DEF InPlace
    <3> QED BY <2>1, <3>1, <3>4
  <2>2. CASE q # r
    BY <1>3, <1>4, <1>5, <1>6, <1>8, <1>9, <2>2 DEF ReceiveInv, Reading, InPlace
  <2> QED BY <2>1, <2>2
<1>11. ReadingsInPlace'
  BY DEF ReceiveInv, ReadingsInPlace
<1>12. \A q \in Receivers : pc'[q] # "logging"
  <2>1. \A q \in Receivers \ {r} : pc[q] # "logging"
    BY DEF ReceiveInv, OneLogs
  <2> QED BY <1>5, <2>1
<1>13. OneLogs'
  BY <1>12 DEF OneLogs
<1>14. Fresh'
  <2>1. /\ \A p \in logged' : p[2] <= inputs'
    BY LoggedOnce
  <2>2. ASSUME NEW q \in Receivers, NEW i \in DOMAIN work[q], NEW c \in Expected(q, i)'
        PROVE  <<c, work[q][i].n>> \notin logged'
    <3>1. c \in Expected(q, i) /\ (q = r /\ i = First(work[r]) => c # Current(r))
      BY <1>a, <1>3, <1>5, <1>9, <1>12, <2>2 DEF Expected, ReceiveInv, OneLogs
    <3> QED BY <3>1, LoggedOnce
  <2> QED BY <2>1, <2>2 DEF ReceiveInv, Fresh, Apart
<1> QED BY <1>7, <1>8, <1>10, <1>11, <1>13, <1>14 DEF ReceiveInv

LEMMA LogKeeps ==
  ASSUME ReceiveInv, WriterTypes, NEW r \in Receivers, Log(r)
  PROVE  ReceiveInv' /\ (stage = "point" => point \notin logged)
<1>1. pc[r] = "logging" /\ UNCHANGED <<work, latest, inputs>> /\ logged \subseteq Points
  BY DEF Log, WriterTypes
<1>2. todo[r] # {} /\ Current(r) \in ChannelMap[Frame(r).node]
  BY <1>1 DEF ReceiveInv, Reading
<1>3. First(work[r]) \in DOMAIN work[r] /\ Current(r) \in todo[r]
  BY <1>2, CurrentIs
<1>4. stage = "point" => point = <<Current(r), Frame(r).n>> /\ point \notin logged
  <2>1. stage = "point" => point = <<Current(r), Frame(r).n>>
    BY <1>1 DEF ReceiveInv, OneLogs
  <2>2. stage = "point" => Current(r) \in Expected(r, First(work[r]))
    BY <1>2, <1>3 DEF Expected, Frame
  <2>3. stage = "point" => <<Current(r), work[r][First(work[r])].n>> \notin logged
    BY <1>3, <2>2 DEF ReceiveInv, Fresh
  <2> QED BY <2>1, <2>3 DEF Frame
<1>5. logged' \subseteq logged \cup {<<Current(r), Frame(r).n>>}
  BY <1>4 DEF Log, EndDataPoint, FlushFull
<1>6. CASE stage' = "idle"
  <2>1. Advance(r) /\ reading' = [reading EXCEPT ![r] = NoReading]
    BY <1>6 DEF Log
  <2> QED BY <1>1, <1>4, <1>5, <1>6, <2>1, AdvanceKeeps
<1>7. CASE stage' # "idle"
  <2>1. UNCHANGED <<ptr, todo, pc, reading>> /\ EndDataPoint /\ stage' = "full" /\ stage = "point"
    BY <1>7 DEF Log, FlushFull, EndDataPoint
  <2>2. \A q \in Receivers : Frame(q)' = Frame(q) /\ Current(q)' = Current(q)
    BY <1>1, <2>1 DEF Frame, Current
  <2>3. ReceiveTypes'
    BY <1>1, <2>1 DEF ReceiveInv, ReceiveTypes
  <2>4. \A q \in Receivers : GoodFrames(work[q])' /\ Reading(q)' /\ InPlace(q)'
    BY <1>1, <2>1, <2>2 DEF ReceiveInv, GoodFrames, GoodFrame, Reading, InPlace
  <2>5. ReadingsInPlace'
    BY <1>1 DEF ReceiveInv, ReadingsInPlace
  <2>6. OneLogs'
    BY <2>1, <2>2 DEF ReceiveInv, OneLogs
  <2>7. \A q \in Receivers \ {r} : pc[q] # "logging"
    BY <1>1, <2>1 DEF ReceiveInv, OneLogs
  <2>8. ASSUME NEW q \in Receivers, NEW i \in DOMAIN work[q], NEW c \in Expected(q, i)'
        PROVE  <<c, work[q][i].n>> \notin logged'
    <3>1. c \in Expected(q, i) /\ (q = r /\ i = First(work[r]) => c # Current(r))
      BY <1>1, <2>1, <2>2, <2>7, <2>8 DEF Expected
    <3> QED BY <1>1, <1>5, <3>1, LoggedOnce
  <2>9. \A p \in logged' : p[2] <= inputs'
    BY <1>1, <1>5, LoggedOnce
  <2>10. Fresh'
    BY <1>1, <2>8, <2>9 DEF ReceiveInv, Fresh, Apart
  <2> QED BY <1>4, <2>3, <2>4, <2>5, <2>6, <2>10 DEF ReceiveInv
<1> QED BY <1>6, <1>7
-----------------------------------------------------------------------------
(* The commands *)

USE SensorsOK DEF Ids

LEMMA TareInit == Init => TareInv
<1> SUFFICES ASSUME Init PROVE TareInv
  OBVIOUS
<1>1. NoOffsets \in Offsets
  BY DEF NoOffsets, Offsets
<1>2. NoTare \in [channel : Ids, by : Int, result : Int]
  BY DEF NoTare
<1>3. TareTypes
  BY <1>1, <1>2 DEF Init, TareTypes, Steps
<1>4. InOrder
  BY DEF Init, InOrder, Alone, Mapped, Returned, Loaded, Written
<1> QED BY <1>3, <1>4 DEF TareInv

\* A command that returns leaves nothing behind.
LEMMA ReturnTypes ==
  ASSUME TareTypes, NEW o \in Operators, Return(o),
         offset' = offset, mapping' \in Offsets, file' \in Offsets,
         overlapped' = overlapped, unsaved' \in BOOLEAN
  PROVE  /\ TareTypes' /\ step'[o] = "idle"
         /\ \A p \in Operators \ {o} :
              step'[p] = step[p] /\ tare'[p] = tare[p] /\ image'[p] = image[p]
<1>1. NoOffsets \in Offsets /\ NoTare \in [channel : Ids, by : Int, result : Int]
  BY DEF NoOffsets, Offsets, NoTare
<1>2. /\ step'[o] = "idle"
      /\ \A p \in Operators \ {o} :
           step'[p] = step[p] /\ tare'[p] = tare[p] /\ image'[p] = image[p]
  BY DEF Return, TareTypes
<1>3. /\ step' \in [Operators -> Steps] /\ image' \in [Operators -> Offsets]
      /\ tare' \in [Operators -> [channel : Ids, by : Int, result : Int]]
  BY <1>1 DEF Return, TareTypes, Steps
<1>4. \A p \in Operators : step'[p] # "idle" => tare'[p].channel \in Channels
  BY <1>2 DEF TareTypes
<1> QED BY <1>2, <1>3, <1>4 DEF TareTypes

\* Nobody else is about to tare a channel while one that has not met another does.
LEMMA OthersIdle ==
  ASSUME InOrder, NEW o \in Operators, step[o] # "idle"
  PROVE  \A p \in Operators \ {o} : step[p] = "idle"
BY DEF InOrder, Alone

LEMMA TareStarts ==
  ASSUME TareInv, NEW o \in Operators, Tare(o)
  PROVE  TareInv'
<1>1. PICK c \in Channels, v \in TareBy :
        tare' = [tare EXCEPT ![o] = [channel |-> c, by |-> v, result |-> 0]]
  BY DEF Tare
<1>2. [channel |-> c, by |-> v, result |-> 0] \in [channel : Ids, by : Int, result : Int]
  OBVIOUS
<1>3. /\ tare' \in [Operators -> [channel : Ids, by : Int, result : Int]]
      /\ tare'[o].channel = c
      /\ \A p \in Operators \ {o} : tare'[p] = tare[p]
  BY <1>1, <1>2 DEF TareInv, TareTypes
<1>4. /\ step' \in [Operators -> Steps] /\ step'[o] = "subtract"
      /\ \A p \in Operators \ {o} : step'[p] = step[p]
  BY DEF Tare, TareInv, TareTypes, Steps
<1>5. UNCHANGED <<offset, mapping, file, image, unsaved>>
  BY DEF Tare
<1>6. overlapped' = (overlapped \/ \E p \in Operators : step[p] # "idle")
  BY DEF Tare
<1>7. \A p \in Operators : step'[p] # "idle" => tare'[p].channel \in Channels
  BY <1>3, <1>4 DEF TareInv, TareTypes
<1>8. TareTypes'
  BY <1>3, <1>4, <1>5, <1>6, <1>7 DEF TareInv, TareTypes
<1>9. ASSUME ~overlapped' PROVE InOrder'
  <2>1. InOrder /\ \A p \in Operators : step[p] = "idle"
    BY <1>6, <1>9 DEF TareInv
  <2>2. \A p \in Operators : step'[p] = "idle" \/ (p = o /\ step'[p] = "subtract")
    BY <1>4, <2>1
  <2> QED BY <1>5, <2>1, <2>2 DEF InOrder, Alone, Mapped, Returned, Loaded, Written
<1> QED BY <1>8, <1>9 DEF TareInv

LEMMA TareSubtracts ==
  ASSUME TareInv, NEW o \in Operators, Subtract(o)
  PROVE  TareInv'
<1> DEFINE c == tare[o].channel
<1>1. c \in Channels /\ offset[c] \in Int /\ tare[o].by \in Int /\ step[o] = "subtract"
  BY DEF Subtract, TareInv, TareTypes, Offsets
<1>2. UNCHANGED <<mapping, file, tare, image, overlapped, unsaved>>
  BY DEF Subtract
<1>3. /\ offset' \in Offsets /\ \A d \in Channels \ {c} : offset'[d] = offset[d]
  <2>1. offset[c] - tare[o].by \in Int
    BY <1>1
  <2> QED BY <1>1, <2>1 DEF Subtract, TareInv, TareTypes, Offsets
<1>4. /\ step' \in [Operators -> Steps] /\ step'[o] = "return"
      /\ \A p \in Operators \ {o} : step'[p] = step[p]
  BY DEF Subtract, TareInv, TareTypes, Steps
<1>5. TareTypes'
  BY <1>1, <1>2, <1>3, <1>4 DEF TareInv, TareTypes
<1>6. ASSUME ~overlapped' PROVE InOrder'
  <2>1. InOrder /\ \A p \in Operators \ {o} : step[p] = "idle" /\ step'[p] = "idle"
    BY <1>1, <1>2, <1>4, <1>6, OthersIdle DEF TareInv
  <2>2. Mapped'
    BY <1>1, <1>2, <1>3, <1>4, <2>1 DEF InOrder, Mapped
  <2>3. Alone' /\ Returned' /\ Loaded' /\ Written'
    BY <1>1, <1>2, <1>4, <2>1 DEF InOrder, Alone, Returned, Loaded, Written
  <2> QED BY <2>2, <2>3 DEF InOrder
<1> QED BY <1>5, <1>6 DEF TareInv

LEMMA TareReturnsScaling ==
  ASSUME TareInv, NEW o \in Operators, ReturnScaling(o)
  PROVE  TareInv'
<1> DEFINE c == tare[o].channel
<1>1. c \in Channels /\ offset[c] \in Int /\ step[o] = "return"
  BY DEF ReturnScaling, TareInv, TareTypes, Offsets
<1>2. UNCHANGED <<offset, mapping, file, image, overlapped, unsaved>>
  BY DEF ReturnScaling
<1>3. tare' = [tare EXCEPT ![o].result = offset[c]]
  BY DEF ReturnScaling
<1>4. tare \in [Operators -> [channel : Ids, by : Int, result : Int]]
  BY DEF TareInv, TareTypes
<1>5. /\ tare' \in [Operators -> [channel : Ids, by : Int, result : Int]]
      /\ tare'[o].channel = c /\ tare'[o].result = offset[c]
      /\ \A p \in Operators \ {o} : tare'[p] = tare[p]
  BY <1>1, <1>3, <1>4
<1>6. /\ step' \in [Operators -> Steps] /\ step'[o] = "map"
      /\ \A p \in Operators \ {o} : step'[p] = step[p]
  BY DEF ReturnScaling, TareInv, TareTypes, Steps
<1>7. \A p \in Operators : step'[p] # "idle" => tare'[p].channel \in Channels
  BY <1>1, <1>5, <1>6 DEF TareInv, TareTypes
<1>8. TareTypes'
  BY <1>2, <1>5, <1>6, <1>7 DEF TareInv, TareTypes
<1>9. ASSUME ~overlapped' PROVE InOrder'
  <2>1. InOrder /\ \A p \in Operators \ {o} : step[p] = "idle" /\ step'[p] = "idle"
    BY <1>1, <1>2, <1>6, <1>9, OthersIdle DEF TareInv
  <2>2. Mapped'
    BY <1>2, <1>5, <1>6, <2>1 DEF InOrder, Mapped
  <2>3. Returned'
    BY <1>2, <1>5, <2>1 DEF Returned
  <2>4. Alone' /\ Loaded' /\ Written'
    BY <1>1, <1>2, <1>6, <2>1 DEF InOrder, Alone, Loaded, Written
  <2> QED BY <2>2, <2>3, <2>4 DEF InOrder
<1> QED BY <1>8, <1>9 DEF TareInv

LEMMA TareMaps ==
  ASSUME TareInv, NEW o \in Operators, SetChannelObj(o)
  PROVE  TareInv'
<1> DEFINE c == tare[o].channel
<1>1. c \in Channels /\ tare[o].result \in Int /\ step[o] = "map" /\ mapping \in Offsets
  BY DEF SetChannelObj, TareInv, TareTypes
<1>2. UNCHANGED <<offset, file, overlapped, unsaved>>
  BY DEF SetChannelObj
<1>3. CASE c \in Configured
  <2>1. UNCHANGED <<tare, image>>
    BY <1>3 DEF SetChannelObj
  <2>2. /\ mapping' \in Offsets /\ mapping'[c] = tare[o].result
        /\ \A d \in Channels \ {c} : mapping'[d] = mapping[d]
    BY <1>1, <1>3 DEF SetChannelObj, Offsets
  <2>3. /\ step' \in [Operators -> Steps] /\ step'[o] = "load"
        /\ \A p \in Operators \ {o} : step'[p] = step[p]
    BY <1>3 DEF SetChannelObj, TareInv, TareTypes, Steps
  <2>4. TareTypes'
    BY <1>1, <1>2, <2>1, <2>2, <2>3 DEF TareInv, TareTypes
  <2>5. ASSUME ~overlapped' PROVE InOrder'
    <3>1. InOrder /\ \A p \in Operators \ {o} : step[p] = "idle" /\ step'[p] = "idle"
      BY <1>1, <1>2, <2>3, <2>5, OthersIdle DEF TareInv
    <3>2. Mapped'
      BY <1>1, <1>2, <2>2, <3>1 DEF InOrder, Mapped, Returned
    <3>3. Alone' /\ Returned' /\ Loaded' /\ Written'
      BY <2>3, <3>1 DEF Alone, Returned, Loaded, Written
    <3> QED BY <3>2, <3>3 DEF InOrder
  <2> QED BY <2>4, <2>5 DEF TareInv
<1>4. CASE c \notin Configured
  <2>1. Return(o) /\ UNCHANGED mapping
    BY <1>4 DEF SetChannelObj
  <2>2. /\ TareTypes' /\ step'[o] = "idle"
        /\ \A p \in Operators \ {o} :
             step'[p] = step[p] /\ tare'[p] = tare[p] /\ image'[p] = image[p]
    BY <1>2, <2>1, ReturnTypes DEF TareInv, TareTypes
  <2>3. ASSUME ~overlapped' PROVE InOrder'
    <3>1. InOrder /\ \A p \in Operators : step'[p] = "idle"
      BY <1>1, <1>2, <2>2, <2>3, OthersIdle DEF TareInv
    <3>2. \A p \in Operators \ {o} : step[p] = "idle"
      BY <1>1, <3>1, OthersIdle
    <3>3. Mapped' /\ Written'
      BY <1>1, <1>2, <1>4, <2>1, <3>1, <3>2 DEF InOrder, Mapped, Written
    <3> QED BY <3>1, <3>3 DEF InOrder, Alone, Returned, Loaded
  <2> QED BY <2>2, <2>3 DEF TareInv
<1> QED BY <1>3, <1>4

LEMMA TareLoads ==
  ASSUME TareInv, NEW o \in Operators, LoadFile(o)
  PROVE  TareInv'
<1>1. step[o] = "load" /\ UNCHANGED <<offset, mapping, file, overlapped>>
  BY DEF LoadFile
<1>2. CASE /\ image' = [image EXCEPT ![o] = mapping] /\ step' = [step EXCEPT ![o] = "save"]
           /\ UNCHANGED <<tare, unsaved>>
  <2>1. /\ step' \in [Operators -> Steps] /\ step'[o] = "save"
        /\ \A p \in Operators \ {o} : step'[p] = step[p]
    BY <1>2 DEF TareInv, TareTypes, Steps
  <2>2. image' \in [Operators -> Offsets] /\ image'[o] = mapping
    BY <1>2 DEF TareInv, TareTypes
  <2>3. TareTypes'
    BY <1>1, <1>2, <2>1, <2>2 DEF TareInv, TareTypes
  <2>4. ASSUME ~overlapped' PROVE InOrder'
    <3>1. InOrder /\ \A p \in Operators \ {o} : step[p] = "idle" /\ step'[p] = "idle"
      BY <1>1, <2>1, <2>4, OthersIdle DEF TareInv
    <3> QED BY <1>1, <1>2, <2>1, <2>2, <3>1
            DEF InOrder, Alone, Mapped, Returned, Loaded, Written
  <2> QED BY <2>3, <2>4 DEF TareInv
<1>3. CASE Return(o) /\ unsaved' = TRUE
  <2>1. /\ TareTypes' /\ step'[o] = "idle"
        /\ \A p \in Operators \ {o} :
             step'[p] = step[p] /\ tare'[p] = tare[p] /\ image'[p] = image[p]
    BY <1>1, <1>3, ReturnTypes DEF TareInv, TareTypes
  <2>2. ASSUME ~overlapped' PROVE InOrder'
    <3>1. InOrder /\ \A p \in Operators \ {o} : step[p] = "idle" /\ step'[p] = "idle"
      BY <1>1, <2>1, <2>2, OthersIdle DEF TareInv
    <3> QED BY <1>1, <1>3, <2>1, <3>1 DEF InOrder, Alone, Mapped, Returned, Loaded, Written
  <2> QED BY <2>1, <2>2 DEF TareInv
<1> QED BY <1>2, <1>3 DEF LoadFile

LEMMA TareSaves ==
  ASSUME TareInv, NEW o \in Operators, SaveFile(o)
  PROVE  TareInv'
<1>1. step[o] = "save" /\ Return(o) /\ UNCHANGED <<offset, mapping, overlapped>>
  BY DEF SaveFile
<1>2. file' \in Offsets /\ unsaved' \in BOOLEAN
  <2>1. image[o] \in Offsets /\ file \in Offsets
    BY DEF TareInv, TareTypes
  <2>2. (file' = image[o] /\ unsaved' = FALSE) \/ (file' = file /\ unsaved' = TRUE)
    BY DEF SaveFile
  <2> QED BY <2>1, <2>2
<1>3. /\ TareTypes' /\ step'[o] = "idle"
      /\ \A p \in Operators \ {o} :
           step'[p] = step[p] /\ tare'[p] = tare[p] /\ image'[p] = image[p]
  BY <1>1, <1>2, ReturnTypes DEF TareInv, TareTypes
<1>4. ASSUME ~overlapped' PROVE InOrder'
  <2>1. InOrder /\ \A p \in Operators \ {o} : step[p] = "idle" /\ step'[p] = "idle"
    BY <1>1, <1>3, <1>4, OthersIdle DEF TareInv
  <2>2. unsaved' \/ file' = mapping
    BY <1>1, <2>1 DEF SaveFile, InOrder, Loaded
  <2> QED BY <1>1, <1>3, <2>1, <2>2 DEF InOrder, Alone, Mapped, Returned, Loaded, Written
<1> QED BY <1>3, <1>4 DEF TareInv

LEMMA TareStep == TareInv /\ [Next]_vars => TareInv'
<1> SUFFICES ASSUME TareInv, [Next]_vars PROVE TareInv'
  OBVIOUS
<1>1. ASSUME UNCHANGED tareVars PROVE TareInv'
  BY <1>1 DEF tareVars, TareInv, TareTypes, InOrder, Alone, Mapped, Returned, Loaded, Written
<1>2. CASE CANFrame \/ AsyncListen
  BY <1>1, <1>2 DEF CANFrame, AsyncListen
<1>3. CASE \E r \in Receivers : Receive(r)
  BY <1>1, <1>3 DEF Receive, Read, Write, Log, Finish
<1>4. CASE \E o \in Operators : Command(o)
  <2>1. PICK o \in Operators : Command(o)
    BY <1>4
  <2>2. CASE FlushDatabase(o)
    BY <1>1, <2>2 DEF FlushDatabase
  <2> QED BY <2>1, <2>2, TareStarts, TareSubtracts, TareReturnsScaling, TareMaps, TareLoads,
             TareSaves DEF Command
<1>5. CASE \E t \in SendThreads : Writer(t)
  BY <1>1, <1>5 DEF Writer
<1>6. CASE Halted \/ UNCHANGED vars
  BY <1>1, <1>6 DEF Halted, vars
<1> QED BY <1>2, <1>3, <1>4, <1>5, <1>6 DEF Next, System
-----------------------------------------------------------------------------
(* All of it *)

SensorInv == TareInv /\ WriterTypes /\ Kept /\ ReceiveInv

LEMMA SensorInit == Init => SensorInv
<1> SUFFICES ASSUME Init PROVE SensorInv
  OBVIOUS
<1>1. NoReading \in Readings
  BY DEF NoReading, Readings
<1>2. DOMAIN <<>> = {}
  OBVIOUS
<1>3. \A r \in Receivers : DOMAIN work[r] = {} /\ todo[r] = {} /\ pc[r] = "next"
  BY <1>2 DEF Init
<1>4. ReceiveTypes
  BY <1>1 DEF Init, ReceiveTypes
<1>5. \A r \in Receivers : GoodFrames(work[r]) /\ Reading(r) /\ InPlace(r)
  BY <1>3 DEF GoodFrames, Reading, InPlace
<1>6. ReadingsInPlace
  BY DEF Init, ReadingsInPlace, NoReading
<1>7. OneLogs
  BY <1>3 DEF Init, WriterInit, OneLogs
<1>8. Fresh
  BY <1>3 DEF Init, WriterInit, Fresh
<1>9. ReceiveInv
  BY <1>4, <1>5, <1>6, <1>7, <1>8 DEF ReceiveInv
<1> QED BY <1>9, TareInit, WriterStarts DEF Init, SensorInv

LEMMA WriterRests ==
  ASSUME WriterTypes, Kept, UNCHANGED writerVars
  PROVE  WriterTypes' /\ Kept'
BY KeptUnchanged DEF writerVars, WriterTypes

LEMMA InputsGrow ==
  ASSUME ReceiveInv, Input \/ inputs' = inputs
  PROVE  inputs' \in inputs .. MaxInputs
BY DEF ReceiveInv, ReceiveTypes, Input

LEMMA ReceiveKeeps ==
  ASSUME SensorInv, NEW r \in Receivers, Receive(r)
  PROVE  WriterTypes' /\ Kept' /\ ReceiveInv'
<1>1. logged \subseteq Points
  BY DEF SensorInv, WriterTypes
<1>2. CASE Read(r)
  <2>1. UNCHANGED writerVars
    BY <1>2 DEF Read
  <2> QED BY <1>1, <1>2, <2>1, WriterRests, ReadKeeps DEF SensorInv, TareInv
<1>3. CASE Write(r)
  <2>1. StartDataPoint(<<Current(r), reading[r].n>>)
    BY <1>3 DEF Write
  <2>2. <<Current(r), reading[r].n>> \in Points /\ ReceiveInv'
    BY <1>1, <1>3, WriteKeeps DEF SensorInv
  <2> QED BY <2>1, <2>2, StartKeeps DEF SensorInv
<1>4. CASE Log(r)
  <2>1. ReceiveInv' /\ (stage = "point" => point \notin logged)
    BY <1>4, LogKeeps DEF SensorInv
  <2>2. CASE EndDataPoint
    BY <2>1, <2>2, EndDataPointKeeps DEF SensorInv, EndDataPoint
  <2>3. CASE FlushFull
    BY <2>1, <2>3, FlushFullKeeps DEF SensorInv
  <2> QED BY <1>4, <2>2, <2>3 DEF Log
<1>5. CASE Finish(r)
  <2>1. UNCHANGED writerVars
    BY <1>5 DEF Finish
  <2> QED BY <1>1, <1>5, <2>1, WriterRests, FinishKeeps DEF SensorInv
<1> QED BY <1>2, <1>3, <1>4, <1>5 DEF Receive

LEMMA SensorStep == SensorInv /\ [Next]_vars => SensorInv'
<1> SUFFICES ASSUME SensorInv, [Next]_vars PROVE SensorInv'
  OBVIOUS
<1>1. TareInv'
  BY TareStep DEF SensorInv
<1>2. logged \subseteq Points
  BY DEF SensorInv, WriterTypes
<1>3. ASSUME UNCHANGED <<receiveVars, writerVars>>, Input \/ inputs' = inputs
      PROVE  SensorInv'
  <2>1. UNCHANGED <<receiveVars, stage, point, logged>>
    BY <1>3 DEF writerVars
  <2>2. ReceiveInv'
    BY <1>2, <1>3, <2>1, InputsGrow, ReceiversRest DEF SensorInv
  <2> QED BY <1>1, <1>3, <2>2, WriterRests DEF SensorInv
<1>4. CASE CANFrame \/ AsyncListen
  <2>1. UNCHANGED writerVars
    BY <1>4 DEF CANFrame, AsyncListen
  <2>2. ReceiveInv'
    BY <1>2, <1>4, CANFrameKeeps, AsyncListenKeeps DEF SensorInv
  <2> QED BY <1>1, <2>1, <2>2, WriterRests DEF SensorInv
<1>5. CASE \E r \in Receivers : Receive(r)
  BY <1>1, <1>5, ReceiveKeeps DEF SensorInv
<1>6. CASE \E o \in Operators : Command(o)
  <2>1. PICK o \in Operators : Command(o)
    BY <1>6
  <2>2. CASE FlushDatabase(o)
    <3>1. Input /\ Flush /\ UNCHANGED receiveVars
      BY <2>2 DEF FlushDatabase
    <3>2. UNCHANGED <<receiveVars, stage, point, logged>>
      BY <3>1 DEF Flush
    <3>3. ReceiveInv'
      BY <1>2, <3>1, <3>2, InputsGrow, ReceiversRest DEF SensorInv
    <3> QED BY <1>1, <3>1, <3>3, FlushKeeps DEF SensorInv
  <2>3. CASE Tare(o)
    BY <1>3, <2>3 DEF Tare
  <2>4. CASE Subtract(o) \/ ReturnScaling(o)
    BY <1>3, <2>4 DEF Subtract, ReturnScaling
  <2>5. CASE SetChannelObj(o) \/ LoadFile(o) \/ SaveFile(o)
    BY <1>3, <2>5 DEF SetChannelObj, LoadFile, SaveFile
  <2> QED BY <2>1, <2>2, <2>3, <2>4, <2>5 DEF Command
<1>7. CASE \E t \in SendThreads : Writer(t)
  <2>1. PICK t \in SendThreads : SendThread(t) /\ UNCHANGED <<receiveVars, inputs>>
    BY <1>7 DEF Writer
  <2>2. UNCHANGED <<receiveVars, stage, point, logged>>
    BY <2>1 DEF SendThread, Dequeue, SendData, ReturnBuffer
  <2>3. ReceiveInv'
    BY <1>2, <2>1, <2>2, InputsGrow, ReceiversRest DEF SensorInv
  <2> QED BY <1>1, <2>1, <2>3, SendThreadKeeps DEF SensorInv
<1>8. CASE Halted \/ UNCHANGED vars
  BY <1>3, <1>8 DEF Halted, vars
<1> QED BY <1>4, <1>5, <1>6, <1>7, <1>8 DEF Next, System

LEMMA SensorInvariant == Spec => []SensorInv
BY SensorInit, SensorStep, PTL DEF Spec

\* Every variable has its type: frames and masks are of known nodes, a receiver that is not
\* about to read has a channel to log, and the writer's buffers hold points or parts of them.
THEOREM TypeCorrect == Spec => []TypeOK
<1>1. SensorInv => TypeOK
  <2> SUFFICES ASSUME SensorInv PROVE TypeOK
    OBVIOUS
  <2>1. WriterTypeOK
    BY DEF SensorInv, WriterTypes, WriterTypeOK
  <2>2. \A r \in Receivers :
          /\ \A i \in DOMAIN work[r] : work[r][i].node \in AllNodes
          /\ todo[r] \subseteq Ids /\ (todo[r] # {} => DOMAIN work[r] # {})
          /\ pc[r] # "next" => todo[r] # {}
    BY DEF SensorInv, ReceiveInv, ReceiveTypes, GoodFrames, GoodFrame, Reading
  <2>3. /\ ptr \in [Receivers -> Nat] /\ pc \in [Receivers -> {"next", "read", "logging"}]
        /\ reading \in [Receivers -> Readings] /\ latest \in [Channels -> Readings]
        /\ inputs \in 0 .. MaxInputs
    BY DEF SensorInv, ReceiveInv, ReceiveTypes
  <2> QED BY <2>1, <2>2, <2>3 DEF SensorInv, TareInv, TareTypes, Steps, TypeOK
<1> QED BY <1>1, SensorInvariant, PTL

\* Whatever the sizes of the values in a frame and whichever channels its mask leaves out,
\* the buffer of a channel holds a value that was taken from the bytes of this channel.
THEOREM ReadingsInPlaceCorrect == Spec => []ReadingsInPlace
<1>1. SensorInv => ReadingsInPlace
  BY DEF SensorInv, ReceiveInv
<1> QED BY <1>1, SensorInvariant, PTL

\* Whatever the threads, the capacity of a buffer and the size of the pool, a point that
\* was logged is in exactly one buffer on its way, or was sent once.
THEOREM PointsKeptCorrect == Spec => []PointsKept
<1>1. SensorInv => PointsKept
  BY KeptMeans DEF SensorInv
<1> QED BY <1>1, SensorInvariant, PTL

\* OffsetsSaved is an invariant of the specification: while no two commands to tare have
\* met, what is applied, what the mapping holds and what the file holds come to agree.
THEOREM OffsetsSavedCorrect == Spec => []OffsetsSaved
<1>1. Init => TareInv
  BY TareInit
<1>2. TareInv => OffsetsSaved
  BY DEF TareInv, InOrder, Mapped, Written, OffsetsSaved
<1> QED BY <1>1, <1>2, TareStep, PTL DEF Spec
=============================================================================
