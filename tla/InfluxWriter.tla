----------------------------- MODULE InfluxWriter -----------------------------
(***************************************************************************)
(* Logging to InfluxDB: InfluxDbWriter and its InfluxDbSendThreads.  A     *)
(* call of log appends the parts of a point to current_buffer; a buffer    *)
(* that is full, or that somebody flushes, is queued; the send threads     *)
(* write queued buffers to the database and return them for use again.     *)
(* buffer_mutex guards flush and returnBuffer.  It does not guard the      *)
(* appending, which the callers of log have to keep apart.                 *)
(***************************************************************************)
EXTENDS Naturals, Sequences, FiniteSets

CONSTANTS Points,         \* what can be logged
          None,           \* no point, no buffer
          SendThreads,    \* Init's numOfThreads
          BufferSizeMax,  \* buffer_size_max, counted in points
          PoolSize        \* buffers available at first (10)

Buffers == Seq([point : Points, whole : BOOLEAN])

ASSUME WriterOK ==
  /\ None \notin Points /\ None \notin Buffers
  /\ BufferSizeMax \in Nat \ {0} /\ PoolSize \in Nat

VARIABLES
  stage,       \* of the call of log: "idle", "point" while parts are appended, "full"
  point,       \* the point it logs
  torn,        \* a flush took the parts appended so far
  current,     \* current_buffer: the points and parts of points it holds
  available,   \* available_buffers, with what they hold
  queue,
  sending,     \* the buffer each send thread has, and whether it was sent
  connected,   \* whether the connection of each send thread works
  alive,       \* the process runs
  db,          \* how often the database has stored each point
  lost,        \* history: how often each was sent in vain
  logged       \* history: the points logged in whole

writerVars == <<stage, point, torn, current, available, queue, sending, connected, alive, db,
                lost, logged>>

Whole(buffer, p) == {i \in DOMAIN buffer : buffer[i] = [point |-> p, whole |-> TRUE]}
Counted(counts, buffer) == [p \in Points |-> counts[p] + Cardinality(Whole(buffer, p))]

WriterInit ==
  /\ stage = "idle" /\ point = None /\ torn = FALSE
  /\ current = <<>> /\ queue = <<>>
  /\ available = [i \in 1 .. PoolSize |-> <<>>]
  /\ sending = [t \in SendThreads |-> [buffer |-> None, sent |-> FALSE]]
  /\ connected = [t \in SendThreads |-> TRUE]
  /\ alive = TRUE
  /\ db = [p \in Points |-> 0] /\ lost = db /\ logged = {}
-----------------------------------------------------------------------------
(* A call of log *)

StartDataPoint(p) ==
  /\ stage = "idle"
  /\ stage' = "point" /\ point' = p /\ torn' = FALSE
  /\ UNCHANGED <<current, available, queue, sending, connected, alive, db, lost, logged>>

(* The end of a point.  What was taken in two parts is no point in either. *)
EndDataPoint ==
  /\ stage = "point"
  /\ current' = Append(current, [point |-> point, whole |-> ~torn])
  /\ stage' = IF Len(current) + 1 >= BufferSizeMax THEN "full" ELSE "idle"
  /\ logged' = IF torn THEN logged ELSE logged \cup {point}
  /\ point' = None /\ torn' = FALSE
  /\ UNCHANGED <<available, queue, sending, connected, alive, db, lost>>

(* flush: the buffer is queued, and another is taken if there is one. *)
Queue(buffer) ==
  /\ queue' = Append(queue, buffer)
  /\ IF available # <<>>
       THEN /\ current' = available[Len(available)]
            /\ available' = SubSeq(available, 1, Len(available) - 1)
       ELSE current' = <<>> /\ UNCHANGED available

Push ==
  IF current = <<>> THEN UNCHANGED <<queue, current, available>> ELSE Queue(current)

(* The flush at the end of the point that fills the buffer. *)
FlushFull ==
  /\ stage = "full" /\ stage' = "idle"
  /\ Push
  /\ UNCHANGED <<point, torn, sending, connected, alive, db, lost, logged>>

(* Somebody else's flush.  While a point is appended it comes before the   *)
(* point, it takes what is there of it, or the two threads destroy the     *)
(* string.                                                                 *)
Flush ==
  /\ \/ Push /\ UNCHANGED <<torn, alive>>
     \/ /\ stage = "point"
        /\ Queue(Append(current, [point |-> point, whole |-> FALSE]))
        /\ torn' = TRUE
        /\ UNCHANGED alive
     \/ /\ stage = "point"
        /\ alive' = FALSE
        /\ UNCHANGED <<queue, current, available, torn>>
  /\ UNCHANGED <<stage, point, sending, connected, db, lost, logged>>
-----------------------------------------------------------------------------
(* messageSendingLoop.  The queue keeps the order of each producer only.   *)
Dequeue(t) ==
  /\ sending[t].buffer = None
  /\ \E i \in DOMAIN queue :
       /\ sending' = [sending EXCEPT ![t] = [buffer |-> queue[i], sent |-> FALSE]]
       /\ queue' = SubSeq(queue, 1, i - 1) \o SubSeq(queue, i + 1, Len(queue))
  /\ UNCHANGED <<stage, point, torn, current, available, connected, alive, db, lost, logged>>

(* sendData: what became of the buffer is ignored.  The database may       *)
(* refuse it.  A connection that fails is never opened again, and the next *)
(* write to it fails as well, or ends the process with SIGPIPE.            *)
SendData(t) ==
  /\ sending[t].buffer # None /\ ~sending[t].sent
  /\ sending' = [sending EXCEPT ![t] = [buffer |-> sending[t].buffer, sent |-> TRUE]]
  /\ \/ connected[t] /\ db' = Counted(db, sending[t].buffer) /\ UNCHANGED <<connected, lost, alive>>
     \/ /\ lost' = Counted(lost, sending[t].buffer)
        /\ \/ UNCHANGED <<connected, alive>>
           \/ connected' = [connected EXCEPT ![t] = FALSE] /\ UNCHANGED alive
           \/ ~connected[t] /\ alive' = FALSE /\ UNCHANGED connected
        /\ UNCHANGED db
  /\ UNCHANGED <<stage, point, torn, current, available, queue, logged>>

\* Mutant: the returned buffer is not cleared.
BugReturnBuffer(t) ==
  /\ sending[t].buffer # None /\ sending[t].sent
  /\ available' = Append(available, sending[t].buffer)
  /\ sending' = [sending EXCEPT ![t] = [buffer |-> None, sent |-> FALSE]]
  /\ UNCHANGED <<stage, point, torn, current, queue, connected, alive, db, lost, logged>>

ReturnBuffer(t) ==
  /\ sending[t].buffer # None /\ sending[t].sent
  /\ available' = Append(available, <<>>)
  /\ sending' = [sending EXCEPT ![t] = [buffer |-> None, sent |-> FALSE]]
  /\ UNCHANGED <<stage, point, torn, current, queue, connected, alive, db, lost, logged>>

SendThread(t) == Dequeue(t) \/ SendData(t) \/ ReturnBuffer(t)
-----------------------------------------------------------------------------
WriterTypeOK ==
  /\ stage \in {"idle", "point", "full"} /\ torn \in BOOLEAN /\ alive \in BOOLEAN
  /\ point \in Points \cup {None} /\ (stage = "point" <=> point # None)
  /\ current \in Buffers /\ db \in [Points -> Nat] /\ lost \in [Points -> Nat]
  /\ queue \in Seq(Buffers \ {<<>>}) /\ available \in Seq({<<>>})
  /\ \A t \in SendThreads :
       sending[t].sent \in BOOLEAN
         /\ (sending[t].buffer = None \/ sending[t].buffer \in Buffers \ {<<>>})
  /\ connected \in [SendThreads -> BOOLEAN]
  /\ logged \subseteq Points
=============================================================================
