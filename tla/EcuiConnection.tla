---------------------------- MODULE EcuiConnection ----------------------------
(***************************************************************************)
(* The connection to the web server: EcuiSocket over Socket.  Several      *)
(* threads send messages, each as a header with its length followed by the *)
(* payload, under socketMtx.  The listener receives messages and hands     *)
(* them to the controller, which may answer from the listener's thread.    *)
(* When anything throws there, a lost connection or a message that cannot  *)
(* be handled, the listener opens another socket, without the mutex and    *)
(* without closing the old one.                                            *)
(***************************************************************************)
EXTENDS Naturals, Sequences

CONSTANTS Senders,     \* threads that send, apart from the listener
          Listener,    \* the listener's thread
          None,        \* nobody holds the mutex
          MaxLength,   \* MAX_MSG_LENGTH, and what two bytes of header count up to
          Sizes,       \* lengths of messages
          MaxSockets,  \* sockets the process can open before it is out of descriptors
          MaxSent,     \* bound: messages a thread sends
          MaxHeard,    \* bound: messages the web server sends
          MaxFailed    \* bound: attempts to connect that fail

Threads == Senders \cup {Listener}
Sockets == 0 .. MaxSockets   \* 0 stands for the socketfd -1

ASSUME ConnectionOK ==
  /\ Listener \notin Senders /\ None \notin Threads
  /\ MaxLength \in Nat \ {0} /\ Sizes \subseteq Nat
  /\ MaxSockets \in Nat \ {0}
  /\ MaxSent \in Nat /\ MaxHeard \in Nat /\ MaxFailed \in Nat

VARIABLES
  listening,         \* EcuiSocket::connectionActive: Init is done
  socketfd,          \* the socket in use, 0 if none could be opened
  opened,            \* number of sockets opened so far; none is ever closed
  status,            \* what became of each socket
  connectionActive,
  holder,            \* who holds socketMtx
  call, msg,         \* where each thread is in Send, and its message
  sent,              \* what was written to each socket
  step,              \* where the listener is
  inbox,             \* messages on their way to the server on each socket
  reading,           \* the message received last
  made, told, failed,\* bounds: messages of each thread and of the web server,
                     \* failed attempts
  alive              \* the process runs

sendVars   == <<holder, call, msg, sent, made>>
socketVars == <<socketfd, opened, status, connectionActive>>
recvVars   == <<step, inbox, reading, told>>
vars == <<listening, socketVars, sendVars, recvVars, failed, alive>>

Messages == [from : Threads, n : Nat, size : Sizes]
Frames   == [kind : {"header"}, msg : Messages, length : Nat]
              \cup [kind : {"payload"}, msg : Messages]
Heard    == [socket : Sockets, n : Nat, good : BOOLEAN]

Init ==
  /\ listening = FALSE /\ alive = TRUE
  /\ socketfd = 0 /\ opened = 0 /\ connectionActive = FALSE
  /\ status = [c \in Sockets |-> "none"]
  /\ holder = None
  /\ call = [t \in Threads |-> "idle"] /\ msg = [t \in Threads |-> <<>>]
  /\ sent = [c \in Sockets |-> <<>>]
  /\ step = "connect"
  /\ inbox = [c \in Sockets |-> <<>>] 
  /\ reading = [socket |-> 0, n |-> 0, good |-> TRUE]
  /\ made = [t \in Threads |-> 0] /\ told = 0 /\ failed = 0
-----------------------------------------------------------------------------
(* Send, on any thread *)

(* SendJson, once Init is done: a message of any length is to be sent. *)
SendJson(t) ==
  /\ listening /\ call[t] = "idle" /\ made[t] < MaxSent
  /\ \E s \in Sizes : msg' = [msg EXCEPT ![t] = [from |-> t, n |-> made[t] + 1, size |-> s]]
  /\ call' = [call EXCEPT ![t] = "lock"]
  /\ made' = [made EXCEPT ![t] = made[t] + 1]
  /\ UNCHANGED <<holder, sent, alive>>

(* A message is dropped while no connection is active.  One that is too    *)
(* long closes the socket, and Close wants the mutex that Send holds.      *)
Dropped(t) ==
  /\ ~connectionActive
  /\ call' = [call EXCEPT ![t] = "idle"]
  /\ msg' = [msg EXCEPT ![t] = <<>>]
  /\ UNCHANGED holder

Begun(t) ==
  /\ connectionActive
  /\ call' = [call EXCEPT ![t] = IF msg[t].size > MaxLength THEN "close" ELSE "header"]
  /\ holder' = t
  /\ UNCHANGED msg

\* Mutant: Send does not take the mutex.
BugLock(t) ==
  /\ call[t] = "lock"
  /\ Dropped(t) \/ Begun(t)
  /\ UNCHANGED <<sent, made, alive>>

Lock(t) ==
  /\ call[t] = "lock" /\ holder = None
  /\ Dropped(t) \/ Begun(t)
  /\ UNCHANGED <<sent, made, alive>>

(* A write goes out on an open connection.  After the web server closed    *)
(* its end a write may still succeed and goes nowhere.                     *)
Write(frame) ==
  /\ status[socketfd] \in {"up", "closed"}
  /\ sent' = [sent EXCEPT ![socketfd] = Append(sent[socketfd], frame)]
  /\ UNCHANGED <<made, alive>>

(* Without a connection a write fails, or SIGPIPE ends the process, which  *)
(* neither blocks nor ignores it.                                          *)
WriteFails(t) ==
  /\ status[socketfd] # "up"
  /\ \/ call' = [call EXCEPT ![t] = "close"] /\ UNCHANGED alive
     \/ alive' = FALSE /\ UNCHANGED call
  /\ UNCHANGED <<holder, msg, sent, made>>

SendHeader(t) ==
  /\ call[t] = "header"
  /\ \/ /\ Write([kind |-> "header", msg |-> msg[t], length |-> msg[t].size % MaxLength])
        /\ call' = [call EXCEPT ![t] = "payload"]
        /\ UNCHANGED <<holder, msg>>
     \/ WriteFails(t)

SendPayload(t) ==
  /\ call[t] = "payload"
  /\ \/ /\ Write([kind |-> "payload", msg |-> msg[t]])
        /\ call' = [call EXCEPT ![t] = "idle"]
        /\ msg' = [msg EXCEPT ![t] = <<>>]
        /\ holder' = None
     \/ WriteFails(t)

Send(t) ==
  /\ Lock(t) \/ SendHeader(t) \/ SendPayload(t)
  /\ UNCHANGED <<listening, socketVars, recvVars, failed>>

Sender(t) ==
  /\ SendJson(t)
  /\ UNCHANGED <<listening, socketVars, recvVars, failed>>
-----------------------------------------------------------------------------
(* The listener: Init on the main thread first, then AsyncListen *)

(* Connect: the socket in use is replaced, whatever it was, and stays open. *)
(* Out of descriptors, socketfd is -1 and the loops around Connect go on.   *)
\* Mutant: the result of socket is not checked.
BugOpenSocket ==
  /\ step = "connect"
  /\ opened' = opened + 1 /\ socketfd' = opened + 1
  /\ status' = [status EXCEPT ![opened + 1] = "new"]
  /\ step' = "attempt"
  /\ UNCHANGED <<connectionActive, listening, failed, inbox, reading, told>>

OpenSocket ==
  /\ step = "connect"
  /\ IF opened < MaxSockets
       THEN /\ opened' = opened + 1 /\ socketfd' = opened + 1
            /\ status' = [status EXCEPT ![opened + 1] = "new"]
            /\ step' = "attempt"
       ELSE /\ socketfd' = 0 /\ step' = "recv"
            /\ UNCHANGED <<opened, status>>
  /\ UNCHANGED <<connectionActive, listening, failed, inbox, reading, told>>

(* Without a limit on the tries, connect is repeated every three seconds. *)
Connect ==
  /\ step = "attempt"
  /\ \/ /\ status' = [status EXCEPT ![socketfd] = "up"]
        /\ connectionActive' = TRUE /\ listening' = TRUE
        /\ step' = "recv"
        /\ UNCHANGED failed
     \/ /\ failed < MaxFailed
        /\ failed' = failed + 1
        /\ UNCHANGED <<status, connectionActive, listening, step>>
  /\ UNCHANGED <<socketfd, opened, inbox, reading, told>>

(* A short read is an error: the connection is lost, and the exception     *)
(* makes the listener connect again.                                       *)
\* Mutant: the error is reported, and the listener goes on.
BugLost ==
  /\ connectionActive' = FALSE
  /\ step' = "recv"
  /\ UNCHANGED <<status, inbox, reading>>

Lost ==
  /\ connectionActive' = FALSE
  /\ step' = "connect"
  /\ UNCHANGED <<status, inbox, reading>>

(* recv returns -1, which is no short read to a comparison of unsigned     *)
(* numbers, so that a buffer nobody wrote is the message.  It is nothing   *)
(* that can be parsed, or what the last message left there.                *)
Failed ==
  status' = [status EXCEPT ![socketfd] =
               IF status[socketfd] = "reset" THEN "failed" ELSE status[socketfd]]

Unparsable ==
  /\ Failed
  /\ step' = "connect"
  /\ UNCHANGED <<connectionActive, inbox, reading>>

Repeated ==
  /\ Failed
  /\ reading.n > 0 /\ step' = "handle"
  /\ UNCHANGED <<connectionActive, inbox, reading>>

Arrived == inbox[socketfd] # <<>>

(* The first recv, of the header.  After an error the length is garbage;   *)
(* the second recv finds the end of the stream then, or reads no byte.     *)
RecvHeader ==
  /\ step = "recv"
  /\ \/ ~connectionActive /\ Lost
     \/ /\ connectionActive /\ Arrived
        /\ step' = "payload"
        /\ UNCHANGED <<connectionActive, status, inbox, reading>>
     \/ /\ connectionActive /\ ~Arrived
        /\ \/ status[socketfd] \in {"closed", "failed"} /\ Lost
           \/ status[socketfd] = "reset" /\ (Lost \/ Unparsable)
           \/ status[socketfd] = "none" /\ (Unparsable \/ Repeated)
  /\ UNCHANGED <<listening, socketfd, opened, failed, told>>

Received ==
  /\ Arrived
  /\ reading' = Head(inbox[socketfd])
  /\ inbox' = [inbox EXCEPT ![socketfd] = Tail(inbox[socketfd])]
  /\ step' = "handle"
  /\ UNCHANGED <<connectionActive, status>>

\* Mutant: a payload that is cut off is not noticed.
BugRecvPayload ==
  /\ step = "payload"
  /\ \/ Received
     \/ ~Arrived /\ status[socketfd] \in {"closed", "reset"} /\ (Unparsable \/ Repeated)
  /\ UNCHANGED <<listening, socketfd, opened, failed, told>>

(* The second recv, of the payload. *)
RecvPayload ==
  /\ step = "payload"
  /\ \/ Received
     \/ ~Arrived /\ status[socketfd] = "closed" /\ Lost
     \/ ~Arrived /\ status[socketfd] = "reset" /\ (Unparsable \/ Repeated)
  /\ UNCHANGED <<listening, socketfd, opened, failed, told>>

(* The message is parsed and handled.  A message that is no JSON, or one   *)
(* whose handling throws, makes the listener connect again, although       *)
(* nothing is wrong with the connection.                                   *)
Handle ==
  /\ step = "handle" /\ call[Listener] = "idle"
  /\ step' = IF reading.good THEN "recv" ELSE "connect"
  /\ UNCHANGED <<listening, socketVars, failed, inbox, reading, told>>

AsyncListen ==
  /\ OpenSocket \/ Connect \/ RecvHeader \/ RecvPayload \/ Handle
  /\ UNCHANGED <<sendVars, alive>>

(* The handler answers, with as many messages as it likes. *)
Answer ==
  /\ step = "handle" /\ SendJson(Listener)
  /\ UNCHANGED <<listening, socketVars, recvVars, failed>>
-----------------------------------------------------------------------------
(* The web server.  What it does on a socket that was replaced reaches     *)
(* nobody.                                                                 *)
Tell ==
  /\ status[socketfd] = "up" /\ told < MaxHeard
  /\ told' = told + 1
  /\ \E good \in BOOLEAN : inbox' = [inbox EXCEPT ![socketfd] =
       Append(inbox[socketfd], [socket |-> socketfd, n |-> told + 1, good |-> good])]
  /\ UNCHANGED <<listening, socketVars, sendVars, step, reading, failed, alive>>

(* The connection ends in order, or is reset; some of the last messages    *)
(* may not arrive any more, and the last one that does may be cut off.     *)
Drop ==
  /\ status[socketfd] = "up"
  /\ \E how \in {"closed", "reset"} : status' = [status EXCEPT ![socketfd] = how]
  /\ \E k \in 0 .. Len(inbox[socketfd]) :
       inbox' = [inbox EXCEPT ![socketfd] = SubSeq(inbox[socketfd], 1, k)]
  /\ UNCHANGED <<listening, socketfd, opened, connectionActive, sendVars, step, reading, told,
                 failed, alive>>

(* A thread waits in Close for the mutex it holds, and every other sender  *)
(* waits for it; or the server waits for messages.                         *)
Stuck == \E t \in Threads : call[t] = "close"
Waiting == step = "recv" /\ status[socketfd] = "up" /\ ~Arrived

Halted ==
  /\ ~alive \/ Stuck \/ Waiting
  /\ UNCHANGED vars

System ==
  \/ \E t \in Senders : Sender(t)
  \/ \E t \in Threads : Send(t)
  \/ AsyncListen
  \/ Answer
  \/ Tell
  \/ Drop

Next == (alive /\ System) \/ Halted

Spec == Init /\ [][Next]_vars

(* The threads run.  Nothing forces anybody to send, and the messages are  *)
(* bounded, so that the mutex becomes free.                                *)
FairSpec ==
  /\ Spec
  /\ WF_vars(alive /\ AsyncListen)
  /\ \A t \in Threads : WF_vars(alive /\ Send(t))
-----------------------------------------------------------------------------
Steps == {"connect", "attempt", "recv", "payload", "handle"}

TypeOK ==
  /\ listening \in BOOLEAN /\ connectionActive \in BOOLEAN /\ alive \in BOOLEAN
  /\ socketfd \in 0 .. opened /\ opened \in Sockets
  /\ status \in [Sockets -> {"none", "new", "up", "closed", "reset", "failed"}]
  /\ holder \in Threads \cup {None}
  /\ call \in [Threads -> {"idle", "lock", "header", "payload", "close"}]
  /\ msg \in [Threads -> Messages \cup {<<>>}]
  /\ \A t \in Threads : call[t] # "idle" => msg[t] \in Messages
  /\ sent \in [Sockets -> Seq(Frames)]
  /\ step \in Steps
  /\ inbox \in [Sockets -> Seq(Heard)] /\ reading \in Heard
  /\ made \in [Threads -> Nat] /\ told \in Nat /\ failed \in Nat

Whole(frames) ==
  \A i \in 1 .. Len(frames) :
    /\ frames[i].kind = "header" /\ i < Len(frames) =>
         frames[i + 1] = [kind |-> "payload", msg |-> frames[i].msg]
    /\ frames[i].kind = "payload" /\ i > 1 =>
         frames[i - 1].kind = "header" /\ frames[i - 1].msg = frames[i].msg
    /\ frames[i].kind = "header" =>
         frames[i].length = frames[i].msg.size \/ frames[i].msg.size = MaxLength

(* On every socket a header is followed by its own payload and a payload   *)
(* preceded by its header, except that the last header of a socket may     *)
(* lack its payload and the first thing on a socket may be a payload:      *)
(* the listener replaced the socket in between.  Send writes the two with  *)
(* two calls of send under socketMtx, with several threads at it.  Only    *)
(* for a message of MAX_MSG_LENGTH the header does not give the length.    *)
FramesWhole == \A c \in Sockets : Whole(sent[c])

(* Messages are handled once each and in their order, none of a socket is  *)
(* skipped, through messages that are cut off and exceptions; only an      *)
(* error that Recv does not notice may bring the last message back.        *)
HandledInOrder ==
  [][step # "handle" /\ step' = "handle" =>
       \/ /\ reading.n < reading'.n
          /\ reading.socket = reading'.socket => reading'.n = reading.n + 1
       \/ reading' = reading /\ status'[socketfd] \in {"none", "failed"}]_vars

(* A connection that ends is followed by another one, however often that   *)
(* happens, unless a sender is caught in Close, SIGPIPE ended the process  *)
(* or the sockets that are never closed have used up the descriptors.      *)
Reconnects ==
  status[socketfd] # "up" ~>
    status[socketfd] = "up" \/ Stuck \/ ~alive \/ socketfd = 0
=============================================================================
