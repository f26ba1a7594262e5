------------------------- MODULE EcuiConnectionProofs -------------------------
(***************************************************************************)
(* TypeOK, FramesWhole and HandledInOrder of EcuiConnection for any        *)
(* threads, message lengths, number of sockets and bounds.                 *)
(*                                                                         *)
(* FramesWhole needs to know who may be between a header and its payload:  *)
(* Half says that a socket ends with a header only while the holder of the *)
(* mutex is about to send the payload or is stuck in Close, and that a     *)
(* payload without its header can only be the first thing on a socket.     *)
(* HandledInOrder needs to know what is on its way: Numbered says that the *)
(* messages of a socket are numbered without a gap, from the last one that *)
(* was received on this socket to the last one that was sent.              *)
(***************************************************************************)
EXTENDS EcuiConnection, TLAPS

LastOf(s) == s[Len(s)]

Mutex ==
  \A t \in Threads :
    /\ call[t] \in {"header", "payload", "close"} => holder = t
    /\ call[t] = "header" => msg[t].size <= MaxLength

\* Nothing is on a socket that was not opened yet, and socketfd -1 is none.
Unused ==
  /\ \A c \in Sockets : c = 0 \/ c > opened => sent[c] = <<>> /\ inbox[c] = <<>>
  /\ status[0] = "none"
  /\ step = "attempt" => socketfd # 0 /\ status[socketfd] = "new"
  /\ \A c \in Sockets : status[c] = "new" => inbox[c] = <<>> /\ reading.socket # c
  /\ reading.socket <= opened

Half ==
  /\ sent[socketfd] # <<>> /\ LastOf(sent[socketfd]).kind = "header" =>
       holder \in Threads /\ call[holder] \in {"payload", "close"}
  /\ \A t \in Threads : call[t] = "payload" =>
       \/ sent[socketfd] = <<>>
       \/ LastOf(sent[socketfd]).kind = "header" /\ LastOf(sent[socketfd]).msg = msg[t]

\* The messages on their way on a socket, and how they follow on the one received
\* last, when the web server has sent n.
Consecutive(s, c, last, n) ==
  /\ \A i \in 1 .. Len(s) : s[i].socket = c /\ s[i].n = s[1].n + i - 1 /\ s[i].n <= n
  /\ s # <<>> => last.n < s[1].n
  /\ s # <<>> /\ last.socket = c => s[1].n = last.n + 1

Numbered ==
  /\ Consecutive(inbox[socketfd], socketfd, reading, told)
  /\ reading.n <= told
  /\ status[socketfd] = "up" /\ inbox[socketfd] # <<>> => LastOf(inbox[socketfd]).n = told
  /\ status[socketfd] = "up" /\ inbox[socketfd] = <<>> /\ reading.socket = socketfd =>
       reading.n = told

SendInv == Mutex /\ Unused /\ Half /\ FramesWhole

Following == Unused /\ Numbered

IInv == TypeOK /\ SendInv /\ Following
-----------------------------------------------------------------------------
(* Lemmas about messages *)

LEMMA NonEmpty ==
  ASSUME NEW S, NEW s \in Seq(S), s # <<>>
  PROVE  Len(s) \in Nat /\ Len(s) # 0
<1>1. Len(s) \in Nat
  OBVIOUS
<1>2. Len(s) = 0 => s = <<>>
  OBVIOUS
<1> QED BY <1>1, <1>2

LEMMA LastAppend ==
  ASSUME NEW S, NEW s \in Seq(S), NEW f \in S
  PROVE  Append(s, f) # <<>> /\ LastOf(Append(s, f)) = f
<1> DEFINE t == Append(s, f)
<1>1. t \in Seq(S) /\ Len(t) = Len(s) + 1 /\ t[Len(s) + 1] = f /\ Len(s) \in Nat
  OBVIOUS
<1> HIDE DEF t
<1>2. t # <<>>
  BY <1>1
<1>3. LastOf(t) = f
  BY <1>1, Zenon DEF LastOf
<1> QED BY <1>2, <1>3 DEF t

\* A length below MAX_MSG_LENGTH fits into the two bytes of the header.
LEMMA HeaderLength ==
  ASSUME NEW size \in Nat, size <= MaxLength
  PROVE  size % MaxLength \in Nat /\ (size % MaxLength = size \/ size = MaxLength)
BY ConnectionOK, SMTT(30)

\* A header after a payload, or a payload after its header, leaves what is on the
\* socket whole.
LEMMA AppendWhole ==
  ASSUME NEW s \in Seq(Frames), Whole(s), NEW f \in Frames,
         f.kind = "header" =>
           /\ f.length = f.msg.size \/ f.msg.size = MaxLength
           /\ s = <<>> \/ LastOf(s).kind = "payload",
         f.kind = "payload" =>
           s = <<>> \/ (LastOf(s).kind = "header" /\ LastOf(s).msg = f.msg)
  PROVE  Whole(Append(s, f))
<1> DEFINE t == Append(s, f)
<1>1. /\ Len(s) \in Nat /\ Len(t) = Len(s) + 1
      /\ t[Len(s) + 1] = f /\ \A i \in 1 .. Len(s) : t[i] = s[i]
  OBVIOUS
<1>2. f.kind = "payload" => f = [kind |-> "payload", msg |-> f.msg]
  BY DEF Frames
<1>3. f.kind \in {"header", "payload"}
  BY DEF Frames
<1>4. \A i \in 1 .. Len(s) + 1 : (i \in 1 .. Len(s) /\ t[i] = s[i]) \/ (i = Len(s) + 1 /\ t[i] = f)
  BY <1>1
<1> HIDE DEF t
<1>5. ASSUME NEW i \in 1 .. Len(s) + 1, t[i].kind = "header", i < Len(s) + 1
      PROVE  t[i + 1] = [kind |-> "payload", msg |-> t[i].msg]
  <2>1. i \in 1 .. Len(s) /\ t[i] = s[i]
    BY <1>1, <1>5
  <2>2. CASE i < Len(s)
    <3>1. s[i + 1] = [kind |-> "payload", msg |-> s[i].msg]
      BY <1>5, <2>1, <2>2 DEF Whole
    <3>2. t[i + 1] = s[i + 1]
      BY <1>1, <2>1, <2>2
    <3> QED BY <2>1, <3>1, <3>2, Zenon
  <2>3. CASE i = Len(s)
    <3>1. t[i + 1] = f
      BY <1>1, <2>3
    <3>2. s # <<>> /\ LastOf(s) = s[i]
      BY <2>1, <2>3 DEF LastOf
    <3>3. f.kind = "payload" /\ f.msg = s[i].msg
      BY <1>3, <1>5, <2>1, <3>2
    <3> QED BY <1>2, <2>1, <3>1, <3>3, Zenon
  <2>4. i < Len(s) \/ i = Len(s)
    BY <1>1, <2>1
  <2> QED BY <2>2, <2>3, <2>4, Zenon
<1>6. ASSUME NEW i \in 1 .. Len(s) + 1, t[i].kind = "payload", i > 1
      PROVE  t[i - 1].kind = "header" /\ t[i - 1].msg = t[i].msg
  <2>1. i - 1 \in 1 .. Len(s) /\ t[i - 1] = s[i - 1]
    BY <1>1, <1>6
  <2>2. CASE i \in 1 .. Len(s) /\ t[i] = s[i]
    BY <1>6, <2>1, <2>2 DEF Whole
  <2>3. CASE i = Len(s) + 1 /\ t[i] = f
    <3>1. s # <<>> /\ LastOf(s) = s[i - 1]
      BY <1>1, <2>1, <2>3 DEF LastOf
    <3> QED BY <1>6, <2>1, <2>3, <3>1
  <2> QED BY <1>4, <2>2, <2>3
<1>7. ASSUME NEW i \in 1 .. Len(s) + 1, t[i].kind = "header"
      PROVE  t[i].length = t[i].msg.size \/ t[i].msg.size = MaxLength
  <2>1. CASE i \in 1 .. Len(s) /\ t[i] = s[i]
    BY <1>7, <2>1 DEF Whole
  <2>2. CASE i = Len(s) + 1 /\ t[i] = f
    BY <1>7, <2>2
  <2> QED BY <1>4, <2>1, <2>2
<1>8. Whole(t)
  BY <1>1, <1>5, <1>6, <1>7 DEF Whole
<1> QED BY <1>8 DEF t
-----------------------------------------------------------------------------
(* Type correctness *)

USE ConnectionOK DEF Threads, Sockets

LEMMA TypeInit == Init => TypeOK
<1> SUFFICES ASSUME Init PROVE TypeOK
  OBVIOUS
<1>1. reading \in Heard
  BY DEF Init, Heard
<1>2. <<>> \in Seq(Frames) /\ <<>> \in Seq(Heard)
  OBVIOUS
<1>3. /\ sent \in [Sockets -> Seq(Frames)] /\ inbox \in [Sockets -> Seq(Heard)]
      /\ made \in [Threads -> Nat]
  BY <1>2 DEF Init
<1>4. /\ call \in [Threads -> {"idle", "lock", "header", "payload", "close"}]
      /\ msg \in [Threads -> Messages \cup {<<>>}]
      /\ \A t \in Threads : call[t] = "idle"
  BY DEF Init
<1>5. /\ status \in [Sockets -> {"none", "new", "up", "closed", "reset", "failed"}]
      /\ socketfd \in 0 .. opened /\ opened \in Sockets
      /\ listening \in BOOLEAN /\ connectionActive \in BOOLEAN /\ alive \in BOOLEAN
      /\ holder \in Threads \cup {None}
      /\ step \in Steps /\ told \in Nat /\ failed \in Nat
  BY DEF Init, Steps
<1> QED BY <1>1, <1>3, <1>4, <1>5 DEF TypeOK

\* A sender's own steps.
LEMMA TypeSend ==
  ASSUME TypeOK, NEW t \in Threads, SendJson(t) \/ Lock(t) \/ SendHeader(t) \/ SendPayload(t),
         UNCHANGED <<listening, socketVars, recvVars, failed>>
  PROVE  TypeOK'
<1> USE DEF TypeOK, socketVars, recvVars
<1>1. CASE SendJson(t)
  <2>1. PICK s \in Sizes : msg' = [msg EXCEPT ![t] = [from |-> t, n |-> made[t] + 1, size |-> s]]
    BY <1>1 DEF SendJson
  <2>2. [from |-> t, n |-> made[t] + 1, size |-> s] \in Messages
    BY DEF Messages
  <2>3. /\ msg' \in [Threads -> Messages \cup {<<>>}]
        /\ \A u \in Threads : call'[u] # "idle" => msg'[u] \in Messages
    BY <1>1, <2>1, <2>2 DEF SendJson
  <2> QED BY <1>1, <2>3 DEF SendJson
<1>2. CASE Lock(t)
  <2>1. CASE Dropped(t)
    BY <1>2, <2>1 DEF Lock, Dropped
  <2>2. CASE Begun(t)
    BY <1>2, <2>2 DEF Lock, Begun
  <2> QED BY <1>2, <2>1, <2>2 DEF Lock
<1>3. \A frame \in Frames : Write(frame) => sent' \in [Sockets -> Seq(Frames)]
  <2> SUFFICES ASSUME NEW frame \in Frames, Write(frame) PROVE sent' \in [Sockets -> Seq(Frames)]
    OBVIOUS
  <2>1. socketfd \in Sockets /\ Append(sent[socketfd], frame) \in Seq(Frames)
    OBVIOUS
  <2> QED BY <2>1 DEF Write
<1>4. ASSUME call[t] # "idle", WriteFails(t) PROVE TypeOK'
  <2>1. /\ call' \in [Threads -> {"idle", "lock", "header", "payload", "close"}]
        /\ \A u \in Threads : call'[u] # "idle" => call[u] # "idle"
        /\ alive' \in BOOLEAN
    BY <1>4 DEF WriteFails
  <2> QED BY <1>4, <2>1 DEF WriteFails
<1>5. CASE SendHeader(t)
  <2> DEFINE frame == [kind |-> "header", msg |-> msg[t], length |-> msg[t].size % MaxLength]
  <2>1. frame \in Frames
    <3>1. msg[t] \in Messages /\ msg[t].size \in Nat
      BY <1>5 DEF SendHeader, Messages
    <3>2. msg[t].size % MaxLength \in Nat
      BY <3>1
    <3> QED BY <3>1, <3>2 DEF Frames
  <2>2. CASE WriteFails(t)
    BY <1>4, <1>5, <2>2 DEF SendHeader
  <2>3. CASE Write(frame) /\ call' = [call EXCEPT ![t] = "payload"] /\ UNCHANGED <<holder, msg>>
    <3>1. sent' \in [Sockets -> Seq(Frames)]
      BY <1>3, <2>1, <2>3
    <3> HIDE DEF frame
    <3>2. UNCHANGED <<made, alive>>
      BY <2>3 DEF Write
    <3>3. call' \in [Threads -> {"idle", "lock", "header", "payload", "close"}]
          /\ \A u \in Threads : call'[u] # "idle" => call[u] # "idle"
      BY <1>5, <2>3 DEF SendHeader
    <3> QED BY <2>3, <3>1, <3>2, <3>3
  <2> QED BY <1>5, <2>2, <2>3 DEF SendHeader
<1>6. CASE SendPayload(t)
  <2> DEFINE frame == [kind |-> "payload", msg |-> msg[t]]
  <2>1. frame \in Frames
    BY <1>6 DEF SendPayload, Frames
  <2>2. CASE WriteFails(t)
    BY <1>4, <1>6, <2>2 DEF SendPayload
  <2>3. CASE /\ Write(frame) /\ call' = [call EXCEPT ![t] = "idle"]
             /\ msg' = [msg EXCEPT ![t] = <<>>] /\ holder' = None
    <3>1. sent' \in [Sockets -> Seq(Frames)]
      BY <1>3, <2>1, <2>3
    <3> HIDE DEF frame
    <3>2. UNCHANGED <<made, alive>>
      BY <2>3 DEF Write
    <3>3. /\ call' \in [Threads -> {"idle", "lock", "header", "payload", "close"}]
          /\ msg' \in [Threads -> Messages \cup {<<>>}]
          /\ \A u \in Threads : call'[u] # "idle" => u # t /\ call[u] # "idle"
          /\ \A u \in Threads \ {t} : msg'[u] = msg[u]
      BY <2>3
    <3>4. \A u \in Threads : call'[u] # "idle" => msg'[u] \in Messages
      BY <3>3
    <3> QED BY <2>3, <3>1, <3>2, <3>3, <3>4
  <2> QED BY <1>6, <2>2, <2>3 DEF SendPayload
<1> QED BY <1>1, <1>2, <1>5, <1>6

\* The listener's own steps, and those of the web server.
LEMMA TypeListen ==
  ASSUME TypeOK, AsyncListen
  PROVE  TypeOK'
<1> USE DEF TypeOK, sendVars
<1>1. Failed => status' \in [Sockets -> {"none", "new", "up", "closed", "reset", "failed"}]
  BY DEF Failed
<1>2. socketfd \in Sockets
  OBVIOUS
<1>3. CASE OpenSocket
  <2>1. CASE opened < MaxSockets
    <3>1. opened + 1 \in Sockets /\ opened' = opened + 1 /\ socketfd' = opened + 1
      BY <1>3, <2>1 DEF OpenSocket
    <3>2. status' \in [Sockets -> {"none", "new", "up", "closed", "reset", "failed"}]
      BY <1>3, <2>1, <3>1 DEF OpenSocket
    <3> QED BY <1>3, <2>1, <3>1, <3>2 DEF OpenSocket, AsyncListen, Steps
  <2>2. CASE ~(opened < MaxSockets)
    BY <1>3, <2>2 DEF OpenSocket, AsyncListen, Steps
  <2> QED BY <2>1, <2>2
<1>4. CASE Connect
  <2>1. /\ status' \in [Sockets -> {"none", "new", "up", "closed", "reset", "failed"}]
        /\ connectionActive' \in BOOLEAN /\ listening' \in BOOLEAN
        /\ failed' \in Nat /\ step' \in Steps
    <3>1. CASE /\ status' = [status EXCEPT ![socketfd] = "up"]
               /\ connectionActive' = TRUE /\ listening' = TRUE
               /\ step' = "recv" /\ failed' = failed
      BY <1>2, <3>1 DEF Steps
    <3>2. CASE failed' = failed + 1 /\ UNCHANGED <<status, connectionActive, listening, step>>
      BY <3>2
    <3> QED BY <1>4, <3>1, <3>2 DEF Connect
  <2>2. UNCHANGED <<socketfd, opened, inbox, reading, told, sendVars, alive>>
    BY <1>4 DEF Connect, AsyncListen
  <2> QED BY <2>1, <2>2
<1>5. ASSUME Lost \/ Unparsable \/ Repeated,
             UNCHANGED <<listening, socketfd, opened, failed, told, sendVars, alive>>
      PROVE  TypeOK'
  BY <1>1, <1>5 DEF Lost, Unparsable, Repeated, Steps
<1>6. CASE RecvHeader
  BY <1>5, <1>6 DEF RecvHeader, AsyncListen, Steps
<1>7. CASE RecvPayload
  <2>1. CASE Received
    <3>1. inbox[socketfd] \in Seq(Heard) /\ inbox[socketfd] # <<>>
      BY <1>2, <2>1 DEF Received, Arrived
    <3>2. Head(inbox[socketfd]) \in Heard /\ Tail(inbox[socketfd]) \in Seq(Heard)
      BY <3>1
    <3>3. reading' \in Heard /\ inbox' \in [Sockets -> Seq(Heard)]
      BY <1>2, <2>1, <3>2 DEF Received
    <3> QED BY <1>7, <2>1, <3>3 DEF Received, RecvPayload, AsyncListen, Steps
  <2> QED BY <1>5, <1>7, <2>1 DEF RecvPayload, AsyncListen
<1>8. CASE Handle
  BY <1>8 DEF Handle, AsyncListen, socketVars, Steps
<1> QED BY <1>3, <1>4, <1>6, <1>7, <1>8 DEF AsyncListen

LEMMA TypeServer ==
  ASSUME TypeOK, Tell \/ Drop
  PROVE  TypeOK'
<1> USE DEF TypeOK, sendVars, socketVars
<1>1. socketfd \in Sockets /\ inbox[socketfd] \in Seq(Heard)
  OBVIOUS
<1>2. CASE Tell
  <2>1. PICK good \in BOOLEAN : inbox' = [inbox EXCEPT ![socketfd] =
          Append(inbox[socketfd], [socket |-> socketfd, n |-> told + 1, good |-> good])]
    BY <1>2 DEF Tell
  <2>2. [socket |-> socketfd, n |-> told + 1, good |-> good] \in Heard
    BY <1>1 DEF Heard
  <2>3. inbox' \in [Sockets -> Seq(Heard)]
    BY <1>1, <2>1, <2>2
  <2> QED BY <1>2, <2>3 DEF Tell
<1>3. CASE Drop
  <2>1. PICK k \in 0 .. Len(inbox[socketfd]) :
          inbox' = [inbox EXCEPT ![socketfd] = SubSeq(inbox[socketfd], 1, k)]
    BY <1>3 DEF Drop
  <2>2. SubSeq(inbox[socketfd], 1, k) \in Seq(Heard)
    BY <1>1
  <2>3. inbox' \in [Sockets -> Seq(Heard)]
    BY <1>1, <2>1, <2>2
  <2>4. status' \in [Sockets -> {"none", "new", "up", "closed", "reset", "failed"}]
    BY <1>1, <1>3 DEF Drop
  <2> QED BY <1>3, <2>3, <2>4 DEF Drop
<1> QED BY <1>2, <1>3

\* What a step is: of a sender, of the listener, of the server, or none.
LEMMA Cases ==
  ASSUME [Next]_vars
  PROVE  \/ \E t \in Threads :
              /\ SendJson(t) \/ Lock(t) \/ SendHeader(t) \/ SendPayload(t)
              /\ UNCHANGED <<listening, socketVars, recvVars, failed>>
         \/ AsyncListen
         \/ Tell \/ Drop
         \/ UNCHANGED vars
<1>1. CASE \E t \in Senders : Sender(t)
  BY <1>1 DEF Sender
<1>2. CASE \E t \in Threads : Send(t)
  BY <1>2 DEF Send
<1>3. CASE Answer
  BY <1>3 DEF Answer
<1> QED BY <1>1, <1>2, <1>3 DEF Next, System, Halted

LEMMA TypeStep == TypeOK /\ [Next]_vars => TypeOK'
<1> SUFFICES ASSUME TypeOK, [Next]_vars PROVE TypeOK'
  OBVIOUS
<1>1. CASE UNCHANGED vars
  BY <1>1 DEF vars, sendVars, socketVars, recvVars, TypeOK
<1> QED BY <1>1, Cases, TypeSend, TypeListen, TypeServer

\* TypeOK is an invariant of the specification.
THEOREM TypeCorrect == Spec => []TypeOK
<1>1. Init => TypeOK
  BY TypeInit
<1>2. TypeOK /\ [Next]_vars => TypeOK'
  BY TypeStep
<1> QED BY <1>1, <1>2, PTL DEF Spec
-----------------------------------------------------------------------------
(* What is sent is whole *)

LEMMA SendInvInit == Init => SendInv
<1> SUFFICES ASSUME Init PROVE SendInv
  OBVIOUS
<1>1. Whole(<<>>)
  BY DEF Whole
<1>2. Mutex /\ Unused
  BY DEF Init, Mutex, Unused
<1>3. Half /\ FramesWhole
  BY <1>1 DEF Init, Half, FramesWhole
<1> QED BY <1>2, <1>3 DEF SendInv

\* A step of the listener or of the web server leaves what was sent alone, and what
\* is sent next goes to a socket where nothing is yet, or to the same one.
LEMMA OtherSocket ==
  ASSUME TypeOK, SendInv, Unused', UNCHANGED sendVars,
         socketfd' = socketfd \/ sent[socketfd'] = <<>>
  PROVE  SendInv'
<1>1. Mutex' /\ FramesWhole'
  BY DEF SendInv, Mutex, FramesWhole, sendVars
<1>2. UNCHANGED <<holder, call, msg, sent>>
  BY DEF sendVars
<1>3. Half'
  <2>1. CASE socketfd' = socketfd
    BY <1>2, <2>1 DEF SendInv, Half
  <2>2. CASE sent[socketfd'] = <<>>
    BY <1>2, <2>2 DEF Half
  <2> QED BY <2>1, <2>2
<1> QED BY <1>1, <1>3 DEF SendInv

\* Only the holder of the mutex writes: first the header, when nothing on the socket
\* waits for its payload, then the payload.
LEMMA Writes ==
  ASSUME TypeOK, SendInv, NEW t \in Threads, NEW f \in Frames, Write(f),
         \/ call[t] = "header" /\ f = [kind |-> "header", msg |-> msg[t],
                                       length |-> msg[t].size % MaxLength]
         \/ call[t] = "payload" /\ f = [kind |-> "payload", msg |-> msg[t]]
  PROVE  /\ FramesWhole'
         /\ \A c \in Sockets \ {socketfd} : sent'[c] = sent[c]
         /\ sent'[socketfd] # <<>> /\ LastOf(sent'[socketfd]) = f
         /\ socketfd # 0
<1> DEFINE s == sent[socketfd]
<1>1. /\ s \in Seq(Frames) /\ socketfd \in Sockets /\ Whole(s)
      /\ msg[t] \in Messages /\ msg[t].size \in Nat
  <2>1. socketfd \in Sockets /\ msg[t] \in Messages
    BY DEF TypeOK
  <2>2. s \in Seq(Frames) /\ Whole(s)
    BY <2>1 DEF TypeOK, SendInv, FramesWhole
  <2>3. msg[t].size \in Nat
    BY <2>1 DEF Messages
  <2> QED BY <2>1, <2>2, <2>3
<1>2. sent' = [sent EXCEPT ![socketfd] = Append(s, f)] /\ sent \in [Sockets -> Seq(Frames)]
  BY DEF Write, TypeOK
<1>3. socketfd # 0
  BY DEF Write, SendInv, Unused
<1>4. s # <<>> => LastOf(s) \in Frames
  <2> SUFFICES ASSUME s # <<>> PROVE s[Len(s)] \in Frames
    BY DEF LastOf
  <2>1. Len(s) \in 1 .. Len(s)
    BY <1>1
  <2> QED BY <1>1, <2>1
<1>5. Append(s, f) # <<>> /\ LastOf(Append(s, f)) = f
  BY <1>1, LastAppend
<1>6. f.kind = "header" => /\ f.length = f.msg.size \/ f.msg.size = MaxLength
                           /\ s = <<>> \/ LastOf(s).kind = "payload"
  <2> SUFFICES ASSUME f.kind = "header"
               PROVE  /\ f.length = f.msg.size \/ f.msg.size = MaxLength
                      /\ s = <<>> \/ LastOf(s).kind = "payload"
    OBVIOUS
  <2>1. /\ call[t] = "header" /\ f.msg = msg[t] /\ f.length = msg[t].size % MaxLength
    OBVIOUS
  <2>2. f.length = f.msg.size \/ f.msg.size = MaxLength
    BY <1>1, <2>1, HeaderLength DEF SendInv, Mutex
  <2>3. holder = t
    BY <2>1 DEF SendInv, Mutex
  <2>4. s # <<>> => LastOf(s).kind # "header"
    BY <2>1, <2>3 DEF SendInv, Half
  <2> QED BY <1>4, <2>2, <2>4 DEF Frames
<1>7. f.kind = "payload" => s = <<>> \/ (LastOf(s).kind = "header" /\ LastOf(s).msg = f.msg)
  BY DEF SendInv, Half
<1>8. Whole(Append(s, f))
  BY <1>1, <1>6, <1>7, AppendWhole
<1>9. sent'[socketfd] = Append(s, f) /\ \A c \in Sockets \ {socketfd} : sent'[c] = sent[c]
  BY <1>1, <1>2
<1> HIDE DEF s
<1>10. FramesWhole'
  BY <1>8, <1>9 DEF FramesWhole, SendInv
<1> QED BY <1>3, <1>5, <1>9, <1>10

LEMMA UnusedSend ==
  ASSUME TypeOK, Unused, UNCHANGED <<socketVars, recvVars>>,
         \/ sent' = sent
         \/ socketfd # 0 /\ \A c \in Sockets \ {socketfd} : sent'[c] = sent[c]
  PROVE  Unused'
<1>1. socketfd \in 0 .. opened /\ opened \in Nat
  BY DEF TypeOK
<1>2. \A c \in Sockets : c = 0 \/ c > opened => sent'[c] = sent[c]
  BY <1>1
<1> QED BY <1>2 DEF Unused, socketVars, recvVars

LEMMA SendStep ==
  ASSUME TypeOK, SendInv, NEW t \in Threads,
         SendJson(t) \/ Lock(t) \/ SendHeader(t) \/ SendPayload(t),
         UNCHANGED <<listening, socketVars, recvVars, failed>>
  PROVE  SendInv'
<1>1. socketfd \in Sockets /\ socketfd' = socketfd /\ t # None
  BY DEF TypeOK, socketVars
<1>2. ASSUME sent' = sent PROVE FramesWhole' /\ Unused'
  BY <1>2, UnusedSend DEF SendInv, FramesWhole
<1>3. ASSUME call[t] \in {"header", "payload"}, WriteFails(t) PROVE SendInv'
  <2>1. /\ UNCHANGED <<holder, msg, sent>>
        /\ \A u \in Threads : call'[u] = call[u] \/ (u = t /\ call'[u] = "close")
    BY <1>3 DEF WriteFails, TypeOK
  <2>2. holder = t
    BY <1>3 DEF SendInv, Mutex
  <2>3. Mutex'
    BY <2>1, <2>2 DEF SendInv, Mutex
  <2>4. Half'
    BY <1>1, <2>1, <2>2 DEF SendInv, Half
  <2> QED BY <1>2, <2>1, <2>3, <2>4 DEF SendInv
<1>4. CASE SendJson(t)
  <2>1. /\ UNCHANGED <<holder, sent>> /\ call[t] = "idle" /\ call'[t] = "lock"
        /\ \A u \in Threads \ {t} : call'[u] = call[u] /\ msg'[u] = msg[u]
    BY <1>4 DEF SendJson, TypeOK
  <2>2. Mutex' /\ Half'
    BY <1>1, <2>1 DEF SendInv, Mutex, Half
  <2> QED BY <1>2, <2>1, <2>2 DEF SendInv
<1>5. CASE Lock(t)
  <2>1. \A u \in Threads : call[u] \notin {"header", "payload", "close"}
    BY <1>5 DEF Lock, SendInv, Mutex
  <2>2. sent' = sent /\ (sent[socketfd] # <<>> => LastOf(sent[socketfd]).kind # "header")
    BY <1>5 DEF Lock, SendInv, Half
  <2>3. CASE Dropped(t)
    <3>1. \A u \in Threads : call'[u] \notin {"header", "payload", "close"}
      BY <2>1, <2>3 DEF Dropped, TypeOK
    <3> QED BY <1>1, <1>2, <2>2, <3>1 DEF SendInv, Mutex, Half
  <2>4. CASE Begun(t)
    <3>1. /\ holder' = t /\ msg' = msg
          /\ \A u \in Threads \ {t} : call'[u] \notin {"header", "payload", "close"}
          /\ call'[t] = IF msg[t].size > MaxLength THEN "close" ELSE "header"
      BY <2>1, <2>4 DEF Begun, TypeOK
    <3>2. msg[t].size \in Nat
      BY <1>5 DEF Lock, TypeOK, Messages
    <3>3. call'[t] = "header" => msg[t].size <= MaxLength
      BY <3>1, <3>2
    <3>4. \A u \in Threads : call'[u] # "payload"
      BY <3>1
    <3> QED BY <1>1, <1>2, <2>2, <3>1, <3>3, <3>4 DEF SendInv, Mutex, Half
  <2> QED BY <1>5, <2>3, <2>4 DEF Lock
<1>6. CASE SendHeader(t)
  <2> DEFINE f == [kind |-> "header", msg |-> msg[t], length |-> msg[t].size % MaxLength]
  <2>1. CASE WriteFails(t)
    BY <1>3, <1>6, <2>1 DEF SendHeader
  <2>2. CASE Write(f) /\ call' = [call EXCEPT ![t] = "payload"] /\ UNCHANGED <<holder, msg>>
    <3>1. f \in Frames
      <4>1. msg[t] \in Messages /\ msg[t].size \in Nat
        BY <1>6 DEF SendHeader, TypeOK, Messages
      <4>2. msg[t].size % MaxLength \in Nat
        BY <4>1
      <4> QED BY <4>1, <4>2 DEF Frames
    <3>2. call[t] = "header" /\ f.kind = "header" /\ f.msg = msg[t]
      BY <1>6 DEF SendHeader
    <3>3. /\ FramesWhole' /\ \A c \in Sockets \ {socketfd} : sent'[c] = sent[c]
          /\ sent'[socketfd] # <<>> /\ LastOf(sent'[socketfd]) = f /\ socketfd # 0
      BY <2>2, <3>1, <3>2, Writes
    <3>4. /\ holder = t /\ call'[t] = "payload" /\ UNCHANGED <<holder, msg>>
          /\ \A u \in Threads \ {t} :
               call'[u] = call[u] /\ call'[u] \notin {"header", "payload", "close"}
      BY <2>2, <3>2 DEF SendInv, Mutex, TypeOK
    <3> HIDE DEF f
    <3>5. Mutex' /\ Half'
      BY <1>1, <3>2, <3>3, <3>4 DEF Mutex, Half
    <3>6. Unused'
      BY <3>3, UnusedSend DEF SendInv
    <3> QED BY <3>3, <3>5, <3>6 DEF SendInv
  <2> QED BY <1>6, <2>1, <2>2 DEF SendHeader
<1>7. CASE SendPayload(t)
  <2> DEFINE f == [kind |-> "payload", msg |-> msg[t]]
  <2>1. CASE WriteFails(t)
    BY <1>3, <1>7, <2>1 DEF SendPayload
  <2>2. CASE /\ Write(f) /\ call' = [call EXCEPT ![t] = "idle"]
             /\ msg' = [msg EXCEPT ![t] = <<>>] /\ holder' = None
    <3>1. f \in Frames
      BY <1>7 DEF SendPayload, TypeOK, Frames
    <3>2. call[t] = "payload" /\ f.kind = "payload"
      BY <1>7 DEF SendPayload
    <3>3. /\ FramesWhole' /\ \A c \in Sockets \ {socketfd} : sent'[c] = sent[c]
          /\ sent'[socketfd] # <<>> /\ LastOf(sent'[socketfd]) = f /\ socketfd # 0
      BY <2>2, <3>1, <3>2, Writes
    <3>4. \A u \in Threads : call'[u] \notin {"header", "payload", "close"}
      BY <2>2, <3>2 DEF SendInv, Mutex, TypeOK
    <3> HIDE DEF f
    <3>5. Mutex' /\ Half'
      BY <1>1, <3>2, <3>3, <3>4 DEF Mutex, Half
    <3>6. Unused'
      BY <3>3, UnusedSend DEF SendInv
    <3> QED BY <3>3, <3>5, <3>6 DEF SendInv
  <2> QED BY <1>7, <2>1, <2>2 DEF SendPayload
<1> QED BY <1>4, <1>5, <1>6, <1>7
-----------------------------------------------------------------------------
(* Messages follow on each other *)

LEMMA NumberOf ==
  ASSUME NEW s \in Seq(Heard)
  PROVE  \A i \in 1 .. Len(s) : s[i] \in Heard /\ s[i].n \in Nat
<1>1. \A i \in 1 .. Len(s) : s[i] \in Heard
  OBVIOUS
<1>2. \A h \in Heard : h.n \in Nat
  BY DEF Heard
<1> QED BY <1>1, <1>2

\* What holds after the first message is received.
LEMMA ConsecutiveTail ==
  ASSUME NEW s \in Seq(Heard), s # <<>>, NEW c, NEW last \in Heard, NEW n \in Nat,
         Consecutive(s, c, last, n)
  PROVE  /\ Consecutive(Tail(s), c, Head(s), n)
         /\ Head(s) \in Heard /\ Head(s).socket = c /\ last.n < Head(s).n /\ Head(s).n <= n
         /\ last.socket = c => Head(s).n = last.n + 1
         /\ Tail(s) # <<>> => LastOf(Tail(s)) = LastOf(s)
         /\ Tail(s) = <<>> => Head(s) = LastOf(s)
<1> DEFINE t == Tail(s)
<1>1. /\ t \in Seq(Heard) /\ Len(t) = Len(s) - 1 /\ Len(s) \in Nat \ {0}
      /\ \A i \in 1 .. Len(t) : t[i] = s[i + 1]
      /\ Head(s) = s[1] /\ 1 \in 1 .. Len(s)
      /\ t = <<>> => Len(s) = 1
  <2>1. Len(s) \in Nat \ {0} /\ Head(s) = s[1]
    <3> HIDE DEF t
    <3>1. Head(s) = s[1] /\ Len(s) \in Nat
      OBVIOUS
    <3>2. Len(s) # 0
      BY NonEmpty
    <3> QED BY <3>1, <3>2
  <2>2. /\ t \in Seq(Heard) /\ Len(t) = Len(s) - 1
        /\ \A i \in 1 .. Len(t) : t[i] = s[i + 1]
    BY <2>1
  <2> HIDE DEF t
  <2>3. t = <<>> => Len(t) = 0
    OBVIOUS
  <2> QED BY <2>1, <2>2, <2>3
<1>2. \A i \in 1 .. Len(s) : s[i] \in Heard /\ s[i].n \in Nat
  BY NumberOf
<1>3. t # <<>> => Len(t) \in 1 .. Len(t) /\ 1 \in 1 .. Len(t)
  BY <1>1
<1> HIDE DEF t
<1>4. \A i \in 1 .. Len(t) : i + 1 \in 1 .. Len(s)
  BY <1>1
<1>5. ASSUME NEW i \in 1 .. Len(t)
      PROVE  t[i].socket = c /\ t[i].n = s[1].n + i /\ t[i].n <= n
  <2>1. i + 1 \in 1 .. Len(s) /\ t[i] = s[i + 1] /\ i \in Nat
    BY <1>1, <1>4
  <2>2. s[i + 1].socket = c /\ s[i + 1].n = s[1].n + (i + 1) - 1 /\ s[i + 1].n <= n
    BY <2>1 DEF Consecutive
  <2> QED BY <1>1, <1>2, <2>1, <2>2
<1>6. t # <<>> => t[1].n = s[1].n + 1
  BY <1>3, <1>5
<1>7. \A i \in 1 .. Len(t) : t[i].n = t[1].n + i - 1
  BY <1>1, <1>2, <1>3, <1>5, <1>6
<1>8. Consecutive(t, c, Head(s), n)
  BY <1>1, <1>2, <1>5, <1>6, <1>7 DEF Consecutive
<1>9. t # <<>> => LastOf(t) = LastOf(s)
  BY <1>1, <1>3 DEF LastOf
<1>10. t = <<>> => Head(s) = LastOf(s)
  BY <1>1 DEF LastOf
<1>11. /\ Head(s) \in Heard /\ Head(s).socket = c /\ last.n < Head(s).n /\ Head(s).n <= n
       /\ last.socket = c => Head(s).n = last.n + 1
  BY <1>1, <1>2 DEF Consecutive
<1> QED BY <1>8, <1>9, <1>10, <1>11 DEF t

\* What holds after the web server sent another message.
LEMMA ConsecutiveAppend ==
  ASSUME NEW s \in Seq(Heard), NEW c, NEW last \in Heard, NEW n \in Nat, NEW f \in Heard,
         Consecutive(s, c, last, n), f.socket = c, f.n = n + 1, last.n <= n,
         s # <<>> => LastOf(s).n = n,
         s = <<>> /\ last.socket = c => last.n = n
  PROVE  Consecutive(Append(s, f), c, last, n + 1)
<1> DEFINE t == Append(s, f)
<1>1. /\ t \in Seq(Heard) /\ Len(t) = Len(s) + 1 /\ Len(s) \in Nat /\ t # <<>>
      /\ t[Len(s) + 1] = f /\ \A i \in 1 .. Len(s) : t[i] = s[i]
  BY LastAppend
<1>2. \A i \in 1 .. Len(s) : s[i].n \in Nat
  BY NumberOf
<1>3. last.n \in Nat
  BY DEF Heard
<1> HIDE DEF t
<1>4. CASE s = <<>>
  <2>1. Len(s) = 0 /\ t[1] = f
    BY <1>1, <1>4
  <2>2. \A i \in 1 .. Len(t) : i = 1
    BY <1>1, <2>1
  <2> QED BY <1>1, <1>3, <1>4, <2>1, <2>2 DEF Consecutive, t
<1>5. CASE s # <<>>
  <2>1. Len(s) \in 1 .. Len(s) /\ 1 \in 1 .. Len(s) /\ t[1] = s[1]
    BY <1>1, <1>5
  <2>2. s[Len(s)].n = n /\ s[Len(s)].n = s[1].n + Len(s) - 1
    BY <1>5, <2>1 DEF Consecutive, LastOf
  <2>3. \A i \in 1 .. Len(t) : (i \in 1 .. Len(s) /\ t[i] = s[i]) \/ (i = Len(s) + 1 /\ t[i] = f)
    BY <1>1
  <2>4. ASSUME NEW i \in 1 .. Len(t)
        PROVE  t[i].socket = c /\ t[i].n = t[1].n + i - 1 /\ t[i].n <= n + 1
    <3>1. CASE i \in 1 .. Len(s) /\ t[i] = s[i]
      BY <1>2, <2>1, <3>1 DEF Consecutive
    <3>2. CASE i = Len(s) + 1 /\ t[i] = f
      BY <1>1, <1>2, <2>1, <2>2, <3>2
    <3> QED BY <2>3, <3>1, <3>2
  <2> QED BY <1>1, <1>5, <2>1, <2>4 DEF Consecutive, t
<1> QED BY <1>4, <1>5

\* What holds after the last messages got lost.
LEMMA ConsecutivePrefix ==
  ASSUME NEW s \in Seq(Heard), NEW c, NEW last \in Heard, NEW n \in Nat,
         NEW k \in 0 .. Len(s), Consecutive(s, c, last, n)
  PROVE  Consecutive(SubSeq(s, 1, k), c, last, n)
<1> DEFINE t == SubSeq(s, 1, k)
<1>1. /\ t \in Seq(Heard) /\ Len(t) = k /\ k \in Nat /\ k <= Len(s) /\ Len(s) \in Nat
      /\ \A i \in 1 .. k : t[i] = s[i]
  OBVIOUS
<1>2. t # <<>> => s # <<>> /\ 1 \in 1 .. k
  BY <1>1
<1> HIDE DEF t
<1>3. \A i \in 1 .. k : i \in 1 .. Len(s) /\ 1 \in 1 .. k /\ t[1] = s[1]
  BY <1>1
<1>4. Consecutive(t, c, last, n)
  BY <1>1, <1>2, <1>3 DEF Consecutive
<1> QED BY <1>4 DEF t
-----------------------------------------------------------------------------
(* The listener and the web server *)

LEMMA FollowingInit == Init => Following
<1> SUFFICES ASSUME Init PROVE Following
  OBVIOUS
<1>1. Len(<<>>) = 0
  OBVIOUS
<1>2. Consecutive(<<>>, 0, reading, 0)
  BY <1>1 DEF Consecutive
<1> QED BY <1>2 DEF Init, Following, Unused, Numbered

LEMMA FollowingListen ==
  ASSUME TypeOK, Following, AsyncListen
  PROVE  /\ Following'
         /\ socketfd' = socketfd \/ sent[socketfd'] = <<>>
<1>1. /\ socketfd \in Sockets /\ socketfd \in 0 .. opened /\ opened \in Nat
      /\ inbox[socketfd] \in Seq(Heard) /\ reading \in Heard /\ told \in Nat
  <2>1. socketfd \in Sockets /\ socketfd \in 0 .. opened /\ opened \in Nat
    BY DEF TypeOK
  <2> QED BY <2>1 DEF TypeOK
<1>2. sent' = sent
  BY DEF AsyncListen, sendVars
<1>3. Consecutive(<<>>, socketfd', reading, told)
  <2>1. Len(<<>>) = 0
    OBVIOUS
  <2> QED BY <2>1 DEF Consecutive
<1>4. CASE OpenSocket
  <2>1. UNCHANGED <<sent, inbox, reading, told>>
    BY <1>2, <1>4 DEF OpenSocket
  <2>2. CASE opened < MaxSockets
    <3>1. /\ opened' = opened + 1 /\ socketfd' = opened + 1 /\ step' = "attempt"
          /\ opened + 1 \in Sockets /\ opened + 1 > opened
      BY <1>1, <1>4, <2>2 DEF OpenSocket
    <3>2. status'[opened + 1] = "new" /\ \A c \in Sockets \ {opened + 1} : status'[c] = status[c]
      BY <1>4, <2>2, <3>1 DEF OpenSocket, TypeOK
    <3>3. inbox[opened + 1] = <<>> /\ sent[opened + 1] = <<>>
      BY <3>1 DEF Following, Unused
    <3>4. reading.socket \in Nat /\ reading.socket <= opened
      BY <1>1 DEF Heard, Following, Unused
    <3>5. Unused'
      <4>1. \A c \in Sockets : c = 0 \/ c > opened + 1 => c = 0 \/ c > opened
        BY <1>1
      <4>2. \A c \in Sockets : status'[c] = "new" => inbox[c] = <<>> /\ reading.socket # c
        BY <1>1, <3>2, <3>3, <3>4 DEF Following, Unused
      <4>3. status'[0] = "none"
        BY <1>1, <3>1, <3>2 DEF Following, Unused
      <4>4. socketfd' # 0
        BY <1>1, <3>1
      <4> QED BY <1>1, <2>1, <3>1, <3>2, <3>4, <4>1, <4>2, <4>3, <4>4 DEF Following, Unused
    <3>6. Numbered'
      BY <1>3, <2>1, <3>1, <3>2, <3>3 DEF Following, Numbered
    <3> QED BY <3>1, <3>3, <3>5, <3>6 DEF Following
  <2>3. CASE ~(opened < MaxSockets)
    <3>1. UNCHANGED <<opened, status>> /\ socketfd' = 0 /\ step' = "recv"
      BY <1>4, <2>3 DEF OpenSocket
    <3>2. inbox[0] = <<>> /\ sent[0] = <<>> /\ status[0] = "none"
      BY <1>1 DEF Following, Unused
    <3>3. Unused'
      BY <2>1, <3>1 DEF Following, Unused
    <3>4. Numbered'
      BY <1>3, <2>1, <3>1, <3>2 DEF Following, Numbered
    <3> QED BY <3>1, <3>2, <3>3, <3>4 DEF Following
  <2> QED BY <2>2, <2>3
<1>5. CASE Connect
  <2>1. /\ UNCHANGED <<socketfd, opened, inbox, reading, told, sent>>
        /\ step = "attempt" /\ socketfd # 0 /\ status[socketfd] = "new"
        /\ inbox[socketfd] = <<>> /\ reading.socket # socketfd
    BY <1>1, <1>2, <1>5 DEF Connect, Following, Unused
  <2>2. CASE status' = [status EXCEPT ![socketfd] = "up"] /\ step' = "recv"
    <3>1. status'[socketfd] = "up" /\ \A c \in Sockets \ {socketfd} : status'[c] = status[c]
      BY <1>1, <2>2 DEF TypeOK
    <3>2. Unused'
      BY <1>1, <2>1, <2>2, <3>1 DEF Following, Unused
    <3>3. Numbered'
      BY <2>1, <3>1 DEF Following, Numbered
    <3> QED BY <2>1, <3>2, <3>3 DEF Following
  <2>3. CASE UNCHANGED <<status, step>>
    BY <2>1, <2>3 DEF Following, Unused, Numbered
  <2> QED BY <1>5, <2>2, <2>3 DEF Connect
<1>6. ASSUME UNCHANGED <<socketfd, opened, inbox, reading, told, sent>>, step' # "attempt",
             status' = status \/ Failed
      PROVE  Following' /\ socketfd' = socketfd
  <2>1. \A c \in Sockets : status'[c] = status[c] \/ (status[c] # "none" /\ status'[c] = "failed")
    BY <1>1, <1>6 DEF Failed, TypeOK
  <2>2. 0 \in Sockets
    BY <1>1
  <2> QED BY <1>1, <1>6, <2>1, <2>2 DEF Following, Unused, Numbered
<1>7. ASSUME Lost \/ Unparsable \/ Repeated, UNCHANGED <<socketfd, opened, told, sent>>
      PROVE  Following' /\ socketfd' = socketfd
  BY <1>6, <1>7 DEF Lost, Unparsable, Repeated
<1>8. CASE RecvHeader
  BY <1>2, <1>6, <1>7, <1>8 DEF RecvHeader
<1>9. CASE RecvPayload
  <2>1. CASE Received
    <3> DEFINE s == inbox[socketfd]
    <3>1. /\ Consecutive(Tail(s), socketfd, Head(s), told)
          /\ Head(s) \in Heard /\ Head(s).socket = socketfd /\ Head(s).n <= told
          /\ Tail(s) # <<>> => LastOf(Tail(s)) = LastOf(s)
          /\ Tail(s) = <<>> => Head(s) = LastOf(s)
      BY <1>1, <2>1, ConsecutiveTail DEF Received, Arrived, Following, Numbered
    <3>2. /\ UNCHANGED <<socketfd, opened, told, sent, status>> /\ step' = "handle"
          /\ reading' = Head(s) /\ inbox'[socketfd] = Tail(s) /\ s # <<>>
          /\ \A c \in Sockets \ {socketfd} : inbox'[c] = inbox[c]
      BY <1>1, <1>2, <1>9, <2>1 DEF RecvPayload, Received, Arrived, TypeOK
    <3> HIDE DEF s
    <3>3. Numbered'
      BY <3>1, <3>2 DEF Following, Numbered, s
    <3>4. socketfd # 0 /\ status[socketfd] # "new"
      BY <1>1, <3>2 DEF Following, Unused, s
    <3>5. \A c \in Sockets : c = 0 \/ c > opened => c # socketfd
      BY <1>1, <3>4
    <3>6. Unused'
      BY <1>1, <3>1, <3>2, <3>4, <3>5 DEF Following, Unused
    <3> QED BY <3>2, <3>3, <3>6 DEF Following
  <2> QED BY <1>2, <1>7, <1>9, <2>1 DEF RecvPayload
<1>10. CASE Handle
  BY <1>2, <1>6, <1>10 DEF Handle, socketVars
<1> QED BY <1>4, <1>5, <1>8, <1>9, <1>10 DEF AsyncListen

LEMMA FollowingServer ==
  ASSUME TypeOK, Following, Tell \/ Drop
  PROVE  Following' /\ socketfd' = socketfd
<1> DEFINE s == inbox[socketfd]
<1>1. /\ socketfd \in Sockets /\ s \in Seq(Heard) /\ reading \in Heard /\ told \in Nat
      /\ inbox \in [Sockets -> Seq(Heard)]
  <2>1. socketfd \in Sockets
    BY DEF TypeOK
  <2> QED BY <2>1 DEF TypeOK
<1>2. status[socketfd] = "up" /\ Consecutive(s, socketfd, reading, told)
  BY DEF Tell, Drop, Following, Numbered
<1>3. UNCHANGED <<socketfd, opened, sent, step, reading>>
  BY DEF Tell, Drop, sendVars, socketVars
<1>4. socketfd # 0
  BY <1>2 DEF Following, Unused
<1>5. \A c \in Sockets : c = 0 \/ c > opened => c # socketfd
  BY <1>1, <1>4 DEF TypeOK
<1>6. ASSUME NEW t, inbox' = [inbox EXCEPT ![socketfd] = t],
             status' = status \/ \E how \in {"closed", "reset"} :
                                    status' = [status EXCEPT ![socketfd] = how]
      PROVE  Unused' /\ inbox'[socketfd] = t
  <2>1. inbox'[socketfd] = t /\ \A c \in Sockets \ {socketfd} : inbox'[c] = inbox[c]
    BY <1>1, <1>6
  <2>2. status'[socketfd] # "new" /\ \A c \in Sockets \ {socketfd} : status'[c] = status[c]
    BY <1>1, <1>2, <1>6 DEF TypeOK
  <2>3. 0 \in Sockets /\ step # "attempt"
    BY <1>2 DEF Following, Unused
  <2> QED BY <1>1, <1>3, <1>4, <1>5, <2>1, <2>2, <2>3 DEF Following, Unused
<1>7. CASE Tell
  <2>1. PICK good \in BOOLEAN : inbox' = [inbox EXCEPT ![socketfd] =
          Append(s, [socket |-> socketfd, n |-> told + 1, good |-> good])]
    BY <1>7 DEF Tell
  <2> DEFINE f == [socket |-> socketfd, n |-> told + 1, good |-> good]
  <2>2. f \in Heard /\ f.socket = socketfd /\ f.n = told + 1
    BY <1>1 DEF Heard
  <2>3. told' = told + 1 /\ status' = status
    BY <1>7 DEF Tell, socketVars
  <2>4. Unused' /\ inbox'[socketfd] = Append(s, f)
    BY <1>6, <2>1, <2>3
  <2> HIDE DEF f, s
  <2>5. Append(s, f) # <<>> /\ LastOf(Append(s, f)) = f
    BY <1>1, <2>2, LastAppend
  <2>6. Consecutive(Append(s, f), socketfd, reading, told + 1)
    BY <1>1, <1>2, <2>2, ConsecutiveAppend DEF Following, Numbered, s
  <2>7. reading.n <= told + 1
    BY <1>1 DEF Following, Numbered, Heard
  <2>8. Numbered'
    BY <1>3, <2>2, <2>3, <2>4, <2>5, <2>6, <2>7 DEF Numbered
  <2> QED BY <1>3, <2>4, <2>8 DEF Following
<1>8. CASE Drop
  <2>1. PICK k \in 0 .. Len(s) : inbox' = [inbox EXCEPT ![socketfd] = SubSeq(s, 1, k)]
    BY <1>8 DEF Drop
  <2>2. told' = told /\ \E how \in {"closed", "reset"} :
                           status' = [status EXCEPT ![socketfd] = how]
    BY <1>8 DEF Drop
  <2>3. status'[socketfd] # "up"
    BY <1>1, <2>2 DEF TypeOK
  <2> HIDE DEF s
  <2>4. Unused' /\ inbox'[socketfd] = SubSeq(s, 1, k)
    BY <1>6, <2>1, <2>2
  <2>5. Consecutive(SubSeq(s, 1, k), socketfd, reading, told)
    BY <1>1, <1>2, ConsecutivePrefix
  <2>6. Numbered'
    BY <1>3, <2>2, <2>3, <2>4, <2>5 DEF Following, Numbered
  <2> QED BY <1>3, <2>4, <2>6 DEF Following
<1> QED BY <1>7, <1>8

\* A sender's steps leave alone what Numbered is about.
LEMMA FollowingSend ==
  ASSUME Following, Unused', UNCHANGED <<socketVars, recvVars>>
  PROVE  Following'
BY DEF Following, Numbered, socketVars, recvVars

LEMMA IInvStep == IInv /\ [Next]_vars => IInv'
<1> SUFFICES ASSUME IInv, [Next]_vars PROVE IInv'
  OBVIOUS
<1>1. TypeOK /\ SendInv /\ Following
  BY DEF IInv
<1>2. TypeOK'
  BY <1>1, TypeStep
<1>3. ASSUME NEW t \in Threads, SendJson(t) \/ Lock(t) \/ SendHeader(t) \/ SendPayload(t),
             UNCHANGED <<listening, socketVars, recvVars, failed>>
      PROVE  SendInv' /\ Following'
  <2>1. SendInv'
    BY <1>1, <1>3, SendStep
  <2> QED BY <1>1, <1>3, <2>1, FollowingSend DEF SendInv
<1>4. CASE AsyncListen
  <2>1. Following' /\ (socketfd' = socketfd \/ sent[socketfd'] = <<>>) /\ UNCHANGED sendVars
    BY <1>1, <1>4, FollowingListen DEF AsyncListen
  <2>2. SendInv'
    BY <1>1, <2>1, OtherSocket DEF Following
  <2> QED BY <1>2, <2>1, <2>2 DEF IInv
<1>5. CASE Tell \/ Drop
  <2>1. Following' /\ socketfd' = socketfd /\ UNCHANGED sendVars
    BY <1>1, <1>5, FollowingServer DEF Tell, Drop
  <2>2. SendInv'
    BY <1>1, <2>1, OtherSocket DEF Following
  <2> QED BY <1>2, <2>1, <2>2 DEF IInv
<1>6. CASE UNCHANGED vars
  BY <1>1, <1>2, <1>6 DEF IInv, vars, sendVars, socketVars, recvVars, SendInv, Following,
                               Mutex, Unused, Half, FramesWhole, Numbered
<1> QED BY <1>2, <1>3, <1>4, <1>5, <1>6, Cases DEF IInv

LEMMA Invariant == Spec => []IInv
<1>1. Init => IInv
  BY TypeInit, SendInvInit, FollowingInit DEF IInv
<1> QED BY <1>1, IInvStep, PTL DEF Spec

\* FramesWhole is an invariant of the specification: what Send writes under the mutex
\* reaches each socket as whole messages, however the listener replaces the socket.
THEOREM FramesWholeCorrect == Spec => []FramesWhole
<1>1. IInv => FramesWhole
  BY DEF IInv, SendInv
<1> QED BY <1>1, Invariant, PTL

\* Only the second recv, or a first recv that fails, makes the listener handle a message.
LEMMA OrderStep ==
  ASSUME IInv, [Next]_vars, step # "handle", step' = "handle"
  PROVE  \/ /\ reading.n < reading'.n
            /\ reading.socket = reading'.socket => reading'.n = reading.n + 1
         \/ reading' = reading /\ status'[socketfd] \in {"none", "failed"}
<1>1. socketfd \in Sockets
  BY DEF IInv, TypeOK
<1>2. AsyncListen
  BY Cases DEF vars, recvVars, Tell, Drop
<1>3. RecvHeader \/ RecvPayload
  BY <1>2 DEF AsyncListen, OpenSocket, Connect, Handle
<1>4. ASSUME Repeated, status[socketfd] \in {"none", "reset"}
      PROVE  reading' = reading /\ status'[socketfd] \in {"none", "failed"}
  BY <1>1, <1>4 DEF Repeated, Failed, IInv, TypeOK
<1>5. CASE RecvHeader
  BY <1>4, <1>5 DEF RecvHeader, Lost, Unparsable
<1>6. CASE RecvPayload
  <2>1. CASE Received
    <3>1. /\ inbox[socketfd] \in Seq(Heard) /\ inbox[socketfd] # <<>>
          /\ reading \in Heard /\ told \in Nat /\ reading' = Head(inbox[socketfd])
      BY <1>1, <2>1 DEF IInv, TypeOK, Received, Arrived
    <3>2. Consecutive(inbox[socketfd], socketfd, reading, told)
      BY DEF IInv, Following, Numbered
    <3> QED BY <3>1, <3>2, ConsecutiveTail
  <2> QED BY <1>4, <1>6, <2>1 DEF RecvPayload, Lost, Unparsable
<1> QED BY <1>3, <1>5, <1>6

\* HandledInOrder holds of every step: messages are handled once each and in order,
\* however many connections end in between and whatever throws.
THEOREM HandledInOrderCorrect == Spec => HandledInOrder
<1>1. IInv /\ [Next]_vars =>
        [step # "handle" /\ step' = "handle" =>
           \/ /\ reading.n < reading'.n
              /\ reading.socket = reading'.socket => reading'.n = reading.n + 1
           \/ reading' = reading /\ status'[socketfd] \in {"none", "failed"}]_vars
  BY OrderStep
<1> QED BY <1>1, Invariant, PTL DEF Spec, HandledInOrder
=============================================================================
