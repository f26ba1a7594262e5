-------------------------- MODULE StateEventsProofs --------------------------
(***************************************************************************)
(* Proofs about StateEvents: types, that no value set is lost on its way   *)
(* to the web server, and that every edge is answered once.                *)
(***************************************************************************)
EXTENDS StateEvents, FiniteSetTheorems, TLAPS

USE StateEventsOK DEF StateEventsOK, Absent, Setters, Filter

-----------------------------------------------------------------------------
(* Types.                                                                  *)

\* A stack of calls of well-formed frames, none past the end of its events.
Stack == {c \in Seq(Frame) : \A k \in DOMAIN c : c[k].next <= Len(Events[c[k].state]) + 1}

\* The innermost call and the event it looks at are well formed.
LEMMA TopType ==
  ASSUME TypeOK, NEW t \in Setters, calls[t] # <<>>
  PROVE  /\ calls[t] \in Seq(Frame) /\ Len(calls[t]) \in Nat \ {0}
         /\ Len(calls[t]) \in DOMAIN calls[t]
         /\ Top(t) \in Frame
         /\ Top(t).next <= Len(Events[Top(t).state]) + 1
<1>1. calls[t] \in Seq(Frame)
  BY DEF TypeOK
<1>2. Len(calls[t]) \in Nat \ {0} /\ Len(calls[t]) \in DOMAIN calls[t]
  BY <1>1
<1>3. Top(t) \in Frame
  BY <1>1, <1>2 DEF Top
<1>4. Top(t).next <= Len(Events[Top(t).state]) + 1
  BY <1>2 DEF TypeOK, Top
<1>5. QED
  BY <1>1, <1>2, <1>3, <1>4

LEMMA CurrentType ==
  ASSUME TypeOK, NEW t \in Setters, Ready(t)
  PROVE  /\ Top(t).state \in States /\ Top(t).next \in DOMAIN Events[Top(t).state]
         /\ Current(t) \in Event
         /\ Current(t).kind = "state" <=> Current(t).target \in States
<1>1. Top(t) \in Frame
  BY TopType DEF Ready
<1>2. Top(t).state \in States /\ Top(t).next \in Nat \ {0}
  BY <1>1 DEF Frame
<1>3. Events[Top(t).state] \in Seq(Event)
  BY <1>2
<1>4. Top(t).next \in DOMAIN Events[Top(t).state]
  BY <1>2, <1>3 DEF Ready
<1>5. Current(t) \in Event
  BY <1>3, <1>4 DEF Current
<1>6. QED
  BY <1>2, <1>4, <1>5 DEF Current

LEMMA ArgumentType ==
  ASSUME TypeOK, NEW t \in Setters, Ready(t), Foreign(t) => Top(t).arg # Absent
  PROVE  Argument(t) \in Values
<1>1. Top(t) \in Frame /\ Current(t) \in Event
  BY TopType, CurrentType DEF Ready
<1>2. /\ Top(t).new \in Values /\ Top(t).arg \in Values \cup {Absent}
      /\ Current(t).param \in Values \cup States
  BY <1>1 DEF Frame, Event
<1>3. QED
  BY <1>2 DEF Argument, Foreign

\* The stacks the code makes of a stack.
LEMMA PoppedType ==
  ASSUME TypeOK, NEW t \in Setters, calls[t] # <<>>
  PROVE  Popped(t) \in Stack
<1>1. calls[t] \in Seq(Frame) /\ Len(calls[t]) \in Nat \ {0}
  BY TopType
<1>2. /\ Popped(t) \in Seq(Frame) /\ DOMAIN Popped(t) = 1 .. Len(calls[t]) - 1
      /\ \A k \in 1 .. Len(calls[t]) - 1 : Popped(t)[k] = calls[t][k]
  BY <1>1 DEF Popped
<1>3. \A k \in 1 .. Len(calls[t]) - 1 : k \in DOMAIN calls[t]
  BY <1>1
<1>4. QED
  BY <1>2, <1>3 DEF TypeOK, Stack

LEMMA FrameMoved ==
  ASSUME NEW f \in Frame
  PROVE  /\ Moved(f) \in Frame
         /\ Moved(f).state = f.state /\ Moved(f).old = f.old /\ Moved(f).new = f.new
         /\ Moved(f).next = f.next + 1
<1> DEFINE g == [f EXCEPT !.next = @ + 1]
<1>a. f.next + 1 \in Nat \ {0} /\ f.arg \in Values \cup {Absent}
  BY DEF Frame
<1>b. g.state = f.state /\ g.old = f.old /\ g.new = f.new /\ g.next = f.next + 1
  BY DEF Frame
<1>1. g \in Frame
  BY <1>a DEF Frame
<1> HIDE DEF g
<1>2. [g EXCEPT !.arg = Absent] \in Frame
  BY <1>1 DEF Frame
<1>3. /\ [g EXCEPT !.arg = Absent].state = g.state /\ [g EXCEPT !.arg = Absent].old = g.old
      /\ [g EXCEPT !.arg = Absent].new = g.new /\ [g EXCEPT !.arg = Absent].next = g.next
  BY <1>1 DEF Frame
<1>4. Moved(f) = [g EXCEPT !.arg = Absent]
  BY DEF Moved, g
<1>5. QED
  BY <1>b, <1>2, <1>3, <1>4

LEMMA FrameRead ==
  ASSUME NEW f \in Frame, NEW v \in Values
  PROVE  /\ [f EXCEPT !.arg = v] \in Frame
         /\ [f EXCEPT !.arg = v].state = f.state /\ [f EXCEPT !.arg = v].old = f.old
         /\ [f EXCEPT !.arg = v].new = f.new /\ [f EXCEPT !.arg = v].next = f.next
  BY DEF Frame

\* A stack whose innermost call is replaced.
LEMMA ReplacedType ==
  ASSUME TypeOK, NEW t \in Setters, calls[t] # <<>>, NEW f \in Frame,
         f.next <= Len(Events[f.state]) + 1
  PROVE  /\ [calls[t] EXCEPT ![Len(calls[t])] = f] \in Stack
         /\ Len([calls[t] EXCEPT ![Len(calls[t])] = f]) = Len(calls[t])
<1> DEFINE n == Len(calls[t])
           c == [calls[t] EXCEPT ![n] = f]
<1>1. calls[t] \in Seq(Frame) /\ n \in Nat \ {0} /\ n \in DOMAIN calls[t]
  BY TopType
<1>2. c \in Seq(Frame) /\ DOMAIN c = DOMAIN calls[t] /\ Len(c) = n
  BY <1>1
<1>3. \A k \in DOMAIN calls[t] : c[k] = IF k = n THEN f ELSE calls[t][k]
  BY <1>1
<1>4. QED
  BY <1>2, <1>3 DEF TypeOK, Stack

LEMMA AdvancedType ==
  ASSUME TypeOK, NEW t \in Setters, Ready(t)
  PROVE  Advanced(t) \in Stack /\ Len(Advanced(t)) = Len(calls[t])
<1>1. Moved(Top(t)) \in Frame /\ Moved(Top(t)).next <= Len(Events[Moved(Top(t)).state]) + 1
  BY TopType, CurrentType, FrameMoved DEF Ready
<1>2. QED
  BY <1>1, ReplacedType DEF Advanced, Ready

LEMMA ReadType ==
  ASSUME TypeOK, NEW t \in Setters, Ready(t), NEW v \in Values
  PROVE  Read(t, v) \in Stack /\ Len(Read(t, v)) = Len(calls[t])
<1> DEFINE f == [Top(t) EXCEPT !.arg = v]
<1>1. f \in Frame /\ f.next <= Len(Events[f.state]) + 1
  BY TopType, FrameRead DEF Ready
<1>2. QED
  BY <1>1, ReplacedType DEF Read, Ready

LEMMA AppendType ==
  ASSUME NEW c \in Stack, NEW f \in Frame, f.next = 1
  PROVE  Append(c, f) \in Stack
<1>1. Append(c, f) \in Seq(Frame) /\ DOMAIN Append(c, f) = 1 .. Len(c) + 1
  BY DEF Stack
<1>2. \A k \in 1 .. Len(c) + 1 : Append(c, f)[k] = IF k = Len(c) + 1 THEN f ELSE c[k]
  BY DEF Stack
<1>3. \A k \in 1 .. Len(c) : k \in DOMAIN c
  BY DEF Stack
<1>4. Events[f.state] \in Seq(Event) /\ f.next <= Len(Events[f.state]) + 1
  BY DEF Frame
<1>5. \A k \in DOMAIN c : c[k].next <= Len(Events[c[k].state]) + 1
  BY DEF Stack
<1>6. \A k \in 1 .. Len(c) + 1 :
        Append(c, f)[k].next <= Len(Events[Append(c, f)[k].state]) + 1
  BY <1>2, <1>3, <1>4, <1>5
<1>7. QED
  BY <1>1, <1>6 DEF Stack

\* Setting a stack of one thread, and a value, keeps the types.
LEMMA CallsType ==
  ASSUME TypeOK, NEW t \in Setters, NEW c \in Stack, calls' = [calls EXCEPT ![t] = c]
  PROVE  /\ calls' \in [Setters -> Seq(Frame)]
         /\ \A u \in Setters : \A k \in DOMAIN calls'[u] :
              calls'[u][k].next <= Len(Events[calls'[u][k].state]) + 1
<1>1. calls \in [Setters -> Seq(Frame)]
  BY DEF TypeOK
<1>2. c \in Seq(Frame)
  BY DEF Stack
<1>3. calls' \in [Setters -> Seq(Frame)]
  BY <1>1, <1>2
<1>4. \A u \in Setters : calls'[u] = IF u = t THEN c ELSE calls[u]
  BY <1>1
<1>5. QED
  BY <1>3, <1>4 DEF TypeOK, Stack

LEMMA AnsweredType ==
  ASSUME TypeOK, NEW f \in Frame, NEW answers
  PROVE  /\ Answered(f, answers) = [s \in States |-> Answered(f, answers)[s]]
         /\ \A s \in States : Answered(f, answers)[s] \in [DOMAIN Events[s] -> Int]
<1>1. f.state \in States
  BY DEF Frame
<1>2. owed = [s \in States |-> owed[s]] /\ \A s \in States : owed[s] \in [DOMAIN Events[s] -> Int]
  BY DEF TypeOK
<1>3. [i \in DOMAIN owed[f.state] |-> owed[f.state][i] - IF i \in answers THEN 1 ELSE 0]
        \in [DOMAIN Events[f.state] -> Int]
  BY <1>1, <1>2
<1>4. QED
  BY <1>1, <1>2, <1>3 DEF Answered

LEMMA StoreType ==
  ASSUME TypeOK, NEW before, NEW s \in States, NEW v \in Values, Store(before, s, v),
         before = [r \in States |-> before[r]],
         \A r \in States : before[r] \in [DOMAIN Events[r] -> Int]
  PROVE  /\ value' \in [States -> Values \cup {Absent}]
         /\ dirty' \subseteq given' /\ given' \subseteq {r \in States : value'[r] # Absent}
         /\ owed' = [r \in States |-> owed'[r]]
         /\ \A r \in States : owed'[r] \in [DOMAIN Events[r] -> Int]
<1>1. /\ value' \in [States -> Values \cup {Absent}] /\ dirty' \subseteq given'
      /\ given' \subseteq {r \in States : value'[r] # Absent}
  BY DEF TypeOK, Store
<1>2. [i \in DOMAIN Events[s] |->
         before[s][i] + IF Edge(Events[s][i], value[s], v) THEN 1 ELSE 0]
        \in [DOMAIN Events[s] -> Int]
  OBVIOUS
<1>3. QED
  BY <1>1, <1>2 DEF Store, Owing

LEMMA PushedType ==
  ASSUME TypeOK, NEW s \in States, NEW v \in Values
  PROVE  Pushed(s, v) \in Frame /\ Pushed(s, v).next = 1
  BY DEF TypeOK, Pushed, Frame

LEMMA SetStateType ==
  ASSUME TypeOK, NEW t \in Setters, NEW s \in States, NEW v \in Values, SetState(t, s, v)
  PROVE  /\ value' \in [States -> Values \cup {Absent}]
         /\ dirty' \subseteq given' /\ given' \subseteq {r \in States : value'[r] # Absent}
         /\ owed' = [r \in States |-> owed'[r]]
         /\ \A r \in States : owed'[r] \in [DOMAIN Events[r] -> Int]
         /\ calls' \in [Setters -> Seq(Frame)]
         /\ \A u \in Setters : \A k \in DOMAIN calls'[u] :
              calls'[u][k].next <= Len(Events[calls'[u][k].state]) + 1
<1>1. Store(owed, s, v)
  BY DEF SetState
<1>2. Pushed(s, v) \in Frame /\ Pushed(s, v).next = 1
  BY PushedType
<1>3. << >> \in Stack
  BY DEF Stack
<1>4. Append(<< >>, Pushed(s, v)) \in Stack
  BY <1>2, <1>3, AppendType
<1>5. Append(<< >>, Pushed(s, v)) = <<Pushed(s, v)>>
  OBVIOUS
<1>6. <<Pushed(s, v)>> \in Stack
  BY <1>4, <1>5
<1>7. calls' = [calls EXCEPT ![t] = <<Pushed(s, v)>>]
  BY DEF SetState
<1>8. QED
  BY <1>1, <1>6, <1>7, StoreType, CallsType DEF TypeOK

\* What a step of OnStateChange has to keep.
LEMMA QuietType ==
  ASSUME TypeOK, UNCHANGED Quiet,
         value' \in [States -> Values \cup {Absent}],
         dirty' \subseteq given', given' \subseteq {r \in States : value'[r] # Absent},
         actuator' \in [Commands -> Values \cup {Absent}],
         owed' = [r \in States |-> owed'[r]],
         \A r \in States : owed'[r] \in [DOMAIN Events[r] -> Int],
         NEW t \in Setters, NEW c \in Stack, calls' = [calls EXCEPT ![t] = c]
  PROVE  TypeOK'
<1>1. /\ calls' \in [Setters -> Seq(Frame)]
      /\ \A u \in Setters : \A k \in DOMAIN calls'[u] :
           calls'[u][k].next <= Len(Events[calls'[u][k].state]) + 1
  BY CallsType
<1>2. QED
  BY <1>1 DEF TypeOK, Quiet

LEMMA OnStateChangeType ==
  ASSUME TypeOK, NEW t \in Setters, OnStateChange(t)
  PROVE  TypeOK'
<1>1. CASE SkipEvent(t)
  <2>0. UNCHANGED Quiet /\ UNCHANGED <<value, dirty, given, actuator, owed>>
    BY <1>1 DEF SkipEvent
  <2>1. Advanced(t) \in Stack
    BY <1>1, AdvancedType DEF SkipEvent
  <2>2. calls' = [calls EXCEPT ![t] = Advanced(t)]
    BY <1>1 DEF SkipEvent
  <2>3. QED
    BY <2>0, <2>1, <2>2, QuietType DEF TypeOK
<1>2. CASE GetArgument(t)
  <2> DEFINE s == Current(t).param
             v == IF value[s] = Absent THEN 0 ELSE value[s]
  <2>1. s \in States /\ v \in Values
    BY <1>2 DEF GetArgument, Foreign, TypeOK
  <2>2. Read(t, v) \in Stack
    BY <1>2, <2>1, ReadType DEF GetArgument
  <2>3. calls' = [calls EXCEPT ![t] = Read(t, v)] /\ value' = [value EXCEPT ![s] = v]
    BY <1>2 DEF GetArgument
  <2>4. value' \in [States -> Values \cup {Absent}]
        /\ given \subseteq {r \in States : value'[r] # Absent}
    BY <2>1, <2>3 DEF TypeOK
  <2>5. UNCHANGED Quiet /\ UNCHANGED <<dirty, given, actuator, owed>>
    BY <1>2 DEF GetArgument
  <2> HIDE DEF s, v
  <2>6. QED
    BY <2>2, <2>3, <2>4, <2>5, QuietType DEF TypeOK
<1>3. CASE StateEvent(t)
  <2> DEFINE s == Current(t).target
             v == Argument(t)
             before == Answered(Top(t), {Top(t).next})
  <2>1. Ready(t) /\ s \in States /\ v \in Values
    BY <1>3, CurrentType, ArgumentType DEF StateEvent, Executes
  <2>2. Top(t) \in Frame
    BY <2>1, TopType DEF Ready
  <2>3. Store(before, s, v)
    BY <1>3 DEF StateEvent
  <2>4. Append(Advanced(t), Pushed(s, v)) \in Stack
    BY <2>1, AdvancedType, PushedType, AppendType
  <2>5. calls' = [calls EXCEPT ![t] = Append(Advanced(t), Pushed(s, v))]
    BY <1>3 DEF StateEvent
  <2>6. before = [r \in States |-> before[r]]
        /\ \A r \in States : before[r] \in [DOMAIN Events[r] -> Int]
    BY <2>2, AnsweredType
  <2>7. UNCHANGED Quiet /\ UNCHANGED actuator
    BY <1>3 DEF StateEvent
  <2> HIDE DEF s, v, before
  <2>8. /\ value' \in [States -> Values \cup {Absent}]
        /\ dirty' \subseteq given' /\ given' \subseteq {r \in States : value'[r] # Absent}
        /\ owed' = [r \in States |-> owed'[r]]
        /\ \A r \in States : owed'[r] \in [DOMAIN Events[r] -> Int]
    BY <2>1, <2>3, <2>6, StoreType
  <2>9. actuator' \in [Commands -> Values \cup {Absent}]
    BY <2>7 DEF TypeOK
  <2> DEFINE c == Append(Advanced(t), Pushed(s, v))
  <2>10. c \in Stack /\ calls' = [calls EXCEPT ![t] = c]
    BY <2>4, <2>5
  <2> HIDE DEF c
  <2>11. QED
    BY <2>7, <2>8, <2>9, <2>10, QuietType
<1>4. CASE CommandEvent(t)
  <2>1. Ready(t) /\ Argument(t) \in Values
    BY <1>4, ArgumentType DEF CommandEvent, Executes
  <2>2. Top(t) \in Frame /\ Advanced(t) \in Stack
    BY <2>1, TopType, AdvancedType DEF Ready
  <2>3. calls' = [calls EXCEPT ![t] = Advanced(t)]
        /\ owed' = Answered(Top(t), {Top(t).next})
    BY <1>4 DEF CommandEvent
  <2>4. actuator' \in [Commands -> Values \cup {Absent}]
    BY <1>4, <2>1 DEF CommandEvent, TypeOK
  <2>5. owed' = [r \in States |-> owed'[r]]
        /\ \A r \in States : owed'[r] \in [DOMAIN Events[r] -> Int]
    <3> DEFINE before == Answered(Top(t), {Top(t).next})
    <3>1. before = [r \in States |-> before[r]]
          /\ \A r \in States : before[r] \in [DOMAIN Events[r] -> Int]
      BY <2>2, AnsweredType
    <3>2. owed' = before
      BY <2>3
    <3> HIDE DEF before
    <3>3. QED
      BY <3>1, <3>2
  <2>6. UNCHANGED Quiet /\ UNCHANGED <<value, dirty, given>>
    BY <1>4 DEF CommandEvent
  <2>7. QED
    BY <2>2, <2>3, <2>4, <2>5, <2>6, QuietType DEF TypeOK
<1>5. CASE CommandThrows(t)
  <2>1. Ready(t)
    BY <1>5 DEF CommandThrows, Executes
  <2>2. Top(t) \in Frame /\ Popped(t) \in Stack
    BY <2>1, TopType, PoppedType DEF Ready
  <2>3. calls' = [calls EXCEPT ![t] = Popped(t)]
        /\ owed' = Answered(Top(t), Due(Top(t), Top(t).next))
    BY <1>5 DEF CommandThrows
  <2>4. owed' = [r \in States |-> owed'[r]]
        /\ \A r \in States : owed'[r] \in [DOMAIN Events[r] -> Int]
    <3> DEFINE before == Answered(Top(t), Due(Top(t), Top(t).next))
    <3>1. before = [r \in States |-> before[r]]
          /\ \A r \in States : before[r] \in [DOMAIN Events[r] -> Int]
      BY <2>2, AnsweredType
    <3>2. owed' = before
      BY <2>3
    <3> HIDE DEF before
    <3>3. QED
      BY <3>1, <3>2
  <2>5. UNCHANGED Quiet /\ UNCHANGED <<value, dirty, given, actuator>>
    BY <1>5 DEF CommandThrows
  <2>6. QED
    BY <2>2, <2>3, <2>4, <2>5, QuietType DEF TypeOK
<1>6. CASE Return(t)
  <2>1. Popped(t) \in Stack /\ calls' = [calls EXCEPT ![t] = Popped(t)]
    BY <1>6, PoppedType DEF Return
  <2>2. UNCHANGED Quiet /\ UNCHANGED <<value, dirty, given, actuator, owed>>
    BY <1>6 DEF Return
  <2>3. QED
    BY <2>1, <2>2, QuietType DEF TypeOK
<1>7. QED
  BY <1>1, <1>2, <1>3, <1>4, <1>5, <1>6 DEF OnStateChange

LEMMA UpdateType ==
  ASSUME NEW shown \in [States -> Values \cup {Absent}], NEW states,
         states \in [DOMAIN states -> Values]
  PROVE  Update(shown, states) \in [States -> Values \cup {Absent}]
  BY DEF Update

LEMMA TypeStep == TypeOK /\ [Next]_vars => TypeOK'
<1> SUFFICES ASSUME TypeOK, [Next]_vars PROVE TypeOK'
  OBVIOUS
<1>1. ASSUME NEW t \in Threads, NEW w \in Writes[t], Set(t, w[1], w[2])
      PROVE TypeOK'
  <2>1. w[1] \in States /\ w[2] \in Values /\ t \in Setters
    OBVIOUS
  <2>2. inputs' \in 0 .. MaxInputs
    BY <1>1 DEF Set, Input, TypeOK
  <2>3. QED
    BY <1>1, <2>1, <2>2, SetStateType DEF Set, TypeOK
<1>2. ASSUME NEW s \in Sensors, NEW v \in Values, SensorData(s, v)
      PROVE TypeOK'
  <2>1. inputs' \in 0 .. MaxInputs /\ readings' \in [Sensors -> Values]
    BY <1>2 DEF SensorData, Input, TypeOK
  <2>2. QED
    BY <1>2, <2>1 DEF SensorData, TypeOK
<1>3. ASSUME NEW t \in Setters, OnStateChange(t) PROVE TypeOK'
  BY <1>3, OnStateChangeType
<1>4. CASE FilterPass
  BY <1>4 DEF FilterPass, TypeOK
<1>5. ASSUME NEW s \in Sensors, FilterCheck(s) PROVE TypeOK'
  BY <1>5 DEF FilterCheck, Without, TypeOK
<1>6. ASSUME NEW s \in Sensors, FilterSet(s) PROVE TypeOK'
  <2>1. s \in States /\ raw[s] \in Values /\ Filter \in Setters
    BY <1>6 DEF FilterSet, TypeOK
  <2>2. DOMAIN raw' \subseteq Sensors /\ raw' \in [DOMAIN raw' -> Values]
        /\ differs' \subseteq DOMAIN raw'
    BY <1>6 DEF FilterSet, Without, TypeOK
  <2>3. SetState(Filter, s, raw[s])
    BY <1>6 DEF FilterSet
  <2>4. QED
    BY <1>6, <2>1, <2>2, <2>3, SetStateType DEF FilterSet, TypeOK
<1>7. CASE TransmitLoop
  <2>1. CASE TakeDirty
    <3>1. \A s \in dirty : s \in States /\ value[s] \in Values
      BY DEF TypeOK
    <3>2. QED
      BY <2>1, <3>1 DEF TakeDirty, TypeOK
  <2>2. CASE TransmitStates
    BY <2>2, UpdateType DEF TransmitStates, Nothing, TypeOK
  <2>3. QED
    BY <1>7, <2>1, <2>2 DEF TransmitLoop
<1>8. CASE LoadStates
  <2>1. inputs' \in 0 .. MaxInputs
    BY <1>8 DEF LoadStates, Input, TypeOK
  <2>2. DOMAIN loading' \subseteq States /\ loading' \in [DOMAIN loading' -> Values]
    BY <1>8 DEF LoadStates, TypeOK
  <2>3. QED
    BY <1>8, <2>1, <2>2 DEF LoadStates, TypeOK
<1>9. CASE SendInit
  BY <1>9, UpdateType DEF SendInit, Nothing, TypeOK
<1>10. CASE UNCHANGED vars
  BY <1>10 DEF vars, TypeOK
<1>11. QED
  BY <1>1, <1>2, <1>3, <1>4, <1>5, <1>6, <1>7, <1>8, <1>9, <1>10 DEF Next, FilterLoop

LEMMA TypeInit == Init => TypeOK
<1> SUFFICES ASSUME Init PROVE TypeOK
  OBVIOUS
<1>1. /\ owed = [s \in States |-> owed[s]]
      /\ \A s \in States : owed[s] \in [DOMAIN Events[s] -> Int]
  BY DEF Init
<1>2. calls \in [Setters -> Seq(Frame)] /\ \A t \in Setters : calls[t] = << >>
  BY DEF Init
<1>3. \A t \in Setters : DOMAIN calls[t] = {}
  BY <1>2
<1>4. /\ value \in [States -> Values \cup {Absent}] 
      /\ dirty \subseteq given /\ given \subseteq {r \in States : value[r] # Absent}
      /\ readings \in [Sensors -> Values]
      /\ actuator \in [Commands -> Values \cup {Absent}]
      /\ sent \in [States -> Values \cup {Absent}] /\ screen \in [States -> Values \cup {Absent}]
      /\ inputs \in 0 .. MaxInputs
  BY DEF Init
<1>5. /\ DOMAIN raw \subseteq Sensors /\ raw \in [DOMAIN raw -> Values]
      /\ differs \subseteq DOMAIN raw
      /\ DOMAIN transit \subseteq States /\ transit \in [DOMAIN transit -> Values]
      /\ DOMAIN loading \subseteq States /\ loading \in [DOMAIN loading -> Values]
  BY DEF Init, Nothing
<1>6. QED
  BY <1>1, <1>2, <1>3, <1>4, <1>5 DEF TypeOK

\* Every variable keeps its type; in particular no call looks past the last event
\* of its state and the filter thread only sets a sensor of the running pass.
THEOREM TypeCorrect == Spec => []TypeOK
  BY TypeInit, TypeStep, PTL DEF Spec

-----------------------------------------------------------------------------
(* No value is lost.                                                       *)

LEMMA NeverLostStep == TypeOK /\ NeverLost /\ [Next]_vars => NeverLost'
<1> SUFFICES ASSUME TypeOK, NeverLost, [Next]_vars PROVE NeverLost'
  OBVIOUS
<1> DEFINE Out == <<transit, sent>>
\* SetState marks the state dirty.
<1>1. ASSUME NEW before, NEW s \in States, NEW v, Store(before, s, v), UNCHANGED Out
      PROVE  NeverLost'
  BY <1>1 DEF Store, NeverLost, TypeOK
\* A state that was given to SetState is in the map: GetStateValue leaves it alone.
<1>2. ASSUME NEW t \in Setters, GetArgument(t) PROVE NeverLost'
  <2>1. \A r \in given : value'[r] = value[r]
    BY <1>2 DEF GetArgument, TypeOK
  <2>2. QED
    BY <1>2, <2>1 DEF GetArgument, Quiet, NeverLost
<1>3. ASSUME UNCHANGED <<value, given, dirty, transit, sent>> PROVE NeverLost'
  BY <1>3 DEF NeverLost
<1>4. ASSUME NEW t \in Setters, OnStateChange(t) PROVE NeverLost'
  <2>1. CASE StateEvent(t)
    <3>1. Current(t).target \in States
      BY <2>1, CurrentType DEF StateEvent, Executes
    <3>2. QED
      BY <2>1, <3>1, <1>1 DEF StateEvent, Quiet
  <2>2. CASE SkipEvent(t) \/ CommandEvent(t) \/ CommandThrows(t) \/ Return(t)
    BY <2>2, <1>3 DEF SkipEvent, CommandEvent, CommandThrows, Return, Quiet
  <2>3. QED
    BY <1>2, <1>4, <2>1, <2>2 DEF OnStateChange
<1>5. ASSUME NEW t \in Threads, NEW w \in Writes[t], Set(t, w[1], w[2])
      PROVE  NeverLost'
  <2>1. w[1] \in States
    OBVIOUS
  <2>2. QED
    BY <1>1, <1>5, <2>1 DEF Set, SetState
<1>6. ASSUME NEW s \in Sensors, FilterSet(s) PROVE NeverLost'
  BY <1>1, <1>6 DEF FilterSet, SetState
<1>7. CASE TakeDirty
  <2>1. DOMAIN transit = {}
    BY <1>7 DEF TakeDirty, Nothing
  <2>2. QED
    BY <1>7, <2>1 DEF TakeDirty, NeverLost
<1>8. CASE TransmitStates
  <2>1. DOMAIN transit' = {} /\ given \subseteq States
    BY <1>8 DEF TransmitStates, Nothing, TypeOK
  <2>2. QED
    BY <1>8, <2>1 DEF TransmitStates, Update, NeverLost
<1>9. ASSUME NEW s \in Sensors, FilterCheck(s) \/ \E v \in Values : SensorData(s, v)
      PROVE  NeverLost'
  BY <1>3, <1>9 DEF FilterCheck, SensorData
<1>10. CASE FilterPass \/ LoadStates \/ SendInit \/ UNCHANGED vars
  BY <1>3, <1>10 DEF FilterPass, LoadStates, SendInit, vars
<1>11. QED
  BY <1>4, <1>5, <1>6, <1>7, <1>8, <1>9, <1>10 DEF Next, FilterLoop, TransmitLoop

\* A value given to SetState is dirty, on its way, or the last one the web server was
\* sent, for any number of threads, any event mapping and any interleaving.
THEOREM NeverLostCorrect == Spec => []NeverLost
<1>1. Init => NeverLost
  BY DEF Init, NeverLost
<1>2. QED
  BY <1>1, NeverLostStep, TypeCorrect, PTL DEF Spec

-----------------------------------------------------------------------------
(* Every edge is answered once.  The calls that wait for event i of state  *)
(* s are counted; a step puts one call in or takes one out.                *)

LEMMA WaitsMember ==
  ASSUME NEW stacks, NEW s, NEW i, NEW p
  PROVE  p \in Waits(stacks, s, i) <=>
           \E t \in Setters : \E k \in DOMAIN stacks[t] :
             p = <<t, k>> /\ Owes(stacks[t][k], s, i)
  BY DEF Waits

Pick(c, p) == IF c THEN {p} ELSE {}

LEMMA CountIn ==
  ASSUME NEW S, IsFiniteSet(S), NEW p, p \notin S, NEW c \in BOOLEAN
  PROVE  /\ IsFiniteSet(S \cup Pick(c, p))
         /\ Cardinality(S \cup Pick(c, p)) = Cardinality(S) + IF c THEN 1 ELSE 0
<1>1. Cardinality(S) \in Nat
  BY FS_CardinalityType
<1>2. CASE c
  BY <1>1, <1>2, FS_AddElement DEF Pick
<1>3. CASE ~c
  <2>1. S \cup Pick(c, p) = S
    BY <1>3 DEF Pick
  <2>2. (IF c THEN 1 ELSE 0) = 0
    BY <1>3
  <2>3. Cardinality(S) + 0 = Cardinality(S)
    BY <1>1
  <2>4. QED
    BY <2>1, <2>2, <2>3, Zenon
<1>4. QED
  BY <1>2, <1>3

LEMMA CountOut ==
  ASSUME NEW S, IsFiniteSet(S), NEW p, NEW c \in BOOLEAN, c => p \in S
  PROVE  /\ IsFiniteSet(S \ Pick(c, p))
         /\ Cardinality(S \ Pick(c, p)) = Cardinality(S) - IF c THEN 1 ELSE 0
<1>1. Cardinality(S) \in Nat
  BY FS_CardinalityType
<1>2. CASE c
  BY <1>1, <1>2, FS_RemoveElement DEF Pick
<1>3. CASE ~c
  <2>1. S \ Pick(c, p) = S
    BY <1>3 DEF Pick
  <2>2. (IF c THEN 1 ELSE 0) = 0
    BY <1>3
  <2>3. Cardinality(S) - 0 = Cardinality(S)
    BY <1>1
  <2>4. QED
    BY <2>1, <2>2, <2>3, Zenon
<1>4. QED
  BY <1>2, <1>3

\* A call is pushed on the stack of t.
LEMMA WaitsPushed ==
  ASSUME NEW stacks \in [Setters -> Seq(Frame)], NEW t \in Setters, NEW f \in Frame,
         NEW s, NEW i
  PROVE  LET p == <<t, Len(stacks[t]) + 1>>
         IN  /\ Waits([stacks EXCEPT ![t] = Append(stacks[t], f)], s, i)
                  = Waits(stacks, s, i) \cup Pick(Owes(f, s, i), p)
             /\ p \notin Waits(stacks, s, i)
<1> DEFINE c == stacks[t]
           d == Append(c, f)
           after == [stacks EXCEPT ![t] = d]
           p == <<t, Len(c) + 1>>
<1>1. c \in Seq(Frame) /\ Len(c) \in Nat /\ DOMAIN c = 1 .. Len(c)
  OBVIOUS
<1>2. /\ DOMAIN d = 1 .. Len(c) + 1 /\ d[Len(c) + 1] = f
      /\ \A k \in 1 .. Len(c) : d[k] = c[k]
  BY <1>1
<1>3. \A u \in Setters : after[u] = IF u = t THEN d ELSE stacks[u]
  OBVIOUS
<1>4. /\ Len(c) + 1 \in DOMAIN d /\ Len(c) + 1 \notin DOMAIN c
      /\ \A k \in DOMAIN d : k = Len(c) + 1 \/ k \in DOMAIN c
      /\ \A k \in DOMAIN c : k \in DOMAIN d /\ d[k] = c[k]
  BY <1>1, <1>2
<1>5. p \notin Waits(stacks, s, i)
  BY <1>4, WaitsMember
<1>6. ASSUME NEW q PROVE q \in Waits(after, s, i) <=>
        q \in Waits(stacks, s, i) \/ (Owes(f, s, i) /\ q = p)
  <2>1. (\E k \in DOMAIN d : q = <<t, k>> /\ Owes(d[k], s, i)) <=>
          \/ \E k \in DOMAIN c : q = <<t, k>> /\ Owes(c[k], s, i)
          \/ Owes(f, s, i) /\ q = p
    BY <1>2, <1>4
  <2> DEFINE Others == \E u \in Setters \ {t} : \E k \in DOMAIN stacks[u] :
                         q = <<u, k>> /\ Owes(stacks[u][k], s, i)
  <2>3. q \in Waits(after, s, i) <=> Others \/ \E k \in DOMAIN d : q = <<t, k>> /\ Owes(d[k], s, i)
    <3> HIDE DEF d
    <3> SUFFICES (\E u \in Setters : \E k \in DOMAIN after[u] :
                    q = <<u, k>> /\ Owes(after[u][k], s, i)) <=>
                 Others \/ \E k \in DOMAIN d : q = <<t, k>> /\ Owes(d[k], s, i)
      BY WaitsMember, Zenon
    <3> HIDE DEF after
    <3> QED
      BY <1>3
  <2>4. q \in Waits(stacks, s, i) <=> Others \/ \E k \in DOMAIN c : q = <<t, k>> /\ Owes(c[k], s, i)
    <3> SUFFICES (\E u \in Setters : \E k \in DOMAIN stacks[u] :
                    q = <<u, k>> /\ Owes(stacks[u][k], s, i)) <=>
                 Others \/ \E k \in DOMAIN c : q = <<t, k>> /\ Owes(c[k], s, i)
      BY WaitsMember, Zenon
    <3> QED
      OBVIOUS
  <2> HIDE DEF d, p, Others, after
  <2>5. QED
    BY <2>1, <2>3, <2>4
<1>7. QED
  BY <1>5, <1>6 DEF Pick

\* The innermost call of t is replaced.
LEMMA WaitsReplaced ==
  ASSUME NEW stacks \in [Setters -> Seq(Frame)], NEW t \in Setters, stacks[t] # << >>,
         NEW f \in Frame, NEW s, NEW i
  PROVE  LET n == Len(stacks[t])
             p == <<t, n>>
         IN  /\ Waits([stacks EXCEPT ![t] = [stacks[t] EXCEPT ![n] = f]], s, i)
                  = (Waits(stacks, s, i) \ {p}) \cup Pick(Owes(f, s, i), p)
             /\ p \in Waits(stacks, s, i) <=> Owes(stacks[t][n], s, i)
<1> DEFINE c == stacks[t]
           n == Len(c)
           d == [c EXCEPT ![n] = f]
           after == [stacks EXCEPT ![t] = d]
           p == <<t, n>>
<1>1. c \in Seq(Frame) /\ n \in DOMAIN c
  OBVIOUS
<1>2. DOMAIN d = DOMAIN c /\ d[n] = f /\ \A k \in DOMAIN c : k # n => d[k] = c[k]
  BY <1>1
<1>3. \A u \in Setters : after[u] = IF u = t THEN d ELSE stacks[u]
  OBVIOUS
<1>5. p \in Waits(stacks, s, i) <=> Owes(c[n], s, i)
  BY <1>1, WaitsMember
<1>6. ASSUME NEW q PROVE q \in Waits(after, s, i) <=>
        (q \in Waits(stacks, s, i) /\ q # p) \/ (Owes(f, s, i) /\ q = p)
  <2>1. (\E k \in DOMAIN d : q = <<t, k>> /\ Owes(d[k], s, i)) <=>
          \/ \E k \in DOMAIN c : q = <<t, k>> /\ Owes(c[k], s, i) /\ q # p
          \/ Owes(f, s, i) /\ q = p
    BY <1>1, <1>2
  <2> DEFINE Others == \E u \in Setters \ {t} : \E k \in DOMAIN stacks[u] :
                         q = <<u, k>> /\ Owes(stacks[u][k], s, i)
  <2>3. q \in Waits(after, s, i) <=> Others \/ \E k \in DOMAIN d : q = <<t, k>> /\ Owes(d[k], s, i)
    <3> HIDE DEF d
    <3> SUFFICES (\E u \in Setters : \E k \in DOMAIN after[u] :
                    q = <<u, k>> /\ Owes(after[u][k], s, i)) <=>
                 Others \/ \E k \in DOMAIN d : q = <<t, k>> /\ Owes(d[k], s, i)
      BY WaitsMember, Zenon
    <3> HIDE DEF after
    <3> QED
      BY <1>3
  <2>4. q \in Waits(stacks, s, i) <=> Others \/ \E k \in DOMAIN c : q = <<t, k>> /\ Owes(c[k], s, i)
    <3> SUFFICES (\E u \in Setters : \E k \in DOMAIN stacks[u] :
                    q = <<u, k>> /\ Owes(stacks[u][k], s, i)) <=>
                 Others \/ \E k \in DOMAIN c : q = <<t, k>> /\ Owes(c[k], s, i)
      BY WaitsMember, Zenon
    <3> QED
      OBVIOUS
  <2>5. Others => q # p
    OBVIOUS
  <2> HIDE DEF d, p, Others, after
  <2>6. QED
    BY <2>1, <2>3, <2>4, <2>5
<1>7. QED
  BY <1>5, <1>6 DEF Pick

\* The innermost call of t returns.
LEMMA WaitsPopped ==
  ASSUME NEW stacks \in [Setters -> Seq(Frame)], NEW t \in Setters, stacks[t] # << >>,
         NEW s, NEW i
  PROVE  LET n == Len(stacks[t])
             p == <<t, n>>
         IN  /\ Waits([stacks EXCEPT ![t] = SubSeq(stacks[t], 1, n - 1)], s, i)
                  = Waits(stacks, s, i) \ {p}
             /\ p \in Waits(stacks, s, i) <=> Owes(stacks[t][n], s, i)
<1> DEFINE c == stacks[t]
           n == Len(c)
           d == SubSeq(c, 1, n - 1)
           after == [stacks EXCEPT ![t] = d]
           p == <<t, n>>
<1>1. c \in Seq(Frame) /\ n \in DOMAIN c /\ DOMAIN c = 1 .. n /\ n \in Nat \ {0}
  OBVIOUS
<1>2. DOMAIN d = 1 .. n - 1 /\ \A k \in 1 .. n - 1 : d[k] = c[k]
  BY <1>1
<1>3. \A u \in Setters : after[u] = IF u = t THEN d ELSE stacks[u]
  OBVIOUS
<1>4. \A k : k \in DOMAIN d <=> k \in DOMAIN c /\ k # n
  BY <1>1, <1>2
<1>5. p \in Waits(stacks, s, i) <=> Owes(c[n], s, i)
  BY <1>1, WaitsMember
<1>6. ASSUME NEW q PROVE q \in Waits(after, s, i) <=> q \in Waits(stacks, s, i) /\ q # p
  <2>1. (\E k \in DOMAIN d : q = <<t, k>> /\ Owes(d[k], s, i)) <=>
          \E k \in DOMAIN c : q = <<t, k>> /\ Owes(c[k], s, i) /\ q # p
    BY <1>1, <1>2, <1>4
  <2> DEFINE Others == \E u \in Setters \ {t} : \E k \in DOMAIN stacks[u] :
                         q = <<u, k>> /\ Owes(stacks[u][k], s, i)
  <2>3. q \in Waits(after, s, i) <=> Others \/ \E k \in DOMAIN d : q = <<t, k>> /\ Owes(d[k], s, i)
    <3> HIDE DEF d
    <3> SUFFICES (\E u \in Setters : \E k \in DOMAIN after[u] :
                    q = <<u, k>> /\ Owes(after[u][k], s, i)) <=>
                 Others \/ \E k \in DOMAIN d : q = <<t, k>> /\ Owes(d[k], s, i)
      BY WaitsMember, Zenon
    <3> HIDE DEF after
    <3> QED
      BY <1>3
  <2>4. q \in Waits(stacks, s, i) <=> Others \/ \E k \in DOMAIN c : q = <<t, k>> /\ Owes(c[k], s, i)
    <3> SUFFICES (\E u \in Setters : \E k \in DOMAIN stacks[u] :
                    q = <<u, k>> /\ Owes(stacks[u][k], s, i)) <=>
                 Others \/ \E k \in DOMAIN c : q = <<t, k>> /\ Owes(c[k], s, i)
      BY WaitsMember, Zenon
    <3> QED
      OBVIOUS
  <2>5. Others => q # p
    OBVIOUS
  <2> HIDE DEF d, p, Others, after
  <2>6. QED
    BY <2>1, <2>3, <2>4, <2>5
<1>7. QED
  BY <1>5, <1>6

\* The trigger of the code fires on the edges of README 303-307.
LEMMA TriggerIsEdge ==
  ASSUME NEW e \in Event, NEW old \in Values \cup {Absent}, NEW new \in Values
  PROVE  ShallTrigger(e, old, new) <=> Edge(e, old, new)
<1>1. /\ e.trigger \in Trigger /\ e.triggerValue \in Values /\ Values \subseteq Int
      /\ Absent \notin Values
  BY DEF Event
<1>2. CASE e.trigger = "always"
  BY <1>2 DEF ShallTrigger, Edge
<1>3. CASE e.trigger = "=="
  BY <1>1, <1>3 DEF ShallTrigger, Edge, InRange, TriggerRange
<1>4. CASE e.trigger = "!="
  BY <1>1, <1>4 DEF ShallTrigger, Edge, InRange, TriggerRange
<1>5. CASE e.trigger = ">="
  BY <1>1, <1>5 DEF ShallTrigger, Edge, InRange, TriggerRange
<1>6. CASE e.trigger = "<="
  BY <1>1, <1>6 DEF ShallTrigger, Edge, InRange, TriggerRange
<1>7. CASE e.trigger = ">"
  BY <1>1, <1>7 DEF ShallTrigger, Edge, InRange, TriggerRange
<1>8. CASE e.trigger = "<"
  BY <1>1, <1>8 DEF ShallTrigger, Edge, InRange, TriggerRange
<1>9. QED
  BY <1>1, <1>2, <1>3, <1>4, <1>5, <1>6, <1>7, <1>8 DEF Trigger

\* What is counted for one event, with its finiteness.
Counted(o, stacks) ==
  \A s \in States : \A i \in DOMAIN Events[s] :
    /\ IsFiniteSet(Waits(stacks, s, i))
    /\ o[s][i] = Cardinality(Waits(stacks, s, i))

EdgeInv == Counted(owed, calls)

\* A SetState on top of any stack: its call owes exactly the edges added.
LEMMA CountedPushed ==
  ASSUME TypeOK, NEW before, NEW stacks \in [Setters -> Seq(Frame)],
         before = [s \in States |-> before[s]], Counted(before, stacks),
         NEW t \in Setters, NEW r \in States, NEW v \in Values
  PROVE  Counted(Owing(before, r, v), [stacks EXCEPT ![t] = Append(stacks[t], Pushed(r, v))])
<1> DEFINE f == Pushed(r, v)
           after == [stacks EXCEPT ![t] = Append(stacks[t], f)]
           o == Owing(before, r, v)
<1>1. f \in Frame /\ f.state = r /\ f.next = 1 /\ f.old = value[r] /\ f.new = v
  BY PushedType DEF Pushed
<1>2. ASSUME NEW s \in States, NEW i \in DOMAIN Events[s]
      PROVE  IsFiniteSet(Waits(after, s, i)) /\ o[s][i] = Cardinality(Waits(after, s, i))
  <2> DEFINE owes == s = r /\ Edge(Events[s][i], value[s], v)
             p == <<t, Len(stacks[t]) + 1>>
  <2>1. Events[s] \in Seq(Event) /\ i \in 1 .. Len(Events[s])
    OBVIOUS
  <2>2. Owes(f, s, i) <=> owes
    BY <1>1, <2>1 DEF Owes, Due
  <2>3. Waits(after, s, i) = Waits(stacks, s, i) \cup Pick(Owes(f, s, i), p)
        /\ p \notin Waits(stacks, s, i)
    BY <1>1, WaitsPushed
  <2>4. Waits(after, s, i) = Waits(stacks, s, i) \cup Pick(owes, p)
    BY <2>2, <2>3 DEF Pick
  <2>5. IsFiniteSet(Waits(stacks, s, i)) /\ before[s][i] = Cardinality(Waits(stacks, s, i))
    BY DEF Counted
  <2>6. owes \in BOOLEAN
    OBVIOUS
  <2>7. o[s][i] = before[s][i] + IF owes THEN 1 ELSE 0
    <3>1. Cardinality(Waits(stacks, s, i)) \in Nat
      BY <2>5, FS_CardinalityType
    <3>2. s \in DOMAIN before /\ r \in DOMAIN before
      OBVIOUS
    <3>3. CASE s = r
      BY <3>2, <3>3 DEF Owing
    <3>4. CASE s # r
      <4>1. o[s][i] = before[s][i] /\ (IF owes THEN 1 ELSE 0) = 0
        BY <3>2, <3>4 DEF Owing
      <4>2. QED
        BY <3>1, <2>5, <4>1
    <3>5. QED
      BY <3>3, <3>4
  <2> HIDE DEF owes, p, after, o
  <2>8. /\ IsFiniteSet(Waits(stacks, s, i) \cup Pick(owes, p))
        /\ Cardinality(Waits(stacks, s, i) \cup Pick(owes, p))
             = Cardinality(Waits(stacks, s, i)) + IF owes THEN 1 ELSE 0
    BY <2>3, <2>5, <2>6, CountIn
  <2>9. QED
    BY <2>4, <2>5, <2>7, <2>8
<1>3. QED
  BY <1>2 DEF Counted

\* The innermost call gives up the edges in out, which it waits for.
LEMMA CountedOut ==
  ASSUME TypeOK, EdgeInv, NEW t \in Setters, calls[t] # << >>,
         NEW out, out \subseteq Due(Top(t), Top(t).next),
         NEW after,
         \A s \in States : \A i \in DOMAIN Events[s] :
           Waits(after, s, i)
             = Waits(calls, s, i) \ Pick(s = Top(t).state /\ i \in out, <<t, Len(calls[t])>>)
  PROVE  Counted(Answered(Top(t), out), after)
<1> DEFINE f == Top(t)
           o == Answered(f, out)
           p == <<t, Len(calls[t])>>
<1>1. f \in Frame /\ f.state \in States /\ calls \in [Setters -> Seq(Frame)]
  BY TopType DEF Frame, TypeOK
<1>2. ASSUME NEW s \in States, NEW i \in DOMAIN Events[s]
      PROVE  IsFiniteSet(Waits(after, s, i)) /\ o[s][i] = Cardinality(Waits(after, s, i))
  <2> DEFINE c == s = f.state /\ i \in out
  <2>1. IsFiniteSet(Waits(calls, s, i)) /\ owed[s][i] = Cardinality(Waits(calls, s, i))
    BY DEF EdgeInv, Counted
  <2>2. c => p \in Waits(calls, s, i)
    <3>1. Len(calls[t]) \in DOMAIN calls[t]
      BY TopType
    <3>2. c => Owes(calls[t][Len(calls[t])], s, i)
      BY DEF Owes, Top
    <3>3. QED
      BY <3>1, <3>2, WaitsMember
  <2>3. Waits(after, s, i) = Waits(calls, s, i) \ Pick(c, p)
    OBVIOUS
  <2>4. c \in BOOLEAN
    OBVIOUS
  <2>5. o[s][i] = owed[s][i] - IF c THEN 1 ELSE 0
    <3>1. owed = [r \in States |-> owed[r]] /\ owed[s] \in [DOMAIN Events[s] -> Int]
      BY DEF TypeOK
    <3>2. CASE s = f.state
      BY <1>1, <3>1, <3>2 DEF Answered
    <3>3. CASE s # f.state
      <4>1. o[s][i] = owed[s][i] /\ (IF c THEN 1 ELSE 0) = 0 /\ owed[s][i] \in Int
        BY <3>1, <3>3 DEF Answered
      <4>2. QED
        BY <4>1
    <3>4. QED
      BY <3>2, <3>3
  <2> HIDE DEF c, p, o
  <2>6. /\ IsFiniteSet(Waits(calls, s, i) \ Pick(c, p))
        /\ Cardinality(Waits(calls, s, i) \ Pick(c, p))
             = Cardinality(Waits(calls, s, i)) - IF c THEN 1 ELSE 0
    BY <2>1, <2>2, <2>4, CountOut
  <2>7. QED
    BY <2>1, <2>3, <2>5, <2>6
<1>3. QED
  BY <1>2 DEF Counted

\* An event is looked at and passed over, or executed.
LEMMA CountedAdvanced ==
  ASSUME TypeOK, EdgeInv, NEW t \in Setters, Ready(t),
         NEW out, out = IF Triggers(t) THEN {Top(t).next} ELSE {}
  PROVE  Counted(Answered(Top(t), out), [calls EXCEPT ![t] = Advanced(t)])
<1> DEFINE f == Top(t)
           g == Moved(f)
<1>1. /\ calls[t] # << >> /\ f \in Frame /\ f.state \in States /\ f.next \in Nat \ {0}
      /\ f.old \in Values \cup {Absent} /\ f.new \in Values
  BY TopType DEF Ready, Frame
<1>2. /\ f.next \in DOMAIN Events[f.state] /\ Current(t) \in Event
      /\ Current(t) = Events[f.state][f.next]
  BY CurrentType DEF Current
<1>3. Triggers(t) <=> Edge(Current(t), f.old, f.new)
  BY <1>1, <1>2, TriggerIsEdge DEF Triggers
<1>4. g \in Frame /\ g.state = f.state /\ g.old = f.old /\ g.new = f.new /\ g.next = f.next + 1
  BY <1>1, FrameMoved
<1>5. Events[f.state] \in Seq(Event)
  BY <1>1
<1>6. Due(g, g.next) = Due(f, f.next) \ out /\ out \subseteq Due(f, f.next)
  <2>1. Len(Events[f.state]) \in Nat /\ f.next \in 1 .. Len(Events[f.state])
    BY <1>2, <1>5
  <2>2. Due(g, g.next) = {j \in f.next + 1 .. Len(Events[f.state]) :
                            Edge(Events[f.state][j], f.old, f.new)}
    BY <1>4 DEF Due
  <2>3. Due(f, f.next) = {j \in f.next .. Len(Events[f.state]) :
                            Edge(Events[f.state][j], f.old, f.new)}
    BY DEF Due
  <2>4. Edge(Events[f.state][f.next], f.old, f.new) <=> Triggers(t)
    BY <1>2, <1>3
  <2>5. \A j : j \in f.next .. Len(Events[f.state]) <=>
                 j = f.next \/ j \in f.next + 1 .. Len(Events[f.state])
    BY <2>1
  <2>6. f.next \notin f.next + 1 .. Len(Events[f.state])
    BY <2>1
  <2> HIDE DEF f, g
  <2>7. CASE Triggers(t)
    <3>1. out = {f.next}
      BY <2>7 DEF f
    <3>2. QED
      BY <2>2, <2>3, <2>4, <2>5, <2>6, <2>7, <3>1
  <2>8. CASE ~Triggers(t)
    <3>1. out = {}
      BY <2>8
    <3>2. QED
      BY <2>2, <2>3, <2>4, <2>5, <2>6, <2>8, <3>1
  <2>9. QED
    BY <2>7, <2>8
<1>7. \A s \in States : \A i \in DOMAIN Events[s] :
        Owes(g, s, i) <=> Owes(f, s, i) /\ ~(s = f.state /\ i \in out)
  BY <1>4, <1>6 DEF Owes
<1> DEFINE after == [calls EXCEPT ![t] = Advanced(t)]
<1>8. \A s \in States : \A i \in DOMAIN Events[s] :
        Waits(after, s, i)
          = Waits(calls, s, i) \ Pick(s = Top(t).state /\ i \in out, <<t, Len(calls[t])>>)
  <2> SUFFICES ASSUME NEW s \in States, NEW i \in DOMAIN Events[s]
               PROVE  Waits(after, s, i) = Waits(calls, s, i)
                        \ Pick(s = Top(t).state /\ i \in out, <<t, Len(calls[t])>>)
    OBVIOUS
  <2> DEFINE p == <<t, Len(calls[t])>>
             c == s = Top(t).state /\ i \in out
  <2>1. after = [calls EXCEPT ![t] = [calls[t] EXCEPT ![Len(calls[t])] = g]]
    BY DEF Advanced
  <2>2. calls \in [Setters -> Seq(Frame)]
    BY DEF TypeOK
  <2>3. Owes(g, s, i) <=> Owes(Top(t), s, i) /\ ~c
    BY <1>7
  <2> HIDE DEF g
  <2>4. Waits(after, s, i) = (Waits(calls, s, i) \ {p}) \cup Pick(Owes(g, s, i), p)
        /\ (p \in Waits(calls, s, i) <=> Owes(Top(t), s, i))
    <3>1. calls[t] # << >> /\ g \in Frame
      BY <1>1, <1>4
    <3>2. Waits([calls EXCEPT ![t] = [calls[t] EXCEPT ![Len(calls[t])] = g]], s, i)
            = (Waits(calls, s, i) \ {p}) \cup Pick(Owes(g, s, i), p)
          /\ (p \in Waits(calls, s, i) <=> Owes(calls[t][Len(calls[t])], s, i))
      BY <2>2, <3>1, WaitsReplaced
    <3>3. QED
      BY <2>1, <3>2 DEF Top
  <2> HIDE DEF after, p, c
  <2>5. Waits(after, s, i) = Waits(calls, s, i) \ Pick(c, p)
    BY <2>3, <2>4 DEF Pick
  <2>6. QED
    BY <2>5 DEF c, p
<1>9. calls[t] # << >> /\ out \subseteq Due(Top(t), Top(t).next)
  BY <1>1, <1>6
<1> HIDE DEF f, g, after
<1>10. Counted(Answered(Top(t), out), after)
  BY <1>8, <1>9, CountedOut
<1>11. QED
  BY <1>10 DEF after

\* A call returns, giving up every edge it still waits for.
LEMMA CountedPopped ==
  ASSUME TypeOK, EdgeInv, NEW t \in Setters, calls[t] # << >>,
         NEW out, out = Due(Top(t), Top(t).next)
  PROVE  Counted(Answered(Top(t), out), [calls EXCEPT ![t] = Popped(t)])
<1> DEFINE f == Top(t)
           p == <<t, Len(calls[t])>>
           after == [calls EXCEPT ![t] = Popped(t)]
<1>1. calls \in [Setters -> Seq(Frame)]
  BY DEF TypeOK
<1>2. ASSUME NEW s \in States, NEW i \in DOMAIN Events[s]
      PROVE  Waits(after, s, i)
               = Waits(calls, s, i) \ Pick(s = f.state /\ i \in Due(f, f.next), p)
  <2>1. Waits(after, s, i) = Waits(calls, s, i) \ {p}
        /\ (p \in Waits(calls, s, i) <=> Owes(f, s, i))
    BY <1>1, WaitsPopped DEF Popped, Top
  <2>2. Owes(f, s, i) <=> (s = f.state /\ i \in Due(f, f.next))
    BY DEF Owes
  <2> HIDE DEF p, after, f
  <2>3. QED
    BY <2>1, <2>2 DEF Pick
<1>3. \A s \in States : \A i \in DOMAIN Events[s] :
        Waits(after, s, i)
          = Waits(calls, s, i) \ Pick(s = Top(t).state /\ i \in out, <<t, Len(calls[t])>>)
  BY <1>2
<1>4. calls[t] # << >> /\ out \subseteq Due(Top(t), Top(t).next)
  OBVIOUS
<1> HIDE DEF f, p, after
<1>5. Counted(Answered(Top(t), out), after)
  BY <1>3, <1>4, CountedOut, SMTT(40)
<1>6. QED
  BY <1>5 DEF after

\* Nothing is taken off: no event is answered.
LEMMA AnsweredNone ==
  ASSUME TypeOK, NEW f \in Frame
  PROVE  Answered(f, {}) = owed
<1>1. /\ f.state \in States /\ owed = [r \in States |-> owed[r]]
      /\ owed[f.state] \in [DOMAIN Events[f.state] -> Int]
  BY DEF TypeOK, Frame
<1> DEFINE c == [i \in DOMAIN owed[f.state] |-> owed[f.state][i] - IF i \in {} THEN 1 ELSE 0]
<1>2. c = owed[f.state]
  BY <1>1
<1> HIDE DEF c
<1>3. [owed EXCEPT ![f.state] = c] = owed
  BY <1>1, <1>2
<1>4. QED
  BY <1>3 DEF Answered, c

LEMMA CountedSetState ==
  ASSUME TypeOK, EdgeInv, NEW t \in Setters, NEW s \in States, NEW v \in Values,
         SetState(t, s, v)
  PROVE  EdgeInv'
<1>1. calls \in [Setters -> Seq(Frame)] /\ owed = [r \in States |-> owed[r]]
  BY DEF TypeOK
<1>2. Counted(Owing(owed, s, v), [calls EXCEPT ![t] = Append(calls[t], Pushed(s, v))])
  BY <1>1, CountedPushed DEF EdgeInv
<1>3. Append(calls[t], Pushed(s, v)) = <<Pushed(s, v)>>
  BY DEF SetState
<1>4. calls' = [calls EXCEPT ![t] = Append(calls[t], Pushed(s, v))] /\ owed' = Owing(owed, s, v)
  BY <1>3 DEF SetState, Store
<1>5. Counted(owed', calls')
  BY <1>2, <1>4
<1>6. QED
  BY <1>5 DEF EdgeInv, Counted, Waits, Owes, Due

LEMMA CountedOnStateChange ==
  ASSUME TypeOK, EdgeInv, NEW t \in Setters, OnStateChange(t)
  PROVE  Counted(owed', calls')
<1>1. CASE SkipEvent(t)
  <2>1. Ready(t) /\ ~Triggers(t) /\ calls' = [calls EXCEPT ![t] = Advanced(t)] /\ owed' = owed
    BY <1>1 DEF SkipEvent
  <2>2. Counted(Answered(Top(t), {}), [calls EXCEPT ![t] = Advanced(t)])
    BY <2>1, CountedAdvanced
  <2>3. Answered(Top(t), {}) = owed
    BY <2>1, TopType, AnsweredNone DEF Ready
  <2>4. QED
    BY <2>1, <2>2, <2>3
<1>2. CASE GetArgument(t)
  <2> DEFINE s == Current(t).param
             v == IF value[s] = Absent THEN 0 ELSE value[s]
             g == [Top(t) EXCEPT !.arg = v]
             n == Len(calls[t])
  <2>1. v \in Values /\ calls[t] # << >> /\ Top(t) \in Frame /\ calls \in [Setters -> Seq(Frame)]
    BY <1>2, TopType DEF GetArgument, Foreign, Ready, TypeOK
  <2>2. calls' = [calls EXCEPT ![t] = [calls[t] EXCEPT ![n] = g]] /\ owed' = owed
    BY <1>2 DEF GetArgument, Read
  <2> HIDE DEF v
  <2>3. g \in Frame /\ g.state = Top(t).state /\ g.old = Top(t).old /\ g.new = Top(t).new
        /\ g.next = Top(t).next
    BY <2>1, FrameRead
  <2> HIDE DEF g
  <2>4. ASSUME NEW r \in States, NEW i \in DOMAIN Events[r]
        PROVE  Waits(calls', r, i) = Waits(calls, r, i)
    <3> DEFINE p == <<t, n>>
    <3>1. Waits([calls EXCEPT ![t] = [calls[t] EXCEPT ![n] = g]], r, i)
            = (Waits(calls, r, i) \ {p}) \cup Pick(Owes(g, r, i), p)
          /\ (p \in Waits(calls, r, i) <=> Owes(calls[t][n], r, i))
      BY <2>1, <2>3, WaitsReplaced
    <3>2. Owes(g, r, i) <=> Owes(calls[t][n], r, i)
      BY <2>3 DEF Owes, Due, Top
    <3>3. Waits(calls', r, i) = (Waits(calls, r, i) \ {p}) \cup Pick(Owes(g, r, i), p)
      BY <2>2, <3>1
    <3> HIDE DEF p, n
    <3>4. CASE Owes(g, r, i)
      BY <3>1, <3>2, <3>3, <3>4 DEF Pick, n
    <3>5. CASE ~Owes(g, r, i)
      BY <3>1, <3>2, <3>3, <3>5 DEF Pick, n
    <3>6. QED
      BY <3>4, <3>5
  <2>5. QED
    BY <2>2, <2>4 DEF EdgeInv, Counted
<1>3. CASE StateEvent(t)
  <2> DEFINE s == Current(t).target
             v == Argument(t)
             out == {Top(t).next}
             before == Answered(Top(t), out)
             stacks == [calls EXCEPT ![t] = Advanced(t)]
  <2>1. Ready(t) /\ Triggers(t) /\ s \in States /\ v \in Values
    BY <1>3, CurrentType, ArgumentType DEF StateEvent, Executes
  <2>2. Counted(before, stacks)
    BY <2>1, CountedAdvanced
  <2>3. before = [r \in States |-> before[r]]
    <3>1. Top(t) \in Frame
      BY <2>1, TopType DEF Ready
    <3> HIDE DEF out
    <3>2. Answered(Top(t), out) = [r \in States |-> Answered(Top(t), out)[r]]
      BY <3>1, AnsweredType
    <3>3. QED
      BY <3>2
  <2>4. Advanced(t) \in Seq(Frame)
    BY <2>1, AdvancedType DEF Stack
  <2>5. stacks \in [Setters -> Seq(Frame)] /\ stacks[t] = Advanced(t)
    BY <2>4 DEF TypeOK
  <2>6. owed' = Owing(before, s, v)
        /\ calls' = [stacks EXCEPT ![t] = Append(stacks[t], Pushed(s, v))]
    <3>1. owed' = Owing(before, s, v)
          /\ calls' = [calls EXCEPT ![t] = Append(Advanced(t), Pushed(s, v))]
      BY <1>3 DEF StateEvent, Store
    <3>2. [stacks EXCEPT ![t] = Append(Advanced(t), Pushed(s, v))]
            = [calls EXCEPT ![t] = Append(Advanced(t), Pushed(s, v))]
      BY DEF TypeOK
    <3>3. QED
      BY <2>5, <3>1, <3>2
  <2> HIDE DEF s, v, before, stacks
  <2>7. QED
    BY <2>1, <2>2, <2>3, <2>5, <2>6, CountedPushed
<1>4. CASE CommandEvent(t)
  <2>1. Ready(t) /\ Triggers(t) /\ calls' = [calls EXCEPT ![t] = Advanced(t)]
        /\ owed' = Answered(Top(t), {Top(t).next})
    BY <1>4 DEF CommandEvent, Executes
  <2>2. QED
    BY <2>1, CountedAdvanced
<1>5. CASE CommandThrows(t)
  <2>1. Ready(t) /\ calls' = [calls EXCEPT ![t] = Popped(t)]
        /\ owed' = Answered(Top(t), Due(Top(t), Top(t).next))
    BY <1>5 DEF CommandThrows, Executes
  <2>2. QED
    BY <2>1, CountedPopped DEF Ready
<1>6. CASE Return(t)
  <2>1. calls[t] # << >> /\ ~Ready(t) /\ calls' = [calls EXCEPT ![t] = Popped(t)]
        /\ owed' = owed
    BY <1>6 DEF Return
  <2>2. Top(t) \in Frame /\ Events[Top(t).state] \in Seq(Event)
        /\ Top(t).next > Len(Events[Top(t).state])
    BY <2>1, TopType DEF Ready, Frame
  <2>3. Due(Top(t), Top(t).next) = {}
    BY <2>2 DEF Due, Frame
  <2>4. Counted(Answered(Top(t), {}), [calls EXCEPT ![t] = Popped(t)])
    BY <2>1, <2>3, CountedPopped
  <2>5. QED
    BY <2>1, <2>2, <2>4, AnsweredNone
<1>7. QED
  BY <1>1, <1>2, <1>3, <1>4, <1>5, <1>6 DEF OnStateChange

LEMMA EdgeStep == TypeOK /\ EdgeInv /\ [Next]_vars => EdgeInv'
<1> SUFFICES ASSUME TypeOK, EdgeInv, [Next]_vars PROVE EdgeInv'
  OBVIOUS
<1>1. ASSUME NEW t \in Threads, NEW w \in Writes[t], Set(t, w[1], w[2])
      PROVE EdgeInv'
  <2>1. w[1] \in States /\ w[2] \in Values /\ t \in Setters
    OBVIOUS
  <2>2. QED
    BY <1>1, <2>1, CountedSetState DEF Set
<1>2. ASSUME NEW s \in Sensors, FilterSet(s) PROVE EdgeInv'
  <2>1. s \in States /\ raw[s] \in Values /\ Filter \in Setters
    BY <1>2 DEF FilterSet, TypeOK
  <2>2. QED
    BY <1>2, <2>1, CountedSetState DEF FilterSet
<1>3. ASSUME NEW t \in Setters, OnStateChange(t) PROVE EdgeInv'
  <2>1. Counted(owed', calls')
    BY <1>3, CountedOnStateChange
  <2>2. QED
    BY <2>1 DEF EdgeInv, Counted, Waits, Owes, Due
<1>4. ASSUME UNCHANGED <<owed, calls>> PROVE EdgeInv'
  <2>1. Counted(owed', calls')
    BY <1>4 DEF EdgeInv
  <2>2. QED
    BY <2>1 DEF EdgeInv, Counted, Waits, Owes, Due
<1>5. ASSUME NEW s \in Sensors, FilterCheck(s) \/ \E v \in Values : SensorData(s, v)
      PROVE  EdgeInv'
  BY <1>4, <1>5 DEF FilterCheck, SensorData
<1>6. CASE FilterPass \/ TransmitLoop \/ LoadStates \/ SendInit \/ UNCHANGED vars
  BY <1>4, <1>6 DEF FilterPass, TransmitLoop, TakeDirty, TransmitStates, LoadStates, SendInit, vars
<1>7. QED
  BY <1>1, <1>2, <1>3, <1>5, <1>6 DEF Next, FilterLoop

\* Every time a state enters the trigger range of an event, the event is executed
\* once or given up because a command before it threw: for any number of threads
\* that set any states, and any event mapping.
THEOREM EveryEdgeOnceCorrect == Spec => []EveryEdgeOnce
<1>1. Init => EdgeInv
  <2> SUFFICES ASSUME Init, NEW s \in States, NEW i \in DOMAIN Events[s]
               PROVE  IsFiniteSet(Waits(calls, s, i)) /\ owed[s][i] = Cardinality(Waits(calls, s, i))
    BY DEF EdgeInv, Counted
  <2>1. \A t \in Setters : DOMAIN calls[t] = {}
    BY DEF Init
  <2>2. Waits(calls, s, i) = {}
    BY <2>1, WaitsMember
  <2>3. owed[s][i] = 0
    BY DEF Init
  <2>4. QED
    BY <2>2, <2>3, FS_EmptySet
<1>2. EdgeInv => EveryEdgeOnce
  BY DEF EdgeInv, Counted, EveryEdgeOnce
<1>3. QED
  BY <1>1, <1>2, EdgeStep, TypeCorrect, PTL DEF Spec
=============================================================================
