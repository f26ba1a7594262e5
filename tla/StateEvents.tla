----------------------------- MODULE StateEvents -----------------------------
(***************************************************************************)
(* The states of the server and what a change of one sets off:             *)
(* StateController, the event mapping of EventManager, the two loops of    *)
(* LLInterface and the states-load message.                                *)
(*                                                                         *)
(* SetState stores a value under the lock and calls OnStateChange after    *)
(* releasing it.  An event may set a further state on the same thread, so  *)
(* each thread has a stack of calls of OnStateChange, one frame per        *)
(* SetState that has not returned.  A step of a thread is the code up to   *)
(* the next access of the shared states or of the hardware.                *)
(***************************************************************************)
EXTENDS Integers, Sequences, FiniteSets

CONSTANTS States,     \* state names
          Values,     \* values a state can take
          Commands,   \* commands of the hardware channels
          Events,     \* Events[s]: the entries of the event mapping for s
          Defaults,   \* states AddStates enters with value 0 before any thread runs
          Threads,    \* threads that set states: listener, CAN receive threads
          Listener,   \* the one of them that handles states-load
          Writes,     \* Writes[t]: <<state, value>> pairs thread t sets
          Sensors,    \* states filterSensorsLoop sets
          Failing,    \* commands that may throw
          MaxInputs   \* bound: messages, frames and readings that come from outside

Filter  == "filterSensorsThread"
Setters == Threads \cup {Filter}

Absent  == -1                     \* no entry in the map; NAN as an old value
Trigger == {"always", "==", "!=", ">=", "<=", ">", "<"}
Event   == [trigger : Trigger, triggerValue : Values, kind : {"state", "command"},
            target : States \cup Commands,
            param : Values \cup States]

ASSUME StateEventsOK ==
  /\ Values \subseteq Nat /\ 0 \in Values
  /\ Values \cap States = {} /\ States \cap Commands = {}
  /\ Events \in [States -> Seq(Event)]
  /\ \A s \in States : \A i \in DOMAIN Events[s] :
       Events[s][i].kind = "state" <=> Events[s][i].target \in States
  /\ Defaults \subseteq States /\ Sensors \subseteq States
  /\ Writes \in [Threads -> SUBSET (States \X Values)]
  /\ Filter \notin Threads /\ Listener \in Threads
  /\ Failing \subseteq Commands
  /\ MaxInputs \in Nat

VARIABLES
  value,      \* states: the value of each
  dirty,      \* states: those with the dirty flag
  calls,      \* calls[t]: stack of OnStateChange calls of thread t
  readings,   \* latest sensor values of the CAN manager
  raw,        \* sensors the filter pass has still to look at, with their values
  differs,    \* sensor the filter thread has found changed, or none
  transit,    \* states GetDirtyStates returned to transmitStatesLoop
  loading,    \* states GetAllStates returned to states-load, or none
  sent,       \* last value of each state in a states message
  screen,     \* last value of each state in any message to the web server
  actuator,   \* last parameter of each command
  \* history and bounds
  given,      \* states that were given to SetState
  owed,       \* owed[s][i]: edges of s that event i has not yet answered
  inputs

vars == <<value, dirty, calls, readings, raw, differs, transit, loading, sent, screen, actuator,
          given, owed, inputs>>

Input == inputs < MaxInputs /\ inputs' = inputs + 1

Nothing == [s \in {} |-> 0]
\* A call of OnStateChange: next is the index of the event it looks at, arg the
\* value it has read for it from another state.
Frame   == [state : States, old : Values \cup {Absent}, new : Values, next : Nat \ {0},
            arg : Values \cup {Absent}]

Init ==
  /\ value = [s \in States |-> IF s \in Defaults THEN 0 ELSE Absent]
  /\ dirty = {}
  /\ calls = [t \in Setters |-> <<>>]
  /\ readings = [s \in Sensors |-> 0]
  /\ raw = Nothing
  /\ differs = {}
  /\ transit = Nothing
  /\ loading = Nothing
  /\ sent = [s \in States |-> Absent]
  /\ screen = sent
  /\ actuator = [c \in Commands |-> Absent]
  /\ given = {}
  /\ owed = [s \in States |-> [i \in DOMAIN Events[s] |-> 0]]
  /\ inputs = 0

-----------------------------------------------------------------------------
(* ShallTrigger.  A comparison with NAN is false, also the one with != (the *)
(* code asks for isnan there).                                             *)
InRange(e, v) ==
  /\ v # Absent
  /\ \/ e.trigger = "==" /\ v = e.triggerValue
     \/ e.trigger = "!=" /\ v # e.triggerValue
     \/ e.trigger = ">=" /\ v >= e.triggerValue
     \/ e.trigger = "<=" /\ v <= e.triggerValue
     \/ e.trigger = ">"  /\ v > e.triggerValue
     \/ e.trigger = "<"  /\ v < e.triggerValue

\* Mutant: the old value is not looked at.
BugShallTrigger(e, old, new) == e.trigger = "always" \/ InRange(e, new)

ShallTrigger(e, old, new) ==
  \/ e.trigger = "always"
  \/ InRange(e, new) /\ ~InRange(e, old)

-----------------------------------------------------------------------------
(* History: the edges of README 303-307, counted when a state is set and   *)
(* taken off when an event is executed or given up.                        *)

TriggerRange(e) ==
  CASE e.trigger = "==" -> {e.triggerValue}
    [] e.trigger = "!=" -> Values \ {e.triggerValue}
    [] e.trigger = ">=" -> {v \in Values : v >= e.triggerValue}
    [] e.trigger = "<=" -> {v \in Values : v <= e.triggerValue}
    [] e.trigger = ">"  -> {v \in Values : v > e.triggerValue}
    [] e.trigger = "<"  -> {v \in Values : v < e.triggerValue}

Edge(e, old, new) ==
  \/ e.trigger = "always"
  \/ new \in TriggerRange(e) /\ old \notin TriggerRange(e)

\* The new value v of s adds to what the events of s owe.
Owing(before, s, v) ==
  [before EXCEPT ![s] = [i \in DOMAIN Events[s] |->
     before[s][i] + IF Edge(Events[s][i], value[s], v) THEN 1 ELSE 0]]

\* The edges call f has from the i-th event on.
Due(f, i) == {j \in i .. Len(Events[f.state]) : Edge(Events[f.state][j], f.old, f.new)}

Answered(f, answers) ==
  [owed EXCEPT ![f.state] = [i \in DOMAIN owed[f.state] |->
     owed[f.state][i] - IF i \in answers THEN 1 ELSE 0]]

-----------------------------------------------------------------------------
(* StateController.                                                        *)

\* Mutant: a state that is new is entered with value 0 before its old value is read.
BugPushed(s, v) ==
  [state |-> s, old |-> IF value[s] = Absent THEN 0 ELSE value[s], new |-> v, next |-> 1,
   arg |-> Absent]

\* The call of OnStateChange that follows a SetState.
Pushed(s, v) ==
  [state |-> s, old |-> value[s], new |-> v, next |-> 1, arg |-> Absent]

\* The part of SetState under the lock; before is what the events owed before it.
Store(before, s, v) ==
  /\ value' = [value EXCEPT ![s] = v]
  /\ dirty' = dirty \cup {s}
  /\ given' = given \cup {s}
  /\ owed' = Owing(before, s, v)

\* SetState called by thread t with an idle stack.
SetState(t, s, v) ==
  /\ calls[t] = <<>>
  /\ Store(owed, s, v)
  /\ calls' = [calls EXCEPT ![t] = <<Pushed(s, v)>>]

\* A message or a CAN frame sets a state; the handler of the listener returns
\* before the next message.
Set(t, s, v) ==
  /\ <<s, v>> \in Writes[t]
  /\ t = Listener => loading = Nothing
  /\ Input
  /\ SetState(t, s, v)
  /\ UNCHANGED <<readings, raw, differs, transit, loading, sent, screen, actuator>>

-----------------------------------------------------------------------------
(* ExecuteCommandOrState, one event of the innermost call of thread t.     *)

Top(t)      == calls[t][Len(calls[t])]
Popped(t)   == SubSeq(calls[t], 1, Len(calls[t]) - 1)
Moved(f)    == [[f EXCEPT !.next = @ + 1] EXCEPT !.arg = Absent]
Advanced(t) == [calls[t] EXCEPT ![Len(calls[t])] = Moved(Top(t))]
Read(t, v)  == [calls[t] EXCEPT ![Len(calls[t])] = [Top(t) EXCEPT !.arg = v]]
Current(t)  == Events[Top(t).state][Top(t).next]
Ready(t)    == calls[t] # <<>> /\ Top(t).next <= Len(Events[Top(t).state])
Triggers(t) == ShallTrigger(Current(t), Top(t).old, Top(t).new)

\* A parameter that names another state stands for the value of that state.
Foreign(t)  == Current(t).param \in States \ {Top(t).state}
Argument(t) == IF Foreign(t) THEN Top(t).arg
               ELSE IF Current(t).param \in States THEN Top(t).new
               ELSE Current(t).param

Executes(t, kind) ==
  /\ Ready(t) /\ Triggers(t)
  /\ Current(t).kind = kind
  /\ Foreign(t) => Top(t).arg # Absent

Quiet == <<readings, raw, differs, transit, loading, sent, screen, inputs>>

SkipEvent(t) ==
  /\ Ready(t) /\ ~Triggers(t)
  /\ calls' = [calls EXCEPT ![t] = Advanced(t)]
  /\ UNCHANGED <<value, dirty, actuator, given, owed, Quiet>>

\* GetArgument reads another state under the lock of its own.  GetStateValue
\* enters a state that is not there, with value 0 and not dirty.
GetArgument(t) ==
  /\ Ready(t) /\ Triggers(t) /\ Foreign(t) /\ Top(t).arg = Absent
  /\ LET s == Current(t).param
         v == IF value[s] = Absent THEN 0 ELSE value[s]
     IN  /\ value' = [value EXCEPT ![s] = v]
         /\ calls' = [calls EXCEPT ![t] = Read(t, v)]
  /\ UNCHANGED <<dirty, actuator, given, owed, Quiet>>

StateEvent(t) ==
  LET s == Current(t).target
  IN  /\ Executes(t, "state")
      /\ Store(Answered(Top(t), {Top(t).next}), s, Argument(t))
      /\ calls' = [calls EXCEPT ![t] = Append(Advanced(t), Pushed(s, Argument(t)))]
      /\ UNCHANGED <<actuator, Quiet>>

CommandEvent(t) ==
  /\ Executes(t, "command")
  /\ actuator' = [actuator EXCEPT ![Current(t).target] = Argument(t)]
  /\ owed' = Answered(Top(t), {Top(t).next})
  /\ calls' = [calls EXCEPT ![t] = Advanced(t)]
  /\ UNCHANGED <<value, dirty, given, Quiet>>

\* The command throws: OnStateChange logs it, and the events left of this call
\* are not looked at.  The calls further out go on.
CommandThrows(t) ==
  /\ Executes(t, "command")
  /\ Current(t).target \in Failing
  /\ owed' = Answered(Top(t), Due(Top(t), Top(t).next))
  /\ calls' = [calls EXCEPT ![t] = Popped(t)]
  /\ UNCHANGED <<value, dirty, given, actuator, Quiet>>

Return(t) ==
  /\ calls[t] # <<>> /\ ~Ready(t)
  /\ calls' = [calls EXCEPT ![t] = Popped(t)]
  /\ UNCHANGED <<value, dirty, given, owed, actuator, Quiet>>

-----------------------------------------------------------------------------
(* filterSensorsLoop.  The value is compared under one lock and set under  *)
(* another.                                                                *)

\* A sensor message with a new value.
SensorData(s, v) ==
  /\ s \in Sensors /\ readings[s] # v
  /\ Input
  /\ readings' = [readings EXCEPT ![s] = v]
  /\ UNCHANGED <<value, dirty, calls, raw, differs, transit, loading, sent, screen, actuator,
                 given, owed>>

FilterPass ==
  /\ calls[Filter] = <<>> /\ DOMAIN raw = {} /\ differs = {}
  /\ raw' = readings
  /\ UNCHANGED <<value, dirty, calls, readings, differs, transit, loading, sent, screen, actuator,
                 given, owed, inputs>>

Without(f, s) == [r \in DOMAIN f \ {s} |-> f[r]]

FilterCheck(s) ==
  /\ calls[Filter] = <<>> /\ differs = {}
  /\ s \in DOMAIN raw
  /\ IF value[s] = raw[s] THEN raw' = Without(raw, s) /\ differs' = {}
                          ELSE raw' = raw /\ differs' = {s}
  /\ UNCHANGED <<value, dirty, calls, readings, transit, loading, sent, screen, actuator,
                 given, owed, inputs>>

\* Mutant: the sensor found changed is not forgotten.
BugFilterSet(s) ==
  /\ s \in differs
  /\ SetState(Filter, s, raw[s])
  /\ raw' = Without(raw, s)
  /\ UNCHANGED <<differs, readings, transit, loading, sent, screen, actuator, inputs>>

FilterSet(s) ==
  /\ s \in differs
  /\ SetState(Filter, s, raw[s])
  /\ differs' = {}
  /\ raw' = Without(raw, s)
  /\ UNCHANGED <<readings, transit, loading, sent, screen, actuator, inputs>>

-----------------------------------------------------------------------------
(* transmitStatesLoop, and states-load on the listener thread.             *)

Update(shown, states) ==
  [s \in States |-> IF s \in DOMAIN states THEN states[s] ELSE shown[s]]

\* GetDirtyStates returns the dirty states and resets their flags in one section.
TakeDirty ==
  /\ transit = Nothing /\ dirty # {}
  /\ transit' = [s \in dirty |-> value[s]]
  /\ dirty' = {}
  /\ UNCHANGED <<value, calls, readings, raw, differs, loading, sent, screen, actuator,
                 given, owed, inputs>>

\* Mutant: the flags are reset once the states have been sent.
BugTransmitStates ==
  /\ transit # Nothing
  /\ sent' = Update(sent, transit)
  /\ screen' = Update(screen, transit)
  /\ transit' = Nothing
  /\ dirty' = dirty \ DOMAIN transit
  /\ UNCHANGED <<value, calls, readings, raw, differs, loading, actuator,
                 given, owed, inputs>>

TransmitStates ==
  /\ transit # Nothing
  /\ sent' = Update(sent, transit)
  /\ screen' = Update(screen, transit)
  /\ transit' = Nothing
  /\ UNCHANGED <<value, dirty, calls, readings, raw, differs, loading, actuator,
                 given, owed, inputs>>

LoadStates ==
  /\ calls[Listener] = <<>> /\ loading = Nothing
  /\ Input
  /\ loading' = [s \in {r \in States : value[r] # Absent} |-> value[s]]
  /\ UNCHANGED <<value, dirty, calls, readings, raw, differs, transit, sent, screen, actuator,
                 given, owed>>

SendInit ==
  /\ loading # Nothing
  /\ screen' = Update(screen, loading)
  /\ loading' = Nothing
  /\ UNCHANGED <<value, dirty, calls, readings, raw, differs, transit, sent, actuator,
                 given, owed, inputs>>

-----------------------------------------------------------------------------
OnStateChange(t) ==
  SkipEvent(t) \/ GetArgument(t) \/ StateEvent(t) \/ CommandEvent(t) \/ CommandThrows(t) \/ Return(t)

FilterLoop   == FilterPass \/ \E s \in Sensors : FilterCheck(s) \/ FilterSet(s)
TransmitLoop == TakeDirty \/ TransmitStates

Next ==
  \/ \E t \in Threads : \E w \in Writes[t] : Set(t, w[1], w[2])
  \/ \E s \in Sensors, v \in Values : SensorData(s, v)
  \/ \E t \in Setters : OnStateChange(t)
  \/ FilterLoop \/ TransmitLoop
  \/ LoadStates \/ SendInit

Spec == Init /\ [][Next]_vars

\* Every thread is scheduled; nothing forces messages or sensor data to come.
FairSpec ==
  /\ Spec
  /\ \A t \in Setters : WF_vars(OnStateChange(t))
  /\ WF_vars(FilterLoop) /\ WF_vars(TransmitLoop) /\ WF_vars(SendInit)

-----------------------------------------------------------------------------
TypeOK ==
  /\ value \in [States -> Values \cup {Absent}]
  /\ dirty \subseteq given /\ given \subseteq {s \in States : value[s] # Absent}
  /\ calls \in [Setters -> Seq(Frame)]
  /\ \A t \in Setters : \A k \in DOMAIN calls[t] :
       calls[t][k].next <= Len(Events[calls[t][k].state]) + 1
  /\ readings \in [Sensors -> Values]
  /\ DOMAIN raw \subseteq Sensors /\ raw \in [DOMAIN raw -> Values]
  /\ differs \subseteq DOMAIN raw
  /\ DOMAIN transit \subseteq States /\ transit \in [DOMAIN transit -> Values]
  /\ DOMAIN loading \subseteq States /\ loading \in [DOMAIN loading -> Values]
  /\ sent \in [States -> Values \cup {Absent}]
  /\ screen \in [States -> Values \cup {Absent}]
  /\ actuator \in [Commands -> Values \cup {Absent}]
  /\ owed = [s \in States |-> owed[s]]
  /\ \A s \in States : owed[s] \in [DOMAIN Events[s] -> Int]
  /\ inputs \in 0 .. MaxInputs

\* Call f still has to answer an edge of event i of s.
Owes(f, s, i) == f.state = s /\ i \in Due(f, f.next)

Waits(stacks, s, i) ==
  UNION {{<<t, k>> : k \in {j \in DOMAIN stacks[t] : Owes(stacks[t][j], s, i)}} : t \in Setters}

\* README 303-306: an event is triggered once when its state enters the trigger
\* range, whichever threads set the state and however their calls interleave:
\* every edge is either answered or still waiting in exactly one call.
EveryEdgeOnce ==
  \A s \in States : \A i \in DOMAIN Events[s] : owed[s][i] = Cardinality(Waits(calls, s, i))

\* A value that was set is never lost on its way to the web server: unless it is
\* still marked dirty it is on its way or in the last states message about it.
NeverLost ==
  \A s \in given \ dirty :
    value[s] = IF s \in DOMAIN transit THEN transit[s] ELSE sent[s]

\* The state of a sensor and the states messages come to hold its latest reading
\* and stay with it, whoever else set the state in between.
ReadingsShown ==
  \A s \in Sensors : <>[](value[s] = readings[s] /\ sent[s] = readings[s])
=============================================================================
