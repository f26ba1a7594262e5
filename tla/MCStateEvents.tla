---------------------------- MODULE MCStateEvents ----------------------------
(***************************************************************************)
(* Instances of StateEvents.  The mapping is that of README.md 272-324: a  *)
(* checkbox that opens and closes a valve, and a state that resets a gui   *)
(* state.                                                                  *)
(***************************************************************************)
EXTENDS StateEvents, TLC

CONSTANTS Listening, Receiving,                  \* threads
          Checkbox, Level, Status, Sensor,       \* states
          SetTargetPosition, RequestFlashClear   \* commands

On(trigger, triggerValue, kind, target, param) ==
  [trigger |-> trigger, triggerValue |-> triggerValue, kind |-> kind,
   target |-> target, param |-> param]

\* An unchecked box closes the valve, a checked one opens it; a status that is not
\* zero unchecks the box; a high sensor value raises the status.
Mapping ==
  (Checkbox :> <<On("==", 0, "command", SetTargetPosition, 0),
                 On("!=", 0, "command", SetTargetPosition, 1)>>) @@
  (Status   :> <<On("always", 0, "command", RequestFlashClear, Level),
                 On("!=", 0, "state", Checkbox, 0)>>) @@
  (Sensor   :> <<On(">=", 1, "state", Status, Sensor)>>) @@
  (Level    :> <<>>)

AllStates   == {Checkbox, Level, Status, Sensor}
AllCommands == {SetTargetPosition, RequestFlashClear}
Threads2    == {Listening, Receiving}
Written     == (Listening :> {Checkbox} \X Values) @@ (Receiving :> {<<Status, 1>>})
SensorOnly  == {Sensor}
Levels      == {Level}
MayFail     == {RequestFlashClear}
None        == {}

\* README 326-328: "when the checkbox gets pressed, the fuel main valve opens
\* completely. Otherwise the valve closes completely."  Once no change is being
\* handled the valve agrees with the box.
ValveFollowsCheckbox ==
  (\A t \in Setters : calls[t] = <<>>) /\ value[Checkbox] # Absent
    => actuator[SetTargetPosition] = value[Checkbox]

\* LLController.cpp 159: "send all states to initialize correctly".  After a
\* states-load the screen comes to show every state that was set.
InitShowsCurrent ==
  \A s \in States : <>[](s \in given => screen[s] = value[s])
=============================================================================
