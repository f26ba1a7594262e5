------------------------------ MODULE CanCommands ------------------------------
(***************************************************************************)
(* Commands to a channel and its answers.  A command checks its parameters *)
(* and sends a request over the bus; the node executes the request and     *)
(* answers it; a receive thread takes the answer from the driver and shows *)
(* it as states.  SocketCAN is read by a thread that catches exceptions;   *)
(* Kvaser calls back into a queue that is emptied by a thread that does    *)
(* not.  The channel is of one of the types of ChannelTypes, or the node   *)
(* itself.  Values are in millionths.                                      *)
(***************************************************************************)
EXTENDS ChannelTypes

CONSTANTS Values,       \* parameters of commands, in millionths
          Low, High,    \* the least and the greatest value of int8, int16 and int32
          MaxExecuted,  \* bound: requests on the bus
          MaxStrays,    \* bound: frames that are no answer
          MaxLost       \* bound: frames the driver loses

ASSUME CommandsOK ==
  /\ Values \subseteq Int
  /\ \A type \in {"int8", "int16", "int32"} :
       Low[type] \in Int /\ High[type] \in Int /\ Low[type] <= 0 /\ 0 <= High[type]
  /\ MaxExecuted \in Nat /\ MaxStrays \in Nat /\ MaxLost \in Nat

VARIABLES
  driver,    \* "SocketCAN" or "Kvaser"
  type,      \* the channel's type
  subject,   \* bound: the one variable that the commands of a behaviour are about
  requests,  \* on the bus, to the node
  held,      \* the node's registers
  answers,   \* received by the driver, from the node
  queue,     \* CanKvaserReceiveThread::queue
  shown,     \* the states of the channel that were set
  alive,     \* the process runs
  target,    \* history: what each state was commanded to be, once the node knows it
  unheard,   \* history: states whose last answer was lost
  denied,    \* history: states a valid command could not be sent for
  refused,   \* history: answers that made the handler throw
  executed, strays, lost   \* bounds

vars == <<driver, type, subject, requests, held, answers, queue, shown, alive, target, unheard,
          denied, refused, executed, strays, lost>>

Channel == ChannelType[type]
NoStates == [n \in {} |-> 0]
Put(states, new) == [n \in DOMAIN states \cup DOMAIN new |->
  IF n \in DOMAIN new THEN new[n] ELSE states[n]]

Init ==
  /\ driver \in {"SocketCAN", "Kvaser"} /\ type \in DOMAIN ChannelType
  /\ subject \in DOMAIN Channel.variables
  /\ requests = <<>> /\ answers = <<>> /\ queue = <<>>
  /\ held = [id \in DOMAIN Channel.variables |-> 0]
  /\ shown = NoStates /\ target = NoStates /\ unheard = {}
  /\ alive = TRUE /\ denied = {} /\ refused = {}
  /\ executed = 0 /\ strays = 0 /\ lost = 0
-----------------------------------------------------------------------------
(* Scaling *)

(* The raw value of v is checked before its fraction is cut off. *)
Distance(v, scaling) == v - scaling[2]

\* Mutant: the range of the integer is not checked.
BugConvertible(v, param) == param.scaling # Missing

Convertible(v, param) ==
  /\ param.scaling # Missing
  /\ LET floor == Distance(v, param.scaling) \div param.scaling[1]
         exact == Distance(v, param.scaling) % param.scaling[1] = 0
     IN  /\ Low[param.type] <= floor
         /\ floor < High[param.type] \/ (floor = High[param.type] /\ exact)

\* Mutant: the offset is added on the way to the node as well.
BugScaleAndConvert(v, scaling) == (v + scaling[2]) \div scaling[1]

(* A conversion to an integer cuts off towards zero. *)
ScaleAndConvert(v, scaling) ==
  IF Distance(v, scaling) >= 0
    THEN Distance(v, scaling) \div scaling[1]
    ELSE -((-Distance(v, scaling)) \div scaling[1])

ScaleToDouble(raw, scaling) == raw * scaling[1] + scaling[2]
-----------------------------------------------------------------------------
(* A command, on any thread *)

(* The request to set a variable carries its raw value.  What it is meant  *)
(* for is history.                                                         *)
Request(command, params) ==
  [op |-> command.op, id |-> command.id,
   raw |-> IF command.op = "set" THEN ScaleAndConvert(params[1], command.params[1].scaling) ELSE 0,
   meant |-> IF command.op = "set" THEN Put(NoStates, [n \in {command.of} |-> params[1]])
             ELSE NoStates]

SendStandardCommand(command, params) ==
  /\ executed < MaxExecuted /\ executed' = executed + 1
  /\ requests' = Append(requests, Request(command, params))
  /\ UNCHANGED denied

(* With another number of parameters, or with a value that does not fit,   *)
(* the command throws and sends nothing.                                   *)
\* Mutant: the move of a servo takes one parameter.
BugAccepts(command, params) ==
  /\ Len(params) = (IF command.op = "move" THEN 1 ELSE Len(command.params))
  /\ \A i \in DOMAIN params : Convertible(params[i], command.params[i])

Accepts(command, params) ==
  /\ Len(params) = Len(command.params)
  /\ \A i \in DOMAIN params : Convertible(params[i], command.params[i])

(* A command is valid if it is called as its entry in the commandMap says, *)
(* with values that fit every scaling.                                     *)
Valid(command, params) ==
  /\ Len(params) = command.declared
  /\ \A i \in DOMAIN params \cap DOMAIN command.params :
       command.params[i].scaling = Missing \/ Convertible(params[i], command.params[i])

(* A command that is only tested sends nothing, and one whose frame the    *)
(* driver does not take throws: neither changes anything.                  *)
ExecuteCommand(command, params) ==
  /\ IF Accepts(command, params)
       THEN SendStandardCommand(command, params)
       ELSE /\ denied' = IF Valid(command, params) THEN denied \cup {command.of} ELSE denied
            /\ UNCHANGED <<requests, executed>>
  /\ UNCHANGED <<driver, type, subject, held, answers, queue, shown, alive, target, unheard,
                 refused, strays, lost>>

Execute ==
  \E command \in {c \in Channel.commands : c.id \in {subject, ""}} :
    \E n \in {1, command.declared} : \E params \in [1 .. n -> Values] :
      ExecuteCommand(command, params)
-----------------------------------------------------------------------------
(* The node, and the bus in front of it *)

Answer(request, registers) ==
  [op |-> request.op, id |-> request.id,
   raw |-> IF request.op \in {"set", "get"} THEN registers[request.id] ELSE 0,
   of |-> IF request.op \in {"set", "get"} THEN {Channel.variables[request.id]} ELSE {}]
Mute == {"speaker", "move"}

(* A servo that moves changes its position, and a reset all variables. *)
Node ==
  /\ requests # <<>>
  /\ requests' = Tail(requests)
  /\ LET r == Head(requests) IN
       /\ held' = CASE r.op = "set" -> [held EXCEPT ![r.id] = r.raw]
                    [] r.op = "reset" -> [id \in DOMAIN held |-> 0]
                    [] OTHER -> held
       /\ target' = CASE r.op = "set" -> Put(target, r.meant)
                      [] r.op = "reset" -> NoStates
                      [] r.op = "move" -> [n \in DOMAIN target \ {"Position", "TargetPosition"}
                                             |-> target[n]]
                      [] OTHER -> target
       /\ answers' = IF r.op \in Mute THEN answers ELSE Append(answers, Answer(r, held'))
       /\ unheard' = unheard \ Answer(r, held).of
  /\ UNCHANGED <<driver, type, subject, queue, shown, alive, denied, refused, executed, strays,
                 lost>>

(* Frames that are no answer of this node: of a node or a channel that is  *)
(* not known, without payload, or to another node.                         *)
Strays == {"unknownNode", "unknownChannel", "empty", "toNode"}

Stray ==
  /\ strays < MaxStrays /\ strays' = strays + 1
  /\ \E s \in Strays : answers' = Append(answers, [op |-> s, id |-> "", raw |-> 0, of |-> {}])
  /\ UNCHANGED <<driver, type, subject, requests, held, queue, shown, alive, target, unheard,
                 denied, refused, executed, lost>>

(* The driver or the hardware has no room for a frame. *)
Discard ==
  /\ lost < MaxLost /\ lost' = lost + 1
  /\ answers' = Tail(answers)
  /\ unheard' = unheard \cup {n \in Head(answers).of :
                                \A i \in 2 .. Len(answers) : n \notin answers[i].of}

Overrun ==
  /\ answers # <<>>
  /\ Discard
  /\ UNCHANGED <<driver, type, subject, requests, held, queue, shown, alive, target, denied,
                 refused, executed, strays>>
-----------------------------------------------------------------------------
(* Receiving *)

(* Kvaser calls back: frames with a payload are queued.  When the callback *)
(* reports an error or a change of the status, it reads a frame and drops  *)
(* it.                                                                     *)
OnCANCallback ==
  /\ driver = "Kvaser" /\ answers # <<>>
  /\ \/ /\ queue' = IF Head(answers).op = "empty" THEN queue ELSE Append(queue, Head(answers))
        /\ answers' = Tail(answers)
        /\ UNCHANGED <<unheard, lost>>
     \/ Discard /\ UNCHANGED queue
  /\ UNCHANGED <<driver, type, subject, requests, held, shown, alive, target, denied, refused,
                 executed, strays>>

(* A channel sets the state of the variable to its scaled value, or the    *)
(* states that mark the answer.  An answer without a case throws, and      *)
(* StatusResponse does in every channel.                                   *)
GetSetVariableResponse(a) ==
  LET name == Channel.variables[a.id]
  IN  [n \in {name} |-> ScaleToDouble(a.raw, Channel.scaling[name])]

\* Mutant: the case of the answer to a calibration is missing.
BugUnderstood(a) ==
  a.op \in {"set", "get", "toNode"} \cup (DOMAIN Channel.marks \ {"calibrate"})

Understood(a) == a.op \in {"set", "get", "toNode"} \cup DOMAIN Channel.marks

ProcessCANCommand(a) ==
  CASE a.op \in {"set", "get"} -> GetSetVariableResponse(a)
    [] a.op = "toNode" -> NoStates
    [] OTHER -> [n \in Channel.marks[a.op] |-> 1]

(* A frame to another node is passed on to the other buses, which may fail. *)
OnCANRecv(a) ==
  \/ /\ Understood(a)
     /\ shown' = Put(shown, ProcessCANCommand(a))
     /\ UNCHANGED <<alive, refused>>
  \/ /\ ~Understood(a) \/ a.op = "toNode"
     /\ refused' = refused \cup {a.op}
     /\ alive' = (driver = "SocketCAN")   \* nothing catches it in the thread of Kvaser
     /\ UNCHANGED shown

(* SocketCAN filters what is sent to the nodes. *)
SocketCANReceive ==
  /\ driver = "SocketCAN" /\ answers # <<>>
  /\ answers' = Tail(answers)
  /\ IF Head(answers).op = "toNode"
       THEN UNCHANGED <<shown, alive, refused>>
       ELSE OnCANRecv(Head(answers))
  /\ UNCHANGED <<driver, type, subject, requests, held, queue, target, unheard, denied, executed,
                 strays, lost>>

KvaserReceive ==
  /\ driver = "Kvaser" /\ queue # <<>>
  /\ queue' = Tail(queue)
  /\ OnCANRecv(Head(queue))
  /\ UNCHANGED <<driver, type, subject, requests, held, answers, target, unheard, denied, executed,
                 strays, lost>>

System ==
  \/ Execute
  \/ Node
  \/ Stray
  \/ Overrun
  \/ OnCANCallback
  \/ SocketCANReceive
  \/ KvaserReceive

Dead == ~alive /\ UNCHANGED vars

Next == (alive /\ System) \/ Dead

Spec == Init /\ [][Next]_vars
-----------------------------------------------------------------------------
Ops == (UNION {{c.op : c \in ChannelType[t].commands} : t \in DOMAIN ChannelType}) \cup Strays

TypeOK ==
  /\ driver \in {"SocketCAN", "Kvaser"} /\ type \in DOMAIN ChannelType
  /\ subject \in DOMAIN Channel.variables
  /\ \A r \in {requests[i] : i \in DOMAIN requests} : r.op \in Ops \ Strays
  /\ held \in [DOMAIN Channel.variables -> Low["int32"] .. High["int32"]]
  /\ \A a \in {(answers \o queue)[i] : i \in DOMAIN (answers \o queue)} :
       a.op \in Ops /\ a.raw \in Low["int32"] .. High["int32"]
  /\ driver = "SocketCAN" => queue = <<>>
  /\ DOMAIN target \subseteq Channel.states /\ unheard \subseteq Channel.states
  /\ refused \subseteq Ops
  /\ alive \in BOOLEAN
  /\ executed \in Nat /\ strays \in Nat /\ lost \in Nat

(* Once every request and answer has been handled, a state shows the value *)
(* it was commanded to last, but for less than one step of the integer on  *)
(* the bus, whatever the scaling of the variable, unless the driver lost   *)
(* the answer: the conversion to the node, the conversion back, and the    *)
(* tables of all types of channels agree with each other.                  *)
ShownIsCommanded ==
  requests = <<>> /\ answers = <<>> /\ queue = <<>> =>
    \A n \in DOMAIN target \ unheard :
      /\ n \in DOMAIN shown
      /\ shown[n] - target[n] < Channel.scaling[n][1]
      /\ target[n] - shown[n] < Channel.scaling[n][1]

(* The only answer to a command that is refused is that to a request for   *)
(* the status; other frames are refused when they concern nothing known.   *)
(* A refused frame ends the process with Kvaser and never with SocketCAN.  *)
(* An answer sets no state that the channel does not announce, except for  *)
(* ResetSettings.                                                          *)
AnswersAccepted ==
  /\ refused \subseteq {"status"} \cup Strays
  /\ "empty" \in refused => driver = "SocketCAN"
  /\ alive \/ (driver = "Kvaser" /\ refused # {})
  /\ DOMAIN shown \subseteq Channel.states \cup {"ResetSettings"}

(* A command that is called as the commandMap declares it, with values     *)
(* that fit, is sent.  Two are not: the setters of Rocket's                *)
(* StateRefreshDivider, whose scaling has another name, and of             *)
(* UARTEnabled, which takes no parameter.                                  *)
CommandsSent ==
  denied \subseteq
    CASE type = "Rocket" -> {"StateRefreshDivider"}
      [] type = "Generic" -> {"UARTEnabled"}
      [] OTHER -> {}
=============================================================================
