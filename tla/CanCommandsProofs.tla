--------------------------- MODULE CanCommandsProofs ---------------------------
(***************************************************************************)
(* AnswersAccepted of CanCommands for any values, ranges and bounds.       *)
(*                                                                         *)
(* The argument has two halves.  Complete says of the tables of a type of  *)
(* channel that the type has a case for the answer to whatever it can      *)
(* request, and that its cases set states it announces; it is shown type   *)
(* by type.  CommandInv says that nothing else is on its way: requests are *)
(* made from the tables, answers repeat what was requested, and what the   *)
(* Kvaser driver must not hand on it does not queue.                       *)
(***************************************************************************)
EXTENDS CanCommands, TLAPS

\* Requests with an answer that sets a state.
OfVariables == {"set", "get"}

Complete(T) ==
  /\ \A c \in T.commands :
       /\ c.op \in OfVariables \cup Mute \cup {"status"} \cup DOMAIN T.marks
       /\ c.op \in OfVariables => c.id \in DOMAIN T.variables
  /\ \A op \in DOMAIN T.marks : T.marks[op] \subseteq T.states \cup {"ResetSettings"}
  /\ \A id \in DOMAIN T.variables : T.variables[id] \in T.states
-----------------------------------------------------------------------------
(* The tables *)

LEMMA NamesOf ==
  ASSUME NEW variables, NEW id \in DOMAIN variables
  PROVE  variables[id] \in Names(variables)
BY DEF Names

\* The setters and getters of some variables of a channel.
LEMMA BothComplete ==
  ASSUME NEW variables, NEW scaling, NEW ids \in SUBSET DOMAIN variables,
         NEW c \in Both(variables, scaling, ids)
  PROVE  c.op \in OfVariables /\ c.id \in DOMAIN variables
<1>1. CASE \E i \in ids : c = Setter(variables, scaling, i)
  BY <1>1 DEF Setter, Command, OfVariables
<1>2. CASE \E i \in ids : c = Getter(variables, i)
  BY <1>2 DEF Getter, Command, OfVariables
<1> QED BY <1>1, <1>2 DEF Both

LEMMA AllComplete ==
  ASSUME NEW variables, NEW scaling, NEW c \in All(variables, scaling)
  PROVE  c.op \in OfVariables /\ c.id \in DOMAIN variables
BY BothComplete DEF All

LEMMA PlainComplete ==
  ASSUME NEW ops, NEW c \in Plain(ops)
  PROVE  c.op \in ops
<1>1. PICK op \in ops : c = Command(op, "", "", 0, <<>>)
  BY DEF Plain
<1> QED BY <1>1 DEF Command

\* What has to be shown for one type.
LEMMA CompleteIf ==
  ASSUME NEW variables, NEW scaling, NEW commands, NEW marks, NEW others,
         \A c \in commands :
           /\ c.op \in OfVariables \cup Mute \cup {"status"} \cup DOMAIN marks
           /\ c.op \in OfVariables => c.id \in DOMAIN variables,
         \A op \in DOMAIN marks :
           marks[op] \subseteq Names(variables) \cup others \cup {"ResetSettings"}
  PROVE  Complete(Type(variables, scaling, commands, marks, others))
<1> DEFINE T == Type(variables, scaling, commands, marks, others)
<1>1. /\ T.variables = variables /\ T.commands = commands /\ T.marks = marks
      /\ T.states = Names(variables) \cup others
  BY DEF Type
<1> HIDE DEF T
<1>2. Complete(T)
  BY <1>1, NamesOf DEF Complete
<1> QED BY <1>2 DEF T

\* A type all of whose variables have a setter and a getter.
LEMMA RegularType ==
  ASSUME NEW variables, NEW scaling, NEW ops, NEW marks, NEW others,
         NEW commands, commands = All(variables, scaling) \cup Plain(ops),
         ops \subseteq {"status"} \cup DOMAIN marks, OfVariables \cap ops = {},
         \A op \in DOMAIN marks : marks[op] \subseteq others \cup {"ResetSettings"}
  PROVE  Complete(Type(variables, scaling, commands, marks, others))
<1>1. ASSUME NEW c \in commands
      PROVE  /\ c.op \in OfVariables \cup Mute \cup {"status"} \cup DOMAIN marks
             /\ c.op \in OfVariables => c.id \in DOMAIN variables
  <2>1. CASE c \in All(variables, scaling)
    BY <2>1, AllComplete
  <2>2. CASE c \in Plain(ops)
    BY <2>2, PlainComplete
  <2> QED BY <2>1, <2>2
<1> QED BY <1>1, CompleteIf

LEMMA MarksOf ==
  /\ DOMAIN ResetSettings = {"reset"} /\ ResetSettings["reset"] = {"ResetSettings"}
  /\ DOMAIN Calibrates = {"calibrate", "reset"}
  /\ Calibrates["calibrate"] = {"Calibrate"} /\ Calibrates["reset"] = {"ResetSettings"}
BY DEF ResetSettings, Calibrates

LEMMA SensorTypes ==
  Complete(ADC16) /\ Complete(ADC16Single) /\ Complete(ADC24) /\ Complete(IMU)
<1> DEFINE ops == {"calibrate", "status", "reset"}
           others == {"Calibrate", "RequestStatus", "ResetAllSettings"}
<1>1. /\ ops \subseteq {"status"} \cup DOMAIN Calibrates /\ OfVariables \cap ops = {}
      /\ \A op \in DOMAIN Calibrates : Calibrates[op] \subseteq others \cup {"ResetSettings"}
  BY MarksOf DEF OfVariables
<1>2. Complete(ADC16)
  BY <1>1, RegularType DEF ADC16, ADC16Commands, ADC16Marks
<1>3. Complete(ADC16Single)
  BY <1>1, RegularType DEF ADC16Single, ADC16SingleCommands, ADC16SingleMarks
<1>4. Complete(ADC24)
  BY <1>1, RegularType DEF ADC24, ADC24Commands, ADC24Marks
<1>5. Complete(IMU)
  BY <1>1, RegularType DEF IMU, IMUCommands, IMUMarks
<1> QED BY <1>2, <1>3, <1>4, <1>5

LEMMA ValueTypes == Complete(DATA32) /\ Complete(DigitalOut)
<1> DEFINE ops == {"status", "reset"}
           others == {"RequestStatus", "ResetAllSettings"}
<1>1. /\ ops \subseteq {"status"} \cup DOMAIN ResetSettings /\ OfVariables \cap ops = {}
      /\ \A op \in DOMAIN ResetSettings :
           ResetSettings[op] \subseteq others \cup {"ResetSettings"}
  BY MarksOf DEF OfVariables
<1>2. Complete(DATA32)
  BY <1>1, RegularType DEF DATA32, DATA32Commands, DATA32Marks
<1>3. Complete(DigitalOut)
  BY <1>1, RegularType DEF DigitalOut, DigitalOutCommands, DigitalOutMarks
<1> QED BY <1>2, <1>3

LEMMA ServoComplete == Complete(Servo)
<1> DEFINE commands == ServoPositions \cup ServoLimits \cup ServoSetUp \cup ServoRequests
<1>1. \A c \in ServoPositions \cup ServoLimits \cup ServoSetUp :
        c.op \in OfVariables /\ c.id \in DOMAIN ServoVariables
  <2>1. /\ {"POSITION", "POSITION_RAW", "TARGET_POSITION", "TARGET_PRESSURE", "MAX_SPEED"}
             \subseteq DOMAIN ServoVariables
        /\ {"MAX_ACCEL", "MAX_TORQUE", "P_PARAM", "I_PARAM", "D_PARAM"}
             \subseteq DOMAIN ServoVariables
        /\ {"SENSOR_CHANNEL_ID", "POSITION_STARTPOINT", "POSITION_ENDPOINT", "PWM_ENABLED",
            "SENSOR_REFRESH_DIVIDER"} \subseteq DOMAIN ServoVariables
    BY DEF ServoVariables
  <2> QED BY <2>1, BothComplete DEF ServoPositions, ServoLimits, ServoSetUp
<1>2. \A c \in ServoRequests : c.op \in {"status", "reset", "move"}
  <2> SUFFICES ASSUME NEW c \in ServoRequests PROVE c.op \in {"status", "reset", "move"}
    OBVIOUS
  <2>1. CASE c \in Plain({"status", "reset"})
    BY <2>1, PlainComplete
  <2>2. CASE c = Command("move", "", "", 2, <<Int32Param(Unit), Int32Param(Unit)>>)
    BY <2>2 DEF Command
  <2> QED BY <2>1, <2>2 DEF ServoRequests
<1>3. /\ {"status", "reset", "move"} \subseteq Mute \cup {"status"} \cup DOMAIN ServoMarks
      /\ OfVariables \cap {"status", "reset", "move"} = {}
  BY MarksOf DEF ServoMarks, Mute, OfVariables
<1>4. \A c \in commands :
        /\ c.op \in OfVariables \cup Mute \cup {"status"} \cup DOMAIN ServoMarks
        /\ c.op \in OfVariables => c.id \in DOMAIN ServoVariables
  BY <1>1, <1>2, <1>3
<1> HIDE DEF commands
<1>5. \A op \in DOMAIN ServoMarks : ServoMarks[op] = {"ResetSettings"}
  BY MarksOf DEF ServoMarks
<1>6. Complete(Type(ServoVariables, ServoScaling, commands, ServoMarks,
                    {"RequestStatus", "ResetAllSettings"}))
  BY <1>4, <1>5, CompleteIf
<1> QED BY <1>6 DEF commands, Servo

LEMMA ValveComplete == Complete(PneumaticValve)
<1> DEFINE commands == ValvePositions \cup ValveChannels \cup Plain({"status", "reset"})
<1>1. \A c \in ValvePositions \cup ValveChannels :
        c.op \in OfVariables /\ c.id \in DOMAIN PneumaticValveVariables
  <2>1. /\ {"VALVE_ENABLED", "POSITION", "TARGET_POSITION", "THRESHOLD", "HYSTERESIS"}
             \subseteq DOMAIN PneumaticValveVariables
        /\ {"ON_CHANNEL_ID", "OFF_CHANNEL_ID", "POS_CHANNEL_ID", "POS_REFRESH_DIVIDER"}
             \subseteq DOMAIN PneumaticValveVariables
    BY DEF PneumaticValveVariables
  <2> QED BY <2>1, BothComplete DEF ValvePositions, ValveChannels
<1>2. /\ {"status", "reset"} \subseteq Mute \cup {"status"} \cup DOMAIN PneumaticValveMarks
      /\ OfVariables \cap {"status", "reset"} = {}
  BY MarksOf DEF PneumaticValveMarks, OfVariables
<1>3. \A c \in commands :
        /\ c.op \in OfVariables \cup Mute \cup {"status"} \cup DOMAIN PneumaticValveMarks
        /\ c.op \in OfVariables => c.id \in DOMAIN PneumaticValveVariables
  BY <1>1, <1>2, PlainComplete
<1> HIDE DEF commands
<1>4. \A op \in DOMAIN PneumaticValveMarks : PneumaticValveMarks[op] = {"ResetSettings"}
  BY MarksOf DEF PneumaticValveMarks
<1>5. Complete(Type(PneumaticValveVariables, Unscaled(PneumaticValveVariables), commands,
                    PneumaticValveMarks, {"RequestStatus", "ResetAllSettings"}))
  BY <1>3, <1>4, CompleteIf
<1> QED BY <1>5 DEF commands, PneumaticValve

LEMMA ControlComplete == Complete(Control)
<1> DEFINE commands == ControlTargets \cup ControlChannels \cup Plain({"status", "reset"})
<1>1. \A c \in ControlTargets \cup ControlChannels :
        c.op \in OfVariables /\ c.id \in DOMAIN ControlVariables
  <2>1. /\ {"CONTROL_ENABLED", "TARGET", "THRESHOLD", "HYSTERESIS"}
             \subseteq DOMAIN ControlVariables
        /\ {"ACTUATOR_CHANNEL_ID", "SENSOR_CHANNEL_ID", "REFRESH_DIVIDER"}
             \subseteq DOMAIN ControlVariables
    BY DEF ControlVariables
  <2> QED BY <2>1, BothComplete DEF ControlTargets, ControlChannels
<1>2. /\ {"status", "reset"} \subseteq Mute \cup {"status"} \cup DOMAIN ControlMarks
      /\ OfVariables \cap {"status", "reset"} = {}
  BY MarksOf DEF ControlMarks, OfVariables
<1>3. \A c \in commands :
        /\ c.op \in OfVariables \cup Mute \cup {"status"} \cup DOMAIN ControlMarks
        /\ c.op \in OfVariables => c.id \in DOMAIN ControlVariables
  BY <1>1, <1>2, PlainComplete
<1> HIDE DEF commands
<1>4. \A op \in DOMAIN ControlMarks : ControlMarks[op] = {"ResetSettings"}
  BY MarksOf DEF ControlMarks
<1>5. Complete(Type(ControlVariables, ControlScaling, commands, ControlMarks,
                    {"RequestStatus", "ResetAllSettings"}))
  BY <1>3, <1>4, CompleteIf
<1> QED BY <1>5 DEF commands, Control

LEMMA PIControlComplete == Complete(PIControl)
<1> DEFINE commands == PIControlGains \cup PIControlSensor \cup PIControlChannels
<1>1. \A c \in commands :
        \/ c.op \in OfVariables /\ c.id \in DOMAIN PIControlVariables
        \/ c \in Plain({"status", "reset"})
  <2>1. /\ {"PI_CONTROL_ENABLED", "TARGET", "P_POS", "I_POS", "P_NEG"}
             \subseteq DOMAIN PIControlVariables
        /\ {"I_NEG", "SENSOR_SLOPE", "SENSOR_OFFSET", "OPERATING_POINT", "ACTUATOR_CHANNEL_ID"}
             \subseteq DOMAIN PIControlVariables
        /\ {"SENSOR_CHANNEL_ID", "REFRESH_DIVIDER"} \subseteq DOMAIN PIControlVariables
    BY DEF PIControlVariables
  <2> QED BY <2>1, BothComplete DEF PIControlGains, PIControlSensor, PIControlChannels
<1>2. /\ {"status", "reset"} \subseteq Mute \cup {"status"} \cup DOMAIN PIControlMarks
      /\ OfVariables \cap {"status", "reset"} = {}
  BY MarksOf DEF PIControlMarks, OfVariables
<1> HIDE DEF commands
<1>3. \A c \in commands :
        /\ c.op \in OfVariables \cup Mute \cup {"status"} \cup DOMAIN PIControlMarks
        /\ c.op \in OfVariables => c.id \in DOMAIN PIControlVariables
  BY <1>1, <1>2, PlainComplete
<1>4. \A op \in DOMAIN PIControlMarks : PIControlMarks[op] = {"ResetSettings"}
  BY MarksOf DEF PIControlMarks
<1>5. Complete(Type(PIControlVariables, PIControlScaling, commands, PIControlMarks,
                    {"RequestStatus", "ResetAllSettings"}))
  BY <1>3, <1>4, CompleteIf
<1> QED BY <1>5 DEF commands, PIControl

LEMMA RocketComplete == Complete(Rocket)
<1> DEFINE commands == RocketPressures \cup RocketStates \cup RocketDivider
           plain == {"getState", "internalControl", "abort", "endOfFlight", "autoCheck"}
           others == {"State", "StateStatus", "InternalControl", "Abort", "EndOfFlight",
                      "AutoCheck", "RequestStatus", "ResetAllSettings"}
<1>1. ASSUME NEW c \in RocketPressures
      PROVE  c.op \in OfVariables /\ c.id \in DOMAIN RocketVariables
  <2>1. {"MINIMUM_CHAMBER_PRESSURE", "MINIMUM_FUEL_PRESSURE", "MINIMUM_OX_PRESSURE",
         "HOLDDOWN_TIMEOUT"} \subseteq DOMAIN RocketVariables
    BY DEF RocketVariables
  <2> QED BY <2>1, BothComplete DEF RocketPressures
<1>2. ASSUME NEW c \in RocketStates PROVE c.op \in plain \cup {"setState"}
  <2>1. CASE c \in Plain(plain)
    BY <2>1, PlainComplete
  <2>2. CASE c = Command("setState", "", "", 1, <<Int32Param(Unit)>>)
    BY <2>2 DEF Command
  <2> QED BY <2>1, <2>2 DEF RocketStates
<1>3. ASSUME NEW c \in RocketDivider
      PROVE  \/ c.op \in OfVariables /\ c.id \in DOMAIN RocketVariables
             \/ c.op \in {"status", "reset"}
  <2>1. CASE c \in Plain({"status", "reset"})
    BY <2>1, PlainComplete
  <2>2. "STATE_REFRESH_DIVIDER" \in DOMAIN RocketVariables
    BY DEF RocketVariables
  <2>3. CASE c = Command("set", "STATE_REFRESH_DIVIDER", "StateRefreshDivider", 1,
                         <<Int32Param(LookUp(RocketScaling, "RefreshDivider"))>>)
    BY <2>2, <2>3 DEF Command, OfVariables
  <2>4. CASE c = Getter(RocketVariables, "STATE_REFRESH_DIVIDER")
    BY <2>2, <2>4 DEF Getter, Command, OfVariables
  <2> QED BY <2>1, <2>3, <2>4 DEF RocketDivider
<1>4. DOMAIN RocketMarks = plain \cup {"setState", "reset"}
  BY DEF RocketMarks
<1>5. /\ RocketMarks["getState"] = {"State", "StateStatus"}
      /\ RocketMarks["setState"] = {"State", "StateStatus"}
      /\ RocketMarks["internalControl"] = {"InternalControl"}
      /\ RocketMarks["abort"] = {"Abort"} /\ RocketMarks["endOfFlight"] = {"EndOfFlight"}
      /\ RocketMarks["autoCheck"] = {"AutoCheck"}
      /\ RocketMarks["reset"] = {"ResetSettings"}
  BY DEF RocketMarks
<1>6. \A op \in DOMAIN RocketMarks : RocketMarks[op] \subseteq others \cup {"ResetSettings"}
  BY <1>4, <1>5
<1>7. \A c \in commands :
        /\ c.op \in OfVariables \cup Mute \cup {"status"} \cup DOMAIN RocketMarks
        /\ c.op \in OfVariables => c.id \in DOMAIN RocketVariables
  BY <1>1, <1>2, <1>3, <1>4 DEF OfVariables
<1> HIDE DEF commands, others
<1>8. Complete(Type(RocketVariables, RocketScaling, commands, RocketMarks, others))
  BY <1>6, <1>7, CompleteIf
<1> QED BY <1>8 DEF commands, others, Rocket

LEMMA GenericComplete == Complete(Generic)
<1> DEFINE commands == GenericPower \cup GenericEnabled \cup GenericRequests
           plain == {"data", "status", "flashClear", "reset"}
           others == {"ResetAllSettings", "FlashStatus"}
<1>1. ASSUME NEW c \in GenericPower
      PROVE  c.op \in OfVariables /\ c.id \in DOMAIN GenericVariables
  <2>1. {"BUS1_VOLTAGE", "BUS2_VOLTAGE", "PWR_VOLTAGE", "PWR_CURRENT", "REFRESH_DIVIDER",
         "REFRESH_RATE"} \subseteq DOMAIN GenericVariables
    BY DEF GenericVariables
  <2> QED BY <2>1, BothComplete DEF GenericPower
<1>2. ASSUME NEW c \in GenericEnabled
      PROVE  c.op \in OfVariables /\ c.id \in DOMAIN GenericVariables
  <2>1. {"LOGGING_ENABLED", "LORA_ENABLED", "UART_ENABLED"} \subseteq DOMAIN GenericVariables
    BY DEF GenericVariables
  <2>2. CASE c \in Both(GenericVariables, Unscaled(GenericVariables),
                        {"LOGGING_ENABLED", "LORA_ENABLED"})
    BY <2>1, <2>2, BothComplete
  <2>3. CASE c = Command("get", "UART_ENABLED", "UARTEnabled", 1, <<>>)
    BY <2>1, <2>3 DEF Command, OfVariables
  <2>4. CASE c = Getter(GenericVariables, "UART_ENABLED")
    BY <2>1, <2>4 DEF Getter, Command, OfVariables
  <2> QED BY <2>2, <2>3, <2>4 DEF GenericEnabled
<1>3. ASSUME NEW c \in GenericRequests PROVE c.op \in plain \cup {"speaker"}
  <2>1. CASE c \in Plain(plain)
    BY <2>1, PlainComplete
  <2>2. CASE c = Speaker
    BY <2>2 DEF Speaker, Command
  <2> QED BY <2>1, <2>2 DEF GenericRequests
<1>4. DOMAIN GenericMarks = {"flashClear", "reset", "data"}
  BY DEF GenericMarks
<1>5. /\ GenericMarks["flashClear"] = {"FlashStatus"}
      /\ GenericMarks["reset"] = {"ResetAllSettings"} /\ GenericMarks["data"] = {}
  BY DEF GenericMarks
<1>6. \A op \in DOMAIN GenericMarks : GenericMarks[op] \subseteq others
  BY <1>4, <1>5
<1>7. \A c \in commands :
        /\ c.op \in OfVariables \cup Mute \cup {"status"} \cup DOMAIN GenericMarks
        /\ c.op \in OfVariables => c.id \in DOMAIN GenericVariables
  BY <1>1, <1>2, <1>3, <1>4 DEF OfVariables, Mute
<1> HIDE DEF commands, others
<1>8. Complete(Type(GenericVariables, Unscaled(GenericVariables), commands, GenericMarks, others))
  BY <1>6, <1>7, CompleteIf
<1> QED BY <1>8 DEF commands, others, Generic

\* The tables of every type of channel.
LEMMA TablesComplete == \A t \in DOMAIN ChannelType : Complete(ChannelType[t])
<1>1. DOMAIN ChannelType =
        {"ADC16", "ADC16Single", "ADC24", "DATA32", "DigitalOut", "Servo", "PneumaticValve",
         "Control", "PIControl", "IMU", "Rocket", "Generic"}
  BY DEF ChannelType
<1>2. /\ ChannelType["ADC16"] = ADC16 /\ ChannelType["ADC16Single"] = ADC16Single
      /\ ChannelType["ADC24"] = ADC24 /\ ChannelType["DATA32"] = DATA32
      /\ ChannelType["DigitalOut"] = DigitalOut /\ ChannelType["Servo"] = Servo
      /\ ChannelType["PneumaticValve"] = PneumaticValve /\ ChannelType["Control"] = Control
      /\ ChannelType["PIControl"] = PIControl /\ ChannelType["IMU"] = IMU
      /\ ChannelType["Rocket"] = Rocket /\ ChannelType["Generic"] = Generic
  BY DEF ChannelType
<1> QED BY <1>1, <1>2, SensorTypes, ValueTypes, ServoComplete, ValveComplete, ControlComplete,
           PIControlComplete, RocketComplete, GenericComplete
-----------------------------------------------------------------------------
(* What is on its way *)

\* What the commands of the channel request, with the parameters Execute tries.
Lengths == {1} \cup {c.declared : c \in Channel.commands}
Requested ==
  {Request(c, p) : c \in Channel.commands, p \in UNION {[1 .. n -> Values] : n \in Lengths}}
Raws == {0} \cup {r.raw : r \in Requested}
IdsOf == {""} \cup {r.id : r \in Requested}

\* What the node answers, or comes from elsewhere.
AnswerOps == OfVariables \cup {"status"} \cup DOMAIN Channel.marks \cup Strays
Answered ==
  {a \in [op : AnswerOps, id : IdsOf, raw : Raws, of : SUBSET Names(Channel.variables)] :
     a.op \in OfVariables => a.id \in DOMAIN Channel.variables}
Queued == {a \in Answered : a.op # "empty"}

OnTheWay ==
  /\ requests \in Seq(Requested) /\ answers \in Seq(Answered) /\ queue \in Seq(Queued)
  /\ held \in [DOMAIN Channel.variables -> Raws]

CommandInv ==
  /\ type \in DOMAIN ChannelType /\ driver \in {"SocketCAN", "Kvaser"}
  /\ OnTheWay
  /\ AnswersAccepted

\* The type of the channel never changes, and all of this with it.
LEMMA SameType ==
  ASSUME type' = type
  PROVE  Requested' = Requested /\ Raws' = Raws /\ Answered' = Answered /\ Queued' = Queued
         /\ Channel' = Channel
<1>1. Channel' = Channel
  BY DEF Channel
<1>2. Lengths' = Lengths
  BY <1>1 DEF Lengths
<1>3. Requested' = Requested
  BY <1>1, <1>2 DEF Requested
<1>4. Raws' = Raws /\ IdsOf' = IdsOf
  BY <1>3 DEF Raws, IdsOf
<1>5. AnswerOps' = AnswerOps
  BY <1>1 DEF AnswerOps
<1>6. Answered' = Answered
  BY <1>1, <1>4, <1>5 DEF Answered
<1>7. Queued' = Queued
  BY <1>6 DEF Queued
<1> QED BY <1>1, <1>3, <1>4, <1>6, <1>7

LEMMA RequestOps ==
  ASSUME type \in DOMAIN ChannelType, NEW r \in Requested
  PROVE  /\ r.op \in OfVariables \cup Mute \cup {"status"} \cup DOMAIN Channel.marks
         /\ r.op \in OfVariables => r.id \in DOMAIN Channel.variables
         /\ r.raw \in Raws /\ r.id \in IdsOf
<1>1. PICK c \in Channel.commands, p \in UNION {[1 .. n -> Values] : n \in Lengths} :
        r = Request(c, p)
  BY DEF Requested
<1>2. r.op = c.op /\ r.id = c.id
  BY <1>1 DEF Request
<1>3. Complete(Channel)
  BY TablesComplete DEF Channel
<1> QED BY <1>2, <1>3 DEF Complete, Raws, IdsOf

LEMMA CommandInit == Init => CommandInv
<1> SUFFICES ASSUME Init PROVE CommandInv
  OBVIOUS
<1>1. type \in DOMAIN ChannelType /\ driver \in {"SocketCAN", "Kvaser"}
  BY DEF Init
<1>2. 0 \in Raws
  BY DEF Raws
<1>3. OnTheWay
  BY <1>2 DEF Init, OnTheWay
<1>4. DOMAIN shown = {}
  BY DEF Init, NoStates
<1>5. AnswersAccepted
  BY <1>4 DEF Init, AnswersAccepted
<1> QED BY <1>1, <1>3, <1>5 DEF CommandInv

\* A command puts a request on the bus or nothing.
LEMMA CommandSends ==
  ASSUME CommandInv, Execute
  PROVE  CommandInv'
<1>1. PICK c \in Channel.commands, p \in UNION {[1 .. n -> Values] : n \in Lengths} :
        ExecuteCommand(c, p)
  BY DEF Execute, Lengths
<1>2. Request(c, p) \in Requested
  BY DEF Requested
<1>3. requests' = requests \/ requests' = Append(requests, Request(c, p))
  BY <1>1 DEF ExecuteCommand, SendStandardCommand
<1>4. requests' \in Seq(Requested)
  <2>1. requests \in Seq(Requested)
    BY DEF CommandInv, OnTheWay
  <2> DEFINE r == Request(c, p)
  <2>2. r \in Requested /\ (requests' = requests \/ requests' = Append(requests, r))
    BY <1>2, <1>3
  <2> HIDE DEF r
  <2>3. CASE requests' = requests
    BY <2>1, <2>3
  <2>4. CASE requests' = Append(requests, r)
    BY <2>1, <2>2, <2>4
  <2> QED BY <2>2, <2>3, <2>4
<1>5. UNCHANGED <<driver, type, held, answers, queue, shown, alive, refused>>
  BY <1>1 DEF ExecuteCommand
<1>6. OnTheWay'
  BY <1>4, <1>5, SameType DEF CommandInv, OnTheWay
<1>7. AnswersAccepted'
  BY <1>5, SameType DEF CommandInv, AnswersAccepted
<1> QED BY <1>5, <1>6, <1>7 DEF CommandInv

\* The node answers what it was asked for.
LEMMA NodeAnswers ==
  ASSUME CommandInv, Node
  PROVE  CommandInv'
<1> DEFINE r == Head(requests)
<1>1. r \in Requested /\ requests' = Tail(requests) /\ requests' \in Seq(Requested)
  BY DEF Node, CommandInv, OnTheWay
<1>2. UNCHANGED <<driver, type, queue, shown, alive, refused>>
  BY DEF Node
<1>3. /\ r.op \in OfVariables \cup Mute \cup {"status"} \cup DOMAIN Channel.marks
      /\ r.op \in OfVariables => r.id \in DOMAIN Channel.variables
      /\ r.raw \in Raws /\ r.id \in IdsOf
  BY <1>1, RequestOps DEF CommandInv
<1>4. 0 \in Raws
  BY DEF Raws
<1>5. /\ held' = CASE r.op = "set" -> [held EXCEPT ![r.id] = r.raw]
                   [] r.op = "reset" -> [id \in DOMAIN held |-> 0]
                   [] OTHER -> held
      /\ answers' = IF r.op \in Mute THEN answers ELSE Append(answers, Answer(r, held'))
  BY DEF Node
<1>6. held \in [DOMAIN Channel.variables -> Raws] /\ answers \in Seq(Answered)
  BY DEF CommandInv, OnTheWay
<1> HIDE DEF r
<1>7. held' \in [DOMAIN Channel.variables -> Raws]
  <2>1. CASE r.op = "set"
    BY <1>3, <1>5, <1>6, <2>1
  <2>2. CASE r.op = "reset"
    BY <1>4, <1>5, <1>6, <2>2
  <2>3. CASE r.op # "set" /\ r.op # "reset"
    BY <1>5, <1>6, <2>3
  <2> QED BY <2>1, <2>2, <2>3
<1>8. ASSUME r.op \notin Mute PROVE Answer(r, held') \in Answered
  <2> DEFINE a == Answer(r, held')
  <2>1. a = [op |-> r.op, id |-> r.id, raw |-> a.raw, of |-> a.of]
    BY DEF Answer
  <2>2. r.op \in AnswerOps
    BY <1>3, <1>8 DEF AnswerOps
  <2>3. a.raw \in Raws /\ a.of \in SUBSET Names(Channel.variables)
    <3>1. CASE r.op \in OfVariables
      BY <1>3, <1>7, <3>1, NamesOf DEF Answer, OfVariables
    <3>2. CASE r.op \notin OfVariables
      BY <1>4, <3>2 DEF Answer, OfVariables
    <3> QED BY <3>1, <3>2
  <2> HIDE DEF a
  <2>4. a \in [op : AnswerOps, id : IdsOf, raw : Raws, of : SUBSET Names(Channel.variables)]
    BY <1>3, <2>1, <2>2, <2>3
  <2>5. a.op \in OfVariables => a.id \in DOMAIN Channel.variables
    BY <1>3, <2>1
  <2>6. a \in Answered
    BY <2>4, <2>5 DEF Answered
  <2> QED BY <2>6 DEF a
<1>9. answers' \in Seq(Answered)
  BY <1>5, <1>6, <1>8
<1>10. OnTheWay'
  BY <1>1, <1>2, <1>7, <1>9, SameType DEF CommandInv, OnTheWay
<1>11. AnswersAccepted'
  BY <1>2, SameType DEF CommandInv, AnswersAccepted
<1> QED BY <1>2, <1>10, <1>11 DEF CommandInv

LEMMA StrayArrives ==
  ASSUME CommandInv, Stray
  PROVE  CommandInv'
<1>1. PICK s \in Strays : answers' = Append(answers, [op |-> s, id |-> "", raw |-> 0, of |-> {}])
  BY DEF Stray
<1> DEFINE a == [op |-> s, id |-> "", raw |-> 0, of |-> {}]
<1>2. a \in Answered
  <2>1. s \in AnswerOps /\ "" \in IdsOf /\ 0 \in Raws /\ {} \in SUBSET Names(Channel.variables)
    BY DEF AnswerOps, IdsOf, Raws
  <2>2. s \notin OfVariables
    BY DEF Strays, OfVariables
  <2> QED BY <2>1, <2>2 DEF Answered
<1>3. UNCHANGED <<driver, type, requests, held, queue, shown, alive, refused>>
  BY DEF Stray
<1>4. answers \in Seq(Answered) /\ answers' = Append(answers, a)
  BY <1>1 DEF CommandInv, OnTheWay
<1> HIDE DEF a
<1>5. answers' \in Seq(Answered)
  BY <1>2, <1>4
<1>6. OnTheWay'
  BY <1>3, <1>5, SameType DEF CommandInv, OnTheWay
<1>7. AnswersAccepted'
  BY <1>3, SameType DEF CommandInv, AnswersAccepted
<1> QED BY <1>3, <1>6, <1>7 DEF CommandInv

\* A frame is lost, or goes into the queue of the Kvaser driver.
LEMMA FrameMoves ==
  ASSUME CommandInv, Overrun \/ OnCANCallback
  PROVE  CommandInv'
<1>1. UNCHANGED <<driver, type, requests, held, shown, alive, refused>> /\ answers # <<>>
  BY DEF Overrun, OnCANCallback
<1>2. answers \in Seq(Answered) /\ queue \in Seq(Queued)
  BY DEF CommandInv, OnTheWay
<1>3. answers' = Tail(answers)
  BY DEF Overrun, OnCANCallback, Discard
<1>4. answers' \in Seq(Answered) /\ Head(answers) \in Answered
  BY <1>1, <1>2, <1>3
<1>5. queue' = queue \/ (Head(answers).op # "empty" /\ queue' = Append(queue, Head(answers)))
  BY DEF Overrun, OnCANCallback
<1>6. queue' \in Seq(Queued)
  <2>1. CASE queue' = queue
    BY <1>2, <2>1
  <2>2. CASE Head(answers).op # "empty" /\ queue' = Append(queue, Head(answers))
    <3> DEFINE a == Head(answers)
    <3>1. a \in Queued /\ queue' = Append(queue, a)
      BY <1>4, <2>2 DEF Queued
    <3> HIDE DEF a
    <3> QED BY <1>2, <3>1
  <2> QED BY <1>5, <2>1, <2>2
<1>7. OnTheWay'
  BY <1>1, <1>4, <1>6, SameType DEF CommandInv, OnTheWay
<1>8. AnswersAccepted'
  BY <1>1, SameType DEF CommandInv, AnswersAccepted
<1> QED BY <1>1, <1>7, <1>8 DEF CommandInv

\* What is shown and what is refused of a frame that is handled.
LEMMA Handled ==
  ASSUME CommandInv, type' = type, driver' = driver, NEW a \in Answered, OnCANRecv(a),
         a.op = "empty" => driver = "SocketCAN"
  PROVE  AnswersAccepted'
<1>1. /\ a.op \in OfVariables \cup {"status"} \cup DOMAIN Channel.marks \cup Strays
      /\ a.op \in OfVariables => a.id \in DOMAIN Channel.variables
  BY DEF Answered, AnswerOps
<1>2. Complete(Channel)
  BY TablesComplete DEF CommandInv, Channel
<1>3. CASE /\ Understood(a) /\ shown' = Put(shown, ProcessCANCommand(a))
           /\ UNCHANGED <<alive, refused>>
  <2>1. DOMAIN ProcessCANCommand(a) \subseteq Channel.states \cup {"ResetSettings"}
    <3>1. CASE a.op \in {"set", "get"}
      <4>1. Channel.variables[a.id] \in Channel.states
        BY <1>1, <1>2, <3>1 DEF Complete, OfVariables
      <4>2. ProcessCANCommand(a) = GetSetVariableResponse(a)
        BY <3>1 DEF ProcessCANCommand
      <4>3. DOMAIN GetSetVariableResponse(a) = {Channel.variables[a.id]}
        BY DEF GetSetVariableResponse
      <4> QED BY <4>1, <4>2, <4>3
    <3>2. CASE a.op = "toNode"
      <4>1. ProcessCANCommand(a) = NoStates
        BY <3>2 DEF ProcessCANCommand
      <4> QED BY <4>1 DEF NoStates
    <3>3. CASE a.op \notin {"set", "get", "toNode"}
      <4>1. a.op \in DOMAIN Channel.marks
        BY <1>3, <3>3 DEF Understood
      <4>2. ProcessCANCommand(a) = [n \in Channel.marks[a.op] |-> 1]
        BY <3>3 DEF ProcessCANCommand
      <4> QED BY <1>2, <4>1, <4>2 DEF Complete
    <3> QED BY <3>1, <3>2, <3>3
  <2>2. DOMAIN shown' = DOMAIN shown \cup DOMAIN ProcessCANCommand(a)
    BY <1>3 DEF Put
  <2> QED BY <1>3, <2>1, <2>2, SameType DEF CommandInv, AnswersAccepted
<1>4. CASE /\ ~Understood(a) \/ a.op = "toNode"
           /\ refused' = refused \cup {a.op}
           /\ alive' = (driver = "SocketCAN")
           /\ UNCHANGED shown
  <2>1. a.op \in {"status"} \cup Strays
    BY <1>1, <1>4 DEF Understood, OfVariables, Strays
  <2>2. alive' \/ driver = "Kvaser"
    BY <1>4 DEF CommandInv
  <2> QED BY <1>4, <2>1, <2>2, SameType DEF CommandInv, AnswersAccepted
<1> QED BY <1>3, <1>4 DEF OnCANRecv

LEMMA FrameReceived ==
  ASSUME CommandInv, SocketCANReceive \/ KvaserReceive
  PROVE  CommandInv'
<1>1. UNCHANGED <<driver, type, requests, held>>
  BY DEF SocketCANReceive, KvaserReceive
<1>2. answers \in Seq(Answered) /\ queue \in Seq(Queued)
  BY DEF CommandInv, OnTheWay
<1>3. CASE SocketCANReceive
  <2>1. /\ driver = "SocketCAN" /\ answers # <<>> /\ answers' = Tail(answers) /\ queue' = queue
    BY <1>3 DEF SocketCANReceive
  <2>2. answers' \in Seq(Answered) /\ Head(answers) \in Answered
    BY <1>2, <2>1
  <2>3. AnswersAccepted'
    <3>1. CASE UNCHANGED <<shown, alive, refused>>
      BY <1>1, <3>1, SameType DEF CommandInv, AnswersAccepted
    <3>2. CASE OnCANRecv(Head(answers))
      BY <1>1, <2>1, <2>2, <3>2, Handled
    <3> QED BY <1>3, <3>1, <3>2 DEF SocketCANReceive
  <2>4. OnTheWay'
    BY <1>1, <2>1, <2>2, SameType DEF CommandInv, OnTheWay
  <2> QED BY <1>1, <2>3, <2>4 DEF CommandInv
<1>4. CASE KvaserReceive
  <2>1. /\ queue # <<>> /\ queue' = Tail(queue) /\ OnCANRecv(Head(queue)) /\ answers' = answers
    BY <1>4 DEF KvaserReceive
  <2>2. queue' \in Seq(Queued) /\ Head(queue) \in Queued
    BY <1>2, <2>1
  <2>3. Head(queue) \in Answered /\ Head(queue).op # "empty"
    BY <2>2 DEF Queued
  <2>4. AnswersAccepted'
    BY <1>1, <2>1, <2>3, Handled
  <2>5. OnTheWay'
    BY <1>1, <2>1, <2>2, SameType DEF CommandInv, OnTheWay
  <2> QED BY <1>1, <2>4, <2>5 DEF CommandInv
<1> QED BY <1>3, <1>4

LEMMA CommandStep == CommandInv /\ [Next]_vars => CommandInv'
<1> SUFFICES ASSUME CommandInv, [Next]_vars PROVE CommandInv'
  OBVIOUS
<1>1. CASE UNCHANGED vars
  BY <1>1, SameType DEF vars, CommandInv, OnTheWay, AnswersAccepted
<1>2. CASE alive /\ System
  BY <1>2, CommandSends, NodeAnswers, StrayArrives, FrameMoves, FrameReceived DEF System
<1> QED BY <1>1, <1>2 DEF Next, Dead

\* AnswersAccepted is an invariant of the specification: whatever is commanded, however
\* many frames are on their way, lost or strayed, a channel understands every answer but
\* that to a request for its status.
THEOREM AnswersAcceptedCorrect == Spec => []AnswersAccepted
<1>1. CommandInv => AnswersAccepted
  BY DEF CommandInv
<1> QED BY <1>1, CommandInit, CommandStep, PTL DEF Spec
=============================================================================
