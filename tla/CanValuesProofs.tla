---------------------------- MODULE CanValuesProofs ----------------------------
(***************************************************************************)
(* TypeOK, CommandsSent and ShownIsCommanded of CanCommands for any        *)
(* values, ranges and bounds.                                              *)
(*                                                                         *)
(* Agrees says of the tables of a type of channel that its setters convert *)
(* with the scaling its answers are converted back with, that no two of    *)
(* its variables share a state and no other answer sets one of them, and   *)
(* that a command takes the parameters it declares; it is shown type by    *)
(* type.  ValueInv says where the value of a register is: the last answer  *)
(* about it that is on its way carries it, or the state shows it.          *)
(***************************************************************************)
EXTENDS CanCommandsProofs

Scalings == (Nat \ {0}) \X Int

\* A setter converts with the scaling of its variable, or with none at all.
WellDeclared(c, variables, scaling) ==
  /\ c.declared \in Nat
  /\ c.op = "set" =>
    /\ c.id \in DOMAIN variables /\ c.of = variables[c.id]
    /\ c.params \in {<<Int32Param(scaling[c.of])>>, <<Int32Param(Missing)>>}

\* A command takes as many parameters as it declares, and knows the scaling of each.
Callable(c) ==
  /\ Len(c.params) = c.declared /\ DOMAIN c.params = 1 .. c.declared
  /\ \A i \in DOMAIN c.params : c.params[i].scaling # Missing

\* The states a command is declared for that it cannot be sent for.
Unsent(t) ==
  CASE t = "Rocket" -> {"StateRefreshDivider"}
    [] t = "Generic" -> {"UARTEnabled"}
    [] OTHER -> {}

Agrees(T, unsent) ==
  /\ T.scaling \in [Names(T.variables) -> Scalings]
  /\ \A i, j \in DOMAIN T.variables : T.variables[i] = T.variables[j] => i = j
  /\ \A op \in DOMAIN T.marks : T.marks[op] \cap Names(T.variables) = {}
  /\ DOMAIN T.marks \cap (Strays \cup OfVariables) = {}
  /\ \A c \in T.commands :
       /\ WellDeclared(c, T.variables, T.scaling)
       /\ Callable(c) \/ c.of \in unsent
-----------------------------------------------------------------------------
(* The tables *)

LEMMA UnitScales == Unit \in Scalings /\ Unit # Missing
BY DEF Unit, Million, Scalings, Missing

LEMMA ScalingKnown ==
  ASSUME NEW s \in Scalings PROVE s # Missing
BY DEF Scalings, Missing

LEMMA UnscaledScales ==
  ASSUME NEW variables
  PROVE  Unscaled(variables) \in [Names(variables) -> Scalings]
BY UnitScales DEF Unscaled

LEMMA ButScales ==
  ASSUME NEW names, NEW scaling \in [names -> Scalings], NEW changes,
         \A n \in DOMAIN changes : changes[n] \in Scalings
  PROVE  But(scaling, changes) \in [names -> Scalings]
BY DEF But

\* The setters and getters of some variables of a channel.
LEMMA BothAgree ==
  ASSUME NEW variables, NEW scaling \in [Names(variables) -> Scalings],
         NEW ids \in SUBSET DOMAIN variables, NEW c \in Both(variables, scaling, ids)
  PROVE  WellDeclared(c, variables, scaling) /\ Callable(c)
<1>1. CASE \E i \in ids : c = Setter(variables, scaling, i)
  <2>1. PICK i \in ids : c = Setter(variables, scaling, i)
    BY <1>1
  <2> DEFINE s == scaling[variables[i]]
  <2>2. variables[i] \in Names(variables)
    BY NamesOf
  <2>3. LookUp(scaling, variables[i]) = s /\ s \in Scalings
    BY <2>2 DEF LookUp
  <2>4. s # Missing
    BY <2>3, ScalingKnown
  <2>5. c.id = i /\ c.of = variables[i] /\ c.params = <<Int32Param(s)>> /\ c.declared = 1
    BY <2>1, <2>3 DEF Setter, Command
  <2>6. c.params[1].scaling = s /\ DOMAIN c.params = 1 .. 1 /\ Len(c.params) = 1
    BY <2>5 DEF Int32Param
  <2> QED BY <2>4, <2>5, <2>6 DEF WellDeclared, Callable
<1>2. CASE \E i \in ids : c = Getter(variables, i)
  BY <1>2 DEF Getter, Command, WellDeclared, Callable
<1> QED BY <1>1, <1>2 DEF Both

LEMMA PlainAgree ==
  ASSUME NEW variables, NEW scaling, NEW ops, "set" \notin ops, NEW c \in Plain(ops)
  PROVE  WellDeclared(c, variables, scaling) /\ Callable(c)
<1>1. PICK op \in ops : c = Command(op, "", "", 0, <<>>)
  BY DEF Plain
<1>2. c.op \in ops /\ c.params = <<>> /\ c.declared = 0
  BY <1>1 DEF Command
<1>3. Len(<<>>) = 0 /\ DOMAIN <<>> = 1 .. 0
  OBVIOUS
<1> QED BY <1>2, <1>3 DEF WellDeclared, Callable

\* What has to be shown for one type.
LEMMA AgreesIf ==
  ASSUME NEW variables, NEW scaling, NEW commands, NEW marks, NEW others, NEW unsent,
         scaling \in [Names(variables) -> Scalings],
         \A i, j \in DOMAIN variables : variables[i] = variables[j] => i = j,
         \A op \in DOMAIN marks : marks[op] \cap Names(variables) = {},
         DOMAIN marks \cap (Strays \cup OfVariables) = {},
         \A c \in commands :
           WellDeclared(c, variables, scaling) /\ (Callable(c) \/ c.of \in unsent)
  PROVE  Agrees(Type(variables, scaling, commands, marks, others), unsent)
<1> DEFINE T == Type(variables, scaling, commands, marks, others)
<1>1. T.variables = variables /\ T.commands = commands /\ T.marks = marks /\ T.scaling = scaling
  BY DEF Type
<1> HIDE DEF T
<1>2. Agrees(T, unsent)
  BY <1>1 DEF Agrees
<1> QED BY <1>2 DEF T

\* A type all of whose variables have a setter and a getter.
LEMMA RegularAgrees ==
  ASSUME NEW variables, NEW scaling \in [Names(variables) -> Scalings], NEW marks, NEW others,
         NEW ops, "set" \notin ops,
         NEW commands, commands = All(variables, scaling) \cup Plain(ops),
         \A i, j \in DOMAIN variables : variables[i] = variables[j] => i = j,
         \A op \in DOMAIN marks : marks[op] \cap Names(variables) = {},
         DOMAIN marks \cap (Strays \cup OfVariables) = {}
  PROVE  Agrees(Type(variables, scaling, commands, marks, others), {})
<1>1. ASSUME NEW c \in commands
      PROVE  WellDeclared(c, variables, scaling) /\ Callable(c)
  <2>1. CASE c \in All(variables, scaling)
    BY <2>1, BothAgree DEF All
  <2>2. CASE c \in Plain(ops)
    BY <2>2, PlainAgree
  <2> QED BY <2>1, <2>2
<1> QED BY <1>1, AgreesIf

LEMMA MarksAgree ==
  ASSUME NEW names, names \cap {"ResetSettings", "Calibrate"} = {},
         NEW marks \in {ResetSettings, Calibrates}
  PROVE  /\ \A op \in DOMAIN marks : marks[op] \cap names = {}
         /\ DOMAIN marks \cap (Strays \cup OfVariables) = {}
BY MarksOf DEF Strays, OfVariables

LEMMA SensorsAgree ==
  Agrees(ADC16, {}) /\ Agrees(ADC16Single, {}) /\ Agrees(ADC24, {}) /\ Agrees(IMU, {})
<1> DEFINE ops == {"calibrate", "status", "reset"}
<1>1. "set" \notin ops
  OBVIOUS
<1>2. Agrees(ADC16, {})
  <2>1. /\ \A i, j \in DOMAIN ADC16Variables : ADC16Variables[i] = ADC16Variables[j] => i = j
        /\ Names(ADC16Variables) \cap {"ResetSettings", "Calibrate"} = {}
    BY DEF ADC16Variables, Names
  <2> QED BY <1>1, <2>1, RegularAgrees, UnscaledScales, MarksAgree
          DEF ADC16, ADC16Commands, ADC16Marks
<1>3. Agrees(ADC16Single, {})
  <2>1. /\ \A i, j \in DOMAIN ADC16SingleVariables :
             ADC16SingleVariables[i] = ADC16SingleVariables[j] => i = j
        /\ Names(ADC16SingleVariables) \cap {"ResetSettings", "Calibrate"} = {}
    BY DEF ADC16SingleVariables, Names
  <2> QED BY <1>1, <2>1, RegularAgrees, UnscaledScales, MarksAgree
          DEF ADC16Single, ADC16SingleCommands, ADC16SingleMarks
<1>4. Agrees(ADC24, {})
  <2>1. /\ \A i, j \in DOMAIN ADC24Variables : ADC24Variables[i] = ADC24Variables[j] => i = j
        /\ Names(ADC24Variables) \cap {"ResetSettings", "Calibrate"} = {}
    BY DEF ADC24Variables, Names
  <2> QED BY <1>1, <2>1, RegularAgrees, UnscaledScales, MarksAgree
          DEF ADC24, ADC24Commands, ADC24Marks
<1>5. Agrees(IMU, {})
  <2>1. /\ \A i, j \in DOMAIN IMUVariables : IMUVariables[i] = IMUVariables[j] => i = j
        /\ Names(IMUVariables) \cap {"ResetSettings", "Calibrate"} = {}
    BY DEF IMUVariables, Names
  <2> QED BY <1>1, <2>1, RegularAgrees, UnscaledScales, MarksAgree
          DEF IMU, IMUCommands, IMUMarks
<1> QED BY <1>2, <1>3, <1>4, <1>5

LEMMA OutputsAgree == Agrees(DATA32, {}) /\ Agrees(DigitalOut, {})
<1>1. "set" \notin {"status", "reset"}
  OBVIOUS
<1>2. Agrees(DATA32, {})
  <2>1. /\ \A i, j \in DOMAIN DATA32Variables : DATA32Variables[i] = DATA32Variables[j] => i = j
        /\ Names(DATA32Variables) \cap {"ResetSettings", "Calibrate"} = {}
    BY DEF DATA32Variables, Names
  <2> QED BY <1>1, <2>1, RegularAgrees, UnscaledScales, MarksAgree
          DEF DATA32, DATA32Commands, DATA32Marks
<1>3. Agrees(DigitalOut, {})
  <2>1. /\ \A i, j \in DOMAIN DigitalOutVariables :
             DigitalOutVariables[i] = DigitalOutVariables[j] => i = j
        /\ Names(DigitalOutVariables) \cap {"ResetSettings", "Calibrate"} = {}
    BY DEF DigitalOutVariables, Names
  <2> QED BY <1>1, <2>1, RegularAgrees, UnscaledScales, MarksAgree
          DEF DigitalOut, DigitalOutCommands, DigitalOutMarks
<1> QED BY <1>2, <1>3

LEMMA ServoAgrees == Agrees(Servo, {})
<1> DEFINE commands == ServoPositions \cup ServoLimits \cup ServoSetUp \cup ServoRequests
<1>1. /\ {"POSITION", "POSITION_RAW", "TARGET_POSITION", "TARGET_PRESSURE", "MAX_SPEED"}
           \subseteq DOMAIN ServoVariables
      /\ {"MAX_ACCEL", "MAX_TORQUE", "P_PARAM", "I_PARAM", "D_PARAM"}
           \subseteq DOMAIN ServoVariables
      /\ {"SENSOR_CHANNEL_ID", "POSITION_STARTPOINT", "POSITION_ENDPOINT", "PWM_ENABLED",
          "SENSOR_REFRESH_DIVIDER"} \subseteq DOMAIN ServoVariables
  BY DEF ServoVariables
<1>2. ServoScaling \in [Names(ServoVariables) -> Scalings]
  <2> DEFINE changes == [Position |-> <<1526, 0>>, TargetPosition |-> <<1526, 0>>]
  <2>1. \A n \in DOMAIN changes : changes[n] \in Scalings
    BY DEF Scalings
  <2> HIDE DEF changes
  <2>2. But(Unscaled(ServoVariables), changes) \in [Names(ServoVariables) -> Scalings]
    BY <2>1, ButScales, UnscaledScales
  <2> QED BY <2>2 DEF ServoScaling, changes
<1>3. ASSUME NEW c \in ServoPositions \cup ServoLimits \cup ServoSetUp
      PROVE  WellDeclared(c, ServoVariables, ServoScaling) /\ Callable(c)
  BY <1>1, <1>2, <1>3, BothAgree DEF ServoPositions, ServoLimits, ServoSetUp
<1>4. ASSUME NEW c \in ServoRequests
      PROVE  WellDeclared(c, ServoVariables, ServoScaling) /\ Callable(c)
  <2>1. CASE c \in Plain({"status", "reset"})
    BY <2>1, PlainAgree
  <2>2. CASE c = Command("move", "", "", 2, <<Int32Param(Unit), Int32Param(Unit)>>)
    <3> DEFINE two == <<Int32Param(Unit), Int32Param(Unit)>>
    <3>1. c.op = "move" /\ c.params = two /\ c.declared = 2
      BY <2>2 DEF Command
    <3>2. Len(two) = 2 /\ DOMAIN two = 1 .. 2 /\ \A i \in 1 .. 2 : two[i] = Int32Param(Unit)
      OBVIOUS
    <3>3. Int32Param(Unit).scaling # Missing
      BY UnitScales DEF Int32Param
    <3> HIDE DEF two
    <3> QED BY <3>1, <3>2, <3>3 DEF WellDeclared, Callable
  <2> QED BY <1>4, <2>1, <2>2 DEF ServoRequests
<1>5. /\ \A i, j \in DOMAIN ServoVariables : ServoVariables[i] = ServoVariables[j] => i = j
      /\ Names(ServoVariables) \cap {"ResetSettings", "Calibrate"} = {}
  BY DEF ServoVariables, Names
<1>6. \A c \in commands : WellDeclared(c, ServoVariables, ServoScaling) /\ Callable(c)
  BY <1>3, <1>4
<1> HIDE DEF commands
<1>7. Agrees(Type(ServoVariables, ServoScaling, commands, ServoMarks,
                  {"RequestStatus", "ResetAllSettings"}), {})
  BY <1>2, <1>5, <1>6, AgreesIf, MarksAgree DEF ServoMarks
<1> QED BY <1>7 DEF commands, Servo

LEMMA ValveAgrees == Agrees(PneumaticValve, {})
<1> DEFINE commands == ValvePositions \cup ValveChannels \cup Plain({"status", "reset"})
           scaling == Unscaled(PneumaticValveVariables)
<1>1. /\ {"VALVE_ENABLED", "POSITION", "TARGET_POSITION", "THRESHOLD", "HYSTERESIS"}
           \subseteq DOMAIN PneumaticValveVariables
      /\ {"ON_CHANNEL_ID", "OFF_CHANNEL_ID", "POS_CHANNEL_ID", "POS_REFRESH_DIVIDER"}
           \subseteq DOMAIN PneumaticValveVariables
  BY DEF PneumaticValveVariables
<1>2. scaling \in [Names(PneumaticValveVariables) -> Scalings]
  BY UnscaledScales
<1>3. ASSUME NEW c \in ValvePositions \cup ValveChannels
      PROVE  WellDeclared(c, PneumaticValveVariables, scaling) /\ Callable(c)
  BY <1>1, <1>2, <1>3, BothAgree DEF ValvePositions, ValveChannels
<1>4. /\ \A i, j \in DOMAIN PneumaticValveVariables :
           PneumaticValveVariables[i] = PneumaticValveVariables[j] => i = j
      /\ Names(PneumaticValveVariables) \cap {"ResetSettings", "Calibrate"} = {}
  BY DEF PneumaticValveVariables, Names
<1>5. \A c \in commands : WellDeclared(c, PneumaticValveVariables, scaling) /\ Callable(c)
  BY <1>3, PlainAgree
<1> HIDE DEF commands, scaling
<1>6. Agrees(Type(PneumaticValveVariables, scaling, commands, PneumaticValveMarks,
                  {"RequestStatus", "ResetAllSettings"}), {})
  BY <1>2, <1>4, <1>5, AgreesIf, MarksAgree DEF PneumaticValveMarks
<1> QED BY <1>6 DEF commands, scaling, PneumaticValve

LEMMA ControlAgrees == Agrees(Control, {})
<1> DEFINE commands == ControlTargets \cup ControlChannels \cup Plain({"status", "reset"})
<1>1. /\ {"CONTROL_ENABLED", "TARGET", "THRESHOLD", "HYSTERESIS"}
           \subseteq DOMAIN ControlVariables
      /\ {"ACTUATOR_CHANNEL_ID", "SENSOR_CHANNEL_ID", "REFRESH_DIVIDER"}
           \subseteq DOMAIN ControlVariables
  BY DEF ControlVariables
<1>2. ControlScaling \in [Names(ControlVariables) -> Scalings]
  <2> DEFINE changes == [Target |-> <<1190, -15196674>>, Hysteresis |-> <<1190, -15196674>>]
  <2>1. \A n \in DOMAIN changes : changes[n] \in Scalings
    BY DEF Scalings
  <2> HIDE DEF changes
  <2>2. But(Unscaled(ControlVariables), changes) \in [Names(ControlVariables) -> Scalings]
    BY <2>1, ButScales, UnscaledScales
  <2> QED BY <2>2 DEF ControlScaling, changes
<1>3. ASSUME NEW c \in ControlTargets \cup ControlChannels
      PROVE  WellDeclared(c, ControlVariables, ControlScaling) /\ Callable(c)
  BY <1>1, <1>2, <1>3, BothAgree DEF ControlTargets, ControlChannels
<1>4. /\ \A i, j \in DOMAIN ControlVariables : ControlVariables[i] = ControlVariables[j] => i = j
      /\ Names(ControlVariables) \cap {"ResetSettings", "Calibrate"} = {}
  BY DEF ControlVariables, Names
<1>5. \A c \in commands : WellDeclared(c, ControlVariables, ControlScaling) /\ Callable(c)
  BY <1>3, PlainAgree
<1> HIDE DEF commands
<1>6. Agrees(Type(ControlVariables, ControlScaling, commands, ControlMarks,
                  {"RequestStatus", "ResetAllSettings"}), {})
  BY <1>2, <1>4, <1>5, AgreesIf, MarksAgree DEF ControlMarks
<1> QED BY <1>6 DEF commands, Control

LEMMA PIControlAgrees == Agrees(PIControl, {})
<1> DEFINE commands == PIControlGains \cup PIControlSensor \cup PIControlChannels
<1>1. /\ {"PI_CONTROL_ENABLED", "TARGET", "P_POS", "I_POS", "P_NEG"}
           \subseteq DOMAIN PIControlVariables
      /\ {"I_NEG", "SENSOR_SLOPE", "SENSOR_OFFSET", "OPERATING_POINT", "ACTUATOR_CHANNEL_ID"}
           \subseteq DOMAIN PIControlVariables
      /\ {"SENSOR_CHANNEL_ID", "REFRESH_DIVIDER"} \subseteq DOMAIN PIControlVariables
  BY DEF PIControlVariables
<1>2. PIControlScaling \in [Names(PIControlVariables) -> Scalings]
  <2>1. Unit \in Scalings /\ <<1000, 0>> \in Scalings
    BY UnitScales DEF Scalings
  <2> QED BY <2>1 DEF PIControlScaling
<1>3. ASSUME NEW c \in commands
      PROVE  WellDeclared(c, PIControlVariables, PIControlScaling) /\ Callable(c)
  BY <1>1, <1>2, <1>3, BothAgree, PlainAgree
     DEF PIControlGains, PIControlSensor, PIControlChannels
<1>4. /\ \A i, j \in DOMAIN PIControlVariables :
           PIControlVariables[i] = PIControlVariables[j] => i = j
      /\ Names(PIControlVariables) \cap {"ResetSettings", "Calibrate"} = {}
  BY DEF PIControlVariables, Names
<1> HIDE DEF commands
<1>5. Agrees(Type(PIControlVariables, PIControlScaling, commands, PIControlMarks,
                  {"RequestStatus", "ResetAllSettings"}), {})
  BY <1>2, <1>3, <1>4, AgreesIf, MarksAgree DEF PIControlMarks
<1> QED BY <1>5 DEF commands, PIControl

\* The setter of the divider looks for a scaling that is not there.
LEMMA RocketAgrees == Agrees(Rocket, {"StateRefreshDivider"})
<1> DEFINE commands == RocketPressures \cup RocketStates \cup RocketDivider
           plain == {"getState", "internalControl", "abort", "endOfFlight", "autoCheck"}
           others == {"State", "StateStatus", "InternalControl", "Abort", "EndOfFlight",
                      "AutoCheck", "RequestStatus", "ResetAllSettings"}
<1>1. /\ {"MINIMUM_CHAMBER_PRESSURE", "MINIMUM_FUEL_PRESSURE", "MINIMUM_OX_PRESSURE",
          "HOLDDOWN_TIMEOUT"} \subseteq DOMAIN RocketVariables
      /\ "STATE_REFRESH_DIVIDER" \in DOMAIN RocketVariables
      /\ RocketVariables["STATE_REFRESH_DIVIDER"] = "StateRefreshDivider"
  BY DEF RocketVariables
<1>2. Names(RocketVariables) =
        {"MinimumChamberPressure", "MinimumFuelPressure", "MinimumOxPressure",
         "HolddownTimeout", "StateRefreshDivider"}
  BY DEF Names, RocketVariables
<1>3. RocketScaling \in [Names(RocketVariables) -> Scalings]
  <2> DEFINE changes == [MinimumChamberPressure |-> <<3700, 0>>,
                         MinimumFuelPressure |-> <<3670, 0>>, MinimumOxPressure |-> <<3735, 0>>]
  <2>1. \A n \in DOMAIN changes : changes[n] \in Scalings
    BY DEF Scalings
  <2> HIDE DEF changes
  <2>2. But(Unscaled(RocketVariables), changes) \in [Names(RocketVariables) -> Scalings]
    BY <2>1, ButScales, UnscaledScales
  <2> QED BY <2>2 DEF RocketScaling, changes
<1>4. ASSUME NEW c \in RocketPressures
      PROVE  WellDeclared(c, RocketVariables, RocketScaling) /\ Callable(c)
  BY <1>1, <1>3, <1>4, BothAgree DEF RocketPressures
<1>5. ASSUME NEW c \in RocketStates
      PROVE  WellDeclared(c, RocketVariables, RocketScaling) /\ Callable(c)
  <2>1. CASE c \in Plain(plain)
    BY <2>1, PlainAgree
  <2>2. CASE c = Command("setState", "", "", 1, <<Int32Param(Unit)>>)
    <3>1. c.op = "setState" /\ c.params = <<Int32Param(Unit)>> /\ c.declared = 1
      BY <2>2 DEF Command
    <3>2. Int32Param(Unit).scaling # Missing
      BY UnitScales DEF Int32Param
    <3> QED BY <3>1, <3>2 DEF WellDeclared, Callable
  <2> QED BY <1>5, <2>1, <2>2 DEF RocketStates
<1>6. ASSUME NEW c \in RocketDivider
      PROVE  /\ WellDeclared(c, RocketVariables, RocketScaling)
             /\ Callable(c) \/ c.of \in {"StateRefreshDivider"}
  <2>1. CASE c \in Plain({"status", "reset"})
    BY <2>1, PlainAgree
  <2>2. CASE c = Command("set", "STATE_REFRESH_DIVIDER", "StateRefreshDivider", 1,
                         <<Int32Param(LookUp(RocketScaling, "RefreshDivider"))>>)
    <3>1. LookUp(RocketScaling, "RefreshDivider") = Missing
      BY <1>2, <1>3 DEF LookUp
    <3>2. /\ c.id = "STATE_REFRESH_DIVIDER" /\ c.of = "StateRefreshDivider"
          /\ c.params = <<Int32Param(Missing)>> /\ c.declared = 1
      BY <2>2, <3>1 DEF Command
    <3> QED BY <1>1, <3>2 DEF WellDeclared
  <2>3. CASE c = Getter(RocketVariables, "STATE_REFRESH_DIVIDER")
    BY <2>3 DEF Getter, Command, WellDeclared, Callable
  <2> QED BY <1>6, <2>1, <2>2, <2>3 DEF RocketDivider
<1>7. /\ \A i, j \in DOMAIN RocketVariables : RocketVariables[i] = RocketVariables[j] => i = j
  BY DEF RocketVariables
<1>8. /\ DOMAIN RocketMarks \cap (Strays \cup OfVariables) = {}
      /\ \A op \in DOMAIN RocketMarks : RocketMarks[op] \cap Names(RocketVariables) = {}
  BY <1>2 DEF RocketMarks, Strays, OfVariables
<1>9. \A c \in commands : /\ WellDeclared(c, RocketVariables, RocketScaling)
                          /\ Callable(c) \/ c.of \in {"StateRefreshDivider"}
  BY <1>4, <1>5, <1>6
<1> HIDE DEF commands, others
<1>10. Agrees(Type(RocketVariables, RocketScaling, commands, RocketMarks, others),
              {"StateRefreshDivider"})
  BY <1>3, <1>7, <1>8, <1>9, AgreesIf
<1> QED BY <1>10 DEF commands, others, Rocket

\* The setter of the UART declares a parameter that it does not take.
LEMMA GenericAgrees == Agrees(Generic, {"UARTEnabled"})
<1> DEFINE commands == GenericPower \cup GenericEnabled \cup GenericRequests
           scaling == Unscaled(GenericVariables)
           plain == {"data", "status", "flashClear", "reset"}
           others == {"ResetAllSettings", "FlashStatus"}
<1>1. /\ {"BUS1_VOLTAGE", "BUS2_VOLTAGE", "PWR_VOLTAGE", "PWR_CURRENT", "REFRESH_DIVIDER",
          "REFRESH_RATE"} \subseteq DOMAIN GenericVariables
      /\ {"LOGGING_ENABLED", "LORA_ENABLED"} \subseteq DOMAIN GenericVariables
  BY DEF GenericVariables
<1>2. scaling \in [Names(GenericVariables) -> Scalings]
  BY UnscaledScales
<1>3. ASSUME NEW c \in GenericPower
      PROVE  WellDeclared(c, GenericVariables, scaling) /\ Callable(c)
  BY <1>1, <1>2, <1>3, BothAgree DEF GenericPower
<1>4. ASSUME NEW c \in GenericEnabled
      PROVE  /\ WellDeclared(c, GenericVariables, scaling)
             /\ Callable(c) \/ c.of \in {"UARTEnabled"}
  <2>1. CASE c \in Both(GenericVariables, scaling, {"LOGGING_ENABLED", "LORA_ENABLED"})
    BY <1>1, <1>2, <2>1, BothAgree
  <2>2. CASE c = Command("get", "UART_ENABLED", "UARTEnabled", 1, <<>>)
    BY <2>2 DEF Command, WellDeclared
  <2>3. CASE c = Getter(GenericVariables, "UART_ENABLED")
    BY <2>3 DEF Getter, Command, WellDeclared, Callable
  <2> QED BY <1>4, <2>1, <2>2, <2>3 DEF GenericEnabled
<1>5. ASSUME NEW c \in GenericRequests
      PROVE  WellDeclared(c, GenericVariables, scaling) /\ Callable(c)
  <2>1. CASE c \in Plain(plain)
    BY <2>1, PlainAgree
  <2>2. CASE c = Speaker
    <3> DEFINE four == [i \in 1 .. 4 |->
                 [scaling |-> Unit, type |-> IF i < 4 THEN "int16" ELSE "int8"]]
    <3>1. c.op = "speaker" /\ c.params = four /\ c.declared = 4
      BY <2>2 DEF Speaker, Command
    <3>2. Len(four) = 4 /\ DOMAIN four = 1 .. 4 /\ \A i \in 1 .. 4 : four[i].scaling = Unit
      OBVIOUS
    <3> HIDE DEF four
    <3> QED BY <3>1, <3>2, UnitScales DEF WellDeclared, Callable
  <2> QED BY <1>5, <2>1, <2>2 DEF GenericRequests
<1>6. \A i, j \in DOMAIN GenericVariables : GenericVariables[i] = GenericVariables[j] => i = j
  BY DEF GenericVariables
<1>7. /\ DOMAIN GenericMarks \cap (Strays \cup OfVariables) = {}
      /\ \A op \in DOMAIN GenericMarks : GenericMarks[op] \cap Names(GenericVariables) = {}
  BY DEF GenericMarks, Strays, OfVariables, Names, GenericVariables
<1>8. \A c \in commands : /\ WellDeclared(c, GenericVariables, scaling)
                          /\ Callable(c) \/ c.of \in {"UARTEnabled"}
  BY <1>3, <1>4, <1>5
<1> HIDE DEF commands, others, scaling
<1>9. Agrees(Type(GenericVariables, scaling, commands, GenericMarks, others), {"UARTEnabled"})
  BY <1>2, <1>6, <1>7, <1>8, AgreesIf
<1> QED BY <1>9 DEF commands, others, scaling, Generic

\* The tables of every type of channel.
LEMMA TablesAgree == \A t \in DOMAIN ChannelType : Agrees(ChannelType[t], Unsent(t))
<1>1. DOMAIN ChannelType =
        {"ADC16", "ADC16Single", "ADC24", "DATA32", "DigitalOut", "Servo", "PneumaticValve",
         "Control", "PIControl", "IMU", "Rocket", "Generic"}
  BY DEF ChannelType
<1>2. /\ ChannelType["ADC16"] = ADC16 /\ ChannelType["ADC16Single"] = ADC16Single
      /\ ChannelType["ADC24"] = ADC24 /\ ChannelType["DATA32"] = DATA32
      /\ ChannelType["DigitalOut"] = DigitalOut /\ ChannelType["Servo"] = Servo
      /\ ChannelType["PneumaticValve"] = PneumaticValve /\ ChannelType["Control"] = Control
      /\ ChannelType["PIControl"] = PIControl /\ ChannelType["IMU"] = IMU
      /\ ChannelType["Rocket"] = Rocket /\ ChannelType["Generic"] = Generic
  BY DEF ChannelType
<1>3. /\ \A t \in DOMAIN ChannelType \ {"Rocket", "Generic"} : Unsent(t) = {}
      /\ Unsent("Rocket") = {"StateRefreshDivider"} /\ Unsent("Generic") = {"UARTEnabled"}
  BY DEF Unsent
<1> QED BY <1>1, <1>2, <1>3, SensorsAgree, OutputsAgree, ServoAgrees, ValveAgrees, ControlAgrees,
           PIControlAgrees, RocketAgrees, GenericAgrees
-----------------------------------------------------------------------------
(* Scaling *)

LEMMA Quotient ==
  ASSUME NEW n \in Nat, NEW k \in Nat \ {0}
  PROVE  n \div k \in Nat /\ n - (n \div k) * k >= 0 /\ n - (n \div k) * k < k
<1> DEFINE q == n \div k
           r == n % k
<1>1. q \in Nat /\ r \in 0 .. k - 1
  OBVIOUS
<1>2. n = k * q + r
  OBVIOUS
<1> HIDE DEF q, r
<1>3. k * q = q * k /\ q * k \in Nat
  BY <1>1
<1>4. n - q * k = r
  BY <1>1, <1>2, <1>3
<1> QED BY <1>1, <1>4 DEF q

\* A value that is converted to the bus and back is off by less than one step.
LEMMA RoundTrip ==
  ASSUME NEW v \in Int, NEW s \in Scalings
  PROVE  /\ ScaleAndConvert(v, s) \in Int
         /\ ScaleToDouble(ScaleAndConvert(v, s), s) - v < s[1]
         /\ v - ScaleToDouble(ScaleAndConvert(v, s), s) < s[1]
<1> DEFINE k == s[1]
           d == Distance(v, s)
<1>1. k \in Nat \ {0} /\ s[2] \in Int /\ d \in Int /\ d = v - s[2]
  BY DEF Scalings, Distance
<1>2. ASSUME NEW q \in Nat, NEW raw \in Int, raw = ScaleAndConvert(v, s),
             \/ raw = q /\ d - q * k >= 0 /\ d - q * k < k
             \/ raw = -q /\ -d - q * k >= 0 /\ -d - q * k < k
      PROVE  /\ ScaleToDouble(ScaleAndConvert(v, s), s) - v < k
             /\ v - ScaleToDouble(ScaleAndConvert(v, s), s) < k
  <2> DEFINE p == q * k
  <2>1. p \in Nat /\ (-q) * k = -p
    BY <1>1
  <2>2. ScaleToDouble(raw, s) = raw * k + s[2]
    BY DEF ScaleToDouble
  <2> HIDE DEF k, d
  <2>3. raw * k = p \/ raw * k = -p
    BY <1>2, <2>1
  <2>4. \/ raw * k = p /\ d - p >= 0 /\ d - p < k
        \/ raw * k = -p /\ -d - p >= 0 /\ -d - p < k
    BY <1>2, <2>1
  <2> DEFINE w == raw * k
             back == ScaleToDouble(raw, s)
  <2>5. w \in Int /\ back = w + s[2] /\ d = v - s[2] /\ k \in Int
        /\ (\/ w = p /\ d - p >= 0 /\ d - p < k
            \/ w = -p /\ -d - p >= 0 /\ -d - p < k)
    BY <1>1, <2>1, <2>2, <2>4
  <2> HIDE DEF w, p, back
  <2>6. back - v < k /\ v - back < k
    BY <1>1, <2>1, <2>5
  <2> QED BY <1>2, <2>6 DEF back
<1>3. CASE d >= 0
  <2>1. ScaleAndConvert(v, s) = d \div k
    BY <1>3 DEF ScaleAndConvert
  <2> HIDE DEF d, k
  <2>2. d \in Nat
    BY <1>1, <1>3
  <2>3. d \div k \in Nat /\ d - (d \div k) * k >= 0 /\ d - (d \div k) * k < k
    BY <1>1, <2>2, Quotient
  <2>4. ScaleAndConvert(v, s) \in Int
    BY <2>1, <2>3
  <2>5. /\ ScaleToDouble(ScaleAndConvert(v, s), s) - v < k
        /\ v - ScaleToDouble(ScaleAndConvert(v, s), s) < k
    BY <1>2, <2>1, <2>3, <2>4
  <2> QED BY <2>4, <2>5 DEF k
<1>4. CASE d < 0
  <2> DEFINE e == -d
  <2>1. ScaleAndConvert(v, s) = -(e \div k)
    BY <1>1, <1>4 DEF ScaleAndConvert
  <2> HIDE DEF d, k
  <2>2. e \in Nat
    BY <1>1, <1>4
  <2>3. e \div k \in Nat /\ e - (e \div k) * k >= 0 /\ e - (e \div k) * k < k
    BY <1>1, <2>2, Quotient
  <2>4. ScaleAndConvert(v, s) \in Int
    BY <2>1, <2>3
  <2>5. /\ ScaleToDouble(ScaleAndConvert(v, s), s) - v < k
        /\ v - ScaleToDouble(ScaleAndConvert(v, s), s) < k
    BY <1>2, <2>1, <2>3, <2>4
  <2> QED BY <2>4, <2>5 DEF k
<1> QED BY <1>1, <1>3, <1>4

\* What the check before the conversion admits fits after it.
LEMMA RawFits ==
  ASSUME NEW v \in Int, NEW s \in Scalings, Convertible(v, Int32Param(s))
  PROVE  ScaleAndConvert(v, s) \in Low["int32"] .. High["int32"]
<1> DEFINE k == s[1]
           d == Distance(v, s)
           low == Low["int32"]
           high == High["int32"]
<1>1. k \in Nat \ {0} /\ d \in Int
  BY DEF Scalings, Distance
<1>2. low \in Int /\ high \in Int /\ low <= 0 /\ 0 <= high
  BY CommandsOK
<1>3. low <= d \div k /\ d \div k <= high /\ d \div k \in Int
  BY <1>1, <1>2 DEF Convertible, Int32Param
<1>4. CASE d >= 0
  <2>1. ScaleAndConvert(v, s) = d \div k
    BY <1>4 DEF ScaleAndConvert
  <2> QED BY <1>2, <1>3, <2>1
<1>5. CASE d < 0
  <2> DEFINE e == -d
  <2>1. ScaleAndConvert(v, s) = -(e \div k)
    BY <1>1, <1>5 DEF ScaleAndConvert
  <2>2. e \in Nat /\ d = -e
    BY <1>1, <1>5
  <2> HIDE DEF d, k, e, low, high
  <2>3. e \div k \in Nat /\ d \div k <= -(e \div k)
    BY <1>1, <2>2
  <2> DEFINE q == e \div k
             f == d \div k
  <2> HIDE DEF q, f
  <2>4. -q \in low .. high
    <3>1. q \in Nat /\ f \in Int /\ low <= f /\ f <= -q
      BY <1>3, <2>3 DEF q, f
    <3> QED BY <1>2, <3>1
  <2> QED BY <2>1, <2>4 DEF q, low, high
<1> QED BY <1>1, <1>4, <1>5
-----------------------------------------------------------------------------
(* Where the value of a register is *)

Near(v, raw, s) == ScaleToDouble(raw, s) - v < s[1] /\ v - ScaleToDouble(raw, s) < s[1]

Int32 == Low["int32"] .. High["int32"]

\* A request to set a variable means a value that its raw value stands for.
MeansItsRaw(r) ==
  r.op = "set" =>
    LET name == Channel.variables[r.id] IN
      /\ r.id \in DOMAIN Channel.variables /\ r.raw \in Int32
      /\ DOMAIN r.meant = {name} /\ Near(r.meant[name], r.raw, Channel.scaling[name])

Asked == {r \in Requested : r.op \in Ops \ Strays /\ MeansItsRaw(r)}
Heard ==
  {a \in Answered : /\ a.op \in Ops /\ a.raw \in Int32
                    /\ a.of = IF a.op \in OfVariables THEN {Channel.variables[a.id]} ELSE {}}

\* The last frame about a variable, if there is any, carries a raw value.
Nothing(frames, name) == \A i \in 1 .. Len(frames) : name \notin frames[i].of
LastIs(frames, name, raw) ==
  \E i \in 1 .. Len(frames) :
    /\ name \in frames[i].of /\ frames[i].raw = raw
    /\ \A j \in 1 .. Len(frames) : j > i => name \notin frames[j].of

\* The queue of the Kvaser driver comes before what the driver still has.
Current(name, raw) ==
  \/ LastIs(answers, name, raw)
  \/ Nothing(answers, name) /\ LastIs(queue, name, raw)
  \/ /\ Nothing(answers, name) /\ Nothing(queue, name)
     /\ name \in DOMAIN shown /\ shown[name] = ScaleToDouble(raw, Channel.scaling[name])

Typed ==
  /\ subject \in DOMAIN Channel.variables
  /\ requests \in Seq(Asked) /\ answers \in Seq(Heard) /\ queue \in Seq(Heard)
  /\ held \in [DOMAIN Channel.variables -> Int32]
  /\ driver = "SocketCAN" => queue = <<>>
  /\ DOMAIN target \subseteq Names(Channel.variables)
  /\ unheard \subseteq Names(Channel.variables)
  /\ refused \subseteq Ops
  /\ alive \in BOOLEAN
  /\ executed \in Nat /\ strays \in Nat /\ lost \in Nat

Followed ==
  \A id \in DOMAIN Channel.variables :
    LET name == Channel.variables[id] IN
      name \in DOMAIN target =>
        /\ Near(target[name], held[id], Channel.scaling[name])
        /\ name \notin unheard => Current(name, held[id])

ValueInv == CommandInv /\ Typed /\ Followed /\ CommandsSent

\* The type of the channel never changes, and the sets that depend on it do not.
LEMMA SameTables ==
  ASSUME type' = type
  PROVE  /\ Channel' = Channel /\ Asked' = Asked /\ Heard' = Heard
<1>1. Channel' = Channel /\ Requested' = Requested /\ Answered' = Answered
  BY SameType
<1>2. \A r : MeansItsRaw(r)' = MeansItsRaw(r)
  BY <1>1 DEF MeansItsRaw
<1>3. Asked' = Asked
  BY <1>1, <1>2 DEF Asked
<1>4. Heard' = Heard
  BY <1>1 DEF Heard
<1> QED BY <1>1, <1>3, <1>4

\* What is known of the channel of the invariant.
LEMMA ChannelAgrees ==
  ASSUME CommandInv
  PROVE  Agrees(Channel, Unsent(type)) /\ Complete(Channel)
BY TablesAgree, TablesComplete DEF CommandInv, Channel

LEMMA ZeroFits == 0 \in Int32
BY CommandsOK DEF Int32
-----------------------------------------------------------------------------
(* Frames *)

\* The next frame is about the variable.
LEMMA AppendAbout ==
  ASSUME NEW S, NEW frames \in Seq(S), NEW a \in S, NEW name \in a.of
  PROVE  LastIs(Append(frames, a), name, a.raw)
<1> DEFINE t == Append(frames, a)
           n == Len(frames) + 1
<1>1. Len(t) = n /\ t[n] = a /\ n \in 1 .. Len(t)
  OBVIOUS
<1>2. Len(t) \in Nat
  OBVIOUS
<1> HIDE DEF t
<1>3. \A j \in 1 .. Len(t) : ~(j > n)
  BY <1>1, <1>2
<1> HIDE DEF n
<1>4. LastIs(t, name, a.raw)
  BY <1>1, <1>3 DEF LastIs
<1> QED BY <1>4 DEF t

\* The next frame is about something else.
LEMMA AppendOther ==
  ASSUME NEW S, NEW frames \in Seq(S), NEW a \in S, NEW name, name \notin a.of
  PROVE  /\ Nothing(frames, name) => Nothing(Append(frames, a), name)
         /\ \A raw : LastIs(frames, name, raw) => LastIs(Append(frames, a), name, raw)
<1> DEFINE t == Append(frames, a)
<1>1. Len(t) = Len(frames) + 1 /\ Len(frames) \in Nat
  OBVIOUS
<1>2. /\ \A i \in 1 .. Len(frames) : t[i] = frames[i] /\ i \in 1 .. Len(t)
      /\ t[Len(frames) + 1] = a
  OBVIOUS
<1> HIDE DEF t
<1>3. \A i \in 1 .. Len(t) : i \in 1 .. Len(frames) \/ i = Len(frames) + 1
  BY <1>1
<1>4. Nothing(frames, name) => Nothing(t, name)
  BY <1>2, <1>3 DEF Nothing
<1>5. ASSUME NEW raw, LastIs(frames, name, raw) PROVE LastIs(t, name, raw)
  <2>1. PICK i \in 1 .. Len(frames) :
          /\ name \in frames[i].of /\ frames[i].raw = raw
          /\ \A j \in 1 .. Len(frames) : j > i => name \notin frames[j].of
    BY <1>5 DEF LastIs
  <2>2. \A j \in 1 .. Len(t) : j > i => name \notin t[j].of
    BY <1>2, <1>3, <2>1
  <2> QED BY <1>2, <2>1, <2>2 DEF LastIs
<1> QED BY <1>4, <1>5 DEF t

\* The first frame is taken.
LEMMA TailOf ==
  ASSUME NEW S, NEW frames \in Seq(S), frames # <<>>, NEW name
  PROVE  /\ Nothing(frames, name) => name \notin Head(frames).of /\ Nothing(Tail(frames), name)
         /\ \A raw : LastIs(frames, name, raw) =>
              \/ LastIs(Tail(frames), name, raw)
              \/ /\ Nothing(Tail(frames), name)
                 /\ name \in Head(frames).of /\ Head(frames).raw = raw
<1> DEFINE t == Tail(frames)
           h == Head(frames)
<1>1. /\ Len(frames) \in Nat /\ Len(t) = Len(frames) - 1 /\ h = frames[1] /\ Len(frames) >= 1
  OBVIOUS
<1>2. \A i \in 1 .. Len(t) : t[i] = frames[i + 1]
  OBVIOUS
<1> HIDE DEF t, h
<1>3. \A i \in 1 .. Len(t) : i + 1 \in 1 .. Len(frames)
  BY <1>1
<1>4. 1 \in 1 .. Len(frames)
  BY <1>1
<1>5. Nothing(frames, name) => name \notin h.of /\ Nothing(t, name)
  BY <1>1, <1>2, <1>3, <1>4 DEF Nothing
<1>6. ASSUME NEW raw, LastIs(frames, name, raw)
      PROVE  \/ LastIs(t, name, raw)
             \/ Nothing(t, name) /\ name \in h.of /\ h.raw = raw
  <2>1. PICK i \in 1 .. Len(frames) :
          /\ name \in frames[i].of /\ frames[i].raw = raw
          /\ \A j \in 1 .. Len(frames) : j > i => name \notin frames[j].of
    BY <1>6 DEF LastIs
  <2>2. CASE i = 1
    <3>1. \A j \in 1 .. Len(t) : j + 1 > i
      BY <2>2
    <3>2. Nothing(t, name)
      BY <1>2, <1>3, <2>1, <3>1 DEF Nothing
    <3> QED BY <1>1, <2>1, <2>2, <3>2
  <2>3. CASE i # 1
    <3> DEFINE k == i - 1
    <3>1. k \in 1 .. Len(t) /\ k + 1 = i
      BY <1>1, <2>1, <2>3
    <3>2. \A j \in 1 .. Len(t) : j > k => j + 1 > i
      BY <3>1
    <3>3. \A j \in 1 .. Len(t) : j > k => name \notin t[j].of
      BY <1>2, <1>3, <2>1, <3>2
    <3>4. t[k] = frames[i]
      BY <1>2, <3>1
    <3> QED BY <2>1, <3>1, <3>3, <3>4 DEF LastIs
  <2> QED BY <2>2, <2>3
<1> QED BY <1>5, <1>6 DEF t, h
-----------------------------------------------------------------------------
(* The steps *)

LEMMA ValueInit == Init => ValueInv
<1> SUFFICES ASSUME Init PROVE ValueInv
  OBVIOUS
<1>1. CommandInv
  BY CommandInit
<1>2. DOMAIN target = {} /\ unheard = {} /\ refused = {} /\ denied = {}
  BY DEF Init, NoStates
<1>3. Typed
  BY <1>2, ZeroFits DEF Init, Typed
<1>4. Followed
  BY <1>2 DEF Followed
<1>5. CommandsSent
  BY <1>2 DEF CommandsSent
<1> QED BY <1>1, <1>3, <1>4, <1>5 DEF ValueInv

\* What a command that is accepted requests.
LEMMA RequestMeans ==
  ASSUME CommandInv, NEW c \in Channel.commands,
         NEW n \in Nat, NEW p \in [1 .. n -> Values], Accepts(c, p)
  PROVE  Request(c, p).op \in Ops \ Strays /\ MeansItsRaw(Request(c, p))
<1> DEFINE r == Request(c, p)
<1>1. r.op = c.op /\ r.id = c.id
  BY DEF Request
<1>2. Agrees(Channel, Unsent(type)) /\ Complete(Channel)
  BY ChannelAgrees
<1>3. c.op \in Ops
  <2>1. c.op \in {d.op : d \in ChannelType[type].commands} /\ type \in DOMAIN ChannelType
    BY DEF Channel, CommandInv
  <2> QED BY <2>1 DEF Ops
<1>4. c.op \notin Strays
  BY <1>2 DEF Agrees, Complete, Strays, OfVariables, Mute
<1>5. ASSUME c.op = "set" PROVE MeansItsRaw(r)
  <2> DEFINE name == Channel.variables[c.id]
             s == Channel.scaling[name]
             v == p[1]
  <2>1. /\ c.id \in DOMAIN Channel.variables /\ c.of = name
        /\ c.params = <<Int32Param(s)>> \/ c.params = <<Int32Param(Missing)>>
    BY <1>2, <1>5 DEF Agrees, WellDeclared
  <2>2. s \in Scalings
    BY <1>2, <2>1, NamesOf DEF Agrees
  <2>3. Len(c.params) = 1 /\ c.params[1] \in {Int32Param(s), Int32Param(Missing)}
    <3>1. \A x : Len(<<x>>) = 1 /\ <<x>>[1] = x
      OBVIOUS
    <3> QED BY <2>1, <3>1
  <2>4. Len(p) = n /\ DOMAIN p = 1 .. n
    OBVIOUS
  <2>5. v \in Int /\ Convertible(v, c.params[1])
    <3>1. Len(p) = Len(c.params) /\ \A i \in DOMAIN p : Convertible(p[i], c.params[i])
      BY DEF Accepts
    <3>2. n = 1 /\ 1 \in DOMAIN p
      BY <2>3, <2>4, <3>1
    <3>3. v \in Values
      BY <2>4, <3>2
    <3> QED BY <3>1, <3>2, <3>3, CommandsOK
  <2>6. c.params[1] = Int32Param(s)
    BY <2>3, <2>5 DEF Convertible, Int32Param
  <2>7. /\ r.raw = ScaleAndConvert(v, s)
        /\ r.meant = Put(NoStates, [x \in {name} |-> v])
    BY <1>5, <2>1, <2>6 DEF Request, Int32Param
  <2>8. r.raw \in Int32
    BY <2>2, <2>5, <2>6, <2>7, RawFits DEF Int32
  <2>9. Near(v, r.raw, s)
    BY <2>2, <2>5, <2>7, RoundTrip DEF Near
  <2>10. DOMAIN r.meant = {name} /\ r.meant[name] = v
    BY <2>7 DEF Put, NoStates
  <2> QED BY <1>1, <2>1, <2>8, <2>9, <2>10 DEF MeansItsRaw
<1> QED BY <1>1, <1>3, <1>4, <1>5 DEF MeansItsRaw

\* A command that is valid but not accepted is one of the two.
LEMMA DeniedOnly ==
  ASSUME CommandInv, NEW c \in Channel.commands, NEW n \in Nat, NEW p \in [1 .. n -> Values],
         Valid(c, p), ~Accepts(c, p)
  PROVE  c.of \in Unsent(type)
<1>1. Callable(c) \/ c.of \in Unsent(type)
  BY ChannelAgrees DEF Agrees
<1>2. ASSUME Callable(c) PROVE FALSE
  <2>1. Len(p) = n /\ DOMAIN p = 1 .. n
    OBVIOUS
  <2>2. n = c.declared /\ Len(c.params) = n /\ DOMAIN c.params = 1 .. n
    BY <1>2, <2>1 DEF Callable, Valid
  <2>3. \A i \in 1 .. n : Convertible(p[i], c.params[i])
    BY <1>2, <2>1, <2>2 DEF Callable, Valid
  <2> QED BY <2>1, <2>2, <2>3 DEF Accepts
<1> QED BY <1>1, <1>2

LEMMA ValueSends ==
  ASSUME ValueInv, CommandInv', Execute
  PROVE  ValueInv'
<1> USE DEF ValueInv
<1>1. PICK c \in Channel.commands :
        \E n \in {1, c.declared} : \E p \in [1 .. n -> Values] : ExecuteCommand(c, p)
  BY DEF Execute
<1>2. c.declared \in Nat
  BY ChannelAgrees DEF Agrees, WellDeclared
<1>3. PICK n \in Nat : n \in {1, c.declared} /\ \E p \in [1 .. n -> Values] : ExecuteCommand(c, p)
  BY <1>1, <1>2
<1>4. PICK p \in [1 .. n -> Values] : ExecuteCommand(c, p)
  BY <1>3
<1>5. UNCHANGED <<driver, type, subject, held, answers, queue, shown, alive, target, unheard,
                  refused, strays, lost>>
  BY <1>4 DEF ExecuteCommand
<1> DEFINE r == Request(c, p)
<1>6. \/ Accepts(c, p) /\ requests' = Append(requests, r) /\ denied' = denied
      \/ /\ ~Accepts(c, p) /\ requests' = requests
         /\ denied' = denied \/ (Valid(c, p) /\ denied' = denied \cup {c.of})
  BY <1>4 DEF ExecuteCommand, SendStandardCommand
<1>7. executed' \in Nat
  <2>1. executed \in Nat
    BY DEF Typed
  <2> QED BY <1>4, <2>1 DEF ExecuteCommand, SendStandardCommand
<1>8. Accepts(c, p) => r \in Asked
  <2>1. r \in Requested
    BY <1>3 DEF Requested, Lengths
  <2> QED BY <2>1, RequestMeans DEF Asked
<1>9. requests' \in Seq(Asked)
  <2>1. requests \in Seq(Asked)
    BY DEF Typed
  <2> HIDE DEF r
  <2> QED BY <1>6, <1>8, <2>1
<1>10. Typed'
  BY <1>5, <1>7, <1>9, SameTables DEF Typed
<1>11. Followed'
  BY <1>5, SameTables DEF Followed, Current
<1>12. CommandsSent'
  <2>1. denied \subseteq Unsent(type) /\ type' = type
    BY <1>5 DEF CommandsSent, Unsent
  <2>2. denied' \subseteq Unsent(type)
    BY <1>6, <2>1, DeniedOnly
  <2> QED BY <2>1, <2>2 DEF CommandsSent, Unsent
<1> QED BY <1>10, <1>11, <1>12

\* A frame about nothing, or about another variable, leaves things as they are.
LEMMA CurrentAppend ==
  ASSUME NEW name, NEW raw, NEW a \in Heard, name \notin a.of,
         answers \in Seq(Heard), answers' = Append(answers, a),
         UNCHANGED <<type, queue, shown>>, Current(name, raw)
  PROVE  Current(name, raw)'
<1>1. /\ Nothing(answers, name) => Nothing(answers', name)
      /\ LastIs(answers, name, raw) => LastIs(answers', name, raw)
  BY AppendOther
<1> QED BY <1>1, SameTables DEF Current

\* The node: the register and the answer change together.
LEMMA ValueNode ==
  ASSUME ValueInv, CommandInv', Node
  PROVE  ValueInv'
<1> USE DEF ValueInv
<1> DEFINE r == Head(requests)
           a == Answer(r, held')
<1>1. requests # <<>> /\ requests \in Seq(Asked) /\ answers \in Seq(Heard)
  BY DEF Node, Typed
<1>2. r \in Asked /\ requests' = Tail(requests) /\ requests' \in Seq(Asked)
  BY <1>1 DEF Node
<1>3. UNCHANGED <<driver, type, subject, queue, shown, alive, denied, refused, executed, strays,
                  lost>>
  BY DEF Node
<1>4. held' = CASE r.op = "set" -> [held EXCEPT ![r.id] = r.raw]
                [] r.op = "reset" -> [id \in DOMAIN held |-> 0]
                [] OTHER -> held
  BY DEF Node
<1>5. target' = CASE r.op = "set" -> Put(target, r.meant)
                  [] r.op = "reset" -> NoStates
                  [] r.op = "move" -> [n \in DOMAIN target \ {"Position", "TargetPosition"}
                                         |-> target[n]]
                  [] OTHER -> target
  BY DEF Node
<1>6. /\ answers' = IF r.op \in Mute THEN answers ELSE Append(answers, a)
      /\ unheard' = unheard \ Answer(r, held).of
  BY DEF Node
<1>7. Answer(r, held).of = a.of /\ a.op = r.op /\ a.id = r.id
  BY DEF Answer
<1>8. a.of = IF r.op \in OfVariables THEN {Channel.variables[r.id]} ELSE {}
  BY DEF Answer, OfVariables
<1>9. a.raw = IF r.op \in OfVariables THEN held'[r.id] ELSE 0
  BY DEF Answer, OfVariables
<1> HIDE DEF r, a
<1>10. /\ r \in Requested /\ r.op \in Ops \ Strays /\ MeansItsRaw(r)
       /\ r.op \in OfVariables => r.id \in DOMAIN Channel.variables
  BY <1>2, RequestOps DEF Asked, CommandInv
<1>11. held \in [DOMAIN Channel.variables -> Int32] /\ DOMAIN held = DOMAIN Channel.variables
  BY DEF Typed
<1>12. held' \in [DOMAIN Channel.variables -> Int32]
  <2>1. CASE r.op = "set"
    BY <1>4, <1>10, <1>11, <2>1 DEF MeansItsRaw
  <2>2. CASE r.op = "reset"
    BY <1>4, <1>11, <2>2, ZeroFits
  <2>3. CASE r.op \notin {"set", "reset"}
    BY <1>4, <1>11, <2>3
  <2> QED BY <2>1, <2>2, <2>3
<1>13. ASSUME r.op \notin Mute PROVE a \in Heard
  <2>1. answers' = Append(answers, a) /\ answers' \in Seq(Answered)
    <3>1. answers' \in Seq(Answered)
      BY <1>3, SameType DEF CommandInv, OnTheWay
    <3> QED BY <1>6, <1>13, <3>1
  <2>2. a \in Answered
    <3>1. Len(answers) \in Nat /\ Len(answers') = Len(answers) + 1
      BY <1>1, <2>1
    <3>2. answers'[Len(answers) + 1] = a
      BY <1>1, <2>1
    <3>3. Len(answers) + 1 \in 1 .. Len(answers')
      BY <3>1
    <3> QED BY <2>1, <3>2, <3>3
  <2>3. a.raw \in Int32
    BY <1>9, <1>10, <1>12, ZeroFits
  <2>4. a.op \in Ops /\ a.of = IF a.op \in OfVariables THEN {Channel.variables[a.id]} ELSE {}
    BY <1>7, <1>8, <1>10
  <2> QED BY <2>2, <2>3, <2>4 DEF Heard
<1>14. answers' \in Seq(Heard)
  BY <1>1, <1>6, <1>13
<1>15. Agrees(Channel, Unsent(type))
  BY ChannelAgrees
<1>16. DOMAIN target' \subseteq Names(Channel.variables)
  <2>1. DOMAIN target \subseteq Names(Channel.variables)
    BY DEF Typed
  <2>2. CASE r.op = "set"
    <3>1. DOMAIN r.meant \subseteq Names(Channel.variables)
      BY <1>10, <2>2, NamesOf DEF MeansItsRaw
    <3> QED BY <1>5, <2>1, <2>2, <3>1 DEF Put
  <2>3. CASE r.op # "set"
    BY <1>5, <2>1, <2>3 DEF NoStates
  <2> QED BY <2>2, <2>3
<1>17. unheard' \subseteq Names(Channel.variables)
  BY <1>6 DEF Typed
<1>18. Typed'
  BY <1>2, <1>3, <1>12, <1>14, <1>16, <1>17, SameTables DEF Typed
<1>19. ASSUME NEW id \in DOMAIN Channel.variables, Channel.variables[id] \in DOMAIN target'
       PROVE  LET name == Channel.variables[id] IN
                /\ Near(target'[name], held'[id], Channel.scaling[name])
                /\ name \notin unheard' => Current(name, held[id])'
  <2> DEFINE name == Channel.variables[id]
  <2>1. r.op # "reset"
    BY <1>5, <1>19 DEF NoStates
  \* The step is about another variable.
  <2>2. CASE name \notin a.of
    <3>1. name \in DOMAIN target /\ target'[name] = target[name] /\ held'[id] = held[id]
      <4>1. CASE r.op = "set"
        <5>1. name # Channel.variables[r.id] /\ id # r.id
          BY <1>8, <2>2, <4>1 DEF OfVariables
        <5>2. DOMAIN r.meant = {Channel.variables[r.id]}
          BY <1>10, <4>1 DEF MeansItsRaw
        <5>3. name \in DOMAIN target /\ target'[name] = target[name]
          BY <1>5, <1>19, <4>1, <5>1, <5>2 DEF Put
        <5>4. held'[id] = held[id]
          BY <1>4, <1>11, <4>1, <5>1
        <5> QED BY <5>3, <5>4
      <4>2. CASE r.op # "set"
        BY <1>4, <1>5, <1>19, <2>1, <4>2
      <4> QED BY <4>1, <4>2
    <3>2. /\ Near(target[name], held[id], Channel.scaling[name])
          /\ name \notin unheard => Current(name, held[id])
      BY <3>1 DEF Followed
    <3>3. name \notin unheard' => name \notin unheard
      BY <1>6, <1>7, <2>2
    <3>4. ASSUME name \notin unheard' PROVE Current(name, held[id])'
      <4> DEFINE raw == held[id]
      <4>1. Current(name, raw)
        BY <3>2, <3>3, <3>4
      <4>2. CASE r.op \in Mute
        BY <1>3, <1>6, <3>1, <4>1, <4>2, SameTables DEF Current
      <4>3. CASE r.op \notin Mute
        <5>1. answers' = Append(answers, a) /\ a \in Heard
          BY <1>6, <1>13, <4>3
        <5> HIDE DEF name, raw
        <5>2. /\ Nothing(answers, name) => Nothing(answers', name)
              /\ LastIs(answers, name, raw) => LastIs(answers', name, raw)
          BY <1>1, <2>2, <5>1, AppendOther DEF name
        <5>3. \/ LastIs(answers', name, raw)
              \/ Nothing(answers', name) /\ LastIs(queue', name, raw)
              \/ /\ Nothing(answers', name) /\ Nothing(queue', name)
                 /\ name \in DOMAIN shown'
                 /\ shown'[name] = ScaleToDouble(raw, Channel.scaling[name])
          BY <1>3, <4>1, <5>2, SameTables DEF Current
        <5> QED BY <1>3, <3>1, <5>3, SameTables DEF Current, raw, name
      <4> QED BY <4>2, <4>3
    <3> QED BY <3>1, <3>2, <3>4
  \* The step is about this variable.
  <2>3. CASE name \in a.of
    <3>1. r.op \in OfVariables /\ name = Channel.variables[r.id]
      BY <1>8, <2>3
    <3>2. id = r.id
      BY <1>10, <1>15, <3>1 DEF Agrees
    <3>3. r.op \notin Mute
      BY <3>1 DEF OfVariables, Mute
    <3>4. Near(target'[name], held'[id], Channel.scaling[name])
      <4>1. CASE r.op = "set"
        <5>1. /\ DOMAIN r.meant = {name}
              /\ Near(r.meant[name], r.raw, Channel.scaling[name])
          BY <1>10, <3>1, <4>1 DEF MeansItsRaw
        <5>2. target'[name] = r.meant[name]
          BY <1>5, <4>1, <5>1 DEF Put
        <5>3. held'[id] = r.raw
          BY <1>4, <1>11, <3>2, <4>1
        <5> QED BY <5>1, <5>2, <5>3
      <4>2. CASE r.op # "set"
        <5>1. target' = target /\ held' = held
          BY <1>4, <1>5, <2>1, <3>3, <4>2 DEF Mute
        <5> QED BY <1>19, <5>1 DEF Followed
      <4> QED BY <4>1, <4>2
    <3>5. Current(name, held[id])'
      <4>1. answers' = Append(answers, a) /\ a \in Heard
        BY <1>6, <1>13, <3>3
      <4>2. LastIs(answers', name, a.raw)
        BY <1>1, <2>3, <4>1, AppendAbout
      <4>3. a.raw = held'[id]
        BY <1>9, <3>1, <3>2
      <4> QED BY <1>3, <4>2, <4>3, SameTables DEF Current
    <3> QED BY <3>4, <3>5
  <2> QED BY <2>2, <2>3
<1>20. Followed'
  BY <1>3, <1>19, SameTables DEF Followed
<1>21. CommandsSent'
  BY <1>3 DEF CommandsSent
<1> QED BY <1>18, <1>20, <1>21

LEMMA ValueStray ==
  ASSUME ValueInv, CommandInv', Stray
  PROVE  ValueInv'
<1> USE DEF ValueInv
<1>1. PICK s \in Strays : answers' = Append(answers, [op |-> s, id |-> "", raw |-> 0, of |-> {}])
  BY DEF Stray
<1> DEFINE a == [op |-> s, id |-> "", raw |-> 0, of |-> {}]
<1>2. answers' = Append(answers, a) /\ answers \in Seq(Heard)
  BY <1>1 DEF Typed
<1>3. UNCHANGED <<driver, type, subject, requests, held, queue, shown, alive, target, unheard,
                  denied, refused, executed, lost>>
  BY DEF Stray
<1>4. a.op = s /\ a.raw = 0 /\ a.of = {} /\ s \in Ops /\ s \notin OfVariables
  <2>1. s \in Ops
    BY DEF Ops
  <2>2. s \notin OfVariables
    BY DEF Strays, OfVariables
  <2> QED BY <2>1, <2>2
<1> HIDE DEF a
<1>5. a \in Heard
  <2>1. answers' \in Seq(Answered)
    BY <1>3, SameType DEF CommandInv, OnTheWay
  <2>2. /\ Len(answers) \in Nat /\ Len(answers') = Len(answers) + 1
        /\ answers'[Len(answers) + 1] = a
    BY <1>2
  <2>3. Len(answers) + 1 \in 1 .. Len(answers')
    BY <2>2
  <2>4. a \in Answered
    BY <2>1, <2>2, <2>3
  <2> QED BY <1>4, <2>4, ZeroFits DEF Heard
<1>6. answers' \in Seq(Heard)
  BY <1>2, <1>5
<1>7. strays' \in Nat
  <2>1. strays \in Nat
    BY DEF Typed
  <2>2. strays' = strays + 1
    BY DEF Stray
  <2> QED BY <2>1, <2>2
<1>8. Typed'
  BY <1>3, <1>6, <1>7, SameTables DEF Typed
<1>9. ASSUME NEW name, NEW raw, Current(name, raw) PROVE Current(name, raw)'
  BY <1>2, <1>3, <1>4, <1>5, <1>9, CurrentAppend
<1>10. Followed'
  BY <1>3, <1>9, SameTables DEF Followed
<1> QED BY <1>3, <1>8, <1>10 DEF CommandsSent

\* A frame is lost: if it was the last about its variable, that is unheard.
LEMMA CurrentDiscard ==
  ASSUME Discard, answers \in Seq(Heard), answers # <<>>, UNCHANGED <<type, queue, shown>>,
         NEW name, name \notin unheard', NEW raw, Current(name, raw)
  PROVE  Current(name, raw)'
<1>1. answers' = Tail(answers)
  BY DEF Discard
<1>2. /\ Nothing(answers, name) => Nothing(answers', name)
      /\ LastIs(answers, name, raw) =>
           LastIs(answers', name, raw) \/ (Nothing(answers', name) /\ name \in Head(answers).of)
  BY <1>1, TailOf
<1>3. ASSUME Nothing(answers', name) PROVE name \notin Head(answers).of
  <2>1. \A i \in 2 .. Len(answers) : name \notin answers[i].of
    <3>1. \A i \in 2 .. Len(answers) : answers[i] = answers'[i - 1]
      BY <1>1
    <3>2. \A i \in 2 .. Len(answers) : i - 1 \in 1 .. Len(answers')
      BY <1>1
    <3> QED BY <1>3, <3>1, <3>2 DEF Nothing
  <2> QED BY <2>1 DEF Discard
<1> QED BY <1>2, <1>3, SameTables DEF Current

\* A frame goes from the driver to the end of the queue.
LEMMA CurrentQueued ==
  ASSUME answers \in Seq(Heard), answers # <<>>, queue \in Seq(Heard),
         answers' = Tail(answers),
         \/ queue' = Append(queue, Head(answers))
         \/ queue' = queue /\ Head(answers).of = {},
         UNCHANGED <<type, shown>>, NEW name, NEW raw, Current(name, raw)
  PROVE  Current(name, raw)'
<1> DEFINE h == Head(answers)
<1>1. h \in Heard
  OBVIOUS
<1>2. /\ Nothing(answers, name) => Nothing(answers', name) /\ name \notin h.of
      /\ LastIs(answers, name, raw) =>
           \/ LastIs(answers', name, raw)
           \/ Nothing(answers', name) /\ name \in h.of /\ h.raw = raw
  BY TailOf
<1>3. queue' = Append(queue, h) \/ (queue' = queue /\ h.of = {})
  OBVIOUS
<1> HIDE DEF h
<1>4. ASSUME name \notin h.of
      PROVE  /\ Nothing(queue, name) => Nothing(queue', name)
             /\ LastIs(queue, name, raw) => LastIs(queue', name, raw)
  BY <1>1, <1>3, <1>4, AppendOther
<1>5. ASSUME name \in h.of, h.raw = raw PROVE LastIs(queue', name, raw)
  BY <1>1, <1>3, <1>5, AppendAbout
<1> QED BY <1>2, <1>4, <1>5, SameTables DEF Current

LEMMA ValueMoves ==
  ASSUME ValueInv, CommandInv', Overrun \/ OnCANCallback
  PROVE  ValueInv'
<1> USE DEF ValueInv
<1>1. /\ UNCHANGED <<driver, type, subject, requests, held, shown, alive, target, denied,
                     refused, executed, strays>>
      /\ answers # <<>> /\ answers' = Tail(answers)
  BY DEF Overrun, OnCANCallback, Discard
<1>2. answers \in Seq(Heard) /\ queue \in Seq(Heard) /\ lost \in Nat
  BY DEF Typed
<1>3. answers' \in Seq(Heard) /\ Head(answers) \in Heard
  BY <1>1, <1>2
<1>4. CASE Discard /\ UNCHANGED queue
  <2>1. lost' \in Nat
    BY <1>2, <1>4 DEF Discard
  <2>2. unheard' \subseteq Names(Channel.variables)
    <3>1. Head(answers).of \subseteq Names(Channel.variables)
      BY <1>3 DEF Heard, Answered
    <3> QED BY <1>4, <3>1 DEF Discard, Typed
  <2>3. Typed'
    BY <1>1, <1>3, <1>4, <2>1, <2>2, SameTables DEF Typed
  <2>4. unheard \subseteq unheard'
    BY <1>4 DEF Discard
  <2>5. ASSUME NEW name, name \notin unheard', NEW raw, Current(name, raw)
        PROVE  Current(name, raw)'
    BY <1>1, <1>2, <1>4, <2>5, CurrentDiscard
  <2>6. Followed'
    BY <1>1, <2>4, <2>5, SameTables DEF Followed
  <2> QED BY <1>1, <2>3, <2>6 DEF CommandsSent
<1>5. CASE /\ driver = "Kvaser" /\ UNCHANGED <<unheard, lost>>
           /\ queue' = IF Head(answers).op = "empty" THEN queue ELSE Append(queue, Head(answers))
  <2>1. \/ queue' = Append(queue, Head(answers))
        \/ queue' = queue /\ Head(answers).of = {}
    BY <1>3, <1>5 DEF Heard, OfVariables
  <2>2. queue' \in Seq(Heard)
    <3> DEFINE h == Head(answers)
    <3>1. h \in Heard /\ (queue' = Append(queue, h) \/ queue' = queue)
      BY <1>3, <2>1
    <3> HIDE DEF h
    <3> QED BY <1>2, <3>1
  <2>3. Typed'
    BY <1>1, <1>2, <1>3, <1>5, <2>2, SameTables DEF Typed
  <2>4. ASSUME NEW name, NEW raw, Current(name, raw) PROVE Current(name, raw)'
    BY <1>1, <1>2, <2>1, <2>4, CurrentQueued
  <2>5. Followed'
    BY <1>1, <1>5, <2>4, SameTables DEF Followed
  <2> QED BY <1>1, <2>3, <2>5 DEF CommandsSent
<1> QED BY <1>4, <1>5 DEF Overrun, OnCANCallback

\* A frame that is handled shows what it is about and nothing else that is a variable.
LEMMA Shows ==
  ASSUME CommandInv, NEW a \in Heard, OnCANRecv(a), NEW name \in Names(Channel.variables)
  PROVE  /\ name \in a.of => /\ name \in DOMAIN shown'
                             /\ shown'[name] = ScaleToDouble(a.raw, Channel.scaling[name])
         /\ name \notin a.of /\ name \in DOMAIN shown =>
              name \in DOMAIN shown' /\ shown'[name] = shown[name]
<1>1. a.of = IF a.op \in OfVariables THEN {Channel.variables[a.id]} ELSE {}
  BY DEF Heard
<1>2. Agrees(Channel, Unsent(type))
  BY ChannelAgrees
<1>3. CASE Understood(a) /\ shown' = Put(shown, ProcessCANCommand(a))
  <2> DEFINE new == ProcessCANCommand(a)
  <2>1. CASE a.op \in OfVariables
    <3>1. new = GetSetVariableResponse(a) /\ a.of = {Channel.variables[a.id]}
      BY <1>1, <2>1 DEF ProcessCANCommand, OfVariables
    <3>2. /\ DOMAIN new = a.of
          /\ name \in a.of => new[name] = ScaleToDouble(a.raw, Channel.scaling[name])
      BY <3>1 DEF GetSetVariableResponse
    <3> QED BY <1>3, <3>2 DEF Put
  <2>2. CASE a.op \notin OfVariables
    <3>1. a.of = {} /\ name \notin DOMAIN new
      <4>1. CASE a.op = "toNode"
        BY <1>1, <2>2, <4>1 DEF ProcessCANCommand, OfVariables, NoStates
      <4>2. CASE a.op # "toNode"
        <5>1. a.op \in DOMAIN Channel.marks /\ DOMAIN new = Channel.marks[a.op]
          BY <1>3, <2>2, <4>2 DEF Understood, ProcessCANCommand, OfVariables
        <5> QED BY <1>1, <1>2, <2>2, <5>1 DEF Agrees
      <4> QED BY <4>1, <4>2
    <3> QED BY <1>3, <3>1 DEF Put
  <2> QED BY <2>1, <2>2
<1>4. CASE (~Understood(a) \/ a.op = "toNode") /\ UNCHANGED shown
  <2>1. a.of = {}
    BY <1>1, <1>4 DEF Understood, OfVariables
  <2> QED BY <1>4, <2>1
<1> QED BY <1>3, <1>4 DEF OnCANRecv

LEMMA ValueReceived ==
  ASSUME ValueInv, CommandInv', SocketCANReceive \/ KvaserReceive
  PROVE  ValueInv'
<1> USE DEF ValueInv
<1>1. UNCHANGED <<driver, type, subject, requests, held, target, unheard, denied, executed,
                  strays, lost>>
  BY DEF SocketCANReceive, KvaserReceive
<1>2. /\ answers \in Seq(Heard) /\ queue \in Seq(Heard) /\ refused \subseteq Ops
      /\ driver = "SocketCAN" => queue = <<>>
  BY DEF Typed
<1>3. PICK frames \in Seq(Heard) :
        /\ frames # <<>>
        /\ \/ OnCANRecv(Head(frames))
           \/ Head(frames).op = "toNode" /\ UNCHANGED <<shown, alive, refused>>
        /\ \/ /\ frames = answers /\ queue = <<>>
              /\ answers' = Tail(frames) /\ queue' = queue
           \/ frames = queue /\ queue' = Tail(frames) /\ answers' = answers /\ driver = "Kvaser"
  BY <1>2 DEF SocketCANReceive, KvaserReceive
<1> DEFINE a == Head(frames)
<1>4. a \in Heard /\ Tail(frames) \in Seq(Heard)
  BY <1>3
<1>5. /\ answers' \in Seq(Heard) /\ queue' \in Seq(Heard)
      /\ driver = "SocketCAN" => queue' = <<>>
  BY <1>2, <1>3, <1>4
<1>6. refused' \subseteq Ops /\ alive' \in BOOLEAN
  BY <1>2, <1>3, <1>4 DEF OnCANRecv, Heard, Typed
<1>7. Typed'
  BY <1>1, <1>5, <1>6, SameTables DEF Typed
<1>8. ASSUME NEW name \in Names(Channel.variables)
      PROVE  /\ name \in a.of =>
                  /\ name \in DOMAIN shown'
                  /\ shown'[name] = ScaleToDouble(a.raw, Channel.scaling[name])
             /\ name \notin a.of /\ name \in DOMAIN shown =>
                  name \in DOMAIN shown' /\ shown'[name] = shown[name]
  <2>1. CASE OnCANRecv(a)
    BY <1>4, <2>1, Shows
  <2>2. CASE a.op = "toNode" /\ UNCHANGED shown
    BY <1>4, <2>2 DEF Heard, OfVariables
  <2> QED BY <1>3, <2>1, <2>2
<1>9. ASSUME NEW name \in Names(Channel.variables), NEW raw, Current(name, raw)
      PROVE  Current(name, raw)'
  <2>1. /\ Nothing(frames, name) => name \notin a.of /\ Nothing(Tail(frames), name)
        /\ LastIs(frames, name, raw) =>
             \/ LastIs(Tail(frames), name, raw)
             \/ Nothing(Tail(frames), name) /\ name \in a.of /\ a.raw = raw
    BY <1>3, TailOf
  <2>2. Nothing(<<>>, name) /\ ~LastIs(<<>>, name, raw)
    BY DEF Nothing, LastIs
  <2> HIDE DEF a
  <2>3. CASE frames = answers /\ queue = <<>> /\ answers' = Tail(frames) /\ queue' = queue
    BY <1>1, <1>8, <1>9, <2>1, <2>2, <2>3, SameTables DEF Current
  <2>4. CASE frames = queue /\ queue' = Tail(frames) /\ answers' = answers
    BY <1>1, <1>8, <1>9, <2>1, <2>4, SameTables DEF Current
  <2> QED BY <1>3, <2>3, <2>4
<1>10. Followed'
  BY <1>1, <1>9, NamesOf, SameTables DEF Followed
<1> QED BY <1>1, <1>7, <1>10 DEF CommandsSent

LEMMA ValueStep == ValueInv /\ [Next]_vars => ValueInv'
<1> SUFFICES ASSUME ValueInv, [Next]_vars PROVE ValueInv'
  OBVIOUS
<1>1. CommandInv'
  BY CommandStep DEF ValueInv
<1>2. CASE UNCHANGED vars
  BY <1>1, <1>2, SameTables DEF vars, ValueInv, Typed, Followed, Current, CommandsSent
<1>3. CASE alive /\ System
  BY <1>1, <1>3, ValueSends, ValueNode, ValueStray, ValueMoves, ValueReceived DEF System
<1> QED BY <1>2, <1>3 DEF Next, Dead
-----------------------------------------------------------------------------
(* What the invariant says *)

LEMMA ValueInvariant == Spec => []ValueInv
BY ValueInit, ValueStep, PTL DEF Spec

\* The type invariant of the commands, the values of the registers and of the frames
\* included: no command, however it is scaled, makes a node or a frame hold a value that
\* the integer on the bus cannot.
THEOREM TypeCorrect == Spec => []TypeOK
<1>1. ASSUME ValueInv PROVE TypeOK
  <2> DEFINE pipe == answers \o queue
  <2>1. type \in DOMAIN ChannelType /\ driver \in {"SocketCAN", "Kvaser"}
    BY <1>1 DEF ValueInv, CommandInv
  <2>2. Typed
    BY <1>1 DEF ValueInv
  <2>3. \A r \in {requests[i] : i \in DOMAIN requests} : r.op \in Ops \ Strays
    <3>1. \A i \in DOMAIN requests : requests[i] \in Asked
      BY <2>2 DEF Typed
    <3> QED BY <3>1 DEF Asked
  <2>4. \A a \in {pipe[i] : i \in DOMAIN pipe} : a.op \in Ops /\ a.raw \in Int32
    <3>1. pipe \in Seq(Heard)
      BY <2>2 DEF Typed
    <3> HIDE DEF pipe
    <3>2. \A i \in DOMAIN pipe : pipe[i] \in Heard
      BY <3>1
    <3> QED BY <3>2 DEF Heard
  <2>5. Names(Channel.variables) \subseteq Channel.states
    <3>1. \A id \in DOMAIN Channel.variables : Channel.variables[id] \in Channel.states
      BY <1>1, ChannelAgrees DEF ValueInv, Complete
    <3> QED BY <3>1 DEF Names
  <2>6. /\ driver = "SocketCAN" => queue = <<>>
        /\ DOMAIN target \subseteq Channel.states /\ unheard \subseteq Channel.states
    BY <2>2, <2>5 DEF Typed
  <2> QED BY <2>1, <2>2, <2>3, <2>4, <2>6 DEF TypeOK, Typed, Int32
<1> QED BY <1>1, ValueInvariant, PTL

\* Once everything that is on its way has been handled, every state whose last answer was
\* not lost shows what it was commanded to be, whatever the values, the range of the
\* integer on the bus, the type of the channel and the driver, and however many commands,
\* strays and losses there were before.
THEOREM ShownIsCommandedCorrect == Spec => []ShownIsCommanded
<1>1. ASSUME ValueInv PROVE ShownIsCommanded
  <2> SUFFICES ASSUME requests = <<>>, answers = <<>>, queue = <<>>,
                      NEW name \in DOMAIN target \ unheard
               PROVE  /\ name \in DOMAIN shown
                      /\ shown[name] - target[name] < Channel.scaling[name][1]
                      /\ target[name] - shown[name] < Channel.scaling[name][1]
    BY DEF ShownIsCommanded
  <2>1. PICK id \in DOMAIN Channel.variables : name = Channel.variables[id]
    BY <1>1 DEF ValueInv, Typed, Names
  <2>2. Near(target[name], held[id], Channel.scaling[name]) /\ Current(name, held[id])
    BY <1>1, <2>1 DEF ValueInv, Followed
  <2>3. ~LastIs(<<>>, name, held[id])
    BY DEF LastIs
  <2>4. name \in DOMAIN shown /\ shown[name] = ScaleToDouble(held[id], Channel.scaling[name])
    BY <2>2, <2>3 DEF Current
  <2> QED BY <2>2, <2>4 DEF Near
<1> QED BY <1>1, ValueInvariant, PTL

\* A command called as it is declared, with values that fit, is sent whatever the values,
\* but for the setters of two states.
THEOREM CommandsSentCorrect == Spec => []CommandsSent
<1>1. ValueInv => CommandsSent
  BY DEF ValueInv
<1> QED BY <1>1, ValueInvariant, PTL
=============================================================================
