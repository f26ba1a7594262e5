----------------------------- MODULE ChannelTypes -----------------------------
(***************************************************************************)
(* What distinguishes the types of channels, and the generic channel that  *)
(* a node is itself: the variables of the channel, the commands it offers, *)
(* and what it does with answers.  A variable is known by its id on the    *)
(* bus and by the name of the state that shows it; values are scaled with  *)
(* a slope and an offset, given here in millionths and rounded to them.    *)
(***************************************************************************)
EXTENDS Integers, Sequences

Million == 1000000
Unit    == <<Million, 0>>
Missing == <<0, 0>>      \* scalingMap.at throws

Names(variables) == {variables[i] : i \in DOMAIN variables}
Unscaled(variables) == [n \in Names(variables) |-> Unit]
But(scaling, changes) == [n \in DOMAIN scaling |->
  IF n \in DOMAIN changes THEN changes[n] ELSE scaling[n]]
LookUp(scaling, name) == IF name \in DOMAIN scaling THEN scaling[name] ELSE Missing

(* A command: what it requests, the variable, the number of parameters the *)
(* commandMap declares, and the parameters the function takes, each with   *)
(* its scaling and the type it is converted to.                            *)
Command(op, id, of, declared, params) ==
  [op |-> op, id |-> id, of |-> of, declared |-> declared, params |-> params]
Int32Param(scaling) == [scaling |-> scaling, type |-> "int32"]

Plain(ops) == {Command(op, "", "", 0, <<>>) : op \in ops}
Setter(variables, scaling, i) ==
  Command("set", i, variables[i], 1, <<Int32Param(LookUp(scaling, variables[i]))>>)
Getter(variables, i) == Command("get", i, variables[i], 0, <<>>)
Both(variables, scaling, ids) ==
  {Setter(variables, scaling, i) : i \in ids} \cup {Getter(variables, i) : i \in ids}
All(variables, scaling) == Both(variables, scaling, DOMAIN variables)

(* Answers without a variable set states of the channel. *)
ResetSettings == [reset |-> {"ResetSettings"}]
Calibrates == [calibrate |-> {"Calibrate"}, reset |-> {"ResetSettings"}]

Type(variables, scaling, commands, marks, others) ==
  [variables |-> variables, scaling |-> scaling, commands |-> commands, marks |-> marks,
   states |-> Names(variables) \cup others]
-----------------------------------------------------------------------------
ADC16Variables == [MEASUREMENT |-> "Measurement", REFRESH_DIVIDER |-> "RefreshDivider"]
ADC16Commands == All(ADC16Variables, Unscaled(ADC16Variables))
                   \cup Plain({"calibrate", "status", "reset"})
ADC16Marks == Calibrates
ADC16 == Type(ADC16Variables, Unscaled(ADC16Variables), ADC16Commands, ADC16Marks,
              {"Calibrate", "RequestStatus", "ResetAllSettings"})

ADC16SingleVariables == [MEASUREMENT |-> "Measurement", REFRESH_DIVIDER |-> "RefreshDivider",
                         DATA |-> "Data"]
ADC16SingleCommands == All(ADC16SingleVariables, Unscaled(ADC16SingleVariables))
                         \cup Plain({"calibrate", "status", "reset"})
ADC16SingleMarks == Calibrates
ADC16Single == Type(ADC16SingleVariables, Unscaled(ADC16SingleVariables), ADC16SingleCommands,
                    ADC16SingleMarks, {"Calibrate", "RequestStatus", "ResetAllSettings"})

ADC24Variables == [REFRESH_DIVIDER |-> "RefreshDivider", LOWER_THRESHOLD |-> "LowerThreshold",
                   UPPER_THRESHOLD |-> "UpperThreshold"]
ADC24Commands == All(ADC24Variables, Unscaled(ADC24Variables))
                   \cup Plain({"calibrate", "status", "reset"})
ADC24Marks == Calibrates
ADC24 == Type(ADC24Variables, Unscaled(ADC24Variables), ADC24Commands, ADC24Marks,
              {"Calibrate", "RequestStatus", "ResetAllSettings"})

IMUVariables == [MEASUREMENT |-> "Measurement", REFRESH_DIVIDER |-> "RefreshDivider"]
IMUCommands == All(IMUVariables, Unscaled(IMUVariables))
                 \cup Plain({"calibrate", "status", "reset"})
IMUMarks == Calibrates
IMU == Type(IMUVariables, Unscaled(IMUVariables), IMUCommands, IMUMarks,
            {"Calibrate", "RequestStatus", "ResetAllSettings"})

DATA32Variables == [REFRESH_DIVIDER |-> "RefreshDivider"]
DATA32Commands == All(DATA32Variables, Unscaled(DATA32Variables)) \cup Plain({"status", "reset"})
DATA32Marks == ResetSettings
DATA32 == Type(DATA32Variables, Unscaled(DATA32Variables), DATA32Commands, DATA32Marks,
               {"RequestStatus", "ResetAllSettings"})

DigitalOutVariables ==
  [STATE |-> "State", DUTY_CYCLE |-> "DutyCycle", FREQUENCY |-> "Frequency",
   MEASUREMENT |-> "Measurement", SENSOR_REFRESH_DIVIDER |-> "RefreshDivider"]
DigitalOutCommands == All(DigitalOutVariables, Unscaled(DigitalOutVariables))
                        \cup Plain({"status", "reset"})
DigitalOutMarks == ResetSettings
DigitalOut == Type(DigitalOutVariables, Unscaled(DigitalOutVariables), DigitalOutCommands,
                   DigitalOutMarks, {"RequestStatus", "ResetAllSettings"})
-----------------------------------------------------------------------------
ServoVariables ==
  [POSITION |-> "Position", TARGET_POSITION |-> "TargetPosition",
   TARGET_PRESSURE |-> "TargetPressure", MAX_SPEED |-> "MaxSpeed", MAX_ACCEL |-> "MaxAccel",
   MAX_TORQUE |-> "MaxTorque", P_PARAM |-> "P", I_PARAM |-> "I", D_PARAM |-> "D",
   SENSOR_CHANNEL_ID |-> "SensorChannelID", POSITION_STARTPOINT |-> "Startpoint",
   POSITION_ENDPOINT |-> "Endpoint", PWM_ENABLED |-> "PWMEnabled",
   POSITION_RAW |-> "PositionRaw", SENSOR_REFRESH_DIVIDER |-> "RefreshDivider"]
ServoScaling == But(Unscaled(ServoVariables),
  [Position |-> <<1526, 0>>, TargetPosition |-> <<1526, 0>>])
ServoPositions == Both(ServoVariables, ServoScaling,
  {"POSITION", "POSITION_RAW", "TARGET_POSITION", "TARGET_PRESSURE", "MAX_SPEED"})
ServoLimits == Both(ServoVariables, ServoScaling,
  {"MAX_ACCEL", "MAX_TORQUE", "P_PARAM", "I_PARAM", "D_PARAM"})
ServoSetUp == Both(ServoVariables, ServoScaling,
  {"SENSOR_CHANNEL_ID", "POSITION_STARTPOINT", "POSITION_ENDPOINT", "PWM_ENABLED",
   "SENSOR_REFRESH_DIVIDER"})
ServoRequests == Plain({"status", "reset"})
  \cup {Command("move", "", "", 2, <<Int32Param(Unit), Int32Param(Unit)>>)}
ServoMarks == ResetSettings
Servo == Type(ServoVariables, ServoScaling,
              ServoPositions \cup ServoLimits \cup ServoSetUp \cup ServoRequests,
              ServoMarks, {"RequestStatus", "ResetAllSettings"})

PneumaticValveVariables ==
  [VALVE_ENABLED |-> "Enabled", POSITION |-> "Position", TARGET_POSITION |-> "TargetPosition",
   THRESHOLD |-> "Threshold", HYSTERESIS |-> "Hysteresis", ON_CHANNEL_ID |-> "OnChannelID",
   OFF_CHANNEL_ID |-> "OffChannelID", POS_CHANNEL_ID |-> "PosChannelID",
   POS_REFRESH_DIVIDER |-> "RefreshDivider"]
ValvePositions == Both(PneumaticValveVariables, Unscaled(PneumaticValveVariables),
  {"VALVE_ENABLED", "POSITION", "TARGET_POSITION", "THRESHOLD", "HYSTERESIS"})
ValveChannels == Both(PneumaticValveVariables, Unscaled(PneumaticValveVariables),
  {"ON_CHANNEL_ID", "OFF_CHANNEL_ID", "POS_CHANNEL_ID", "POS_REFRESH_DIVIDER"})
PneumaticValveMarks == ResetSettings
PneumaticValve == Type(PneumaticValveVariables, Unscaled(PneumaticValveVariables),
                       ValvePositions \cup ValveChannels \cup Plain({"status", "reset"}),
                       PneumaticValveMarks, {"RequestStatus", "ResetAllSettings"})
-----------------------------------------------------------------------------
ControlVariables ==
  [CONTROL_ENABLED |-> "Enabled", TARGET |-> "Target", THRESHOLD |-> "Threshold",
   HYSTERESIS |-> "Hysteresis", ACTUATOR_CHANNEL_ID |-> "ActuatorChannelID",
   SENSOR_CHANNEL_ID |-> "SensorChannelID", REFRESH_DIVIDER |-> "RefreshDivider"]
ControlScaling == But(Unscaled(ControlVariables),
  [Target |-> <<1190, -15196674>>, Hysteresis |-> <<1190, -15196674>>])
ControlTargets == Both(ControlVariables, ControlScaling,
  {"CONTROL_ENABLED", "TARGET", "THRESHOLD", "HYSTERESIS"})
ControlChannels == Both(ControlVariables, ControlScaling,
  {"ACTUATOR_CHANNEL_ID", "SENSOR_CHANNEL_ID", "REFRESH_DIVIDER"})
ControlMarks == ResetSettings
Control == Type(ControlVariables, ControlScaling,
                ControlTargets \cup ControlChannels \cup Plain({"status", "reset"}),
                ControlMarks, {"RequestStatus", "ResetAllSettings"})

PIControlVariables ==
  [PI_CONTROL_ENABLED |-> "Enabled", TARGET |-> "Target", P_POS |-> "P_POS", I_POS |-> "I_POS",
   P_NEG |-> "P_NEG", I_NEG |-> "I_NEG", SENSOR_SLOPE |-> "SensorSlope",
   SENSOR_OFFSET |-> "SensorOffset", OPERATING_POINT |-> "OperatingPoint",
   ACTUATOR_CHANNEL_ID |-> "ActuatorChannelID", SENSOR_CHANNEL_ID |-> "SensorChannelID",
   REFRESH_DIVIDER |-> "RefreshDivider"]
PIControlScaling == [n \in Names(PIControlVariables) |->
  IF n \in {"Enabled", "ActuatorChannelID", "SensorChannelID", "RefreshDivider"}
    THEN Unit ELSE <<1000, 0>>]
PIControlGains == Both(PIControlVariables, PIControlScaling,
  {"PI_CONTROL_ENABLED", "TARGET", "P_POS", "I_POS", "P_NEG"})
PIControlSensor == Both(PIControlVariables, PIControlScaling,
  {"I_NEG", "SENSOR_SLOPE", "SENSOR_OFFSET", "OPERATING_POINT", "ACTUATOR_CHANNEL_ID"})
PIControlChannels == Both(PIControlVariables, PIControlScaling,
  {"SENSOR_CHANNEL_ID", "REFRESH_DIVIDER"}) \cup Plain({"status", "reset"})
PIControlMarks == ResetSettings
PIControl == Type(PIControlVariables, PIControlScaling,
                  PIControlGains \cup PIControlSensor \cup PIControlChannels,
                  PIControlMarks, {"RequestStatus", "ResetAllSettings"})
-----------------------------------------------------------------------------
RocketVariables ==
  [MINIMUM_CHAMBER_PRESSURE |-> "MinimumChamberPressure",
   MINIMUM_FUEL_PRESSURE |-> "MinimumFuelPressure", MINIMUM_OX_PRESSURE |-> "MinimumOxPressure",
   HOLDDOWN_TIMEOUT |-> "HolddownTimeout", STATE_REFRESH_DIVIDER |-> "StateRefreshDivider"]
RocketScaling == But(Unscaled(RocketVariables),
  [MinimumChamberPressure |-> <<3700, 0>>, MinimumFuelPressure |-> <<3670, 0>>,
   MinimumOxPressure |-> <<3735, 0>>])
RocketPressures == Both(RocketVariables, RocketScaling,
  {"MINIMUM_CHAMBER_PRESSURE", "MINIMUM_FUEL_PRESSURE", "MINIMUM_OX_PRESSURE",
   "HOLDDOWN_TIMEOUT"})
RocketStates == Plain({"getState", "internalControl", "abort", "endOfFlight", "autoCheck"})
  \cup {Command("setState", "", "", 1, <<Int32Param(Unit)>>)}
(* The setter of the refresh divider looks its scaling up by another name. *)
RocketDivider == Plain({"status", "reset"})
  \cup {Command("set", "STATE_REFRESH_DIVIDER", "StateRefreshDivider", 1,
                <<Int32Param(LookUp(RocketScaling, "RefreshDivider"))>>),
        Getter(RocketVariables, "STATE_REFRESH_DIVIDER")}
RocketMarks ==
  [getState |-> {"State", "StateStatus"}, setState |-> {"State", "StateStatus"},
   internalControl |-> {"InternalControl"}, abort |-> {"Abort"},
   endOfFlight |-> {"EndOfFlight"}, autoCheck |-> {"AutoCheck"}, reset |-> {"ResetSettings"}]
Rocket == Type(RocketVariables, RocketScaling,
               RocketPressures \cup RocketStates \cup RocketDivider, RocketMarks,
               {"State", "StateStatus", "InternalControl", "Abort", "EndOfFlight", "AutoCheck",
                "RequestStatus", "ResetAllSettings"})
-----------------------------------------------------------------------------
(* The node itself.  SetUARTEnabled declares a parameter and sends the     *)
(* request that reads the variable, which takes none.                      *)
GenericVariables ==
  [BUS1_VOLTAGE |-> "Bus1Voltage", BUS2_VOLTAGE |-> "Bus2Voltage",
   PWR_VOLTAGE |-> "PowerVoltage", PWR_CURRENT |-> "PowerCurrent",
   REFRESH_DIVIDER |-> "RefreshDivider", REFRESH_RATE |-> "RefreshRate",
   UART_ENABLED |-> "UARTEnabled", LOGGING_ENABLED |-> "LoggingEnabled",
   LORA_ENABLED |-> "LoraEnabled"]
GenericPower == Both(GenericVariables, Unscaled(GenericVariables),
  {"BUS1_VOLTAGE", "BUS2_VOLTAGE", "PWR_VOLTAGE", "PWR_CURRENT", "REFRESH_DIVIDER",
   "REFRESH_RATE"})
GenericEnabled == Both(GenericVariables, Unscaled(GenericVariables),
                       {"LOGGING_ENABLED", "LORA_ENABLED"})
  \cup {Command("get", "UART_ENABLED", "UARTEnabled", 1, <<>>),
        Getter(GenericVariables, "UART_ENABLED")}
Speaker == Command("speaker", "", "", 4,
  [i \in 1 .. 4 |-> [scaling |-> Unit, type |-> IF i < 4 THEN "int16" ELSE "int8"]])
GenericRequests == Plain({"data", "status", "flashClear", "reset"}) \cup {Speaker}
GenericMarks == [flashClear |-> {"FlashStatus"}, reset |-> {"ResetAllSettings"}, data |-> {}]
Generic == Type(GenericVariables, Unscaled(GenericVariables),
                GenericPower \cup GenericEnabled \cup GenericRequests, GenericMarks,
                {"ResetAllSettings", "FlashStatus"})

ChannelType ==
  [ADC16 |-> ADC16, ADC16Single |-> ADC16Single, ADC24 |-> ADC24, DATA32 |-> DATA32,
   DigitalOut |-> DigitalOut, Servo |-> Servo, PneumaticValve |-> PneumaticValve,
   Control |-> Control, PIControl |-> PIControl, IMU |-> IMU, Rocket |-> Rocket,
   Generic |-> Generic]
=============================================================================
