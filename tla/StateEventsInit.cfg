CONSTANTS
  Listening = Listening
  Receiving = Receiving
  Checkbox = Checkbox
  Level = Level
  Status = Status
  Sensor = Sensor
  SetTargetPosition = SetTargetPosition
  RequestFlashClear = RequestFlashClear
  States <- AllStates
  Values = {0, 1}
  Commands <- AllCommands
  Events <- Mapping
  Defaults <- None
  Threads <- Threads2
  Listener = Listening
  Writes <- Written
  Sensors <- SensorOnly
  Failing <- MayFail
  MaxInputs = 2
SPECIFICATION FairSpec
PROPERTY InitShowsCurrent
