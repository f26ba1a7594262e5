SPECIFICATION FairSpec
CONSTANTS
  listener = listener
  sequencer = sequencer
  none = none
  Senders <- MCSenders
  Listener <- listener
  None <- none
  Sizes <- MCSizes
  MaxLength = 2
  MaxSockets = 2
  MaxSent = 1
  MaxHeard = 2
  MaxFailed = 1
INVARIANTS
  TypeOK
  FramesWhole
PROPERTIES
  HandledInOrder
  Reconnects
