SPECIFICATION Spec
CONSTANTS
  Nodes = {"node"}
  LoraNodes <- MCLoraNodes
  Channels <- MCChannels
  ChannelMap <- MCChannelMap
  Width <- MCWidth
  Unknown = 2
  Configured = {1, 4}
  Operators = {o1, o2}
  TareBy = {1}
  MaxInputs = 3
  Points <- MCPoints
  None = none
  SendThreads = {s1, s2}
  BufferSizeMax = 3
  PoolSize = 1
SYMMETRY MCSymmetry
INVARIANTS
  TypeOK
  ReadingsInPlace
  PointsKept
  OffsetsSaved
