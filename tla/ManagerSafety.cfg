SPECIFICATION FairSpec
CONSTANTS
  d1 = d1
  d2 = d2
  s1 = s1
  s2 = s2
  Devices = {d1, d2}
  Sensors = {s1, s2}
  SeqFiles <- SafetyFiles
  AbortFiles <- SafetyAborts
  Requests = {"sequence-start", "abort", "auto-abort-change", "states-set"}
  Interval = 1
  MaxLate = 1
  MaxStarts = 2
INVARIANTS
  TypeOK
  AbortAlone
  AbortNeverSkipped
  JoinsAThread
  AbortAttemptsAll
  OnlyBadAbortSticks
  OperatorLockedOut
  StopsPromptly
  NeverEarly
  DatapointsInOrder
  RangeMapsAgree
  RangeNeverEmpty
PROPERTIES
  ScreenOrder
  AuthoritySpec
  SequenceEnds
  RequestHandled
