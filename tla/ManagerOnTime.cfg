SPECIFICATION FairSpec
CONSTANTS
  d1 = d1
  d2 = d2
  s1 = s1
  s2 = s2
  Devices = {d1, d2}
  Sensors = {s1, s2}
  SeqFiles <- OnTimeFiles
  AbortFiles <- OnTimeAborts
  Requests = {"sequence-start", "abort", "auto-abort-change", "states-set"}
  Interval = 2
  MaxLate = 1
  MaxStarts = 1
INVARIANTS
  AllCommandedAtEnd
PROPERTIES
  AbortEnds
