SPECIFICATION Spec
CONSTANTS
  d1 = d1
  d2 = d2
  s1 = s1
  s2 = s2
  Devices = {d1, d2}
  Sensors = {s1, s2}
  SeqFiles <- ArrayFiles
  AbortFiles <- OnTimeAborts
  Requests = {"sequence-start", "abort"}
  Interval = 1
  MaxLate = 0
  MaxStarts = 1
INVARIANTS
  ListedSensorsChecked
