SPECIFICATION Spec
CONSTANTS
  Values <- MCValues
  Low <- MCLow
  High <- MCHigh
  MaxExecuted = 2
  MaxStrays = 1
  MaxLost = 1
INVARIANTS
  TypeOK
  ShownIsCommanded
  AnswersAccepted
  CommandsSent
