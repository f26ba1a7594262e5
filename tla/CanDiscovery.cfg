SPECIFICATION FairSpec
CONSTANTS
  n1 = n1
  n2 = n2
  n3 = n3
  t1 = t1
  t2 = t2
  t3 = t3
  Nodes <- MCNodes
  Twins <- MCTwins
  Twin <- MCTwin
  Known <- MCKnown
  NodeCount = 2
  MaxLost = 1
INVARIANTS
  TypeOK
  NodeOnce
  TwinWithNode
  EnoughNodes
PROPERTIES
  NodeCompleted
  InitEnds
