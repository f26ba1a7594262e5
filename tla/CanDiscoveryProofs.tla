-------------------------- MODULE CanDiscoveryProofs --------------------------
(***************************************************************************)
(* The safety properties of CanDiscovery for any nodes, twins and counts.  *)
(*                                                                         *)
(* The inductive invariant IInv says what the receive thread knows between *)
(* its two critical sections: the node it builds is not in nodeMap, since  *)
(* no other thread enters nodes (NodeOnce); the twin comes after its node  *)
(* (TwinWithNode); and nothing is received before the main thread has made *)
(* the drivers and asked for answers (TwinDriverReady).                    *)
(***************************************************************************)
EXTENDS CanDiscovery, FiniteSetTheorems, TLAPS

Entering == {"find", "enter", "states", "commands", "lora"}
Early    == {"driver", "useLora", "loraDriver", "autoStart", "request"}

\* What the main thread has done by now.
Started ==
  /\ step = "off" <=> main = "driver"
  /\ main \in Early => answers = {} /\ step \notin Entering /\ nodeMap = {}
  /\ main \in {"driver", "useLora"} => ~useLora
  /\ useLora /\ main # "loraDriver" => loraDriver

\* What the receive thread is entering.
Entry ==
  /\ step \in Entering =>
       \/ id = from
       \/ useLora /\ from \in DOMAIN Twin /\ id = Twin[from] /\ from \in nodeMap
  /\ step = "lora" => id = from /\ from \in nodeMap
  /\ step = "enter" => id \notin nodeMap
  /\ step \in {"states", "commands"} => id \in nodeMap

Entered ==
  /\ \A i \in Ids : created[i] = IF i \in nodeMap THEN 1 ELSE 0
  /\ TwinWithNode
  /\ nodeMap \cap Twins # {} => loraDriver

\* The count that Init tests is old, but nodes are never taken out again.
Counted ==
  /\ currNodeCount <= Cardinality(nodeMap)
  /\ main = "initialized" /\ autoStart => currNodeCount >= NodeCount
  /\ initialized => main = "running"
  /\ EnoughNodes

IInv == TypeOK /\ Started /\ Entry /\ Entered /\ Counted

\* Ids and the mapping of twins, as the assumption has them.
LEMMA IdFacts ==
  /\ Nodes \subseteq Ids /\ Twins \subseteq Ids
  /\ \A n \in DOMAIN Twin : n \in Nodes /\ Twin[n] \in Twins
  /\ \A i \in Ids : i \in Nodes \/ i \in Twins
BY DiscoveryOK DEF Ids

\* nodeMap is finite and grows by entering a node.
LEMMA CountGrows ==
  ASSUME TypeOK, NEW S, S \subseteq Ids, nodeMap \subseteq S
  PROVE  /\ Cardinality(nodeMap) \in Nat /\ Cardinality(S) \in Nat
         /\ Cardinality(nodeMap) <= Cardinality(S)
<1>1. IsFiniteSet(S)
  BY FS_Subset, DiscoveryOK
<1>2. IsFiniteSet(nodeMap) /\ Cardinality(nodeMap) <= Cardinality(S)
  BY <1>1, FS_Subset
<1> QED  BY <1>1, <1>2, FS_CardinalityType

USE DEF MainSteps, RecvSteps, Entering, Early, Main, initVars, busVars, recvVars, nodeVars

LEMMA InitIInv == Init => IInv
<1> SUFFICES ASSUME Init PROVE IInv  OBVIOUS
<1>1. Cardinality(nodeMap) = 0
  BY FS_EmptySet DEF Init
<1>2. TypeOK
  <2>1. lost \in 0..MaxLost
    BY DiscoveryOK DEF Init
  <2>2. created \in [Ids -> Nat]
    BY DEF Init
  <2>3. id \in Ids /\ from \in Nodes
    BY IdFacts DEF Init
  <2>4. /\ main \in MainSteps /\ step \in RecvSteps
        /\ currNodeCount \in Nat /\ counter \in 0..3
        /\ answers = {} /\ nodeMap = {} /\ states = {} /\ commandMap = {}
    BY DEF Init
  <2>5. /\ autoStart \in BOOLEAN /\ useLora \in BOOLEAN
        /\ loraDriver \in BOOLEAN /\ initialized \in BOOLEAN
    BY Zenon DEF Init
  <2> QED  BY <2>1, <2>2, <2>3, <2>4, <2>5 DEF TypeOK
<1>3. Started /\ Entry /\ Entered
  BY IdFacts DEF Init, Started, Entry, Entered, TwinWithNode
<1>4. Counted
  BY <1>1 DEF Init, Counted, EnoughNodes
<1> QED  BY <1>2, <1>3, <1>4 DEF IInv

\* A step that leaves the nodes alone keeps their count.
LEMMA MainIInv == IInv /\ MainThread => IInv'
<1> SUFFICES ASSUME IInv, MainThread PROVE IInv'  OBVIOUS
<1> USE DEF IInv
<1>a. Cardinality(nodeMap) \in Nat
  BY CountGrows DEF TypeOK
<1>b. nodeMap' = nodeMap /\ states' = states /\ commandMap' = commandMap /\ created' = created
  BY DEF MainThread, StartDriver, ReadUseLora, StartLora, ReadAutoStart, FirstRequest,
         Poll, Resend, Test, SetInitialized
<1>c. id' = id /\ from' = from /\ (step' \in Entering => step' = step)
  BY DEF MainThread, StartDriver, ReadUseLora, StartLora, ReadAutoStart, FirstRequest,
         Poll, Resend, Test, SetInitialized, Started
<1>1. TypeOK'
  <2>1. CASE StartDriver      BY <2>1, <1>b DEF StartDriver, TypeOK
  <2>2. CASE ReadUseLora      BY <2>2, <1>b DEF ReadUseLora, TypeOK
  <2>3. CASE StartLora        BY <2>3, <1>b DEF StartLora, TypeOK
  <2>4. CASE ReadAutoStart    BY <2>4, <1>b DEF ReadAutoStart, TypeOK
  <2>5. CASE FirstRequest     BY <2>5, <1>b, DiscoveryOK DEF FirstRequest, RequestCANInfo, TypeOK
  <2>6. CASE Poll             BY <2>6, <1>a, <1>b DEF Poll, TypeOK
  <2>7. CASE Resend           BY <2>7, <1>b, DiscoveryOK DEF Resend, RequestCANInfo, TypeOK
  <2>8. CASE Test             BY <2>8, <1>b DEF Test, TypeOK
  <2>9. CASE SetInitialized   BY <2>9, <1>b DEF SetInitialized, TypeOK
  <2> QED  BY <2>1, <2>2, <2>3, <2>4, <2>5, <2>6, <2>7, <2>8, <2>9 DEF MainThread
<1>2. Started'
  BY <1>b DEF MainThread, StartDriver, ReadUseLora, StartLora, ReadAutoStart, FirstRequest,
         Poll, Resend, Test, SetInitialized, Started, TypeOK
<1>d. (useLora => useLora') \/ (step \notin Entering /\ nodeMap = {})
  BY DEF MainThread, StartDriver, ReadUseLora, StartLora, ReadAutoStart, FirstRequest,
         Poll, Resend, Test, SetInitialized, Started
<1>e. loraDriver => loraDriver'
  BY DEF MainThread, StartDriver, ReadUseLora, StartLora, ReadAutoStart, FirstRequest,
         Poll, Resend, Test, SetInitialized
<1>3. Entry'
  BY <1>b, <1>c, <1>d DEF Entry, Started
<1>4. Entered'
  BY <1>b, <1>e DEF Entered, TwinWithNode
<1>5. Counted'
  <2>1. CASE StartDriver      BY <2>1, <1>b DEF StartDriver, Counted, EnoughNodes
  <2>2. CASE ReadUseLora      BY <2>2, <1>b DEF ReadUseLora, Counted, EnoughNodes
  <2>3. CASE StartLora        BY <2>3, <1>b DEF StartLora, Counted, EnoughNodes
  <2>4. CASE ReadAutoStart    BY <2>4, <1>b DEF ReadAutoStart, Counted, EnoughNodes
  <2>5. CASE FirstRequest     BY <2>5, <1>b DEF FirstRequest, Counted, EnoughNodes
  <2>6. CASE Poll             BY <2>6, <1>a, <1>b DEF Poll, Counted, EnoughNodes
  <2>7. CASE Resend           BY <2>7, <1>b DEF Resend, Counted, EnoughNodes
  <2>8. CASE Test             BY <2>8, <1>b DEF Test, Counted, EnoughNodes
  <2>9. CASE SetInitialized
    BY <2>9, <1>a, <1>b, DiscoveryOK DEF SetInitialized, Counted, EnoughNodes, TypeOK
  <2> QED  BY <2>1, <2>2, <2>3, <2>4, <2>5, <2>6, <2>7, <2>8, <2>9 DEF MainThread
<1> QED  BY <1>1, <1>2, <1>3, <1>4, <1>5

LEMMA RecvIInv == IInv /\ ReceiveThread => IInv'
<1> SUFFICES ASSUME IInv, ReceiveThread PROVE IInv'  OBVIOUS
<1> USE DEF IInv
<1>a. UNCHANGED <<main, initVars, lost>> /\ answers' \subseteq answers
  BY DEF ReceiveThread, InitializeNode, OnCANRecv, Find, Enter, AddStates, AddCommands, FindTwin
<1>b. main \notin Early
  BY DEF ReceiveThread, InitializeNode, OnCANRecv, Find, Enter, AddStates, AddCommands, FindTwin,
         Started
<1>1. CASE \E n \in Nodes : OnCANRecv(n)
  <2> PICK n \in Nodes : OnCANRecv(n)  BY <1>1
  <2>1. TypeOK'
    BY IdFacts DEF OnCANRecv, TypeOK
  <2>2. Started' /\ Entry' /\ Entered' /\ Counted'
    BY <1>b DEF OnCANRecv, Started, Entry, Entered, TwinWithNode, Counted, EnoughNodes
  <2> QED  BY <2>1, <2>2
<1>2. CASE Find
  <2>1. TypeOK' /\ Started' /\ Entered' /\ Counted'
    BY <1>2, <1>b DEF Find, Returned, TypeOK, Started, Entered, TwinWithNode, Counted, EnoughNodes
  <2>2. Entry'
    BY <1>2 DEF Find, Returned, Entry
  <2> QED  BY <2>1, <2>2
<1>3. CASE Enter
  <2>1. TypeOK'
    BY <1>3 DEF Enter, TypeOK
  <2>2. Started' /\ Entry'
    BY <1>3, <1>b DEF Enter, Started, Entry
  <2>3. \A i \in Ids : created'[i] = IF i \in nodeMap' THEN 1 ELSE 0
    BY <1>3 DEF Enter, Entry, Entered, TypeOK
  <2>4. TwinWithNode'
    <3> SUFFICES ASSUME NEW n \in DOMAIN Twin, Twin[n] \in nodeMap' PROVE n \in nodeMap'
      BY DEF TwinWithNode
    <3>1. CASE Twin[n] \in nodeMap
      BY <3>1, <1>3 DEF Enter, Entered, TwinWithNode
    <3>2. CASE Twin[n] = id
      <4>1. id # from
        BY <3>2, IdFacts, DiscoveryOK DEF TypeOK
      <4>2. from \in DOMAIN Twin /\ id = Twin[from] /\ from \in nodeMap
        BY <4>1, <1>3 DEF Enter, Entry
      <4> QED  BY <4>2, <3>2, <1>3, DiscoveryOK DEF Enter
    <3> QED  BY <3>1, <3>2, <1>3 DEF Enter
  <2>5. nodeMap' \cap Twins # {} => loraDriver'
    <3>1. id \in Twins => useLora
      BY <1>3, DiscoveryOK DEF Enter, Entry, TypeOK
    <3> QED  BY <3>1, <1>3, <1>b DEF Enter, Started, Entered
  <2>6. Counted'
    <3>1. /\ Cardinality(nodeMap) \in Nat /\ Cardinality(nodeMap') \in Nat
          /\ Cardinality(nodeMap) <= Cardinality(nodeMap')
      BY CountGrows, <1>3 DEF Enter, TypeOK
    <3> QED  BY <3>1, <1>3, DiscoveryOK DEF Enter, Counted, EnoughNodes, TypeOK
  <2> QED  BY <2>1, <2>2, <2>3, <2>4, <2>5, <2>6 DEF Entered
<1>4. CASE AddStates
  BY <1>4, <1>b DEF AddStates, TypeOK, Started, Entry, Entered, TwinWithNode, Counted, EnoughNodes
<1>5. CASE AddCommands
  BY <1>5, <1>b DEF AddCommands, Returned, TypeOK, Started, Entry, Entered, TwinWithNode,
                    Counted, EnoughNodes
<1>6. CASE FindTwin
  <2>1. TypeOK' /\ Started' /\ Entered' /\ Counted'
    BY <1>6, <1>b, IdFacts DEF FindTwin, TypeOK, Started, Entered, TwinWithNode,
                               Counted, EnoughNodes
  <2>2. Entry'
    BY <1>6 DEF FindTwin, Entry
  <2> QED  BY <2>1, <2>2
<1> QED  BY <1>1, <1>2, <1>3, <1>4, <1>5, <1>6 DEF ReceiveThread, InitializeNode

LEMMA NextIInv == IInv /\ [Next]_vars => IInv'
<1> SUFFICES ASSUME IInv, [Next]_vars PROVE IInv'  OBVIOUS
<1>1. CASE MainThread     BY <1>1, MainIInv
<1>2. CASE ReceiveThread  BY <1>2, RecvIInv
<1>3. CASE UNCHANGED vars
  BY <1>3 DEF vars, IInv, TypeOK, Started, Entry, Entered, TwinWithNode, Counted, EnoughNodes
<1> QED  BY <1>1, <1>2, <1>3 DEF Next, Done

LEMMA SpecIInv == Spec => []IInv
BY InitIInv, NextIInv, PTL DEF Spec

\* Every reachable state has its type.
THEOREM TypeCorrect == Spec => []TypeOK
<1>1. IInv => TypeOK  BY DEF IInv
<1> QED  BY <1>1, SpecIInv, PTL

\* One Node object for an id, however often nodes answer.
THEOREM NodeMadeOnce == Spec => []NodeOnce
<1>1. IInv => NodeOnce  BY DEF IInv, Entered, NodeOnce
<1> QED  BY <1>1, SpecIInv, PTL

\* A LoRa node is entered after the CAN node it belongs to.
THEOREM TwinFollowsNode == Spec => []TwinWithNode
<1>1. IInv => TwinWithNode  BY DEF IInv, Entered
<1> QED  BY <1>1, SpecIInv, PTL

\* The receive thread finds loraDriver set when it makes a LoRa node.
THEOREM TwinHasDriver == Spec => []TwinDriverReady
<1>1. IInv => TwinDriverReady
  <2> SUFFICES ASSUME IInv, step = "enter", id \in Twins PROVE loraDriver
    BY DEF IInv, Entered, TwinDriverReady
  <2>1. useLora /\ main \notin Early
    BY DiscoveryOK DEF IInv, Entry, Started, TypeOK
  <2> QED  BY <2>1 DEF IInv, Started
<1> QED  BY <1>1, SpecIInv, PTL

\* With auto_start, Init ends with node_count nodes in nodeMap.
THEOREM InitWaitsForNodes == Spec => []EnoughNodes
<1>1. IInv => EnoughNodes  BY DEF IInv, Counted
<1> QED  BY <1>1, SpecIInv, PTL
=============================================================================
