----------------------------- MODULE CanDiscovery -----------------------------
(***************************************************************************)
(* Node discovery: CANManager::Init on the main thread and OnCANRecv with  *)
(* InitializeNode on the CAN receive thread, which runs from the creation  *)
(* of the driver on.  A node is asked for its node info by a broadcast,    *)
(* which may miss nodes or whose answers may get lost; the broadcast is    *)
(* repeated in every fourth poll.  A node on the bus may have a twin that  *)
(* sends the same sensor data over LoRa and is entered along with it.      *)
(***************************************************************************)
EXTENDS Naturals, FiniteSets

CONSTANTS Nodes,      \* ids of the nodes on the CAN bus
          Twins,      \* ids of the LoRa nodes (LORA/nodeIDs)
          Twin,       \* Twin[n]: LoRa id of node n (LORA/nodeIDsRef)
          Known,      \* ids whose mapping and channels can be read
          NodeCount,  \* CAN/node_count
          MaxLost     \* bound: broadcasts that do not bring back every node

Ids == Nodes \cup Twins

ASSUME DiscoveryOK ==
  /\ IsFiniteSet(Ids) /\ Nodes \cap Twins = {} /\ Nodes # {}
  /\ DOMAIN Twin \subseteq Nodes /\ Twin \in [DOMAIN Twin -> Twins]
  /\ \A m, n \in DOMAIN Twin : Twin[m] = Twin[n] => m = n
  /\ Known \subseteq Ids
  /\ NodeCount \in Nat /\ MaxLost \in Nat

VARIABLES
  main,            \* what Init does next
  currNodeCount, counter, autoStart, useLora,
  loraDriver,      \* loraDriver is set
  initialized,
  answers,         \* nodes whose node info is on its way to the server
  step, id, from,  \* receive thread: its step, the node it enters, the sender
  nodeMap,         \* ids entered in nodeMap
  states,          \* ids whose states the state controller has
  commandMap,      \* ids whose commands the event manager has
  created,         \* history: Node objects made for each id
  lost             \* bound: broadcasts so far that did not bring back every node

initVars == <<currNodeCount, counter, autoStart, useLora, loraDriver, initialized>>
busVars  == <<answers, lost>>
recvVars == <<step, id, from>>
nodeVars == <<nodeMap, states, commandMap, created>>

vars == <<main, initVars, busVars, recvVars, nodeVars>>

MainSteps == {"driver", "useLora", "loraDriver", "autoStart", "request", "poll", "resend",
              "test", "initialized", "running"}
RecvSteps == {"off", "idle", "find", "enter", "states", "commands", "lora"}

Init ==
  /\ main = "driver"
  /\ currNodeCount = 0 /\ counter = 0
  /\ autoStart = TRUE /\ useLora = FALSE /\ loraDriver = FALSE /\ initialized = FALSE
  /\ answers = {} /\ lost = 0
  /\ step = "off" /\ id \in Nodes /\ from = id
  /\ nodeMap = {} /\ states = {} /\ commandMap = {}
  /\ created = [i \in Ids |-> 0]

-----------------------------------------------------------------------------
(* The main thread.                                                        *)

Main(at, next) == main = at /\ main' = next

\* The constructor of the driver starts the receive thread.
StartDriver ==
  /\ Main("driver", "useLora")
  /\ step' = "idle"
  /\ UNCHANGED <<initVars, busVars, id, from, nodeVars>>

\* use_lora of the configuration has any value, as auto_start below.
ReadUseLora ==
  /\ main = "useLora"
  /\ useLora' \in BOOLEAN
  /\ main' = IF useLora' THEN "loraDriver" ELSE "autoStart"
  /\ UNCHANGED <<currNodeCount, counter, autoStart, loraDriver, initialized,
                 busVars, recvVars, nodeVars>>

StartLora ==
  /\ Main("loraDriver", "autoStart")
  /\ loraDriver' = TRUE
  /\ UNCHANGED <<currNodeCount, counter, autoStart, useLora, initialized,
                 busVars, recvVars, nodeVars>>

ReadAutoStart ==
  /\ Main("autoStart", "request")
  /\ autoStart' \in BOOLEAN
  /\ UNCHANGED <<currNodeCount, counter, useLora, loraDriver, initialized,
                 busVars, recvVars, nodeVars>>

\* The broadcast and the nodes that answer it.
RequestCANInfo ==
  \E reached \in SUBSET Nodes :
    /\ answers' = answers \cup reached
    /\ \/ reached = Nodes /\ lost' = lost
       \/ reached # Nodes /\ lost < MaxLost /\ lost' = lost + 1

FirstRequest ==
  /\ Main("request", "poll")
  /\ RequestCANInfo
  /\ UNCHANGED <<initVars, recvVars, nodeVars>>

\* Mutant: the broadcast is never repeated.
BugPoll ==
  /\ Main("poll", "test")
  /\ currNodeCount' = Cardinality(nodeMap)
  /\ counter' = (counter + 1) % 4
  /\ UNCHANGED <<autoStart, useLora, loraDriver, initialized, busVars, recvVars, nodeVars>>

\* Mutant: every node that was asked is counted.
BugPollCountsAnswers ==
  /\ Main("poll", IF counter = 3 THEN "resend" ELSE "test")
  /\ currNodeCount' = Cardinality(nodeMap \cup answers)
  /\ counter' = (counter + 1) % 4
  /\ UNCHANGED <<autoStart, useLora, loraDriver, initialized, busVars, recvVars, nodeVars>>

\* Mutant: the counter is not reset.
BugPollKeepsCounter ==
  /\ Main("poll", IF counter = 3 THEN "resend" ELSE "test")
  /\ currNodeCount' = Cardinality(nodeMap)
  /\ counter' = counter + 1
  /\ UNCHANGED <<autoStart, useLora, loraDriver, initialized, busVars, recvVars, nodeVars>>

Poll ==
  /\ Main("poll", IF counter = 3 THEN "resend" ELSE "test")
  /\ currNodeCount' = Cardinality(nodeMap)
  /\ counter' = (counter + 1) % 4
  /\ UNCHANGED <<autoStart, useLora, loraDriver, initialized, busVars, recvVars, nodeVars>>

Resend ==
  /\ Main("resend", "test")
  /\ RequestCANInfo
  /\ UNCHANGED <<initVars, recvVars, nodeVars>>

\* while (currNodeCount < nodeCount && !canceled); without auto_start the operator
\* can cancel.
Test ==
  /\ main = "test"
  /\ \/ currNodeCount < NodeCount /\ main' = "poll"
     \/ currNodeCount >= NodeCount /\ main' = "initialized"
     \/ ~autoStart /\ main' = "initialized"
  /\ UNCHANGED <<initVars, busVars, recvVars, nodeVars>>

SetInitialized ==
  /\ Main("initialized", "running")
  /\ initialized' = TRUE
  /\ UNCHANGED <<currNodeCount, counter, autoStart, useLora, loraDriver,
                 busVars, recvVars, nodeVars>>

-----------------------------------------------------------------------------
(* The receive thread handles one message at a time.                       *)

\* A node info message.  Once initialized is set it goes to the node's own handler
\* or is refused, and enters nothing.
OnCANRecv(n) ==
  /\ step = "idle" /\ n \in answers
  /\ answers' = answers \ {n}
  /\ IF initialized
     THEN UNCHANGED recvVars
     ELSE step' = "find" /\ id' = n /\ from' = n
  /\ UNCHANGED <<main, initVars, lost, nodeVars>>

\* InitializeNode returns: for the sender of the message the LoRa twin is next.
Returned == IF id = from THEN "lora" ELSE "idle"

\* Mutant: a node that is already there is entered again.
BugFind ==
  /\ step = "find"
  /\ step' = IF id \in Known THEN "enter" ELSE "idle"
  /\ UNCHANGED <<main, initVars, busVars, id, from, nodeVars>>

\* Mutant: a node that cannot be read is skipped instead of ending the callback.
BugFindSkips ==
  /\ step = "find"
  /\ step' = IF id \notin nodeMap /\ id \in Known THEN "enter" ELSE Returned
  /\ UNCHANGED <<main, initVars, busVars, id, from, nodeVars>>

\* Look the node up and build it.  An exception of the mapping or of the Node
\* constructor ends the callback, so the twin is left out too.
Find ==
  /\ step = "find"
  /\ \/ id \in nodeMap /\ step' = Returned
     \/ id \notin nodeMap /\ id \notin Known /\ step' = "idle"
     \/ id \notin nodeMap /\ id \in Known /\ step' = "enter"
  /\ UNCHANGED <<main, initVars, busVars, id, from, nodeVars>>

Enter ==
  /\ step = "enter" /\ step' = "states"
  /\ nodeMap' = nodeMap \cup {id}
  /\ created' = [created EXCEPT ![id] = @ + 1]
  /\ UNCHANGED <<main, initVars, busVars, id, from, states, commandMap>>

AddStates ==
  /\ step = "states" /\ step' = "commands"
  /\ states' = states \cup {id}
  /\ UNCHANGED <<main, initVars, busVars, id, from, nodeMap, commandMap, created>>

\* Mutant: Init drops what the receive thread has not finished.
BugAddCommands ==
  /\ step = "commands" /\ step' = Returned
  /\ commandMap' = IF initialized THEN commandMap ELSE commandMap \cup {id}
  /\ UNCHANGED <<main, initVars, busVars, id, from, nodeMap, states, created>>

AddCommands ==
  /\ step = "commands" /\ step' = Returned
  /\ commandMap' = commandMap \cup {id}
  /\ UNCHANGED <<main, initVars, busVars, id, from, nodeMap, states, created>>

FindTwin ==
  /\ step = "lora"
  /\ IF useLora /\ from \in DOMAIN Twin
     THEN step' = "find" /\ id' = Twin[from]
     ELSE step' = "idle" /\ UNCHANGED id
  /\ UNCHANGED <<main, initVars, busVars, from, nodeVars>>

-----------------------------------------------------------------------------
MainThread ==
  \/ StartDriver \/ ReadUseLora \/ StartLora \/ ReadAutoStart \/ FirstRequest
  \/ Poll \/ Resend \/ Test \/ SetInitialized

InitializeNode == Find \/ Enter \/ AddStates \/ AddCommands

ReceiveThread == (\E n \in Nodes : OnCANRecv(n)) \/ InitializeNode \/ FindTwin

\* Init is over and no message is on its way.
Done == main = "running" /\ step = "idle" /\ answers = {} /\ UNCHANGED vars

Next == MainThread \/ ReceiveThread \/ Done

Spec == Init /\ [][Next]_vars

\* Both threads are scheduled, and the driver hands over messages in the order of
\* their arrival: none is overtaken for ever by those of other nodes.
FairSpec ==
  /\ Spec
  /\ WF_vars(MainThread) /\ WF_vars(InitializeNode \/ FindTwin)
  /\ \A n \in Nodes : SF_vars(OnCANRecv(n))

-----------------------------------------------------------------------------
TypeOK ==
  /\ main \in MainSteps /\ step \in RecvSteps
  /\ currNodeCount \in Nat /\ counter \in 0..3
  /\ autoStart \in BOOLEAN /\ useLora \in BOOLEAN
  /\ loraDriver \in BOOLEAN /\ initialized \in BOOLEAN
  /\ answers \subseteq Nodes /\ lost \in 0..MaxLost
  /\ id \in Ids /\ from \in Nodes
  /\ nodeMap \subseteq Ids /\ states \subseteq Ids /\ commandMap \subseteq Ids
  /\ created \in [Ids -> Nat]

\* However often a node answers the repeated broadcast, and although the look-up and
\* the insertion are two critical sections, one Node object is made for an id
\* (InitializeNode); a second one would take the place of a node whose commands
\* and states are bound to the first.
NodeOnce == \A i \in Ids : created[i] <= 1

\* A LoRa node is only there together with the CAN node that describes it
\* (OnCANRecv): its messages are decoded with the channels of that node.
TwinWithNode == \A n \in DOMAIN Twin : Twin[n] \in nodeMap => n \in nodeMap

\* A LoRa node is made with the LoRa driver, which is there by then (Init,
\* OnCANRecv): loraDriver is set by another thread than the one that reads it.
TwinDriverReady ==
  (step = "enter" /\ id \in Twins) \/ nodeMap \cap Twins # {} => loraDriver

\* With auto_start, Init does not end before node_count nodes are in nodeMap,
\* although the count it tests is an old one (Init).
EnoughNodes == initialized /\ autoStart => Cardinality(nodeMap) >= NodeCount

\* A node that is entered has its states and commands in the end, also when Init
\* ends in between (InitializeNode).
NodeCompleted == \A i \in Ids : i \in nodeMap ~> i \in states /\ i \in commandMap

\* With auto_start, Init ends although broadcasts and answers get lost, when
\* node_count nodes can be entered (the repeated RequestCANInfo in Init).
InitEnds == <>(main = "running" \/ ~autoStart)
=============================================================================
