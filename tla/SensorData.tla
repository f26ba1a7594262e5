------------------------------ MODULE SensorData ------------------------------
(***************************************************************************)
(* Readings of sensors, from the buses to the buffers of the nodes and to  *)
(* the database.  The receive thread of the CAN driver and the listener of *)
(* the UDP driver (LoRa) process frames at the same time.  A frame carries *)
(* a value of each channel in its mask, one after the other; a datagram    *)
(* carries a block of each LoRa node.  Meanwhile commands tare channels,   *)
(* in the channel and in the mapping file, and flush the logger.           *)
(***************************************************************************)
EXTENDS Integers, FiniteSetsExt, Functions, InfluxWriter

CONSTANTS Nodes,       \* the nodes on the CAN bus
          LoraNodes,   \* those of a datagram, in their order (/LORA/nodeIDs)
          Channels,    \* ids of channels, of all nodes: an id is of one node
          ChannelMap,  \* the channels of each node
          Width,       \* typeSize of each channel, in bytes
          Unknown,     \* an id that no node has announced
          Configured,  \* channels whose slope and offset are in the mapping
          Operators,   \* threads that execute commands
          TareBy,      \* values that are tared by
          MaxInputs    \* bound: frames, datagrams and commands

LoraIds   == {LoraNodes[i] : i \in DOMAIN LoraNodes}
AllNodes  == Nodes \cup LoraIds
Receivers == {"CAN", "UDP"}
Ids       == Channels \cup {Unknown}

ASSUME SensorsOK ==
  /\ Channels \subseteq Nat /\ Unknown \in Nat \ Channels
  /\ LoraNodes \in Seq(LoraIds)
  /\ \A i, j \in DOMAIN LoraNodes : LoraNodes[i] = LoraNodes[j] => i = j
  /\ ChannelMap \in [AllNodes -> SUBSET Channels]
  /\ \A n, m \in AllNodes : n # m => ChannelMap[n] \cap ChannelMap[m] = {}
  /\ Width \in [Ids -> 1 .. 4]
  /\ Configured \subseteq Channels /\ TareBy \subseteq Int
  /\ MaxInputs \in Nat
  /\ Points = Channels \X (1 .. MaxInputs)

VARIABLES
  work,        \* frames each receiver has still to process, by their positions
  todo, ptr,   \* of the first one: channels still to read, and bytes read (valuePtr)
  pc, reading, \* of the next channel: what is done, and what GetSensorValue returned
  latest,      \* latestSensorBuffer, of all nodes
  offset,      \* sensorScaling[1] of each channel
  mapping,     \* the offsets in CANMapping
  file,        \* the offsets in its file
  step,        \* where the command of each operator is
  tare,        \* the channel it tares, by what, and the offset it got back
  image,       \* what it is about to write to the file
  overlapped,  \* history: two commands to tare met
  unsaved,     \* history: the file could not be written the last time
  inputs       \* bound

receiveVars == <<work, todo, ptr, pc, reading, latest>>
tareVars    == <<offset, mapping, file, step, tare, image, overlapped, unsaved>>
vars == <<receiveVars, tareVars, writerVars, inputs>>

NoReading == [of |-> {}, n |-> 0, value |-> 0]
NoOffsets == [c \in Channels |-> 0]
NoTare == [channel |-> Unknown, by |-> 0, result |-> 0]
Offsets == [Channels -> Int]

Init ==
  /\ WriterInit
  /\ work = [r \in Receivers |-> <<>>] /\ todo = [r \in Receivers |-> {}]
  /\ ptr = [r \in Receivers |-> 0]
  /\ pc = [r \in Receivers |-> "next"] /\ reading = [r \in Receivers |-> NoReading]
  /\ latest = [c \in Channels |-> NoReading]
  /\ offset = NoOffsets /\ mapping = NoOffsets /\ file = NoOffsets
  /\ step = [o \in Operators |-> "idle"]
  /\ tare = [o \in Operators |-> NoTare] /\ image = [o \in Operators |-> NoOffsets]
  /\ overlapped = FALSE /\ unsaved = FALSE
  /\ inputs = 0
-----------------------------------------------------------------------------
(* What arrives *)

Input == inputs < MaxInputs /\ inputs' = inputs + 1
Masks(n) == SUBSET (ChannelMap[n] \cup {Unknown}) \ {{}}
Frames(n) == [node : {n}, n : {inputs'}, mask : Masks(n)]

First(frames) == Min(DOMAIN frames)
Rest(frames)  == Restrict(frames, DOMAIN frames \ {First(frames)})

Begin(r, frames) ==
  /\ work' = [work EXCEPT ![r] = frames]
  /\ todo' = [todo EXCEPT ![r] = IF DOMAIN frames = {} THEN {} ELSE frames[First(frames)].mask]
  /\ ptr' = [ptr EXCEPT ![r] = 0]

CANFrame ==
  /\ Input /\ DOMAIN work["CAN"] = {}
  /\ \E n \in Nodes : \E f \in Frames(n) : Begin("CAN", <<f>>)
  /\ UNCHANGED <<pc, reading, latest, tareVars, writerVars>>

(* AsyncListen: an EMPTY block is skipped.  After a block whose option is  *)
(* not recognized no other is found, for the position does not advance.    *)
Blocks(n) == {[option |-> "used", frame |-> f] : f \in Frames(n)}
               \cup {[option |-> "empty"], [option |-> "unrecognized"]}

UsedFrames(blocks) ==
  LET bad  == {i \in DOMAIN blocks : blocks[i].option = "unrecognized"}
      used == {i \in DOMAIN blocks : blocks[i].option = "used" /\ \A j \in bad : i < j}
  IN  [i \in used |-> blocks[i].frame]

AsyncListen ==
  /\ Input /\ DOMAIN work["UDP"] = {}
  /\ \E blocks \in [DOMAIN LoraNodes -> UNION {Blocks(n) : n \in LoraIds}] :
       /\ \A i \in DOMAIN blocks : blocks[i] \in Blocks(LoraNodes[i])
       /\ Begin("UDP", UsedFrames(blocks))
  /\ UNCHANGED <<pc, reading, latest, tareVars, writerVars>>
-----------------------------------------------------------------------------
(* ProcessSensorDataAndWriteToRingBuffer, on either receiver *)

Frame(r)   == work[r][First(work[r])]
Current(r) == Min(todo[r])

(* Where the value of channel c begins in a frame. *)
Begins(mask, c) ==
  LET begins[d \in Nat] ==
        IF d = 0 THEN 0 ELSE begins[d - 1] + (IF d - 1 \in mask THEN Width[d - 1] ELSE 0)
  IN  begins[c]

(* An unknown channel makes it throw, and the rest of the frame and of the *)
(* datagram is not read.  GetSensorValue reads what is at valuePtr, and    *)
(* applies the offset under scalingMtx.  The raw value is taken as zero.   *)
\* Mutant: the channel is used without being found.
BugRead(r) ==
  /\ pc[r] = "next" /\ todo[r] # {}
  /\ reading' = [reading EXCEPT ![r] =
                   [of |-> {c \in Frame(r).mask : Begins(Frame(r).mask, c) = ptr[r]},
                    n |-> Frame(r).n, value |-> 0]]
  /\ pc' = [pc EXCEPT ![r] = "read"]
  /\ UNCHANGED <<work, todo, ptr, latest, tareVars, writerVars, inputs>>

Read(r) ==
  /\ pc[r] = "next" /\ todo[r] # {}
  /\ IF Current(r) \in ChannelMap[Frame(r).node]
       THEN /\ reading' = [reading EXCEPT ![r] =
                 [of |-> {c \in Frame(r).mask : Begins(Frame(r).mask, c) = ptr[r]},
                  n |-> Frame(r).n, value |-> offset[Current(r)]]]
            /\ pc' = [pc EXCEPT ![r] = "read"]
            /\ UNCHANGED <<work, todo, ptr>>
       ELSE Begin(r, <<>>) /\ UNCHANGED <<reading, pc>>
  /\ UNCHANGED <<latest, tareVars, writerVars, inputs>>

(* Under bufferMtx, which is kept until the reading is logged, and         *)
(* loggerMtx, which all nodes share.                                       *)
Write(r) ==
  /\ pc[r] = "read" /\ stage = "idle"
  /\ latest' = [latest EXCEPT ![Current(r)] = reading[r]]
  /\ StartDataPoint(<<Current(r), reading[r].n>>)
  /\ pc' = [pc EXCEPT ![r] = "logging"]
  /\ UNCHANGED <<work, todo, ptr, reading, tareVars, inputs>>

\* Mutant: every value takes two bytes.
BugAdvance(r) ==
  /\ ptr' = [ptr EXCEPT ![r] = ptr[r] + 2]
  /\ todo' = [todo EXCEPT ![r] = todo[r] \ {Current(r)}]
  /\ pc' = [pc EXCEPT ![r] = "next"]

Advance(r) ==
  /\ ptr' = [ptr EXCEPT ![r] = ptr[r] + Width[Current(r)]]
  /\ todo' = [todo EXCEPT ![r] = todo[r] \ {Current(r)}]
  /\ pc' = [pc EXCEPT ![r] = "next"]

Log(r) ==
  /\ pc[r] = "logging"
  /\ EndDataPoint \/ FlushFull
  /\ IF stage' = "idle"
       THEN Advance(r) /\ reading' = [reading EXCEPT ![r] = NoReading]
       ELSE UNCHANGED <<ptr, todo, pc, reading>>
  /\ UNCHANGED <<work, latest, tareVars, inputs>>

(* The next frame of the datagram, if there is one. *)
Finish(r) ==
  /\ pc[r] = "next" /\ todo[r] = {} /\ DOMAIN work[r] # {}
  /\ Begin(r, Rest(work[r]))
  /\ UNCHANGED <<pc, reading, latest, tareVars, writerVars, inputs>>
-----------------------------------------------------------------------------
(* The command Tare.  It does the same if it is only to be tested. *)

Tare(o) ==
  /\ Input /\ step[o] = "idle"
  /\ \E c \in Channels, v \in TareBy :
       tare' = [tare EXCEPT ![o] = [channel |-> c, by |-> v, result |-> 0]]
  /\ step' = [step EXCEPT ![o] = "subtract"]
  /\ overlapped' = (overlapped \/ \E p \in Operators : step[p] # "idle")
  /\ UNCHANGED <<offset, mapping, file, image, unsaved, receiveVars, writerVars>>

(* ResetSensorOffset: the offset changes under scalingMtx. *)
Subtract(o) ==
  /\ step[o] = "subtract"
  /\ offset' = [offset EXCEPT ![tare[o].channel] = offset[tare[o].channel] - tare[o].by]
  /\ step' = [step EXCEPT ![o] = "return"]
  /\ UNCHANGED <<mapping, file, tare, image, overlapped, unsaved, receiveVars, writerVars,
                 inputs>>

(* It is copied without the mutex. *)
\* Mutant: the copy is of the offset before.
BugReturnScaling(o) ==
  /\ step[o] = "return"
  /\ tare' = [tare EXCEPT ![o].result = offset[tare[o].channel] + tare[o].by]
  /\ step' = [step EXCEPT ![o] = "map"]
  /\ UNCHANGED <<offset, mapping, file, image, overlapped, unsaved, receiveVars, writerVars,
                 inputs>>

ReturnScaling(o) ==
  /\ step[o] = "return"
  /\ tare' = [tare EXCEPT ![o].result = offset[tare[o].channel]]
  /\ step' = [step EXCEPT ![o] = "map"]
  /\ UNCHANGED <<offset, mapping, file, image, overlapped, unsaved, receiveVars, writerVars,
                 inputs>>

(* The command returns or throws. *)
Return(o) ==
  /\ step' = [step EXCEPT ![o] = "idle"]
  /\ tare' = [tare EXCEPT ![o] = NoTare]
  /\ image' = [image EXCEPT ![o] = NoOffsets]

(* Without a slope and an offset in the mapping SetChannelObj throws, and  *)
(* only the channel was tared.                                             *)
SetChannelObj(o) ==
  /\ step[o] = "map"
  /\ IF tare[o].channel \in Configured
       THEN /\ mapping' = [mapping EXCEPT ![tare[o].channel] = tare[o].result]
            /\ step' = [step EXCEPT ![o] = "load"]
            /\ UNCHANGED <<tare, image>>
       ELSE Return(o) /\ UNCHANGED mapping
  /\ UNCHANGED <<offset, file, overlapped, unsaved, receiveVars, writerVars, inputs>>

(* SaveMapping puts the whole mapping into what the file holds and writes  *)
(* the file.  It only reports an error.                                    *)
LoadFile(o) ==
  /\ step[o] = "load"
  /\ \/ /\ image' = [image EXCEPT ![o] = mapping]
        /\ step' = [step EXCEPT ![o] = "save"]
        /\ UNCHANGED <<tare, unsaved>>
     \/ Return(o) /\ unsaved' = TRUE
  /\ UNCHANGED <<offset, mapping, file, overlapped, receiveVars, writerVars, inputs>>

SaveFile(o) ==
  /\ step[o] = "save"
  /\ \/ file' = image[o] /\ unsaved' = FALSE
     \/ unsaved' = TRUE /\ UNCHANGED file
  /\ Return(o)
  /\ UNCHANGED <<offset, mapping, overlapped, receiveVars, writerVars, inputs>>

(* The command FlushDatabase does not take loggerMtx. *)
FlushDatabase(o) ==
  /\ Input /\ step[o] = "idle"
  /\ Flush
  /\ UNCHANGED <<receiveVars, tareVars>>

Receive(r) == Read(r) \/ Write(r) \/ Log(r) \/ Finish(r)

Command(o) ==
  \/ Tare(o) \/ Subtract(o) \/ ReturnScaling(o) \/ SetChannelObj(o)
  \/ LoadFile(o) \/ SaveFile(o)
  \/ FlushDatabase(o)

Writer(t) == SendThread(t) /\ UNCHANGED <<receiveVars, tareVars, inputs>>

System ==
  \/ CANFrame
  \/ AsyncListen
  \/ \E r \in Receivers : Receive(r)
  \/ \E o \in Operators : Command(o)
  \/ \E t \in SendThreads : Writer(t)

(* The process is dead, or waits for the next input. *)
Halted ==
  /\ \/ ~alive
     \/ /\ \A r \in Receivers : DOMAIN work[r] = {}
        /\ \A o \in Operators : step[o] = "idle"
        /\ queue = <<>> /\ \A t \in SendThreads : sending[t].buffer = None
  /\ UNCHANGED vars

Next == (alive /\ System) \/ Halted

Spec == Init /\ [][Next]_vars
-----------------------------------------------------------------------------
Readings == [of : SUBSET Ids, n : Nat, value : Int]

TypeOK ==
  /\ WriterTypeOK
  /\ \A r \in Receivers :
       /\ \A i \in DOMAIN work[r] : work[r][i].node \in AllNodes
       /\ todo[r] \subseteq Ids /\ (todo[r] # {} => DOMAIN work[r] # {})
       /\ pc[r] # "next" => todo[r] # {}
  /\ ptr \in [Receivers -> Nat] /\ pc \in [Receivers -> {"next", "read", "logging"}]
  /\ reading \in [Receivers -> Readings] /\ latest \in [Channels -> Readings]
  /\ offset \in Offsets /\ mapping \in Offsets /\ file \in Offsets
  /\ step \in [Operators -> {"idle", "subtract", "return", "map", "load", "save"}]
  /\ tare \in [Operators -> [channel : Ids, by : Int, result : Int]]
  /\ \A o \in Operators : step[o] # "idle" => tare[o].channel \in Channels
  /\ image \in [Operators -> Offsets]
  /\ overlapped \in BOOLEAN /\ unsaved \in BOOLEAN /\ inputs \in 0 .. MaxInputs

(* The buffer of a channel holds a value of that channel, whatever other   *)
(* channels with values of other sizes are in the frames, and whichever    *)
(* frames were given up halfway.                                           *)
ReadingsInPlace ==
  \A c \in Channels : latest[c].n > 0 => latest[c].of = {c}

(* Where a point is in the buffers that are still to be sent. *)
Places(p) ==
  ({<<"current", 0>>} \X Whole(current, p))
    \cup (UNION {{<<"queue", i>>} \X Whole(queue[i], p) : i \in DOMAIN queue})
    \cup (UNION {{<<"available", i>>} \X Whole(available[i], p) : i \in DOMAIN available})
    \cup (UNION {{<<"sending", t>>} \X Whole(sending[t].buffer, p) :
                   t \in {s \in SendThreads : sending[s].buffer # None /\ ~sending[s].sent}})

(* A point that was logged is in exactly one place: in a buffer on its way *)
(* to the database, in the database, or in a buffer whose sending failed.  *)
(* None is dropped with a buffer and none is sent twice, with two logging  *)
(* threads, several that send and buffers that are used again.  Only a     *)
(* point that FlushDatabase met is not among them, for it was torn.        *)
PointsKept == \A p \in logged : Cardinality(Places(p)) + db[p] + lost[p] = 1

(* When no channel is being tared the mapping holds the offset that is     *)
(* applied, and the file holds the mapping, unless writing the file has    *)
(* failed, the channel has no entry to be changed, or two commands to tare *)
(* have met: then an older offset may have been saved last.                *)
OffsetsSaved ==
  (\A o \in Operators : step[o] = "idle") /\ ~overlapped =>
    /\ \A c \in Configured : mapping[c] = offset[c]
    /\ unsaved \/ file = mapping
=============================================================================
