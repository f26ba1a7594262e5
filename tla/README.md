# Verification of the low-level server

This directory holds TLA+ models of the low-level server (`llserver`) of a
rocket test stand, TLC configurations that check them on small instances, and
TLAPS proofs. The server sits between a web server (the ECUI), which sends
commands and test sequences as JSON, and the nodes on the CAN buses, which
drive valves and servos and send sensor data.

## The system

| part | threads that run it | state | operations |
|---|---|---|---|
| `main.cpp`, `LLController` | main, signal thread, listener | pointers to the singletons | start-up, shutdown, `OnECUISocketRecv` |
| `EcuiSocket`, `Socket` | listener receives; listener, sequence and transmission threads send | connection, send and receive locks | `SendJson`, `AsyncListen`, `Close`, reconnect |
| `SequenceManager` | listener (start, abort, set), sequence thread (loop) | run flags, mutex, schedule maps | `StartSequence`, `AbortSequence`, `sequenceLoop`, `SetAutoAbort` |
| `EventManager` | whichever thread sets a state | command map, event mapping | `ExecuteCommand`, `OnStateChange` |
| `StateController` | receive threads, filter and transmission threads, listener | the map of states with their dirty bit | `SetState`, `GetDirtyStates`, ... |
| `LLInterface` | transmission thread, filter thread, listener | run flags of its loops | `StartStateTransmission`, `transmitStatesLoop`, `filterSensorsLoop` |
| `CANManager`, `CANMapping` | main (Init), receive threads | node map, sensor buffer | `Init`, `OnCANRecv`, `InitializeNode` |
| `Node`, `Channel` and its types | receive threads, listener, sequence thread | channel info, last sensor values | command functions, responses, ring buffer |
| CAN drivers | their receive threads | sockets, handles | send, receive |
| InfluxDB logging | any thread logs; sending threads | current buffer, buffer pool, queue | `log`, `flush`, `messageSendingLoop` |
| `Debug`, `Config`, `JSONMapping`, `utils`, `DataFilter`, `LoopTimer`, `WatchDog`, `PythonController` | callers | small | helpers |

How they interact: the listener thread of the socket calls
`LLController::OnECUISocketRecv`, which calls `SequenceManager`, `LLInterface` or
`EventManager`. The sequence thread calls `EventManager::ExecuteCommand`, which
calls a command function of a node, and sends timer messages over the same
socket. Receive threads put sensor values and responses into `Node`, which sets
states in `StateController`; a changed state calls back into `EventManager`,
which may execute further commands.

### What is hard about it, and what makes each part correct

- **SequenceManager.** Two threads share five flags, a mutex, four maps and the
  socket, and only the loop and the abort take the mutex. An abort has to wait for
  the sequence thread, command *every* abort action after the sequence's last
  command, whatever throws in between, and leave the manager ready. Passes wake
  up late. The two maps of nominal ranges have to stay in step.
- **StateController, EventManager.** Several threads set states; a state change
  runs its events on the setting thread, outside the lock, and an event may set
  another state. Every entry into a trigger range has to trigger its event once.
- **LLInterface.** The loops check and set, or fetch and send, in two steps. A
  value must not get lost on the way to the web server, and a sensor's state has to
  end up at the latest reading.
- **LLController.** Checks before it acts (`states-set`), sends a snapshot after
  taking it (`states-load`), starts the listener before its handlers exist, and
  destroys what other threads still use.
- **Sockets.** Several threads send on one connection, each message with two writes;
  an error closes it under the lock that `Close` takes; after any exception, its
  own or a handler's, the listener opens another socket under everybody's feet.
  Messages have to stay whole and in order, and the connection has to come back.
- **CANManager, Node, Channel.** Receive threads dispatch messages to nodes that
  the main thread is still discovering; a request and its response are matched by
  nothing but the channel and variable; the commands, answers, scalings and states
  of eleven types of channels and of the node are tables that have to fit together. A frame of
  sensor data is values of different sizes one after the other. A tared offset has
  to get from the channel into the mapping and into its file.
- **InfluxDB logging.** Data points are appended to a buffer without the lock that
  guards the flush; buffers go from the pool through the queue to the sending
  threads and back, and no point may be dropped or sent twice on the way.

`PROJECT.json` lists these as hazards, each at its line with the properties that
would catch it going wrong.

## The modules

| module | models | extends |
|---|---|---|
| `SequencePlan` | a sequence's maps, the interpolation functions, the range bookkeeping | |
| `SequenceManager` | the manager with the listener and the sequence thread | `SequencePlan` |
| `CommandAuthority` | abstract: who may command the plant | |
| `MCSequenceManager` | sequences and abort sequences for TLC | `SequenceManager` |
| `SequenceManagerProofs` | theorems about `SequenceManager` | `SequenceManager`, TLAPS |
| `SequenceManagerRefinement` | it implements `CommandAuthority` | `SequenceManagerProofs` |
| `StateEvents` | states, events, the two loops and `states-load` | |
| `MCStateEvents` | the README's event mapping for TLC | `StateEvents` |
| `StateEventsProofs` | theorems about `StateEvents` | `StateEvents`, TLAPS |
| `CanDiscovery` | `CANManager::Init` and the receive thread that enters nodes | |
| `MCCanDiscovery` | three nodes with LoRa twins for TLC | `CanDiscovery` |
| `CanDiscoveryProofs` | theorems about `CanDiscovery` | `CanDiscovery`, TLAPS |
| `EcuiConnection` | the connection to the web server | |
| `MCEcuiConnection` | one sender and the listener for TLC | `EcuiConnection` |
| `EcuiConnectionProofs` | theorems about `EcuiConnection` | `EcuiConnection`, TLAPS |
| `ChannelTypes` | the tables of the channel types | |
| `CanCommands` | commands, answers and the two kinds of CAN driver | `ChannelTypes` |
| `MCCanCommands` | values and ranges for TLC | `CanCommands` |
| `CanCommandsProofs` | the answers a channel understands | `CanCommands`, TLAPS |
| `CanValuesProofs` | the values of commands, registers and states | `CanCommandsProofs` |
| `InfluxWriter` | buffers, queue and sending threads of the database | |
| `SensorData` | sensor frames, tares and the mapping file; drives `InfluxWriter` | `InfluxWriter` |
| `MCSensorData` | a node and two LoRa nodes for TLC | `SensorData` |
| `SensorDataProofs` | theorems about `SensorData` | `SensorData`, TLAPS |

### SequenceManager

`listener` and `sequencer` are the program counters of the two threads; the other
variables carry the names of the members of the class. Each action is the code
between two points at which the other thread can see or change something:

| code | actions |
|---|---|
| `StartSequence` | `RecvStart`, `StartJoin`, `StartRefuse` / `StartLoad`, `StartRunning`, `StartSpawn` |
| `AbortSequence` (listener) | `RecvAbort`, `AbortCheck`, `AbortStop`, `AbortJoin`, ..., `AbortSend` |
| `abortSequence` | `AbortGuard`, `AbortLock`, `AbortExec` / `AbortThrow` / `AbortExecuted`, `AbortUnlock`, `AbortClear` |
| `SetAutoAbort`, `states-set` | `AutoAbortChange`; `RecvStatesSet`, `StatesCheck`, `StatesSet` |
| `sequenceLoop` | `LoopTest`, `LoopTick`, `LoopLock`, `LoopDevices`, `LoopRanges`, `LoopCheckPass` / `LoopCheckAbort`, `LoopUnlock`, `LoopReset`, `LoopTimerDone`, `LoopClear` |

A datapoint is named by its timestamp; the values commanded are not modelled, so
linear interpolation only says *which* datapoint's own value is commanded. A
map with timestamps as keys is the set of its keys. Time is counted in ticks;
a pass starts at its slot or up to `MaxLate` ticks later. An abort sequence is
the list of whether each of its actions can be read. Sensor values are not
modelled: any sensor with a registered range may be found outside it. The
`joinable()` and `join()` of the thread object are the counter values `"none"`
(no thread) and `"ended"` (returned, not joined).

`CommandAuthority` knows no threads: the authority is idle, with the sequence, over,
with the abort, or stuck. `Phase` and `Pending` in `SequenceManager` compute it
from the flags and counters (the refinement mapping).

### StateEvents

`value` and `dirty` are the map of the `StateController`. `calls[t]` is the stack of
`OnStateChange` calls of thread `t`, one frame for each `SetState` that has not
returned, with the old and the new value of the state and the event it is at.

| code | actions |
|---|---|
| `SetState` | `Store` and `Pushed`, in `Set`, `FilterSet` and `StateEvent` |
| `ExecuteCommandOrState`, `OnStateChange` | `SkipEvent`, `GetArgument`, `StateEvent`, `CommandEvent`, `CommandThrows`, `Return` |
| `GetArgument`, `GetStateValue` | `GetArgument` (enters an unknown state with 0, as the code's `states[stateName]` does) |
| `filterSensorsLoop`, `GetLatestSensorData`, `FilterData` | `FilterPass`, `FilterCheck`, `FilterSet`; `SensorData` is a sensor message |
| `transmitStatesLoop`, `GetDirtyStates` | `TakeDirty`, `TransmitStates` |
| `states-load`, `GetAllStates` | `LoadStates`, `SendInit` |

`owed` is history: it counts, by the README's words about trigger ranges and not by
the code of `ShallTrigger`, the edges each event has not answered. An event has
one parameter. Its command is in `commandMap`. The entries a state has by its
default mapping count as its `Events`. `DataFilter::FilterData` overwrites the
previous value before smoothing it and so returns its argument; the model uses
that. The altitude states derived from barometers are further sensors. A message
the listener handles sets one state. The transmission is started and the web
server connected. `Defaults` (states entered at start-up) is empty in the runs: that
is what `LoadGUIStates` enters for a GUI mapping in the README's format.

### CanDiscovery

`main` is what `CANManager::Init` does next, `step` where the receive thread is in
`InitializeNode`; `id` is the node it enters and `from` the sender of the message.
`answers` is the bus: the nodes whose node info has not been handled yet.

| code | actions |
|---|---|
| `Init` | `StartDriver`, `ReadUseLora`, `StartLora`, `ReadAutoStart`, `FirstRequest`, `Poll`, `Resend`, `Test`, `SetInitialized` |
| `RequestCANInfo` | `RequestCANInfo`, with the nodes that answer |
| `OnCANRecv` | `OnCANRecv`, `FindTwin` |
| `InitializeNode` | `Find`, `Enter`, `AddStates`, `AddCommands` |

`Known` holds the ids that can be read: `GetNodeObj`, `GetChannelObj` and the
constructor of `Node` throw for the others. An exception ends the handling of the
message, as in `CANDriverSocketCAN::receiveLoop`; `CanKvaserReceiveThread` does not
catch it, and the process would end there. `use_lora` and `auto_start` have any
value. Not in the model: an `Init` that throws (the process is ended), the check of
firmware versions (it only prints), and messages other than node info. Before
`initialized` these are ignored; afterwards they go to the nodes and leave `nodeMap`
alone, and a node info message ends as an unknown command of its node.

### EcuiConnection

`call[t]` is where thread `t` is in `Send`, `holder` who holds `socketMtx`, `step` where
the listener is. `socketfd` names the socket in use, 0 stands for -1; `sent` and
`inbox` are what was written to each socket and what is on its way to the server.

| code | actions |
|---|---|
| `SendJson`, `Send` | `SendJson`, `Lock` (dropped or begun), `SendHeader`, `SendPayload` |
| `Connect`, also from `Init` | `OpenSocket`, `Connect` |
| `Recv` | `RecvHeader`, `RecvPayload`, with `Lost`, `Unparsable`, `Repeated` for its errors |
| `EcuiSocket::AsyncListen` | `AsyncListen`: all of the listener; `Handle`, and `Answer` from the handler |
| the web server | `Tell`, `Drop` (in order or by a reset) |

`Init` runs before there is a listener, so its connecting and the listener's are one
program counter. A thread that gets an error while sending waits in `Close` for the
mutex it holds (`call[t] = "close"` and no action). Where `recv` returns -1, which
the code compares as unsigned and takes for success, the buffer is what the last
message left there or nothing that can be parsed. SIGPIPE ends the process
(`alive`). Messages have a sender, a number and a length, no content.

### ChannelTypes, CanCommands

`ChannelTypes` is one record for each of the eleven types of channels and for the
generic channel of a node: its variables with the states that show them, the slope and
offset of each (in millionths), the commands with the parameters they declare and
those they take, and the states an answer without a variable sets. `CanCommands` runs
one channel of any type behind either kind of driver.

| code | actions and operators |
|---|---|
| the command functions, `Channel::SendStandardCommand`, `SetVariable`, `GetVariable` | `Execute` with `Accepts`, `Request` |
| `ScaleAndConvertInt32` and its relatives, `ScaleToDouble` | `Convertible`, `ScaleAndConvert`, `ScaleToDouble` |
| `ProcessCANCommand`, `GetSetVariableResponse` | `ProcessCANCommand` in `OnCANRecv` |
| `CANDriverSocketCAN::receiveLoop` | `SocketCANReceive` |
| `OnCANCallback`, `CanKvaserReceiveThread` | `OnCANCallback`, `KvaserReceive` |
| the firmware of the node | `Node` (external): keeps registers and answers requests |

`target` is history: what each state was commanded to be, by the value the operator
gave and not by the raw value on the bus. Ids are those of the code's enumerations
without the type's prefix. The commands of one behaviour are about one variable
(`subject`), besides those that are about none: variables do not influence each other.

### InfluxWriter, SensorData

`work[r]` are the frames receiver `r` still has to process, by the position of their block
in the datagram; `todo` and `ptr` the channels
left in the first one's mask and `valuePtr`; a reading remembers of which channels
the bytes were that it was taken from. `stage`, `current`, `available`, `queue` and `sending` are
the writer's state; a buffer is the sequence of its points, or of parts of points.

| code | actions |
|---|---|
| CAN receive thread, `CANDriverUDP::AsyncListen` | `CANFrame`, `AsyncListen` |
| `ProcessSensorDataAndWriteToRingBuffer` | `Read`, `Write`, `Log`, `Finish` |
| `InfluxDbWriter::startDataPoint` ... `endDataPoint`, `flush` | `StartDataPoint`, `EndDataPoint`, `FlushFull`, `Flush` |
| `InfluxDbSendThread::messageSendingLoop` | `Dequeue`, `SendData`, `ReturnBuffer` |
| `CANManager::ResetOffset`, `Channel::ResetSensorOffset` | `Tare`, `Subtract`, `ReturnScaling` |
| `CANMapping::SetChannelObj`, `JSONMapping::SaveMapping` | `SetChannelObj`, `LoadFile`, `SaveFile` |
| `FlushDatabase` | `FlushDatabase` |

The raw value of a sensor is taken as zero, so that a reading shows its offset. The
database may refuse a buffer, and a connection to it that fails stays dead.

## The runs

| run | instance | shows |
|---|---|---|
| `manager_safety` | 2 devices, 2 sensors, 3 sequences, 3 abort sequences, 2 starts, passes late by up to 1 tick | all safety properties, the refinement, `SequenceEnds`, `RequestHandled` |
| `manager_on_time` | 1 start, interval 2, endTime 4, well-formed aborts | `AllCommandedAtEnd`, `AbortEnds` |
| `auto_abort` | autoabort may be on | violated: `AutoAbortReachesSafeState` |
| `ranges_array` | `ranges` as an array | violated: `ListedSensorsChecked` |
| `stale_stop` | 2 starts, aborts | violated: `EndsAtEndTime` |
| `state_events` | 4 states, values 0 and 1, 2 commands (one may throw), 3 threads that set states | `EveryEdgeOnce`, `NeverLost`, `ReadingsShown` |
| `valve_order` | the same, no command throws | violated: `ValveFollowsCheckbox` |
| `init_race` | the same | violated: `InitShowsCurrent` |
| `can_discovery` | 3 nodes, each with a twin, one node and one twin unreadable, node_count 2, one lossy broadcast | `NodeOnce`, `TwinWithNode`, `EnoughNodes`, `NodeCompleted`, `InitEnds` |
| `connection` | a sender and the listener, 2 sockets, lengths below, at and above `MaxLength`, 2 messages of the web server | `FramesWhole`, `HandledInOrder`, `Reconnects` |
| `can_commands` | every type, both drivers, 2 requests, 1 stray and 1 lost frame, 2 values | `ShownIsCommanded`, `AnswersAccepted`, `CommandsSent` |
| `sensor_data` | a node with 2 channels and an unknown id, 2 LoRa nodes, 2 operators, 2 sending threads, 3 inputs | `ReadingsInPlace`, `PointsKept`, `OffsetsSaved` |

Bounds. Two starts are enough for everything one run can leave to the next:
the manager's state after the second start has the shape it had after the
first. Sequences have up to three datapoints for a device, which covers the
first, a middle and the last one, datapoints passed over by a late pass, and
datapoints beyond the end. Abort sequences are empty, all good, or bad at the
second action. `AllCommandedAtEnd` is checked where it can hold: datapoints at
multiples of the interval, passes late by less than an interval, because each
pass erases at most one datapoint of a device, and one start. In `state_events` two inputs
(messages, frames or readings) let any two threads overlap; each input can set off
a chain of three states. Values 0 and 1 give both directions of every trigger
type used. In `can_discovery` the three nodes are one with a twin, one whose twin
cannot be read and one that cannot be read itself; three nodes can be entered
and two are waited for, so that `Init` may end before, while and after the third is
entered. The lossy broadcast may miss any set of nodes. What the bounds leave open is
covered by the proofs.

In `connection` `MaxLength` is 2, so that the lengths 1, 2 and 3 are one that fits, the
one for which the header wraps, and one that is not sent. Each thread sends one
message (`MaxSent`), which is enough for two to interleave and for the socket to be
replaced between a header and its payload; two sockets (`MaxSockets`) give one loss and
then the end of descriptors. In `can_commands` two requests (`MaxExecuted`) give the
order of a setting and a later setting, reading or reset, with a lost or stray frame
anywhere between them. The values, -1.5 and 40, are beyond some ranges with some
scalings and within others, and have a fraction to cut off; the ranges of the
integers are scaled down (`MCLow`, `MCHigh`) to keep products within TLC's integers.
`sensor_data` has frames of three inputs (`MaxInputs`), buffers of three points and a pool of one,
so that the pool runs empty and a returned buffer is used again; widths from one
to four bytes are such that a wrong step in `valuePtr` lands at another channel.

Fairness. `SequenceManager` has weak fairness of the listener's handler and of
the loop: both are threads the operating system schedules (the loop with
`SCHED_FIFO`), and each blocks only in a join or a lock whose holder runs. Nothing
forces messages to arrive. `StateEvents` has weak fairness for each thread's
current call, the two loops (they run on timers) and the reply to `states-load`.
`CanDiscovery` has weak fairness of the two threads and strong fairness of the
handling of each node's answer: the driver hands over frames in the order of their
arrival, so no answer is overtaken for ever, although nodes that answer every
broadcast keep the thread busy. Without auto_start `Init` waits for the operator, and
`InitEnds` claims nothing.
`EcuiConnection` has weak fairness of the listener and of each thread's `Send`. Nothing
forces anybody to send a message, the web server to talk or the connection to end, and
an attempt to connect may fail `MaxFailed` times. `CanCommands` and `SensorData` state
safety only.
Deadlock is checked in every run. A terminated process stutters (`Dead`, `Halted`), and so
does one in which every thread waits for input, or for a mutex held in `Close`.

### Findings

Five runs state what the repository says and find that the code does otherwise:

1. `auto_abort`: README.md:491-492 promises that a sensor out of range aborts the
   sequence instantly. `CheckSensors` calls `AbortSequence` on the sequence thread,
   which joins itself: the exception terminates the process, and no safe state is
   commanded.
2. `ranges_array`: the README documents `globals.ranges` as an array; `contains` on a
   JSON array is false, so no range is ever registered and nothing is checked.
3. `stale_stop`: `sequenceToStop` is reset (line 544) before `sequenceRunning`
   (line 555). An abort in between sets it for good: the next run ends at once.
4. `valve_order`: commands run after the lock is released, so two threads that set
   one state may leave the valve opposite to its checkbox.
5. `init_race`: the snapshot of `states-load` may be sent after newer values, and the
   web server keeps the older ones.

Met while modelling, and part of what the models do (most are among the hazards):

- An abort sequence that is no array of readable actions throws between `lock` and
  `unlock` (`SequenceManager.cpp:622-626`; the emulator sends `""`): no safe state, and the manager
  refuses every later start. `AbortEnds` is checked for well-formed ones only.
- `nodeMap` is read without its mutex after `Init` (`CANManager.cpp:417-418`) while a node or its
  twin may still be on its way into it.
- `Rocket::SetStateRefreshDivider` looks its scaling up by a name that is not there
  (`Rocket.cpp:369`), and `Node::SetUARTEnabled` sends the reading request with a parameter (`Node.cpp:651`):
  both throw on every call. `CommandsSent` names them.
- A response to a request for the status throws in every channel, although the request
  is a command. A "ResetSettings" state is set that no channel announces, and the states
  shown keep their values although the node has reset its registers.
- The thread that empties the Kvaser queue catches no exception, so each of these ends
  the process. The callback drops a frame when it reports an error or a change of status.
  It looks handles up in a map whose keys are channel ids; the model takes the two as equal.
- `Socket::Send` calls `Close` with the mutex held that `Close` locks; a write to a closed
  connection may end the process by SIGPIPE; `Recv` compares -1 as unsigned; `Connect`
  never closes the socket it replaces; the header of a message of 65536 bytes is zero.
  `Reconnects` holds up to the first, second and fourth of these, `HandledInOrder` up to the third.
- The result of sending a buffer to InfluxDB is ignored, and a connection that failed is
  never opened again: `PointsKept` counts these points as lost. The logger of the nodes
  is never destroyed, so what is in its buffer at the end is not sent. `FlushDatabase`
  does not take `loggerMtx`: the point it meets is torn.
- `Tare` ignores `testOnly`, and two commands to tare at once may save the older offset last.

`node_count` is compared with the size of `nodeMap`, which holds LoRa twins too: with
LoRa, `Init` may end with fewer nodes on the bus than that. The README of the server
does not say which is meant, so `EnoughNodes` counts what the code counts.

## The proofs

The theorems hold for every value of the constants that satisfies `ConstantsOK`
(`SequenceManager`), `StateEventsOK` (`StateEvents`), `DiscoveryOK` (`CanDiscovery`),
`ConnectionOK` (`EcuiConnection`), `CommandsOK` (`CanCommands`) or `SensorsOK` with `WriterOK`
(`SensorData`): any sequences, abort sequences, intervals and lateness; any states, event
mappings (cyclic ones too) and threads; any nodes, twins (no two nodes share one) and
counts; any senders, lengths, sockets and bounds; any channels, values, ranges and operators;
any masks, widths and order of the LoRa blocks (`/LORA/nodeIDs` lists a node once, and the id
of a channel belongs to one node), buffers and sending threads. What a theorem needs
beyond that is a hypothesis in its statement.

`SequenceManagerProofs`:

- `TypeCorrect`: `TypeOK` is inductive by itself.
- `ControlCorrect`: `ControlInv`, the inductive invariant about control.
  `ThreadsInv` says which counters of the two threads exclude each other and that
  `sequenceRunning` is exactly "between spawn and `LoopClear`"; `AbortInv` how far an
  abort has come; `MutexInv` who holds the mutex. `AbortAlone` alone is not inductive:
  that no thread exists follows from the join before, which is only known to have
  happened through the listener's counter.
- `AbortAlone`, `AbortNeverSkipped`, `JoinsAThread`, `AbortAttemptsAll`,
  `OnlyBadAbortSticks`, `OperatorLockedOut` follow from `ControlInv`.
- `ScreenInv`, `StopInv`, `ScheduleInv` and `RangeInv` are inductive relative to
  `TypeOK` and `ControlInv`, and give `ScreenOrder`, `StopsPromptly`, `NeverEarly` with
  `DatapointsInOrder`, and `RangeMapsAgree` with `RangeNeverEmpty`. `ScheduleInv` rests on
  lemmas about `First`, `Rest` and `Due`; `RangeInv` on the fact that for regular ranges
  every sensor has exactly the timestamps the map by time has left.
- `DueAtEndCorrect` and `AllCommandedAtEndCorrect`. A pass commands at most one datapoint of a
  device, so that a run may end with some left over: the theorems are about `Punctual` runs,
  in which no pass wakes up as late as the slot of the next (`MaxLate < Interval`) and the
  datapoints lie on the slots (`OnGrid`; an interpolated device with several datapoints has
  one at startTime). `ServedInv` says that each pass falls into its slot and that every
  datapoint before the next slot has been commanded; `NoneServed` and `LinearServed` are the
  two interpolation functions in one pass. A run that reached endTime has then
  commanded everything up to it. For a run that simply was not stopped, `NoStaleStop` is needed
  as well, one start or no aborts: a stop that comes too late for one run ends the next at
  once, which is the finding of `stale_stop`. `StopCauseInv` is the other half.

`SequenceManagerRefinement` proves `AuthorityRefined`: initial states map to the
initial state of `CommandAuthority`, and every step maps to one of its steps or to a
stutter.

`StateEventsProofs`: `TypeCorrect`, `NeverLostCorrect`, and `EveryEdgeOnceCorrect`. The
last is a counting argument: `EdgeInv` adds to the property that the set of
waiting calls is finite. `TriggerIsEdge` shows that `ShallTrigger` agrees with the
README's trigger ranges, NAN included; the `Counted...` lemmas show that pushing a
frame, moving it on and popping it change the count of waiting calls by exactly
what `owed` changes.

`CanDiscoveryProofs`: `TypeCorrect`, `NodeMadeOnce`, `TwinFollowsNode`, `TwinHasDriver` and
`InitWaitsForNodes`, from one inductive invariant. `Entry` says what the receive thread
may rely on between looking a node up and inserting it: that the node is still
absent, because it is the only thread that enters nodes, and that a twin is looked
up only after its node went in. `Started` says that nothing is received before `Init`
has made the drivers. `Counted` uses that nodes are never taken out, so that the
old count `Init` tests is a lower bound.

`EcuiConnectionProofs`: `TypeCorrect`, `FramesWholeCorrect` and `HandledInOrderCorrect`. `FramesWhole` is
not inductive, for it does not say who may be between a header and its payload. `Mutex`
says that only the holder is in the second half of `Send`; `Half`, that the socket in use ends
with a header only while the holder is about to send the payload, and that a payload
that is due finds its header there, or an empty socket; `Unused`, that a socket the
listener opens is empty. `HandledInOrder` follows from `Numbered`: the messages on their way
on the socket in use have consecutive numbers, from the one received last on this
socket to the one sent last.

`CanCommandsProofs`: `AnswersAcceptedCorrect`. `TablesComplete` shows, type by type, that a type
understands the answer to every request its commands can make and shows only states
it announces. `CommandInv` says that nothing but answers to such requests, and strays, is
on its way, and that the Kvaser queue holds no frame without payload.

`CanValuesProofs`: `TypeCorrect`, `ShownIsCommandedCorrect` and `CommandsSentCorrect`, from `ValueInv`.

- The tables: `TablesAgree` shows, type by type, that a setter converts with the scaling its
  variable is read back with and takes as many parameters as it declares, but for the two
  commands in `Unsent`, which throw whenever they are called.
- The arithmetic: `RoundTrip`, that a value converted to the bus and back is off by less than
  one step of its register, and `RawFits`, that a value the range check admits
  fits into the integer after the conversion.
- The messages: `Typed` says what is on its way, and that a request to set a variable means
  a value its raw value stands for; `Followed`, that the last frame on its way about a
  variable, first in the driver and then in its queue, carries the value of the
  register, or that the state shows it already, or that the driver lost it. Each action adds
  a frame at the end or takes one at the front, and the lemmas `Append...`, `TailOf`
  and `Current...` say what becomes of the last one about a variable.

`SensorDataProofs`: four properties, each with an invariant of its own.

- `TypeCorrect`: `TareTypes`, `ReceiveTypes` and `WriterTypes`, the types of the three parts.
- `OffsetsSavedCorrect`: until two commands to tare meet, one command at most is under way
  (`Alone`), and its place in the code tells whether the offset is ahead of the mapping
  (`Mapped`, `Returned`) or the mapping ahead of the file (`Loaded`, `Written`).
- `ReadingsInPlaceCorrect`: `InPlace` says that `valuePtr` is where the next channel of the mask
  begins. The `Begins` lemmas compute that place, a sum of widths over the channels
  below: it grows by the width of the channel that was read.
- `PointsKeptCorrect`: `Kept` says of every point that was logged that it is in one place,
  whole: in the buffer being filled, in one buffer of the queue, with one sending thread, or
  counted once as in the database or lost; a point not logged yet is in none of them. That
  no point is logged a second time takes the receivers: `Fresh` says which points are still to
  come from the frames at work (`Expected`), that none of them has been logged and that no two
  frames bring the same, and `OneLogs` that one thread at a time is inside the writer.

The library's induction theorems take an operator, so `Induction` states the principle about
a set of numbers and proves it from the fact that `<` on the naturals is well-founded.

Only model-checked: the liveness properties (`SequenceEnds`, `RequestHandled`, `AbortEnds`,
`ReadingsShown`, `NodeCompleted`, `InitEnds`, `Reconnects`), which need fairness and `ENABLED`. Every
invariant a passing run checks is also proved.

## Not modelled

What is left, in the order in which it would be worth adding:

1. **Start-up and shutdown**: `main`, `LLController::Init` and the destructors against
   the listener, the sequence thread and the loops. The hazards list what can go wrong
   there: handlers that do not exist yet, and objects destroyed under a running thread.
   The outcome is undefined behaviour in nearly every order, so that a model would say
   little more than the list.
2. `EcuiSocket::Destroy` and what `Close` does once it has the mutex, and the composition of
   `EcuiConnection` with `StateEvents`, which takes the connection as up.
3. `RequestCurrentState` of the channels, which repeats requests that `CanCommands` has, and the
   passing on of messages between two masters.
4. The look-ups in `CANMapping`, `EventManager` and `Config` at start-up.

Left out for good: `Debug`, `Config`, `utils`, `FileSystemAbstraction` (text and file I/O),
`UDPSocket` (one call of the operating system per datagram), `PythonController` (an embedded
interpreter), `WatchDog` (used by nothing), the bytes on the CAN bus and the device libraries,
and the log files of a run. `include/utility/json.hpp`, more than half of the lines of the
repository, is a library that was copied into it.
