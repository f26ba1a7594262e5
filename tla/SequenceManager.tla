--------------------------- MODULE SequenceManager ---------------------------
(***************************************************************************)
(* The test sequence manager (src/src/SequenceManager.cpp) with the two    *)
(* threads that run its code: the listener, which executes the handler of  *)
(* each web server message (LLController::OnECUISocketRecv), and the       *)
(* sequence thread, which executes sequenceLoop.                           *)
(*                                                                         *)
(* listener and sequencer are the program counters of the two threads.     *)
(* Each action is the code between two points at which the other thread    *)
(* could observe or change something.  A thread whose counter is "ended"   *)
(* has returned but is still joinable; "none" is a std::thread without a   *)
(* thread.                                                                 *)
(***************************************************************************)
EXTENDS SequencePlan, Sequences

CONSTANTS SeqFiles,   \* sequences the web server may send
          AbortFiles,    \* abort sequences it may send along
          Requests,     \* message types it may send
          Interval,     \* globals.interval, in clock ticks
          MaxLate,      \* bound: how late a pass can wake up, in ticks
          MaxStarts     \* bound: how many sequence-start messages arrive

(***************************************************************************)
(* An abort sequence is the list of its actions; TRUE stands for one whose *)
(* value is an array of numbers, FALSE for one that makes the JSON library *)
(* throw when it is read (an abort sequence that is no object at all       *)
(* throws before its first action).                                        *)
(***************************************************************************)
RequestTypes == {"sequence-start", "abort", "auto-abort-change", "states-set"}

ASSUME ConstantsOK ==
  /\ SeqFiles \subseteq Sequence
  /\ AbortFiles \subseteq Seq(BOOLEAN)
  /\ Requests \subseteq RequestTypes
  /\ Interval \in Nat \ {0}
  /\ MaxLate \in Nat
  /\ MaxStarts \in Nat

VARIABLES
  listener,          \* what the listener thread does next
  request,           \* arguments of the sequence-start being handled
  sequencer,         \* what the sequence thread does next
  sequenceRunning, sequenceToStop, isAbortRunning, autoAbortEnabled,
  syncMtx,           \* holder of the mutex
  jsonSequence, jsonAbortSequence,
  interpolationMap, deviceMap,
  sensorsNominalRangeMap, sensorsNominalRangeTimeMap,
  iteration,         \* passes begun; nextTime of the LoopTimer / interval
  sequenceTime,      \* sequenceTime_us of the current pass
  it,                \* abort action the iterator stands at
  terminated,        \* std::terminate was called
  \* history, read by no action
  starts,            \* sequence-start messages received
  commanded,         \* datapoints whose value was commanded in this run
  attempted,         \* abort actions whose command was attempted
  alarm,             \* CheckSensors found a sensor out of range
  stopAsked,         \* the listener asked this run to stop
  passes,            \* command passes since then
  issuer,            \* who issued the last command to the hardware
  screen             \* last sequence message sent to the web server

flags    == <<sequenceRunning, sequenceToStop, isAbortRunning, autoAbortEnabled>>
loaded   == <<request, jsonSequence, jsonAbortSequence, interpolationMap>>
ranges   == <<sensorsNominalRangeMap, sensorsNominalRangeTimeMap>>
schedule == <<deviceMap, ranges, iteration, sequenceTime>>
lock     == <<syncMtx, it>>
run      == <<commanded, alarm, stopAsked, passes>>
history  == <<starts, attempted, issuer, screen, run>>

vars == <<listener, sequencer, flags, lock, loaded, schedule, terminated, history>>

\* Program counters.
StartSteps  == {"startJoin", "startCheck", "startRunning", "startSpawn"}
AbortSteps  == {"abortLock", "abortExec", "abortUnlock", "abortClear"}
AbortWaits  == {"abortCheck", "abortStop", "abortJoin", "abortGuard", "abortSend"}
Listening   == {"idle", "statesCheck", "statesSet"} \cup StartSteps \cup AbortSteps
                 \cup AbortWaits
Locked      == {"devices", "ranges", "check", "unlock"}
Looping     == {"test", "tick", "lock"} \cup Locked
Leaving     == {"reset", "timerDone", "clear"}
Sequencing  == {"none", "ended"} \cup Looping \cup Leaving

Init ==
  /\ listener = "idle"
  /\ request = [seq |-> NoSequence, abortSeq |-> <<>>]
  /\ sequencer = "none"
  /\ sequenceRunning = FALSE
  /\ sequenceToStop = FALSE
  /\ isAbortRunning = FALSE
  /\ autoAbortEnabled \in BOOLEAN            \* config "/autoabort"
  /\ syncMtx = "free"
  /\ jsonSequence = NoSequence
  /\ jsonAbortSequence = <<>>
  /\ interpolationMap = [d \in Devices |-> "absent"]
  /\ deviceMap = [d \in Devices |-> {}]
  /\ sensorsNominalRangeMap = [s \in Sensors |-> {}]
  /\ sensorsNominalRangeTimeMap = {}
  /\ iteration = 0
  /\ sequenceTime = 0
  /\ it = 1
  /\ terminated = FALSE
  /\ starts = 0
  /\ commanded = [d \in Devices |-> {}]
  /\ attempted = {}
  /\ alarm = FALSE
  /\ stopAsked = FALSE
  /\ passes = 0
  /\ issuer = "nobody"
  /\ screen = "nothing"

\* Mutant: only a running abort locks the operator out.
BugIsRunning == isAbortRunning


IsSequenceRunning == sequenceRunning \/ isAbortRunning

Listen(from, to) == ~terminated /\ listener = from /\ listener' = to
Run(from, to)    == ~terminated /\ sequencer = from /\ sequencer' = to

-----------------------------------------------------------------------------
(* StartSequence, on the listener thread.                                  *)

RecvStart(seq, abortSeq) ==
  /\ Listen("idle", "startJoin")
  /\ "sequence-start" \in Requests
  /\ starts < MaxStarts
  /\ starts' = starts + 1
  /\ request' = [seq |-> seq, abortSeq |-> abortSeq]
  /\ UNCHANGED <<sequencer, flags, lock, jsonSequence, jsonAbortSequence,
                 interpolationMap, schedule, terminated, attempted, issuer,
                 screen, run>>

\* Mutant: the thread of the previous run is not joined.
BugStartNoJoin ==
  /\ Listen("startJoin", "startCheck")
  /\ UNCHANGED <<sequencer, flags, lock, loaded, schedule, terminated,
                 history>>

\* if (sequenceThread.joinable()) sequenceThread.join();
StartJoin ==
  /\ Listen("startJoin", "startCheck")
  /\ sequencer \in {"none", "ended"}
  /\ sequencer' = "none"
  /\ UNCHANGED <<flags, lock, loaded, schedule, terminated, history>>

StartRefuse ==
  /\ Listen("startCheck", "idle")
  /\ IsSequenceRunning
  /\ UNCHANGED <<sequencer, flags, lock, loaded, schedule, terminated,
                 history>>

\* LoadSequence, and LoadInterpolationMap once it has succeeded.  The
\* AbortSequence of a bad timestamp finds no running sequence and does nothing.
StartLoad ==
  /\ Listen("startCheck", IF request.seq.valid THEN "startRunning" ELSE "idle")
  /\ ~IsSequenceRunning
  /\ jsonSequence' = request.seq
  /\ jsonAbortSequence' = request.abortSeq
  /\ deviceMap' = request.seq.points
  /\ sensorsNominalRangeMap' = LoadedRanges(request.seq)
  /\ sensorsNominalRangeTimeMap' = LoadedTimes(request.seq)
  /\ interpolationMap' = IF request.seq.valid
                         THEN LoadInterpolationMap(request.seq, interpolationMap)
                         ELSE interpolationMap
  /\ UNCHANGED <<sequencer, flags, lock, request, iteration, sequenceTime,
                 terminated, history>>

StartRunning ==
  /\ Listen("startRunning", "startSpawn")
  /\ screen' = "timer-start"
  /\ sequenceRunning' = TRUE
  /\ UNCHANGED <<sequencer, sequenceToStop, isAbortRunning, autoAbortEnabled,
                 lock, loaded, schedule, terminated, starts, attempted,
                 issuer, run>>

StartSpawn ==
  /\ Listen("startSpawn", "idle")
  /\ sequencer' = "test"
  /\ iteration' = 0
  /\ sequenceTime' = 0
  /\ commanded' = [d \in Devices |-> {}]
  /\ stopAsked' = FALSE
  /\ passes' = 0
  /\ alarm' = FALSE
  /\ UNCHANGED <<flags, lock, loaded, deviceMap, ranges, terminated, starts,
                 attempted, issuer, screen>>

-----------------------------------------------------------------------------
(* AbortSequence and abortSequence, on the listener thread.                *)

RecvAbort ==
  /\ Listen("idle", "abortCheck")
  /\ "abort" \in Requests
  /\ UNCHANGED <<sequencer, flags, lock, loaded, schedule, terminated,
                 history>>

AbortCheck ==
  /\ Listen("abortCheck", IF sequenceRunning THEN "abortStop" ELSE "idle")
  /\ UNCHANGED <<sequencer, flags, lock, loaded, schedule, terminated,
                 history>>

\* Mutant: the safe state is commanded without waiting for the thread.
BugAbortAtOnce ==
  /\ Listen("abortStop", "abortLock")
  /\ sequenceToStop' = TRUE
  /\ isAbortRunning' = TRUE
  /\ stopAsked' = TRUE
  /\ attempted' = {}
  /\ UNCHANGED <<sequencer, sequenceRunning, autoAbortEnabled, lock, loaded,
                 schedule, terminated, starts, issuer, screen, commanded,
                 alarm, passes>>


AbortStop ==
  /\ Listen("abortStop", "abortJoin")
  /\ sequenceToStop' = TRUE
  /\ stopAsked' = TRUE
  /\ UNCHANGED <<sequencer, sequenceRunning, isAbortRunning,
                 autoAbortEnabled, lock, loaded, schedule, terminated,
                 starts, attempted, issuer, screen, commanded, alarm, passes>>

\* Mutant: the sequence thread is not joined.
BugAbortNoJoin ==
  /\ Listen("abortJoin", "abortGuard")
  /\ UNCHANGED <<sequencer, flags, lock, loaded, schedule, terminated,
                 history>>


AbortJoin ==
  /\ Listen("abortJoin", "abortGuard")
  /\ sequencer = "ended"
  /\ sequencer' = "none"
  /\ UNCHANGED <<flags, lock, loaded, schedule, terminated, history>>

\* abortSequence does nothing, and the abort is still reported, when the guard
\* fails.
AbortGuard ==
  /\ Listen("abortGuard", IF IsSequenceRunning THEN "abortSend" ELSE "abortLock")
  /\ isAbortRunning' = (isAbortRunning \/ ~IsSequenceRunning)
  /\ attempted' = {}
  /\ UNCHANGED <<sequencer, sequenceRunning, sequenceToStop,
                 autoAbortEnabled, lock, loaded, schedule, terminated,
                 starts, issuer, screen, run>>

AbortLock ==
  /\ Listen("abortLock", "abortExec")
  /\ syncMtx = "free"
  /\ syncMtx' = "listener"
  /\ it' = 1
  /\ UNCHANGED <<sequencer, flags, loaded, schedule, terminated, history>>

\* One action of the abort sequence.  Whether ExecuteCommand succeeds or throws,
\* the loop goes on; so only the attempt is recorded.
AbortExec ==
  /\ Listen("abortExec", "abortExec")
  /\ it <= Len(jsonAbortSequence)
  /\ jsonAbortSequence[it]
  /\ it' = it + 1
  /\ attempted' = attempted \cup {it}
  /\ issuer' = "abort"
  /\ UNCHANGED <<sequencer, flags, syncMtx, loaded, schedule, terminated,
                 starts, screen, run>>

\* The value of the action is no array of numbers: the exception leaves
\* abortSequence and AbortSequence with the mutex locked and isAbortRunning set,
\* and OnECUISocketRecv catches it.
AbortThrow ==
  /\ Listen("abortExec", "idle")
  /\ it <= Len(jsonAbortSequence)
  /\ ~jsonAbortSequence[it]
  /\ UNCHANGED <<sequencer, flags, lock, loaded, schedule, terminated,
                 history>>

\* Mutant: a command that throws ends the abort sequence.
BugAbortGivesUp ==
  /\ Listen("abortExec", "abortUnlock")
  /\ it > Len(jsonAbortSequence) \/ it > 1
  /\ UNCHANGED <<sequencer, flags, lock, loaded, schedule, terminated,
                 history>>


AbortExecuted ==
  /\ Listen("abortExec", "abortUnlock")
  /\ it > Len(jsonAbortSequence)
  /\ UNCHANGED <<sequencer, flags, lock, loaded, schedule, terminated,
                 history>>

AbortUnlock ==
  /\ Listen("abortUnlock", "abortClear")
  /\ syncMtx' = "free"
  /\ UNCHANGED <<sequencer, flags, it, loaded, schedule, terminated, history>>

\* Mutant: isAbortRunning is not reset.
BugAbortNotCleared ==
  /\ Listen("abortClear", "abortSend")
  /\ UNCHANGED <<sequencer, flags, lock, loaded, schedule, terminated,
                 history>>


AbortClear ==
  /\ Listen("abortClear", "abortSend")
  /\ isAbortRunning' = FALSE
  /\ UNCHANGED <<sequencer, sequenceRunning, sequenceToStop,
                 autoAbortEnabled, lock, loaded, schedule, terminated,
                 history>>

AbortSend ==
  /\ Listen("abortSend", "idle")
  /\ screen' = "abort"
  /\ UNCHANGED <<sequencer, flags, lock, loaded, schedule, terminated,
                 starts, attempted, issuer, run>>

-----------------------------------------------------------------------------
(* The other messages that read the manager's flags.                       *)

\* SetAutoAbort.
AutoAbortChange(active) ==
  /\ Listen("idle", "idle")
  /\ "auto-abort-change" \in Requests
  /\ autoAbortEnabled' = IF sequenceRunning THEN autoAbortEnabled ELSE active
  /\ UNCHANGED <<sequencer, sequenceRunning, sequenceToStop, isAbortRunning,
                 lock, loaded, schedule, terminated, history>>

RecvStatesSet ==
  /\ Listen("idle", "statesCheck")
  /\ "states-set" \in Requests
  /\ UNCHANGED <<sequencer, flags, lock, loaded, schedule, terminated,
                 history>>

StatesCheck ==
  /\ Listen("statesCheck", IF IsSequenceRunning THEN "idle" ELSE "statesSet")
  /\ UNCHANGED <<sequencer, flags, lock, loaded, schedule, terminated,
                 history>>

StatesSet ==
  /\ Listen("statesSet", "idle")
  /\ issuer' = "operator"
  /\ UNCHANGED <<sequencer, flags, lock, loaded, schedule, terminated,
                 starts, attempted, screen, run>>

-----------------------------------------------------------------------------
(* sequenceLoop, on the sequence thread.                                   *)

\* Mutant: the loop only looks at the clock.
BugLoopIgnoresStop ==
  /\ Run("test", IF sequenceTime > jsonSequence.end THEN "reset" ELSE "tick")
  /\ UNCHANGED <<listener, flags, lock, loaded, schedule, terminated, history>>


LoopTest ==
  /\ Run("test", IF sequenceToStop THEN "reset" ELSE "tick")
  /\ UNCHANGED <<listener, flags, lock, loaded, schedule, terminated, history>>

\* Mutant: the first slot is one interval before the start.
BugWakeups == {(iteration - 1) * Interval}

\* LoopTimer.wait (not in the first pass) and the clock reading: a pass never
\* starts before its slot, may start late, and late passes do not wait.
Wakeups ==
  LET slot  == iteration * Interval
      early == IF slot > sequenceTime THEN slot ELSE sequenceTime
  IN  IF iteration = 0 THEN {0} ELSE early .. early + MaxLate

\* Mutant: the loop is left as soon as the end time has passed.
BugNoLastPass ==
  /\ sequenceTime' \in Wakeups
  /\ Run("tick", IF sequenceTime' > jsonSequence.end THEN "reset" ELSE "lock")
  /\ iteration' = iteration + 1
  /\ screen' = "timer-sync"
  /\ UNCHANGED <<listener, flags, lock, loaded, deviceMap, ranges,
                 terminated, starts, attempted, issuer, run>>

\* Mutant: the end time is not looked at.
BugNoEnd ==
  /\ Run("tick", "lock")
  /\ sequenceTime' = (IF iteration = 0 THEN 0 ELSE jsonSequence.end + 1)
  /\ iteration' = 1
  /\ screen' = "timer-sync"
  /\ UNCHANGED <<listener, flags, lock, loaded, deviceMap, ranges,
                 terminated, starts, attempted, issuer, run>>


LoopTick ==
  /\ Run("tick", "lock")
  /\ sequenceTime' \in Wakeups
  /\ iteration' = iteration + 1
  /\ sequenceToStop' = (sequenceToStop \/ sequenceTime' > jsonSequence.end)
  /\ screen' \in {"timer-sync"} \cup (IF iteration = 0 THEN {} ELSE {screen})
  /\ UNCHANGED <<listener, sequenceRunning, isAbortRunning, autoAbortEnabled,
                 lock, loaded, deviceMap, ranges, terminated, starts,
                 attempted, issuer, run>>

LoopLock ==
  /\ Run("lock", "devices")
  /\ syncMtx = "free"
  /\ syncMtx' = "sequence"
  /\ UNCHANGED <<listener, flags, it, loaded, schedule, terminated, history>>

\* The loop over deviceMap.  A command that throws is logged and its datapoint
\* is dropped like any other.
LoopDevices ==
  LET pass == [d \in Devices |->
                 Interpolate(interpolationMap[d], deviceMap[d], sequenceTime)]
  IN  /\ Run("devices", "ranges")
      /\ deviceMap' = [d \in Devices |-> IF pass[d].advance THEN Rest(deviceMap[d])
                                                            ELSE deviceMap[d]]
      /\ commanded' = [d \in Devices |-> commanded[d] \cup pass[d].send]
      /\ passes' = IF stopAsked THEN passes + 1 ELSE passes
      /\ issuer' = IF \E d \in Devices : Due(deviceMap[d], sequenceTime) # {}
                   THEN "sequence" ELSE issuer
      /\ UNCHANGED <<listener, flags, lock, loaded, ranges, iteration,
                     sequenceTime, terminated, starts, attempted, screen,
                     alarm, stopAsked>>

LoopRanges ==
  LET dropped == RangeDropped(sensorsNominalRangeTimeMap, sequenceTime)
      drops   == {p \in sensorsNominalRangeTimeMap : p[1] \in dropped}
  IN  /\ Run("ranges", "check")
      /\ sensorsNominalRangeMap' =
           [s \in Sensors |-> IF \E p \in drops : p[2] = s
                              THEN Rest(sensorsNominalRangeMap[s])
                              ELSE sensorsNominalRangeMap[s]]
      /\ sensorsNominalRangeTimeMap' = sensorsNominalRangeTimeMap \ drops
      /\ UNCHANGED <<listener, flags, lock, loaded, deviceMap, iteration,
                     sequenceTime, terminated, history>>

\* Sensors with an entry in sensorsNominalRangeMap, and CheckSensors.
Ranged == {s \in Sensors : RangeKnown(jsonSequence, s) /\ jsonSequence.ranges[s] # {}}

LoopCheckPass ==
  /\ Run("check", "unlock")
  /\ UNCHANGED <<listener, flags, lock, loaded, schedule, terminated, history>>

\* A sensor is out of its range (or its emptied map is read): AbortSequence runs
\* on the sequence thread and joins that very thread, which throws
\* std::system_error; nothing catches it on this thread.
LoopCheckAbort ==
  /\ Run("check", "check")
  /\ autoAbortEnabled
  /\ Ranged # {}
  /\ alarm' = TRUE
  /\ sequenceToStop' = TRUE
  /\ terminated' = TRUE
  /\ UNCHANGED <<listener, sequenceRunning, isAbortRunning, autoAbortEnabled,
                 lock, loaded, schedule, starts, attempted, issuer, screen,
                 commanded, stopAsked, passes>>

\* Mutant: a pass returns without unlocking.
BugKeepsMutex ==
  /\ Run("unlock", "test")
  /\ UNCHANGED <<listener, flags, lock, loaded, schedule, terminated, history>>


LoopUnlock ==
  /\ Run("unlock", "test")
  /\ syncMtx' = "free"
  /\ UNCHANGED <<listener, flags, it, loaded, schedule, terminated, history>>

LoopReset ==
  /\ Run("reset", "timerDone")
  /\ sequenceToStop' = FALSE
  /\ UNCHANGED <<listener, sequenceRunning, isAbortRunning, autoAbortEnabled,
                 lock, loaded, schedule, terminated, history>>

LoopTimerDone ==
  /\ Run("timerDone", "clear")
  /\ screen' = "timer-done"
  /\ UNCHANGED <<listener, flags, lock, loaded, schedule, terminated, starts,
                 attempted, issuer, run>>

\* Mutant: sequenceRunning is not reset.
BugNotCleared ==
  /\ Run("clear", "ended")
  /\ UNCHANGED <<listener, flags, lock, loaded, schedule, terminated, history>>


LoopClear ==
  /\ Run("clear", "ended")
  /\ sequenceRunning' = FALSE
  /\ UNCHANGED <<listener, sequenceToStop, isAbortRunning, autoAbortEnabled,
                 lock, loaded, schedule, terminated, history>>

-----------------------------------------------------------------------------
Recv ==
  \/ \E seq \in SeqFiles, abortSeq \in AbortFiles : RecvStart(seq, abortSeq)
  \/ RecvAbort
  \/ RecvStatesSet
  \/ \E active \in BOOLEAN : AutoAbortChange(active)

Handle ==
  \/ StartJoin \/ StartRefuse \/ StartLoad \/ StartRunning \/ StartSpawn
  \/ AbortCheck \/ AbortStop \/ AbortJoin \/ AbortGuard \/ AbortLock \/ AbortExec
  \/ AbortThrow \/ AbortExecuted \/ AbortUnlock \/ AbortClear \/ AbortSend
  \/ StatesCheck \/ StatesSet

Loop ==
  \/ LoopTest \/ LoopTick \/ LoopLock \/ LoopDevices \/ LoopRanges
  \/ LoopCheckPass \/ LoopCheckAbort \/ LoopUnlock
  \/ LoopReset \/ LoopTimerDone \/ LoopClear

\* The process is gone.
Dead == terminated /\ UNCHANGED vars

Next == Recv \/ Handle \/ Loop \/ Dead

Spec == Init /\ [][Next]_vars

\* Both threads are scheduled whenever they can run; nothing forces the web
\* server to send anything.
FairSpec == Spec /\ WF_vars(Handle) /\ WF_vars(Loop)

-----------------------------------------------------------------------------
\* The variables stay in their ranges; the iterator of abortSequence never
\* passes the end of the actions.
TypeOK ==
  /\ listener \in Listening
  /\ sequencer \in Sequencing
  /\ request \in [seq : Sequence, abortSeq : Seq(BOOLEAN)]
  /\ sequenceRunning \in BOOLEAN /\ sequenceToStop \in BOOLEAN
  /\ isAbortRunning \in BOOLEAN /\ autoAbortEnabled \in BOOLEAN
  /\ terminated \in BOOLEAN /\ alarm \in BOOLEAN /\ stopAsked \in BOOLEAN
  /\ syncMtx \in {"free", "listener", "sequence"}
  /\ jsonSequence \in Sequence
  /\ jsonAbortSequence \in Seq(BOOLEAN)
  /\ interpolationMap \in [Devices -> Modes]
  /\ deviceMap \in [Devices -> SUBSET Nat]
  /\ sensorsNominalRangeMap \in [Sensors -> SUBSET Nat]
  /\ sensorsNominalRangeTimeMap \in SUBSET (Nat \X Sensors)
  /\ iteration \in Nat /\ sequenceTime \in Nat
  /\ starts \in Nat /\ passes \in Nat
  /\ it \in Nat \ {0}
  /\ commanded \in [Devices -> SUBSET Nat]
  /\ attempted \subseteq Nat
  /\ issuer \in {"nobody", "sequence", "abort", "operator"}
  /\ screen \in {"nothing", "timer-start", "timer-sync", "timer-done", "abort"}

(***************************************************************************)
(* Safety of start and abort.                                              *)
(***************************************************************************)

\* While abortSequence commands the safe state (lines 614-645), no sequence
\* thread exists that could still send a command of the sequence.
AbortAlone ==
  listener \in AbortSteps => sequencer = "none" /\ ~sequenceRunning

\* abortSequence silently does nothing while a flag says something is running
\* (line 616).  An abort that was accepted never meets that: when the join has
\* returned, both flags are down.
AbortNeverSkipped ==
  listener = "abortGuard" => ~IsSequenceRunning

\* std::thread: join() needs a thread that was not joined yet (line 125), and
\* assigning over a joinable thread terminates the process (line 291).
JoinsAThread ==
  /\ listener \in {"abortStop", "abortJoin"} => sequencer # "none"
  /\ listener = "startSpawn" => sequencer = "none"

\* When the abort releases the mutex, every action of the abort sequence was
\* tried, whichever of the commands before it threw (lines 622-637).
AbortAttemptsAll ==
  listener = "abortUnlock" => attempted = DOMAIN jsonAbortSequence

\* The manager can be left with the mutex locked or isAbortRunning set, which
\* refuses every later start, only by an abort sequence with a bad value.
OnlyBadAbortSticks ==
  listener = "idle" /\ (isAbortRunning \/ syncMtx = "listener") =>
    \E i \in DOMAIN jsonAbortSequence : ~jsonAbortSequence[i]

\* A states-set that passed the check of LLController.cpp:182 acts when neither
\* a sequence nor an abort can send another command.
OperatorLockedOut ==
  listener = "statesSet" =>
    sequencer \in {"none", "ended"} /\ ~isAbortRunning

ScreenStep ==
  \/ screen' = "timer-start" /\ screen \in {"nothing", "timer-done", "abort"}
  \/ screen' = "timer-sync"  /\ screen = "timer-start"
  \/ screen' = "timer-done"  /\ screen \in {"timer-start", "timer-sync"}
  \/ screen' = "abort"       /\ screen = "timer-done"

\* What the web server sees of a run: timer-start, then timer-sync, then
\* timer-done, and only then the abort message, although two threads send them.
ScreenOrder == [][ScreenStep]_screen

\* A run the operator asked to stop makes at most one more command pass.
StopsPromptly == passes <= 1

(***************************************************************************)
(* Why they hold: which steps of the two threads exclude each other, what  *)
(* the flags and the mutex say about the program counters, and how far an  *)
(* abort has come.                                                         *)
(***************************************************************************)
Alone   == {"startCheck", "startRunning", "startSpawn", "abortGuard", "abortSend"}
             \cup AbortSteps
Running == Looping \cup Leaving

ThreadsInv ==
  /\ sequenceRunning <=> listener = "startSpawn" \/ sequencer \in Running
  /\ listener \in Alone => sequencer = "none"
  /\ listener \in {"abortStop", "abortJoin"} => sequencer # "none"
  /\ listener = "statesSet" => sequencer \in {"none", "ended"} /\ ~isAbortRunning

AbortInv ==
  /\ isAbortRunning => sequencer = "none"
  /\ listener \in AbortSteps => isAbortRunning
  /\ listener \in Alone \ (AbortSteps \cup {"startCheck"}) => ~isAbortRunning
  /\ isAbortRunning /\ listener \notin AbortSteps =>
       \E i \in DOMAIN jsonAbortSequence : ~jsonAbortSequence[i]
  /\ listener = "abortLock" => attempted = {}
  /\ listener = "abortExec" =>
       it <= Len(jsonAbortSequence) + 1 /\ attempted = 1 .. (it - 1)
  /\ listener \in {"abortUnlock", "abortClear"} => attempted = DOMAIN jsonAbortSequence

MutexInv ==
  /\ syncMtx = "sequence" <=> sequencer \in Locked
  /\ syncMtx = "listener" <=>
       isAbortRunning /\ listener \notin {"abortLock", "abortClear"}

\* The inductive invariant of the control: flags, mutex and program counters
\* always agree, in every interleaving of the two threads.
ControlInv == ThreadsInv /\ AbortInv /\ MutexInv

ScreenInv ==
  /\ sequencer = "none" /\ listener # "startSpawn" =>
       screen \in {"nothing", "timer-done", "abort"}
  /\ listener = "startSpawn" => screen = "timer-start"
  /\ sequencer \in {"clear", "ended"} \/ listener \in {"abortGuard", "abortSend"} \cup AbortSteps
       => screen = "timer-done"
  /\ sequencer \in Looping \cup {"reset", "timerDone"} =>
       screen = IF iteration = 0 THEN "timer-start" ELSE "timer-sync"

StopInv ==
  /\ passes \in {0, 1}
  /\ passes = 1 => stopAsked /\ sequencer \notin {"tick", "lock", "devices"}
  /\ stopAsked /\ sequencer \in Looping => sequenceToStop

(***************************************************************************)
(* Refinement of the abstract specification of command authority.          *)
(***************************************************************************)
Phase ==
  IF isAbortRunning THEN IF listener \in AbortSteps THEN "abort" ELSE "stuck"
  ELSE IF sequencer \in Looping \cup Leaving THEN "sequence"
  ELSE IF sequencer = "ended" \/ listener = "abortGuard" THEN "over"
  ELSE "idle"

Pending == IF Phase = "abort" THEN DOMAIN jsonAbortSequence \ attempted ELSE {}

Authority == INSTANCE CommandAuthority WITH phase <- Phase, pending <- Pending

\* The two threads implement the hand-over of CommandAuthority.
AuthoritySpec == Authority!Spec

(***************************************************************************)
(* The schedule of a run.                                                  *)
(***************************************************************************)

\* No datapoint is commanded before its time.
NeverEarly ==
  \A d \in Devices : \A t \in commanded[d] : t <= sequenceTime

\* A device without interpolation gets its datapoints in the order of their
\* timestamps and none is left out, however late the passes are: what was
\* commanded and what is still in deviceMap always make up the whole sequence.
DatapointsInOrder ==
  sequencer \in Looping =>
    \A d \in Devices :
      interpolationMap[d] # "linear" =>
        /\ commanded[d] \cup deviceMap[d] = jsonSequence.points[d]
        /\ \A t \in commanded[d], u \in deviceMap[d] : t < u

\* DatapointsInOrder and NeverEarly from the load on.
ScheduleInv ==
  /\ listener \in {"startRunning", "startSpawn"} => deviceMap = jsonSequence.points
  /\ sequencer \in Looping /\ iteration = 0 => sequenceTime = 0
  /\ NeverEarly
  /\ DatapointsInOrder

\* The two range maps agree: an entry of one is an entry of the other.  If they
\* did not, erasing begin() of the one would drop a wrong range of the other
\* (lines 529-533).
RangeMapsAgree ==
  /\ \A s \in Sensors : \A t \in sensorsNominalRangeMap[s] :
       <<t, s>> \in sensorsNominalRangeTimeMap
  /\ \A p \in sensorsNominalRangeTimeMap : p[1] \in sensorsNominalRangeMap[p[2]]

\* A sensor whose ranges follow the README (an entry at every timestamp that has
\* any) always has a range left, so that begin() may be dereferenced (lines
\* 450 and 334).
Regular(seq) ==
  \A r, s \in Sensors :
    LoadedRanges(seq)[r] # {} => LoadedRanges(seq)[s] \in {{}, LoadedRanges(seq)[r]}

RangeNeverEmpty ==
  sequencer \in Looping /\ Regular(jsonSequence) =>
    \A s \in Ranged : sensorsNominalRangeMap[s] # {}

\* RangeMapsAgree and, for such a sequence, the timestamps every sensor has left.
RangeInv ==
  /\ RangeMapsAgree
  /\ sequencer \in Looping \/ listener \in {"startRunning", "startSpawn"} =>
       (Regular(jsonSequence) =>
          \A s \in Ranged :
            /\ sensorsNominalRangeMap[s] # {}
            /\ sensorsNominalRangeMap[s] = RangeTimes(sensorsNominalRangeTimeMap))

\* A run that was not aborted has commanded, when its loop ends, every datapoint
\* up to endTime: the pass that finds the end time exceeded is still made.  It
\* takes passes that keep up with the datapoints (Punctual) and no stop left over
\* from an earlier run (NoStaleStop).
AllDue ==
  \A d \in Devices :
    {t \in jsonSequence.points[d] : t <= jsonSequence.end} \subseteq commanded[d]

AllCommandedAtEnd == sequencer = "reset" /\ ~stopAsked => AllDue

\* The same of a run that reached endTime, aborted or not.
DueAtEnd == sequencer = "reset" /\ sequenceTime > jsonSequence.end => AllDue

\* The datapoints lie on the slots of the passes, and an interpolated device that
\* has several starts at startTime: a late pass commands an interpolated value
\* instead of the first one.
OnGrid(seq) ==
  \A d \in Devices :
    /\ \A t \in seq.points[d] : \E k \in 0 .. t : t = k * Interval
    /\ seq.interp[d] = "none" \/ Rest(seq.points[d]) = {} \/ 0 \in seq.points[d]

\* No pass wakes up as late as the slot of the next.
Punctual == MaxLate < Interval /\ \A seq \in SeqFiles : OnGrid(seq)

\* A stop meant for one run can end the next (EndsAtEndTime) only with a second
\* run and an abort.
NoStaleStop == MaxStarts <= 1 \/ "abort" \notin Requests

(***************************************************************************)
(* Why AllCommandedAtEnd holds: each pass falls into its slot and leaves   *)
(* nothing uncommanded up to there.                                        *)
(***************************************************************************)
Loaded == listener \in {"startRunning", "startSpawn"} \/ sequencer \in Looping \cup {"reset"}

GridInv ==
  /\ OnGrid(request.seq) /\ OnGrid(jsonSequence)
  /\ Loaded =>
       \A d \in Devices : interpolationMap[d] = "linear" => jsonSequence.interp[d] # "none"

\* Passes that went over deviceMap, and where the slot of the next begins.
Served    == IF sequencer \in {"lock", "devices"} THEN iteration - 1 ELSE iteration
NextSlot  == Served * Interval

\* What is left of a device at the beginning of a slot: an interpolated one keeps
\* the datapoint it comes from until the next one is due.
LeftAt(slot, points, left, done, linear) ==
  /\ left \subseteq points /\ points \subseteq done \cup left
  /\ \A t \in points : t < slot => t \in done
  /\ \A t \in (IF linear THEN Rest(left) ELSE left) : slot <= t
  /\ linear => Rest(left) = {} \/ \E t \in left : t < slot \/ t = 0

ServedInv ==
  sequencer \in Looping \cup {"reset"} =>
    /\ iteration <= 1 => sequenceTime = 0
    /\ iteration > 0 =>
         LET slot == (iteration - 1) * Interval IN sequenceTime \in slot .. slot + MaxLate
    /\ sequencer \in {"lock"} \cup Locked => iteration > 0
    /\ \A d \in Devices :
         LeftAt(NextSlot, jsonSequence.points[d], deviceMap[d], commanded[d],
                interpolationMap[d] = "linear")

\* A stop nobody asked for is the one of the end time.
StopCauseInv ==
  /\ sequenceToStop /\ ~stopAsked /\ ~terminated =>
       sequencer \in Looping \cup {"reset"} /\ sequenceTime > jsonSequence.end
  /\ "abort" \in Requests =>
       /\ starts = 0 \/ listener \in StartSteps => sequencer = "none" /\ ~sequenceToStop
       /\ starts = 0 => listener \notin StartSteps \cup {"abortStop"}
  /\ "abort" \notin Requests => listener \notin {"abortCheck", "abortStop"} /\ ~stopAsked
  /\ sequencer = "reset" => sequenceToStop
  /\ terminated => sequencer = "check"
  /\ sequencer \in Looping /\ iteration = 0 => sequenceTime = 0

(***************************************************************************)
(* Liveness.                                                               *)
(***************************************************************************)

\* A run ends by itself: sequenceRunning is reset, unless the process dies.
SequenceEnds == sequenceRunning ~> (~sequenceRunning \/ terminated)

\* An accepted abort brings the plant into the safe state: every abort action is
\* tried and the manager is ready for a new sequence.
AbortEnds ==
  listener = "abortStop" ~>
    \/ terminated
    \/ /\ attempted = DOMAIN jsonAbortSequence
       /\ issuer = "abort" \/ jsonAbortSequence = <<>>
       /\ ~IsSequenceRunning

\* The listener comes back to the socket from every message, also from a
\* sequence-start that joins the running sequence first (line 245).
RequestHandled == listener # "idle" ~> (listener = "idle" \/ terminated)

(***************************************************************************)
(* What the documentation and the tests say and the code does not do.      *)
(***************************************************************************)

\* README.md:491-492: when a sensor leaves its range and autoabort is active,
\* "the sequence gets aborted instantly".
AutoAbortReachesSafeState ==
  alarm ~> attempted = DOMAIN jsonAbortSequence /\ ~IsSequenceRunning

\* README.md:487 lists ranges as an array of sensor names; CheckSensors should
\* then check every listed sensor that has a range (README.md:490-492).
ListedSensorsChecked ==
  sequencer = "check" =>
    \A s \in jsonSequence.listed :
      jsonSequence.ranges[s] # {} => sensorsNominalRangeMap[s] # {}

\* README.md:484: endTime is the "relative end of the sequence".  A run that
\* nobody stopped ends because its time is over.
EndsAtEndTime ==
  sequencer = "reset" /\ ~stopAsked => sequenceTime > jsonSequence.end
=============================================================================
