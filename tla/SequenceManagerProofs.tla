------------------------ MODULE SequenceManagerProofs ------------------------
(***************************************************************************)
(* Proofs about SequenceManager for every choice of its constants.         *)
(***************************************************************************)
EXTENDS SequenceManager, WellFoundedInduction, TLAPS

USE DEF Listen, Run

-----------------------------------------------------------------------------
(* Type correctness.                                                       *)

LEMMA PlanTypes ==
  ASSUME NEW seq \in Sequence, NEW old \in [Devices -> Modes]
  PROVE  /\ LoadedRanges(seq) \in [Sensors -> SUBSET Nat]
         /\ LoadedTimes(seq) \in SUBSET (Nat \X Sensors)
         /\ LoadInterpolationMap(seq, old) \in [Devices -> Modes]
<1>1. LoadedRanges(seq) \in [Sensors -> SUBSET Nat]
  BY DEF LoadedRanges, Sequence
<1>2. LoadedTimes(seq) \in SUBSET (Nat \X Sensors)
  BY <1>1 DEF LoadedTimes
<1>3. LoadInterpolationMap(seq, old) \in [Devices -> Modes]
  BY DEF LoadInterpolationMap, Sequence
<1>4. QED
  BY <1>1, <1>2, <1>3

LEMMA NoSequenceType == NoSequence \in Sequence
BY DEF NoSequence, Sequence, Modes

\* What one pass commands of a device, and whether it advances, for either mode.
LEMMA InterpolateType ==
  ASSUME NEW mode, NEW S \in SUBSET Nat, NEW now \in Nat
  PROVE  /\ Interpolate(mode, S, now).send \subseteq {t \in S : t <= now}
         /\ Interpolate(mode, S, now).advance \in BOOLEAN
<1>1. CASE mode = "linear"
  BY <1>1 DEF Interpolate, InterpolateLinear, Due, First, Rest
<1>2. CASE mode # "linear"
  BY <1>2 DEF Interpolate, InterpolateNone, Due, First
<1>3. QED
  BY <1>1, <1>2

LEMMA WakeupsType ==
  ASSUME ConstantsOK, TypeOK
  PROVE  /\ Wakeups \subseteq Nat
         /\ iteration # 0 => \A t \in Wakeups : sequenceTime <= t
BY DEF ConstantsOK, TypeOK, Wakeups

LEMMA TypeInit == Init => TypeOK
<1> SUFFICES ASSUME Init PROVE TypeOK
  OBVIOUS
<1>1. jsonAbortSequence \in Seq(BOOLEAN)
  BY DEF Init
<1>2. request \in [seq : Sequence, abortSeq : Seq(BOOLEAN)]
  BY NoSequenceType DEF Init
<1>3. interpolationMap \in [Devices -> Modes]
  BY DEF Init, Modes
<1>4. /\ deviceMap \in [Devices -> SUBSET Nat]
      /\ commanded \in [Devices -> SUBSET Nat]
      /\ sensorsNominalRangeMap \in [Sensors -> SUBSET Nat]
      /\ sensorsNominalRangeTimeMap \in SUBSET (Nat \X Sensors)
  BY DEF Init
<1>5. jsonSequence \in Sequence
  BY NoSequenceType DEF Init
<1>6. /\ listener \in Listening
      /\ sequencer \in Sequencing
  BY DEF Init, Listening, Sequencing
<1>7. /\ attempted \subseteq Nat
      /\ sequenceRunning \in BOOLEAN /\ sequenceToStop \in BOOLEAN
      /\ isAbortRunning \in BOOLEAN /\ autoAbortEnabled \in BOOLEAN
      /\ terminated \in BOOLEAN /\ alarm \in BOOLEAN /\ stopAsked \in BOOLEAN
  BY DEF Init
<1>8. QED
  BY <1>1, <1>2, <1>3, <1>4, <1>5, <1>6, <1>7 DEF Init, TypeOK

LEMMA TypeRecv == ConstantsOK /\ TypeOK /\ Recv => TypeOK'
<1> SUFFICES ASSUME ConstantsOK, TypeOK, Recv PROVE TypeOK'
  OBVIOUS
<1> USE DEF TypeOK, Listening, StartSteps, AbortSteps, AbortWaits, flags, lock,
            loaded, schedule, ranges, run, history
<1>1. ASSUME NEW seq \in SeqFiles, NEW abortSeq \in AbortFiles, RecvStart(seq, abortSeq)
      PROVE TypeOK'
  BY <1>1 DEF RecvStart, ConstantsOK
<1>2. CASE RecvAbort
  BY <1>2 DEF RecvAbort
<1>3. CASE RecvStatesSet
  BY <1>3 DEF RecvStatesSet
<1>4. ASSUME NEW active \in BOOLEAN, AutoAbortChange(active) PROVE TypeOK'
  BY <1>4 DEF AutoAbortChange
<1>5. QED
  BY <1>1, <1>2, <1>3, <1>4 DEF Recv

LEMMA TypeHandle == ConstantsOK /\ TypeOK /\ Handle => TypeOK'
<1> SUFFICES ASSUME ConstantsOK, TypeOK, Handle PROVE TypeOK'
  OBVIOUS
<1> USE DEF TypeOK, Listening, Sequencing, StartSteps, AbortSteps, AbortWaits,
            Looping, Locked, Leaving, flags, lock, loaded, schedule, ranges, run,
            history
<1>1. CASE StartJoin
  BY <1>1 DEF StartJoin
<1>2. CASE StartRefuse
  BY <1>2 DEF StartRefuse
<1>3. CASE StartLoad
  <2>1. /\ request.seq \in Sequence
        /\ request.abortSeq \in Seq(BOOLEAN)
        /\ request.seq.points \in [Devices -> SUBSET Nat]
    BY DEF Sequence
  <2>2. /\ jsonSequence' \in Sequence
        /\ jsonAbortSequence' \in Seq(BOOLEAN)
        /\ deviceMap' \in [Devices -> SUBSET Nat]
    BY <1>3, <2>1 DEF StartLoad
  <2>3. /\ sensorsNominalRangeMap' \in [Sensors -> SUBSET Nat]
        /\ sensorsNominalRangeTimeMap' \in SUBSET (Nat \X Sensors)
        /\ interpolationMap' \in [Devices -> Modes]
    BY <1>3, <2>1, PlanTypes DEF StartLoad
  <2>4. QED
    BY <1>3, <2>2, <2>3 DEF StartLoad
<1>4. CASE StartRunning
  BY <1>4 DEF StartRunning
<1>5. CASE StartSpawn
  BY <1>5 DEF StartSpawn
<1>6. CASE AbortCheck
  BY <1>6 DEF AbortCheck
<1>7. CASE AbortStop
  BY <1>7 DEF AbortStop
<1>8. CASE AbortJoin
  BY <1>8 DEF AbortJoin
<1>9. CASE AbortGuard
  BY <1>9 DEF AbortGuard
<1>10. CASE AbortLock
  BY <1>10 DEF AbortLock
<1>11. CASE AbortExec
  BY <1>11 DEF AbortExec
<1>12. CASE AbortThrow
  BY <1>12 DEF AbortThrow
<1>13. CASE AbortExecuted
  BY <1>13 DEF AbortExecuted
<1>14. CASE AbortUnlock
  BY <1>14 DEF AbortUnlock
<1>15. CASE AbortClear
  <2>1. isAbortRunning' \in BOOLEAN
    BY <1>15 DEF AbortClear
  <2>2. QED
    BY <1>15, <2>1 DEF AbortClear
<1>16. CASE AbortSend
  BY <1>16 DEF AbortSend
<1>17. CASE StatesCheck
  BY <1>17 DEF StatesCheck
<1>18. CASE StatesSet
  BY <1>18 DEF StatesSet
<1>19. QED
  BY <1>1, <1>2, <1>3, <1>4, <1>5, <1>6, <1>7, <1>8, <1>9, <1>10, <1>11, <1>12, <1>13, <1>14, <1>15, <1>16, <1>17, <1>18 DEF Handle

LEMMA TypeLoop == ConstantsOK /\ TypeOK /\ Loop => TypeOK'
<1> SUFFICES ASSUME ConstantsOK, TypeOK, Loop PROVE TypeOK'
  OBVIOUS
<1> USE DEF TypeOK, Listening, Sequencing, StartSteps, AbortSteps, AbortWaits,
            Looping, Locked, Leaving, flags, lock, loaded, schedule, ranges, run,
            history
<1>1. CASE LoopTest
  BY <1>1 DEF LoopTest
<1>2. CASE LoopTick
  <2>1. sequenceTime' \in Nat
    BY <1>2, WakeupsType DEF LoopTick
  <2>2. QED
    BY <1>2, <2>1 DEF LoopTick
<1>3. CASE LoopLock
  BY <1>3 DEF LoopLock
<1>4. CASE LoopDevices
  <2> DEFINE pass(d) == Interpolate(interpolationMap[d], deviceMap[d], sequenceTime)
  <2>1. \A d \in Devices : pass(d).send \subseteq Nat
    BY InterpolateType
  <2>2. commanded' = [d \in Devices |-> commanded[d] \cup pass(d).send]
    BY <1>4 DEF LoopDevices
  <2>3. deviceMap' = [d \in Devices |-> IF pass(d).advance THEN Rest(deviceMap[d])
                                                          ELSE deviceMap[d]]
    BY <1>4 DEF LoopDevices
  <2> HIDE DEF pass
  <2>4. commanded' \in [Devices -> SUBSET Nat]
    BY <2>1, <2>2
  <2>5. deviceMap' \in [Devices -> SUBSET Nat]
    BY <2>3 DEF Rest
  <2>6. passes' \in Nat /\ issuer' \in {"nobody", "sequence", "abort", "operator"}
    BY <1>4 DEF LoopDevices
  <2>7. QED
    BY <1>4, <2>4, <2>5, <2>6 DEF LoopDevices
<1>5. CASE LoopRanges
  <2>1. sensorsNominalRangeMap' \in [Sensors -> SUBSET Nat]
    BY <1>5 DEF LoopRanges, Rest
  <2>2. sensorsNominalRangeTimeMap' \subseteq sensorsNominalRangeTimeMap
    BY <1>5 DEF LoopRanges
  <2>3. QED
    BY <1>5, <2>1, <2>2 DEF LoopRanges
<1>6. CASE LoopCheckPass
  BY <1>6 DEF LoopCheckPass
<1>7. CASE LoopCheckAbort
  BY <1>7 DEF LoopCheckAbort
<1>8. CASE LoopUnlock
  BY <1>8 DEF LoopUnlock
<1>9. CASE LoopReset
  <2>1. sequenceToStop' \in BOOLEAN
    BY <1>9 DEF LoopReset
  <2>2. QED
    BY <1>9, <2>1 DEF LoopReset
<1>10. CASE LoopTimerDone
  BY <1>10 DEF LoopTimerDone
<1>11. CASE LoopClear
  <2>1. sequenceRunning' \in BOOLEAN
    BY <1>11 DEF LoopClear
  <2>2. QED
    BY <1>11, <2>1 DEF LoopClear
<1>12. QED
  BY <1>1, <1>2, <1>3, <1>4, <1>5, <1>6, <1>7, <1>8, <1>9, <1>10, <1>11 DEF Loop

\* The variables keep their types in every behaviour.
THEOREM TypeCorrect == Spec => []TypeOK
<1>1. TypeOK /\ [Next]_vars => TypeOK'
  <2>1. CASE Recv \/ Handle \/ Loop
    BY <2>1, ConstantsOK, TypeRecv, TypeHandle, TypeLoop
  <2>2. TypeOK /\ UNCHANGED vars => TypeOK'
    BY DEF vars, TypeOK, flags, lock, loaded, schedule, ranges, run, history
  <2>3. QED
    BY <2>1, <2>2 DEF Next, Dead
<1>2. QED
  BY TypeInit, <1>1, PTL DEF Spec

-----------------------------------------------------------------------------
(* The control: ControlInv is inductive.                                   *)

LEMMA ControlInit == Init => ControlInv
BY DEF Init, ControlInv, ThreadsInv, AbortInv, MutexInv, Alone, Running, AbortSteps,
       Looping, Locked, Leaving

LEMMA ControlRecv == ConstantsOK /\ TypeOK /\ ControlInv /\ Recv => ControlInv'
<1> SUFFICES ASSUME TypeOK, ControlInv, Recv PROVE ControlInv'
  OBVIOUS
<1> USE DEF ControlInv, ThreadsInv, AbortInv, MutexInv, Alone, Running, AbortSteps,
            Looping, Locked, Leaving, flags, lock, loaded, schedule, ranges, run, history
<1>1. ASSUME NEW seq \in SeqFiles, NEW abortSeq \in AbortFiles, RecvStart(seq, abortSeq)
      PROVE ControlInv'
  BY <1>1 DEF RecvStart
<1>2. CASE RecvAbort
  BY <1>2 DEF RecvAbort
<1>3. CASE RecvStatesSet
  BY <1>3 DEF RecvStatesSet
<1>4. ASSUME NEW active \in BOOLEAN, AutoAbortChange(active) PROVE ControlInv'
  BY <1>4 DEF AutoAbortChange
<1>5. QED
  BY <1>1, <1>2, <1>3, <1>4 DEF Recv

LEMMA ControlHandle == ConstantsOK /\ TypeOK /\ ControlInv /\ Handle => ControlInv'
<1> SUFFICES ASSUME TypeOK, ControlInv, Handle PROVE ControlInv'
  OBVIOUS
<1> USE DEF ControlInv, ThreadsInv, AbortInv, MutexInv, Alone, Running, AbortSteps,
            Looping, Locked, Leaving, flags, lock, loaded, schedule, ranges, run, history
<1>1. CASE StartJoin
  BY <1>1 DEF StartJoin
<1>2. CASE StartRefuse
  BY <1>2 DEF StartRefuse, IsSequenceRunning
<1>3. CASE StartLoad
  BY <1>3 DEF StartLoad, IsSequenceRunning
<1>4. CASE StartRunning
  BY <1>4 DEF StartRunning
<1>5. CASE StartSpawn
  BY <1>5 DEF StartSpawn
<1>6. CASE AbortCheck
  BY <1>6 DEF AbortCheck
<1>7. CASE AbortStop
  BY <1>7 DEF AbortStop
<1>8. CASE AbortJoin
  BY <1>8 DEF AbortJoin
<1>9. CASE AbortGuard
  BY <1>9 DEF AbortGuard, IsSequenceRunning, TypeOK
<1>10. CASE AbortLock
  BY <1>10 DEF AbortLock, TypeOK
<1>11. CASE AbortExec
  BY <1>11 DEF AbortExec, TypeOK
<1>12. CASE AbortThrow
  BY <1>12 DEF AbortThrow, TypeOK
<1>13. CASE AbortExecuted
  BY <1>13 DEF AbortExecuted, TypeOK
<1>14. CASE AbortUnlock
  BY <1>14 DEF AbortUnlock
<1>15. CASE AbortClear
  BY <1>15 DEF AbortClear
<1>16. CASE AbortSend
  BY <1>16 DEF AbortSend
<1>17. CASE StatesCheck
  BY <1>17 DEF StatesCheck, IsSequenceRunning, TypeOK, Sequencing
<1>18. CASE StatesSet
  BY <1>18 DEF StatesSet
<1>19. QED
  BY <1>1, <1>2, <1>3, <1>4, <1>5, <1>6, <1>7, <1>8, <1>9, <1>10, <1>11, <1>12, <1>13, <1>14, <1>15, <1>16, <1>17, <1>18 DEF Handle

LEMMA ControlLoop == ConstantsOK /\ TypeOK /\ ControlInv /\ Loop => ControlInv'
<1> SUFFICES ASSUME TypeOK, ControlInv, Loop PROVE ControlInv'
  OBVIOUS
<1> USE DEF ControlInv, ThreadsInv, AbortInv, MutexInv, Alone, Running, AbortSteps,
            Looping, Locked, Leaving, flags, lock, loaded, schedule, ranges, run, history
<1>1. CASE LoopTest
  BY <1>1 DEF LoopTest
<1>2. CASE LoopTick
  BY <1>2 DEF LoopTick
<1>3. CASE LoopLock
  BY <1>3 DEF LoopLock
<1>4. CASE LoopDevices
  BY <1>4 DEF LoopDevices
<1>5. CASE LoopRanges
  BY <1>5 DEF LoopRanges
<1>6. CASE LoopCheckPass
  BY <1>6 DEF LoopCheckPass
<1>7. CASE LoopCheckAbort
  BY <1>7 DEF LoopCheckAbort
<1>8. CASE LoopUnlock
  BY <1>8 DEF LoopUnlock
<1>9. CASE LoopReset
  BY <1>9 DEF LoopReset
<1>10. CASE LoopTimerDone
  BY <1>10 DEF LoopTimerDone
<1>11. CASE LoopClear
  BY <1>11 DEF LoopClear
<1>12. QED
  BY <1>1, <1>2, <1>3, <1>4, <1>5, <1>6, <1>7, <1>8, <1>9, <1>10, <1>11 DEF Loop

\* In every behaviour the flags and the mutex agree with what the two threads do.
THEOREM ControlCorrect == Spec => []ControlInv
<1>1. TypeOK /\ ControlInv /\ [Next]_vars => ControlInv'
  <2>1. TypeOK /\ ControlInv /\ (Recv \/ Handle \/ Loop) => ControlInv'
    BY ConstantsOK, ControlRecv, ControlHandle, ControlLoop
  <2>2. ControlInv /\ UNCHANGED vars => ControlInv'
    BY DEF vars, flags, lock, loaded, schedule, ranges, run, history,
           ControlInv, ThreadsInv, AbortInv, MutexInv
  <2>3. QED
    BY <2>1, <2>2 DEF Next, Dead
<1>2. QED
  BY ControlInit, TypeCorrect, <1>1, PTL DEF Spec

\* No thread of a run exists while the safe state is commanded.
THEOREM AbortAloneCorrect == Spec => []AbortAlone
<1>1. ControlInv => AbortAlone
  BY DEF ControlInv, AbortAlone, ThreadsInv, Alone, Running, AbortSteps, Looping, Locked,
         Leaving
<1>2. QED
  BY ControlCorrect, <1>1, PTL

\* The guard of abortSequence never turns an accepted abort into nothing.
THEOREM AbortNeverSkippedCorrect == Spec => []AbortNeverSkipped
<1>1. ControlInv => AbortNeverSkipped
  BY DEF ControlInv, AbortNeverSkipped, ThreadsInv, AbortInv,
         IsSequenceRunning, Alone, Running, AbortSteps, Looping, Locked, Leaving
<1>2. QED
  BY ControlCorrect, <1>1, PTL

\* No join without a thread, no second thread over a joinable one.
THEOREM JoinsAThreadCorrect == Spec => []JoinsAThread
<1>1. ControlInv => JoinsAThread
  BY DEF ControlInv, JoinsAThread, ThreadsInv, Alone
<1>2. QED
  BY ControlCorrect, <1>1, PTL

\* An abort that reaches its end tried every action.
THEOREM AbortAttemptsAllCorrect == Spec => []AbortAttemptsAll
<1>1. ControlInv => AbortAttemptsAll
  BY DEF ControlInv, AbortAttemptsAll, AbortInv
<1>2. QED
  BY ControlCorrect, <1>1, PTL

\* Only a bad abort sequence leaves the manager locked.
THEOREM OnlyBadAbortSticksCorrect == Spec => []OnlyBadAbortSticks
<1>1. ControlInv => OnlyBadAbortSticks
  BY DEF ControlInv, OnlyBadAbortSticks, AbortInv, MutexInv, AbortSteps
<1>2. QED
  BY ControlCorrect, <1>1, PTL

\* The check of states-set is still true when the state is set.
THEOREM OperatorLockedOutCorrect == Spec => []OperatorLockedOut
<1>1. ControlInv => OperatorLockedOut
  BY DEF ControlInv, OperatorLockedOut, ThreadsInv
<1>2. QED
  BY ControlCorrect, <1>1, PTL

-----------------------------------------------------------------------------
(* The messages of the two threads to the web server.                      *)

LEMMA ScreenInit == Init => ScreenInv
BY DEF Init, ScreenInv, AbortSteps, Looping, Locked

LEMMA ScreenRecv == TypeOK /\ ControlInv /\ ScreenInv /\ Recv => ScreenInv'
<1> SUFFICES ASSUME TypeOK, ControlInv, ScreenInv, Recv PROVE ScreenInv'
  OBVIOUS
<1> USE DEF ScreenInv, Alone, Running, AbortSteps, Looping, Locked, Leaving,
            flags, lock, loaded, schedule, ranges, run, history, ControlInv, ThreadsInv
<1>1. ASSUME NEW seq \in SeqFiles, NEW abortSeq \in AbortFiles, RecvStart(seq, abortSeq)
      PROVE ScreenInv'
  BY <1>1 DEF RecvStart
<1>2. CASE RecvAbort
  BY <1>2 DEF RecvAbort
<1>3. CASE RecvStatesSet
  BY <1>3 DEF RecvStatesSet
<1>4. ASSUME NEW active \in BOOLEAN, AutoAbortChange(active) PROVE ScreenInv'
  BY <1>4 DEF AutoAbortChange
<1>5. QED
  BY <1>1, <1>2, <1>3, <1>4 DEF Recv

LEMMA ScreenHandle == TypeOK /\ ControlInv /\ ScreenInv /\ Handle => ScreenInv'
<1> SUFFICES ASSUME TypeOK, ControlInv, ScreenInv, Handle PROVE ScreenInv'
  OBVIOUS
<1> USE DEF ScreenInv, Alone, Running, AbortSteps, Looping, Locked, Leaving,
            flags, lock, loaded, schedule, ranges, run, history, ControlInv, ThreadsInv
<1>1. CASE StartJoin
  BY <1>1 DEF StartJoin
<1>2. CASE StartRefuse
  BY <1>2 DEF StartRefuse
<1>3. CASE StartLoad
  BY <1>3 DEF StartLoad
<1>4. CASE StartRunning
  BY <1>4 DEF StartRunning
<1>5. CASE StartSpawn
  BY <1>5 DEF StartSpawn
<1>6. CASE AbortCheck
  BY <1>6 DEF AbortCheck
<1>7. CASE AbortStop
  BY <1>7 DEF AbortStop
<1>8. CASE AbortJoin
  BY <1>8 DEF AbortJoin
<1>9. CASE AbortGuard
  BY <1>9 DEF AbortGuard
<1>10. CASE AbortLock
  BY <1>10 DEF AbortLock
<1>11. CASE AbortExec
  BY <1>11 DEF AbortExec
<1>12. CASE AbortThrow
  BY <1>12 DEF AbortThrow
<1>13. CASE AbortExecuted
  BY <1>13 DEF AbortExecuted
<1>14. CASE AbortUnlock
  BY <1>14 DEF AbortUnlock
<1>15. CASE AbortClear
  BY <1>15 DEF AbortClear
<1>16. CASE AbortSend
  BY <1>16 DEF AbortSend
<1>17. CASE StatesCheck
  BY <1>17 DEF StatesCheck
<1>18. CASE StatesSet
  BY <1>18 DEF StatesSet
<1>19. QED
  BY <1>1, <1>2, <1>3, <1>4, <1>5, <1>6, <1>7, <1>8, <1>9, <1>10, <1>11, <1>12, <1>13, <1>14, <1>15, <1>16, <1>17, <1>18 DEF Handle

LEMMA ScreenLoop == TypeOK /\ ControlInv /\ ScreenInv /\ Loop => ScreenInv'
<1> SUFFICES ASSUME TypeOK, ControlInv, ScreenInv, Loop PROVE ScreenInv'
  OBVIOUS
<1> USE DEF ScreenInv, Alone, Running, AbortSteps, Looping, Locked, Leaving,
            flags, lock, loaded, schedule, ranges, run, history, ControlInv, ThreadsInv
<1>1. CASE LoopTest
  BY <1>1 DEF LoopTest
<1>2. CASE LoopTick
  BY <1>2 DEF LoopTick, TypeOK
<1>3. CASE LoopLock
  BY <1>3 DEF LoopLock
<1>4. CASE LoopDevices
  BY <1>4 DEF LoopDevices
<1>5. CASE LoopRanges
  BY <1>5 DEF LoopRanges
<1>6. CASE LoopCheckPass
  BY <1>6 DEF LoopCheckPass
<1>7. CASE LoopCheckAbort
  BY <1>7 DEF LoopCheckAbort
<1>8. CASE LoopUnlock
  BY <1>8 DEF LoopUnlock
<1>9. CASE LoopReset
  BY <1>9 DEF LoopReset
<1>10. CASE LoopTimerDone
  BY <1>10 DEF LoopTimerDone
<1>11. CASE LoopClear
  BY <1>11 DEF LoopClear
<1>12. QED
  BY <1>1, <1>2, <1>3, <1>4, <1>5, <1>6, <1>7, <1>8, <1>9, <1>10, <1>11 DEF Loop

LEMMA ScreenCorrect == Spec => []ScreenInv
<1>1. TypeOK /\ ControlInv /\ ScreenInv /\ [Next]_vars => ScreenInv'
  <2>1. ScreenInv /\ UNCHANGED vars => ScreenInv'
    BY DEF vars, flags, lock, loaded, schedule, ranges, run, history, ScreenInv
  <2>2. QED
    BY ScreenRecv, ScreenHandle, ScreenLoop, <2>1 DEF Next, Dead
<1>2. QED
  BY ScreenInit, TypeCorrect, ControlCorrect, <1>1, PTL DEF Spec

\* The messages of a run leave in their order.
THEOREM ScreenOrderCorrect == Spec => ScreenOrder
<1>1. TypeOK /\ ControlInv /\ ScreenInv /\ [Next]_vars => [ScreenStep]_screen
  <2> SUFFICES ASSUME TypeOK, ControlInv, ScreenInv, [Next]_vars
               PROVE [ScreenStep]_screen
    OBVIOUS
  <2> USE DEF flags, lock, loaded, schedule, ranges, run, history, ScreenStep
  <2>1. CASE Recv
    BY <2>1 DEF Recv, RecvStart, RecvAbort, RecvStatesSet, AutoAbortChange
  <2>2. CASE StartRunning
    BY <2>2 DEF StartRunning, ScreenInv, ControlInv, ThreadsInv, Alone
  <2>3. CASE AbortSend
    BY <2>3 DEF AbortSend, ScreenInv
  <2>4. CASE Handle /\ ~StartRunning /\ ~AbortSend
    BY <2>4 DEF Handle, StartJoin, StartRefuse, StartLoad, StartSpawn, AbortCheck,
                AbortStop, AbortJoin, AbortGuard, AbortLock, AbortExec, AbortThrow,
                AbortExecuted, AbortUnlock, AbortClear, StatesCheck, StatesSet
  <2>5. CASE LoopTick
    BY <2>5 DEF LoopTick, ScreenInv, Looping, TypeOK
  <2>6. CASE LoopTimerDone
    BY <2>6 DEF LoopTimerDone, ScreenInv
  <2>7. CASE Loop /\ ~LoopTick /\ ~LoopTimerDone
    BY <2>7 DEF Loop, LoopTest, LoopLock, LoopDevices, LoopRanges, LoopCheckPass,
                LoopCheckAbort, LoopUnlock, LoopReset, LoopClear
  <2>8. CASE UNCHANGED vars
    BY <2>8 DEF vars
  <2>9. QED
    BY <2>1, <2>2, <2>3, <2>4, <2>5, <2>6, <2>7, <2>8 DEF Next, Dead
<1>2. QED
  BY TypeCorrect, ControlCorrect, ScreenCorrect, <1>1, PTL DEF Spec, ScreenOrder

-----------------------------------------------------------------------------
(* A run that was asked to stop.                                           *)

LEMMA StopRecv == TypeOK /\ ControlInv /\ StopInv /\ Recv => StopInv'
<1> SUFFICES ASSUME TypeOK, ControlInv, StopInv, Recv PROVE StopInv'
  OBVIOUS
<1> USE DEF flags, lock, loaded, schedule, ranges, run, history,
            StopInv, Looping, Locked
<1>1. ASSUME NEW seq \in SeqFiles, NEW abortSeq \in AbortFiles, RecvStart(seq, abortSeq)
      PROVE StopInv'
  BY <1>1 DEF RecvStart
<1>2. CASE RecvAbort
  BY <1>2 DEF RecvAbort
<1>3. CASE RecvStatesSet
  BY <1>3 DEF RecvStatesSet
<1>4. ASSUME NEW active \in BOOLEAN, AutoAbortChange(active) PROVE StopInv'
  BY <1>4 DEF AutoAbortChange
<1>5. QED
  BY <1>1, <1>2, <1>3, <1>4 DEF Recv

LEMMA StopHandle == TypeOK /\ ControlInv /\ StopInv /\ Handle => StopInv'
<1> SUFFICES ASSUME TypeOK, ControlInv, StopInv, Handle PROVE StopInv'
  OBVIOUS
<1> USE DEF flags, lock, loaded, schedule, ranges, run, history,
            StopInv, Looping, Locked
<1>1. CASE StartJoin
  BY <1>1 DEF StartJoin
<1>2. CASE StartRefuse
  BY <1>2 DEF StartRefuse
<1>3. CASE StartLoad
  BY <1>3 DEF StartLoad
<1>4. CASE StartRunning
  BY <1>4 DEF StartRunning
<1>5. CASE StartSpawn
  BY <1>5 DEF StartSpawn, ControlInv, ThreadsInv, Alone
<1>6. CASE AbortCheck
  BY <1>6 DEF AbortCheck
<1>7. CASE AbortStop
  BY <1>7 DEF AbortStop, ControlInv, ThreadsInv
<1>8. CASE AbortJoin
  BY <1>8 DEF AbortJoin
<1>9. CASE AbortGuard
  BY <1>9 DEF AbortGuard
<1>10. CASE AbortLock
  BY <1>10 DEF AbortLock
<1>11. CASE AbortExec
  BY <1>11 DEF AbortExec
<1>12. CASE AbortThrow
  BY <1>12 DEF AbortThrow
<1>13. CASE AbortExecuted
  BY <1>13 DEF AbortExecuted
<1>14. CASE AbortUnlock
  BY <1>14 DEF AbortUnlock
<1>15. CASE AbortClear
  BY <1>15 DEF AbortClear
<1>16. CASE AbortSend
  BY <1>16 DEF AbortSend
<1>17. CASE StatesCheck
  BY <1>17 DEF StatesCheck
<1>18. CASE StatesSet
  BY <1>18 DEF StatesSet
<1>19. QED
  BY <1>1, <1>2, <1>3, <1>4, <1>5, <1>6, <1>7, <1>8, <1>9, <1>10, <1>11, <1>12, <1>13, <1>14, <1>15, <1>16, <1>17, <1>18 DEF Handle

LEMMA StopLoop == TypeOK /\ ControlInv /\ StopInv /\ Loop => StopInv'
<1> SUFFICES ASSUME TypeOK, ControlInv, StopInv, Loop PROVE StopInv'
  OBVIOUS
<1> USE DEF flags, lock, loaded, schedule, ranges, run, history,
            StopInv, Looping, Locked
<1>1. CASE LoopTest
  BY <1>1 DEF LoopTest
<1>2. CASE LoopTick
  BY <1>2 DEF LoopTick
<1>3. CASE LoopLock
  BY <1>3 DEF LoopLock
<1>4. CASE LoopDevices
  BY <1>4 DEF LoopDevices
<1>5. CASE LoopRanges
  BY <1>5 DEF LoopRanges
<1>6. CASE LoopCheckPass
  BY <1>6 DEF LoopCheckPass
<1>7. CASE LoopCheckAbort
  BY <1>7 DEF LoopCheckAbort
<1>8. CASE LoopUnlock
  BY <1>8 DEF LoopUnlock
<1>9. CASE LoopReset
  BY <1>9 DEF LoopReset
<1>10. CASE LoopTimerDone
  BY <1>10 DEF LoopTimerDone
<1>11. CASE LoopClear
  BY <1>11 DEF LoopClear
<1>12. QED
  BY <1>1, <1>2, <1>3, <1>4, <1>5, <1>6, <1>7, <1>8, <1>9, <1>10, <1>11 DEF Loop

\* After the listener has asked for it, a run commands at most one more pass.
THEOREM StopsPromptlyCorrect == Spec => []StopsPromptly
<1>1. Init => StopInv
  BY DEF Init, StopInv, Looping, Locked
<1>2. TypeOK /\ ControlInv /\ StopInv /\ [Next]_vars => StopInv'
  <2>1. StopInv /\ UNCHANGED vars => StopInv'
    BY DEF vars, flags, lock, loaded, schedule, ranges, run, history, StopInv
  <2>2. QED
    BY StopRecv, StopHandle, StopLoop, <2>1 DEF Next, Dead
<1>3. StopInv => StopsPromptly
  BY DEF StopInv, StopsPromptly
<1>4. QED
  BY TypeCorrect, ControlCorrect, <1>1, <1>2, <1>3, PTL DEF Spec

-----------------------------------------------------------------------------
(* The schedule of a run.                                                  *)

\* A pass takes the first datapoint off a map, or nothing.
LEMMA TakesFirst ==
  ASSUME NEW S \in SUBSET Nat, NEW now \in Nat
  PROVE  /\ Due(S, now) # {} => First(S) = Due(S, now)
         /\ Due(S, now) \cup Rest(S) \subseteq S /\ S = First(S) \cup Rest(S)
         /\ \A t \in First(S), u \in Rest(S) : t < u
<1>1. \A t, u \in First(S) : t = u
  BY DEF First
<1>2. Due(S, now) # {} => First(S) = Due(S, now)
  BY <1>1 DEF Due
<1>3. \A t \in First(S), u \in Rest(S) : t < u
  <2> SUFFICES ASSUME NEW t \in First(S), NEW u \in Rest(S) PROVE t < u
    OBVIOUS
  <2>1. t \in Nat /\ u \in Nat /\ t <= u /\ t # u
    BY DEF First, Rest
  <2>2. QED
    BY <2>1
<1>4. QED
  BY <1>2, <1>3 DEF Due, First, Rest

LEMMA NoneDue ==
  ASSUME NEW mode, mode # "linear", NEW S, NEW now
  PROVE  /\ Interpolate(mode, S, now).send = Due(S, now)
         /\ Interpolate(mode, S, now).advance = (Due(S, now) # {})
BY DEF Interpolate, InterpolateNone

LEMMA DueInOrder ==
  ASSUME NEW S \in SUBSET Nat, NEW done \in SUBSET Nat, NEW now \in Nat,
         \A t \in done, u \in S : t < u, Due(S, now) # {}
  PROVE  /\ (done \cup Due(S, now)) \cup Rest(S) = done \cup S
         /\ \A t \in done \cup Due(S, now), u \in Rest(S) : t < u
<1>1. Due(S, now) = First(S)
  BY TakesFirst
<1>2. S = First(S) \cup Rest(S) /\ \A t \in First(S), u \in Rest(S) : t < u
  BY TakesFirst
<1>3. \A t \in done, u \in Rest(S) : t < u
  BY <1>2
<1>4. (done \cup Due(S, now)) \cup Rest(S) = done \cup S
  BY <1>1, <1>2
<1>5. QED
  BY <1>1, <1>2, <1>3, <1>4

LEMMA ScheduleRecv == TypeOK /\ ControlInv /\ ScheduleInv /\ Recv => ScheduleInv'
<1> SUFFICES ASSUME TypeOK, ControlInv, ScheduleInv, Recv PROVE ScheduleInv'
  OBVIOUS
<1> USE DEF ScheduleInv, NeverEarly, DatapointsInOrder, Looping, Locked, flags, lock,
            loaded, schedule, ranges, run, history
<1>1. ASSUME NEW seq \in SeqFiles, NEW abortSeq \in AbortFiles, RecvStart(seq, abortSeq)
      PROVE ScheduleInv'
  BY <1>1 DEF RecvStart
<1>2. CASE RecvAbort
  BY <1>2 DEF RecvAbort
<1>3. CASE RecvStatesSet
  BY <1>3 DEF RecvStatesSet
<1>4. ASSUME NEW active \in BOOLEAN, AutoAbortChange(active) PROVE ScheduleInv'
  BY <1>4 DEF AutoAbortChange
<1>5. QED
  BY <1>1, <1>2, <1>3, <1>4 DEF Recv

LEMMA ScheduleHandle == TypeOK /\ ControlInv /\ ScheduleInv /\ Handle => ScheduleInv'
<1> SUFFICES ASSUME TypeOK, ControlInv, ScheduleInv, Handle PROVE ScheduleInv'
  OBVIOUS
<1> USE DEF ScheduleInv, NeverEarly, DatapointsInOrder, Looping, Locked, flags, lock,
            loaded, schedule, ranges, run, history
<1>1. CASE StartJoin
  BY <1>1 DEF StartJoin
<1>2. CASE StartRefuse
  BY <1>2 DEF StartRefuse
<1>3. CASE StartLoad
  BY <1>3 DEF StartLoad, ControlInv, ThreadsInv, Alone
<1>4. CASE StartRunning
  BY <1>4 DEF StartRunning
<1>5. CASE StartSpawn
  BY <1>5 DEF StartSpawn, ControlInv, ThreadsInv, Alone, TypeOK
<1>6. CASE AbortCheck
  BY <1>6 DEF AbortCheck
<1>7. CASE AbortStop
  BY <1>7 DEF AbortStop
<1>8. CASE AbortJoin
  BY <1>8 DEF AbortJoin
<1>9. CASE AbortGuard
  BY <1>9 DEF AbortGuard
<1>10. CASE AbortLock
  BY <1>10 DEF AbortLock
<1>11. CASE AbortExec
  BY <1>11 DEF AbortExec
<1>12. CASE AbortThrow
  BY <1>12 DEF AbortThrow
<1>13. CASE AbortExecuted
  BY <1>13 DEF AbortExecuted
<1>14. CASE AbortUnlock
  BY <1>14 DEF AbortUnlock
<1>15. CASE AbortClear
  BY <1>15 DEF AbortClear
<1>16. CASE AbortSend
  BY <1>16 DEF AbortSend
<1>17. CASE StatesCheck
  BY <1>17 DEF StatesCheck
<1>18. CASE StatesSet
  BY <1>18 DEF StatesSet
<1>19. QED
  BY <1>1, <1>2, <1>3, <1>4, <1>5, <1>6, <1>7, <1>8, <1>9, <1>10, <1>11, <1>12, <1>13, <1>14, <1>15, <1>16, <1>17, <1>18 DEF Handle

LEMMA ScheduleLoop == ConstantsOK /\ TypeOK /\ ControlInv /\ ScheduleInv /\ Loop => ScheduleInv'
<1> SUFFICES ASSUME ConstantsOK, TypeOK, ControlInv, ScheduleInv, Loop PROVE ScheduleInv'
  OBVIOUS
<1> USE DEF ScheduleInv, NeverEarly, DatapointsInOrder, Looping, Locked, flags, lock,
            loaded, schedule, ranges, run, history
<1>1. CASE LoopTest
  BY <1>1 DEF LoopTest
<1>2. CASE LoopTick
  <2>1. sequenceTime <= sequenceTime'
    BY <1>2, WakeupsType DEF LoopTick, TypeOK
  <2>2. NeverEarly'
    BY <1>2, <2>1, WakeupsType DEF LoopTick, TypeOK
  <2>3. iteration' # 0
    BY <1>2 DEF LoopTick, TypeOK
  <2>4. QED
    BY <1>2, <2>2, <2>3 DEF LoopTick
<1>3. CASE LoopLock
  BY <1>3 DEF LoopLock
<1>4. CASE LoopDevices
  <2> DEFINE pass(d) == Interpolate(interpolationMap[d], deviceMap[d], sequenceTime)
  <2>1. /\ sequencer = "devices" /\ sequencer' = "ranges"
        /\ deviceMap \in [Devices -> SUBSET Nat] /\ commanded \in [Devices -> SUBSET Nat]
        /\ sequenceTime \in Nat /\ sequenceTime' = sequenceTime
        /\ UNCHANGED <<listener, iteration, interpolationMap, jsonSequence>>
    BY <1>4 DEF LoopDevices, TypeOK
  <2>2. commanded' = [d \in Devices |-> commanded[d] \cup pass(d).send]
    BY <1>4 DEF LoopDevices
  <2>3. deviceMap' = [d \in Devices |-> IF pass(d).advance THEN Rest(deviceMap[d])
                                                          ELSE deviceMap[d]]
    BY <1>4 DEF LoopDevices
  <2>4. NeverEarly'
    <3>1. \A d \in Devices : \A t \in pass(d).send : t <= sequenceTime
      BY <2>1, InterpolateType
    <3> HIDE DEF pass
    <3>2. QED
      BY <2>1, <2>2, <3>1
  <2>5. ASSUME NEW d \in Devices, interpolationMap[d] # "linear"
        PROVE  /\ commanded'[d] \cup deviceMap'[d] = jsonSequence.points[d]
               /\ \A t \in commanded'[d], u \in deviceMap'[d] : t < u
    <3>1. /\ commanded[d] \in SUBSET Nat /\ deviceMap[d] \in SUBSET Nat
          /\ commanded[d] \cup deviceMap[d] = jsonSequence.points[d]
          /\ \A t \in commanded[d], u \in deviceMap[d] : t < u
      BY <2>1, <2>5
    <3>2. /\ commanded'[d] = commanded[d] \cup pass(d).send
          /\ deviceMap'[d] = IF pass(d).advance THEN Rest(deviceMap[d])
                                                ELSE deviceMap[d]
      BY <2>2, <2>3
    <3> HIDE DEF pass
    <3>3. /\ commanded'[d] \cup deviceMap'[d] = commanded[d] \cup deviceMap[d]
          /\ \A t \in commanded'[d], u \in deviceMap'[d] : t < u
      <4> DEFINE mode == interpolationMap[d]
                 S    == deviceMap[d]
                 done == commanded[d]
                 left == deviceMap'[d]
                 sent == commanded'[d]
      <4>1. /\ sent = done \cup Interpolate(mode, S, sequenceTime).send
            /\ left = IF Interpolate(mode, S, sequenceTime).advance THEN Rest(S) ELSE S
        BY <3>2 DEF pass
      <4>2. /\ mode # "linear" /\ S \in SUBSET Nat /\ done \in SUBSET Nat
            /\ sequenceTime \in Nat /\ \A t \in done, u \in S : t < u
        BY <2>1, <2>5, <3>1
      <4>3. Interpolate(mode, S, sequenceTime).advance = (Due(S, sequenceTime) # {})
        BY <4>2, NoneDue
      <4>4. sent = done \cup Due(S, sequenceTime)
        BY <4>1, <4>2, NoneDue
      <4> HIDE DEF mode, S, done, left, sent, ScheduleInv, NeverEarly, DatapointsInOrder
      <4>5. CASE Due(S, sequenceTime) = {}
        BY <4>1, <4>2, <4>3, <4>4, <4>5 DEF S, done, left, sent
      <4>6. CASE Due(S, sequenceTime) # {}
        <5>1. left = Rest(S)
          BY <4>1, <4>3, <4>6
        <5>2. /\ sent \cup left = done \cup S
              /\ \A t \in sent, u \in left : t < u
          BY <5>1, <4>2, <4>4, <4>6, DueInOrder
        <5>3. QED
          BY <5>2 DEF S, done, left, sent
      <4>7. QED
        BY <4>5, <4>6
    <3>4. QED
      BY <3>1, <3>3
  <2>6. ~(listener \in {"startRunning", "startSpawn"})
    BY <2>1 DEF ControlInv, ThreadsInv, Alone
  <2>7. QED
    BY <2>1, <2>4, <2>5, <2>6
<1>5. CASE LoopRanges
  BY <1>5 DEF LoopRanges
<1>6. CASE LoopCheckPass
  BY <1>6 DEF LoopCheckPass
<1>7. CASE LoopCheckAbort
  BY <1>7 DEF LoopCheckAbort
<1>8. CASE LoopUnlock
  BY <1>8 DEF LoopUnlock
<1>9. CASE LoopReset
  BY <1>9 DEF LoopReset
<1>10. CASE LoopTimerDone
  BY <1>10 DEF LoopTimerDone
<1>11. CASE LoopClear
  BY <1>11 DEF LoopClear
<1>12. QED
  BY <1>1, <1>2, <1>3, <1>4, <1>5, <1>6, <1>7, <1>8, <1>9, <1>10, <1>11 DEF Loop

LEMMA ScheduleCorrect == Spec => []ScheduleInv
<1>1. Init => ScheduleInv
  BY DEF Init, ScheduleInv, NeverEarly, DatapointsInOrder, Looping, Locked
<1>2. TypeOK /\ ControlInv /\ ScheduleInv /\ [Next]_vars => ScheduleInv'
  <2>1. ScheduleInv /\ UNCHANGED vars => ScheduleInv'
    BY DEF vars, flags, lock, loaded, schedule, ranges, run, history, ScheduleInv,
           NeverEarly, DatapointsInOrder
  <2>2. QED
    BY ConstantsOK, ScheduleRecv, ScheduleHandle, ScheduleLoop, <2>1 DEF Next, Dead
<1>3. QED
  BY TypeCorrect, ControlCorrect, <1>1, <1>2, PTL DEF Spec

\* No datapoint is commanded before its time, whatever the sequence and the lateness.
THEOREM NeverEarlyCorrect == Spec => []NeverEarly
<1>1. ScheduleInv => NeverEarly
  BY DEF ScheduleInv
<1>2. QED
  BY ScheduleCorrect, <1>1, PTL

\* Datapoints without interpolation are commanded in order and without a gap.
THEOREM DatapointsInOrderCorrect == Spec => []DatapointsInOrder
<1>1. ScheduleInv => DatapointsInOrder
  BY DEF ScheduleInv
<1>2. QED
  BY ScheduleCorrect, <1>1, PTL

-----------------------------------------------------------------------------
(* The nominal ranges.                                                     *)

LEMMA LoadedAgree ==
  ASSUME NEW seq \in Sequence
  PROVE  /\ \A s \in Sensors : \A t \in LoadedRanges(seq)[s] : <<t, s>> \in LoadedTimes(seq)
         /\ \A p \in LoadedTimes(seq) : p[1] \in LoadedRanges(seq)[p[2]]
BY DEF LoadedTimes

\* In a regular sequence a sensor with ranges has one at every timestamp.
LEMMA LoadedRegular ==
  ASSUME NEW seq \in Sequence, Regular(seq), NEW s \in Sensors, RangeKnown(seq, s),
         seq.ranges[s] # {}
  PROVE  /\ LoadedRanges(seq)[s] # {}
         /\ LoadedRanges(seq)[s] = RangeTimes(LoadedTimes(seq))
<1>1. LoadedRanges(seq)[s] = seq.ranges[s]
  BY DEF LoadedRanges
<1>2. \A r \in Sensors : LoadedRanges(seq)[r] \in {{}, LoadedRanges(seq)[s]}
  BY <1>1 DEF Regular
<1>3. \A p \in LoadedTimes(seq) : p[1] \in LoadedRanges(seq)[s]
  <2>1. \A p \in LoadedTimes(seq) : p[2] \in Sensors /\ p[1] \in LoadedRanges(seq)[p[2]]
    BY DEF LoadedTimes
  <2>2. QED
    BY <1>2, <2>1
<1>4. \A t \in LoadedRanges(seq)[s] : <<t, s>> \in LoadedTimes(seq)
  BY LoadedAgree
<1>5. ASSUME NEW t \in LoadedRanges(seq)[s] PROVE t \in RangeTimes(LoadedTimes(seq))
  <2>1. <<t, s>> \in LoadedTimes(seq)
    BY <1>4
  <2>2. <<t, s>>[1] \in {p[1] : p \in LoadedTimes(seq)}
    BY <2>1
  <2>3. QED
    BY <2>2 DEF RangeTimes
<1>6. \A t \in RangeTimes(LoadedTimes(seq)) : t \in LoadedRanges(seq)[s]
  BY <1>3 DEF RangeTimes
<1>7. QED
  BY <1>1, <1>5, <1>6

\* A pass drops nothing, or one timestamp from both maps while another is left.
LEMMA DropsOne ==
  ASSUME TypeOK, RangeMapsAgree, LoopRanges
  PROVE  \/ UNCHANGED ranges
         \/ \E t0 \in Nat :
              /\ sensorsNominalRangeMap' = [s \in Sensors |-> sensorsNominalRangeMap[s] \ {t0}]
              /\ sensorsNominalRangeTimeMap' = {p \in sensorsNominalRangeTimeMap : p[1] # t0}
              /\ RangeTimes(sensorsNominalRangeTimeMap) \ {t0} # {}
<1> DEFINE times   == RangeTimes(sensorsNominalRangeTimeMap)
           dropped == RangeDropped(sensorsNominalRangeTimeMap, sequenceTime)
           drops   == {p \in sensorsNominalRangeTimeMap : p[1] \in dropped}
<1>1. times \in SUBSET Nat /\ sequenceTime \in Nat
  BY DEF RangeTimes, TypeOK
<1>2. /\ sensorsNominalRangeMap' = [s \in Sensors |-> IF \E p \in drops : p[2] = s
                                                  THEN Rest(sensorsNominalRangeMap[s])
                                                  ELSE sensorsNominalRangeMap[s]]
      /\ sensorsNominalRangeTimeMap' = sensorsNominalRangeTimeMap \ drops
  BY DEF LoopRanges
<1>3. CASE dropped = {}
  <2>1. drops = {}
    BY <1>3
  <2>2. sensorsNominalRangeTimeMap' = sensorsNominalRangeTimeMap
    BY <1>2, <2>1
  <2>3. sensorsNominalRangeMap' = [s \in Sensors |-> sensorsNominalRangeMap[s]]
    BY <1>2, <2>1
  <2>4. sensorsNominalRangeMap' = sensorsNominalRangeMap
    BY <2>3 DEF TypeOK
  <2>5. QED
    BY <2>2, <2>4 DEF ranges
<1>4. CASE dropped # {}
  <2>1. dropped = Due(times, sequenceTime) /\ Rest(times) # {}
    BY <1>4 DEF RangeDropped
  <2>2. dropped = First(times)
    BY <1>1, <1>4, <2>1, TakesFirst
  <2>3. PICK t0 \in dropped : TRUE
    BY <1>4
  <2>4. t0 \in times /\ \A t \in times : t0 <= t
    BY <2>2, <2>3 DEF First
  <2>5. dropped = {t0}
    BY <1>1, <2>2, <2>4 DEF First
  <2>6. times \ {t0} # {}
    BY <2>1, <2>2, <2>5 DEF Rest
  <2>7. ASSUME NEW s \in Sensors
        PROVE  (IF \E p \in drops : p[2] = s THEN Rest(sensorsNominalRangeMap[s])
                                            ELSE sensorsNominalRangeMap[s])
                 = sensorsNominalRangeMap[s] \ {t0}
    <3>1. /\ sensorsNominalRangeMap[s] \in SUBSET Nat
          /\ sensorsNominalRangeMap[s] \subseteq times
      <4>1. ASSUME NEW t \in sensorsNominalRangeMap[s] PROVE t \in times
        <5>1. <<t, s>> \in sensorsNominalRangeTimeMap
          BY DEF RangeMapsAgree
        <5>2. <<t, s>>[1] \in {p[1] : p \in sensorsNominalRangeTimeMap}
          BY <5>1
        <5>3. QED
          BY <5>2 DEF RangeTimes
      <4>2. QED
        BY <4>1 DEF TypeOK
    <3>2. (\E p \in drops : p[2] = s) <=> t0 \in sensorsNominalRangeMap[s]
      <4>1. ASSUME NEW p \in drops, p[2] = s PROVE t0 \in sensorsNominalRangeMap[s]
        BY <2>5, <4>1 DEF RangeMapsAgree
      <4>2. ASSUME t0 \in sensorsNominalRangeMap[s] PROVE \E p \in drops : p[2] = s
        <5>1. <<t0, s>> \in sensorsNominalRangeTimeMap
          BY <4>2 DEF RangeMapsAgree
        <5>2. <<t0, s>> \in drops
          BY <2>5, <5>1
        <5>3. QED
          BY <5>2
      <4>3. QED
        BY <4>1, <4>2
    <3>3. t0 \in sensorsNominalRangeMap[s] => First(sensorsNominalRangeMap[s]) = {t0}
      BY <1>1, <2>4, <3>1 DEF First
    <3> HIDE DEF drops
    <3>4. QED
      BY <3>2, <3>3 DEF Rest
  <2>8. sensorsNominalRangeMap' = [s \in Sensors |-> sensorsNominalRangeMap[s] \ {t0}]
    BY <1>2, <2>7
  <2>9. sensorsNominalRangeTimeMap' = {p \in sensorsNominalRangeTimeMap : p[1] # t0}
    BY <1>2, <2>5
  <2>10. QED
    BY <1>1, <2>4, <2>6, <2>8, <2>9
<1>5. QED
  BY <1>3, <1>4

LEMMA RangeRecv == TypeOK /\ ControlInv /\ RangeInv /\ Recv => RangeInv'
<1> SUFFICES ASSUME TypeOK, ControlInv, RangeInv, Recv PROVE RangeInv'
  OBVIOUS
<1> USE DEF RangeInv, RangeMapsAgree, Ranged, Looping, Locked, flags, lock, loaded,
            schedule, ranges, run, history
<1>1. ASSUME NEW seq \in SeqFiles, NEW abortSeq \in AbortFiles, RecvStart(seq, abortSeq)
      PROVE RangeInv'
  BY <1>1 DEF RecvStart
<1>2. CASE RecvAbort
  BY <1>2 DEF RecvAbort
<1>3. CASE RecvStatesSet
  BY <1>3 DEF RecvStatesSet
<1>4. ASSUME NEW active \in BOOLEAN, AutoAbortChange(active) PROVE RangeInv'
  BY <1>4 DEF AutoAbortChange
<1>5. QED
  BY <1>1, <1>2, <1>3, <1>4 DEF Recv

LEMMA RangeHandle == TypeOK /\ ControlInv /\ RangeInv /\ Handle => RangeInv'
<1> SUFFICES ASSUME TypeOK, ControlInv, RangeInv, Handle PROVE RangeInv'
  OBVIOUS
<1> USE DEF RangeInv, RangeMapsAgree, Ranged, Looping, Locked, flags, lock, loaded,
            schedule, ranges, run, history
<1>1. CASE StartJoin
  BY <1>1 DEF StartJoin
<1>2. CASE StartRefuse
  BY <1>2 DEF StartRefuse
<1>3. CASE StartLoad
  <2>1. /\ request.seq \in Sequence /\ jsonSequence' = request.seq
        /\ sensorsNominalRangeMap' = LoadedRanges(request.seq)
        /\ sensorsNominalRangeTimeMap' = LoadedTimes(request.seq)
    BY <1>3 DEF StartLoad, TypeOK
  <2>2. RangeMapsAgree'
    BY <2>1, LoadedAgree
  <2>3. Regular(request.seq) =>
          \A s \in Ranged' :
            /\ sensorsNominalRangeMap'[s] # {}
            /\ sensorsNominalRangeMap'[s] = RangeTimes(sensorsNominalRangeTimeMap')
    BY <2>1, LoadedRegular
  <2>4. QED
    BY <2>1, <2>2, <2>3
<1>4. CASE StartRunning
  BY <1>4 DEF StartRunning
<1>5. CASE StartSpawn
  BY <1>5 DEF StartSpawn
<1>6. CASE AbortCheck
  BY <1>6 DEF AbortCheck
<1>7. CASE AbortStop
  BY <1>7 DEF AbortStop
<1>8. CASE AbortJoin
  BY <1>8 DEF AbortJoin
<1>9. CASE AbortGuard
  BY <1>9 DEF AbortGuard
<1>10. CASE AbortLock
  BY <1>10 DEF AbortLock
<1>11. CASE AbortExec
  BY <1>11 DEF AbortExec
<1>12. CASE AbortThrow
  BY <1>12 DEF AbortThrow
<1>13. CASE AbortExecuted
  BY <1>13 DEF AbortExecuted
<1>14. CASE AbortUnlock
  BY <1>14 DEF AbortUnlock
<1>15. CASE AbortClear
  BY <1>15 DEF AbortClear
<1>16. CASE AbortSend
  BY <1>16 DEF AbortSend
<1>17. CASE StatesCheck
  BY <1>17 DEF StatesCheck
<1>18. CASE StatesSet
  BY <1>18 DEF StatesSet
<1>19. QED
  BY <1>1, <1>2, <1>3, <1>4, <1>5, <1>6, <1>7, <1>8, <1>9, <1>10, <1>11, <1>12, <1>13, <1>14, <1>15, <1>16, <1>17, <1>18 DEF Handle

LEMMA RangeLoop == TypeOK /\ ControlInv /\ RangeInv /\ Loop => RangeInv'
<1> SUFFICES ASSUME TypeOK, ControlInv, RangeInv, Loop PROVE RangeInv'
  OBVIOUS
<1> USE DEF RangeInv, RangeMapsAgree, Ranged, Looping, Locked, flags, lock, loaded,
            schedule, ranges, run, history
<1>1. CASE LoopTest
  BY <1>1 DEF LoopTest
<1>2. CASE LoopTick
  BY <1>2 DEF LoopTick
<1>3. CASE LoopLock
  BY <1>3 DEF LoopLock
<1>4. CASE LoopDevices
  BY <1>4 DEF LoopDevices
<1>5. CASE LoopRanges
  <2>1. CASE UNCHANGED ranges
    BY <1>5, <2>1 DEF LoopRanges
  <2>2. CASE ~ UNCHANGED ranges
    <3>1. PICK t0 \in Nat :
            /\ sensorsNominalRangeMap' = [s \in Sensors |-> sensorsNominalRangeMap[s] \ {t0}]
            /\ sensorsNominalRangeTimeMap' = {p \in sensorsNominalRangeTimeMap : p[1] # t0}
            /\ RangeTimes(sensorsNominalRangeTimeMap) \ {t0} # {}
      BY <1>5, <2>2, DropsOne
    <3>2. RangeMapsAgree'
      BY <3>1 DEF TypeOK
    <3>3. RangeTimes(sensorsNominalRangeTimeMap')
            = RangeTimes(sensorsNominalRangeTimeMap) \ {t0}
      BY <3>1 DEF RangeTimes
    <3>4. Ranged' = Ranged /\ jsonSequence' = jsonSequence /\ listener' = listener
      BY <1>5 DEF LoopRanges
    <3>5. QED
      BY <1>5, <3>1, <3>2, <3>3, <3>4 DEF LoopRanges
  <2>3. QED
    BY <2>1, <2>2
<1>6. CASE LoopCheckPass
  BY <1>6 DEF LoopCheckPass
<1>7. CASE LoopCheckAbort
  BY <1>7 DEF LoopCheckAbort
<1>8. CASE LoopUnlock
  BY <1>8 DEF LoopUnlock
<1>9. CASE LoopReset
  BY <1>9 DEF LoopReset
<1>10. CASE LoopTimerDone
  BY <1>10 DEF LoopTimerDone
<1>11. CASE LoopClear
  BY <1>11 DEF LoopClear
<1>12. QED
  BY <1>1, <1>2, <1>3, <1>4, <1>5, <1>6, <1>7, <1>8, <1>9, <1>10, <1>11 DEF Loop

LEMMA RangeCorrect == Spec => []RangeInv
<1>1. Init => RangeInv
  BY DEF Init, RangeInv, RangeMapsAgree, Looping, Locked
<1>2. TypeOK /\ ControlInv /\ RangeInv /\ [Next]_vars => RangeInv'
  <2>1. RangeInv /\ UNCHANGED vars => RangeInv'
    BY DEF vars, flags, lock, loaded, schedule, ranges, run, history, RangeInv,
           RangeMapsAgree, Ranged
  <2>2. QED
    BY RangeRecv, RangeHandle, RangeLoop, <2>1 DEF Next, Dead
<1>3. QED
  BY TypeCorrect, ControlCorrect, <1>1, <1>2, PTL DEF Spec

\* The two range maps always hold the same entries.
THEOREM RangeMapsAgreeCorrect == Spec => []RangeMapsAgree
<1>1. RangeInv => RangeMapsAgree
  BY DEF RangeInv
<1>2. QED
  BY RangeCorrect, <1>1, PTL

\* Ranges given as the README asks never run out.
THEOREM RangeNeverEmptyCorrect == Spec => []RangeNeverEmpty
<1>1. RangeInv => RangeNeverEmpty
  BY DEF RangeInv, RangeNeverEmpty
<1>2. QED
  BY RangeCorrect, <1>1, PTL

-----------------------------------------------------------------------------
(* What a punctual run commands.                                           *)

\* Every non-empty set of timestamps has a first one.
LEMMA FirstExists ==
  ASSUME NEW S \in SUBSET Nat, S # {}
  PROVE  First(S) # {}
<1>1. PICK x \in S : \A y \in S : <<y, x>> \notin OpToRel(<, Nat)
  BY WFMin, NatLessThanWellFounded
<1>2. \A y \in S : ~(y < x)
  BY <1>1 DEF OpToRel
<1>3. \A y \in S : x <= y
  BY <1>2
<1>4. QED
  BY <1>3 DEF First

\* Slots follow each other at the distance of the interval.
LEMMA SlotsApart ==
  ASSUME NEW I \in Nat \ {0}, NEW a \in Nat, NEW k \in Nat
  PROVE  /\ a * I \in Nat /\ (a + 1) * I = a * I + I
         /\ a * I <= k * I /\ k * I < a * I + I => k = a
<1>1. a * I \in Nat /\ k * I \in Nat /\ (a + 1) * I = a * I + I
  OBVIOUS
<1>2. ASSUME k < a PROVE k * I + I <= a * I
  <2>1. (a - k - 1) * I >= 0
    BY <1>2
  <2>2. (a - k - 1) * I = a * I - k * I - I
    OBVIOUS
  <2>3. QED
    BY <2>1, <2>2, <1>1
<1>3. ASSUME a < k PROVE a * I + I <= k * I
  <2>1. (k - a - 1) * I >= 0
    BY <1>3
  <2>2. (k - a - 1) * I = k * I - a * I - I
    OBVIOUS
  <2>3. QED
    BY <2>1, <2>2, <1>1
<1>4. QED
  BY <1>1, <1>2, <1>3

\* A device without interpolation, in the pass of the slot at lo.
LEMMA NoneServed ==
  ASSUME NEW points \in SUBSET Nat, NEW S \in SUBSET points, NEW done \in SUBSET Nat,
         NEW lo \in Nat, NEW hi \in Nat, NEW now \in Nat, lo <= now, now < hi,
         NEW mode, mode # "linear",
         \A t \in points : lo <= t /\ t < hi => t = lo,
         LeftAt(lo, points, S, done, FALSE)
  PROVE  LeftAt(hi, points, IF Interpolate(mode, S, now).advance THEN Rest(S) ELSE S,
                done \cup Interpolate(mode, S, now).send, FALSE)
<1>1. /\ Interpolate(mode, S, now).send = Due(S, now)
      /\ Interpolate(mode, S, now).advance = (Due(S, now) # {})
  BY NoneDue
<1>2. /\ points \subseteq done \cup S /\ \A t \in points : t < lo => t \in done
      /\ \A t \in S : lo <= t
  BY DEF LeftAt
<1>3. S \in SUBSET Nat
  OBVIOUS
<1>4. CASE lo \in S
  <2>1. First(S) = {lo}
    <3>1. \A t \in S : (\A u \in S : t <= u) <=> t = lo
      BY <1>2, <1>3, <1>4
    <3>2. QED
      BY <1>4, <3>1 DEF First
  <2>2. Due(S, now) = {lo} /\ Due(S, now) # {}
    BY <2>1 DEF Due
  <2>3. Rest(S) = S \ {lo}
    BY <2>1 DEF Rest
  <2>4. ASSUME NEW t \in Rest(S) PROVE hi <= t
    <3>1. t \in Nat /\ t \in points /\ t # lo /\ lo <= t
      BY <1>2, <1>3, <2>3
    <3>2. QED
      BY <3>1
  <2>5. \A t \in points : t < hi => t \in done \cup {lo}
    BY <1>2
  <2>6. LeftAt(hi, points, Rest(S), done \cup {lo}, FALSE)
    BY <1>2, <2>3, <2>4, <2>5 DEF LeftAt
  <2>7. QED
    BY <1>1, <2>2, <2>6
<1>5. CASE lo \notin S
  <2>1. \A t \in S : hi <= t
    BY <1>2, <1>3, <1>5
  <2>2. \A t \in S : ~(t <= now)
    BY <1>3, <2>1
  <2>3. Due(S, now) = {}
    BY <2>2 DEF Due, First
  <2>4. \A t \in points : t < hi => t \in done
    BY <1>2, <1>5
  <2>5. LeftAt(hi, points, S, done \cup {}, FALSE)
    BY <1>2, <2>1, <2>4 DEF LeftAt
  <2>6. QED
    BY <1>1, <2>3, <2>5
<1>6. QED
  BY <1>4, <1>5

\* An interpolated device, in the pass of the slot at lo.
LEMMA LinearServed ==
  ASSUME NEW points \in SUBSET Nat, NEW S \in SUBSET points, NEW done \in SUBSET Nat,
         NEW lo \in Nat, NEW hi \in Nat, NEW now \in Nat, lo <= now, now < hi,
         lo = 0 => now = 0,
         \A t \in points : lo <= t /\ t < hi => t = lo,
         LeftAt(lo, points, S, done, TRUE)
  PROVE  LeftAt(hi, points, IF Interpolate("linear", S, now).advance THEN Rest(S) ELSE S,
                done \cup Interpolate("linear", S, now).send, TRUE)
<1> DEFINE begun == Due(S, now)
           next  == First(Rest(S))
           over  == Due(Rest(S), now)
           send    == Interpolate("linear", S, now).send
           advance == Interpolate("linear", S, now).advance
<1>1. /\ send = IF begun = {} THEN {} ELSE IF next = {} THEN begun
                ELSE IF over # {} THEN over ELSE begun \cap {now}
      /\ advance = (begun # {} /\ (next = {} \/ over # {}))
  BY DEF Interpolate, InterpolateLinear
<1>2. /\ S \in SUBSET Nat /\ Rest(S) \in SUBSET Nat /\ Rest(S) \subseteq S
      /\ S = First(S) \cup Rest(S) /\ First(S) \cap Rest(S) = {}
  BY DEF Rest, First
<1>3. /\ points \subseteq done \cup S /\ \A t \in points : t < lo => t \in done
      /\ \A t \in Rest(S) : lo <= t
      /\ Rest(S) = {} \/ \E t \in S : t < lo \/ t = 0
  BY DEF LeftAt
<1>4. /\ begun = {t \in First(S) : t <= now} /\ over = {t \in next : t <= now}
      /\ next = {} <=> Rest(S) = {}
  <2>1. next = {} <=> Rest(S) = {}
    BY <1>2, FirstExists DEF First
  <2>2. QED
    BY <2>1 DEF Due
<1>5. \A t, u \in First(S) : t = u
  BY <1>2 DEF First
<1>6. \A t \in First(S), u \in Rest(S) : t < u
  BY <1>2, TakesFirst
<1> HIDE DEF send, advance, begun, next, over
\* The only one left.
<1>7. CASE Rest(S) = {}
  <2>1. S = First(S)
    BY <1>2, <1>7
  <2>2. CASE begun = {}
    <3>1. send = {} /\ ~advance
      BY <1>1, <2>2
    <3>2. \A t \in S : now < t
      BY <1>2, <1>4, <2>1, <2>2
    <3>3. \A t \in points : t < hi => t \in done
      BY <1>2, <1>3, <3>2
    <3>4. LeftAt(hi, points, S, done \cup {}, TRUE)
      BY <1>3, <1>7, <3>3 DEF LeftAt
    <3>5. QED
      BY <3>1, <3>4 DEF send, advance
  <2>3. CASE begun # {}
    <3>1. begun = S
      BY <1>4, <1>5, <2>1, <2>3
    <3>2. next = {}
      BY <1>4, <1>7
    <3>3. send = S /\ advance
      BY <1>1, <2>3, <3>1, <3>2
    <3>4. Rest({}) = {}
      BY DEF Rest
    <3>5. LeftAt(hi, points, {}, done \cup S, TRUE)
      BY <1>3, <3>4 DEF LeftAt
    <3>6. QED
      BY <1>7, <3>3, <3>5 DEF send, advance
  <2>4. QED
    BY <2>2, <2>3
\* Between two datapoints: the front one is over.
<1>8. CASE Rest(S) # {}
  <2>1. PICK s \in S : s < lo \/ s = 0
    BY <1>3, <1>8
  <2>2. s \in First(S)
    <3>1. s \notin Rest(S)
      <4>1. PICK f \in First(S) : TRUE
        BY <1>2, <2>1, FirstExists
      <4>2. SUFFICES ASSUME s \in Rest(S) PROVE FALSE
        OBVIOUS
      <4>3. f \in Nat /\ s \in Nat /\ f < s /\ lo <= s
        BY <1>2, <1>3, <1>6, <4>1, <4>2
      <4>4. QED
        BY <2>1, <4>3
    <3>2. QED
      BY <1>2, <3>1
  <2>3. First(S) = {s} /\ Rest(S) = S \ {s} /\ s \in Nat /\ s <= lo /\ s <= now
    <3>1. First(S) = {s}
      BY <1>5, <2>2
    <3>2. QED
      BY <1>2, <2>1, <3>1 DEF Rest
  <2>4. begun = {s} /\ begun # {} /\ next # {}
    BY <1>4, <1>8, <2>3
  <2>5. s < lo => s \in done
    BY <1>3, <2>1
  <2>6. s = lo => now = s
    BY <2>1, <2>3
  <2>7. CASE over # {}
    <3>1. PICK n \in over : TRUE
      BY <2>7
    <3>2. /\ n \in Rest(S) /\ n <= now /\ n \in next /\ n \in Nat
          /\ \A u \in Rest(S) : n <= u
      BY <1>2, <1>4, <3>1 DEF next, First
    <3>3. n = lo
      <4>1. n \in points /\ lo <= n /\ n < hi
        BY <1>2, <1>3, <3>2
      <4>2. QED
        BY <4>1
    <3>4. over = {n}
      BY <1>2, <1>4, <3>1, <3>2 DEF next, First
    <3>5. send = {lo} /\ advance
      BY <1>1, <2>4, <2>7, <3>3, <3>4
    <3>6. s < lo
      BY <1>6, <2>2, <3>2, <3>3
    <3>7. First(Rest(S)) = {lo}
      BY <1>2, <3>2, <3>3 DEF First
    <3>8. \A t \in Rest(Rest(S)) : hi <= t
      BY <1>2, <1>3, <3>7 DEF Rest
    <3>9. \A t \in points : t < hi => t \in done \cup {lo}
      BY <1>3
    <3>10. points \subseteq (done \cup {lo}) \cup Rest(S)
      BY <1>3, <2>3, <2>5, <3>6
    <3>11. lo \in Rest(S) /\ lo < hi /\ Rest(S) \subseteq points
      BY <1>2, <3>2, <3>3
    <3>12. LeftAt(hi, points, Rest(S), done \cup {lo}, TRUE)
      BY <3>8, <3>9, <3>10, <3>11 DEF LeftAt
    <3>13. QED
      BY <3>5, <3>12 DEF send, advance
  <2>8. CASE over = {}
    <3>1. send = {s} \cap {now} /\ ~advance
      BY <1>1, <2>4, <2>8
    <3>2. \A t \in Rest(S) : hi <= t
      <4>1. PICK n \in next : TRUE
        BY <2>4
      <4>2. /\ n \in Rest(S) /\ \A u \in Rest(S) : n <= u
            /\ n \in Nat /\ now < n /\ lo <= n
        BY <1>2, <1>3, <1>4, <2>8, <4>1 DEF next, First
      <4>3. hi <= n
        BY <4>2, <1>2
      <4>4. QED
        BY <1>2, <4>2, <4>3
    <3>3. s \in done \cup send
      <4>1. s < lo \/ s = lo
        BY <2>3
      <4>2. s = lo => s \in send
        BY <2>6, <3>1
      <4>3. QED
        BY <2>5, <4>1, <4>2
    <3>4. \A t \in points : t < hi => t \in done \cup send
      BY <1>2, <1>3, <2>3, <3>2, <3>3
    <3>5. s < hi
      BY <2>3
    <3>6. LeftAt(hi, points, S, done \cup send, TRUE)
      BY <1>3, <3>2, <3>4, <3>5, <2>1 DEF LeftAt
    <3>7. QED
      BY <3>1, <3>6 DEF send, advance
  <2>9. QED
    BY <2>7, <2>8
<1>9. QED
  BY <1>7, <1>8

\* The sequences a punctual manager loads are on the grid.
LEMMA NoSequenceOnGrid == OnGrid(NoSequence)
BY DEF OnGrid, NoSequence, Rest

LEMMA GridInit == Init => GridInv
BY NoSequenceOnGrid DEF Init, GridInv, Loaded, Looping, Locked

LEMMA GridRecv == ConstantsOK /\ Punctual /\ TypeOK /\ GridInv /\ Recv => GridInv'
<1> SUFFICES ASSUME ConstantsOK, Punctual, TypeOK, GridInv, Recv PROVE GridInv'
  OBVIOUS
<1> USE DEF GridInv, Loaded, OnGrid, flags, lock, loaded, schedule, ranges, run, history
<1>1. ASSUME NEW seq \in SeqFiles, NEW abortSeq \in AbortFiles, RecvStart(seq, abortSeq)
      PROVE GridInv'
  <2>1. OnGrid(seq)
    BY DEF Punctual
  <2>2. request'.seq = seq
    BY <1>1 DEF RecvStart
  <2>3. QED
    BY <1>1, <2>1, <2>2 DEF RecvStart
<1>2. CASE RecvAbort
  BY <1>2 DEF RecvAbort
<1>3. CASE RecvStatesSet
  BY <1>3 DEF RecvStatesSet
<1>4. ASSUME NEW active \in BOOLEAN, AutoAbortChange(active) PROVE GridInv'
  BY <1>4 DEF AutoAbortChange
<1>5. QED
  BY <1>1, <1>2, <1>3, <1>4 DEF Recv

LEMMA GridHandle == TypeOK /\ ControlInv /\ GridInv /\ Handle => GridInv'
<1> SUFFICES ASSUME TypeOK, ControlInv, GridInv, Handle PROVE GridInv'
  OBVIOUS
<1> USE DEF GridInv, Loaded, OnGrid, flags, lock, loaded, schedule, ranges, run, history
<1>1. CASE StartLoad
  <2>1. /\ jsonSequence' = request.seq /\ request' = request
        /\ listener' = IF request.seq.valid THEN "startRunning" ELSE "idle"
        /\ sequencer = "none" /\ sequencer' = "none"
        /\ interpolationMap' = IF request.seq.valid
                               THEN LoadInterpolationMap(request.seq, interpolationMap)
                               ELSE interpolationMap
    BY <1>1 DEF StartLoad, ControlInv, ThreadsInv, Alone
  <2>2. OnGrid(request'.seq) /\ OnGrid(jsonSequence')
    BY <2>1
  <2>3. ASSUME Loaded', NEW d \in Devices, interpolationMap'[d] = "linear"
        PROVE  jsonSequence'.interp[d] # "none"
    <3>1. request.seq.valid
      BY <2>1, <2>3 DEF Looping, Locked
    <3>2. interpolationMap'[d] = IF request.seq.interp[d] = "absent" THEN interpolationMap[d]
                                                                     ELSE request.seq.interp[d]
      BY <2>1, <3>1 DEF LoadInterpolationMap
    <3>3. QED
      BY <2>1, <2>3, <3>2
  <2>4. QED
    BY <2>2, <2>3
<1>2. CASE StartJoin \/ StartRefuse \/ StartRunning \/ StartSpawn
  BY <1>2 DEF StartJoin, StartRefuse, StartRunning, StartSpawn, Looping, Locked
<1>3. CASE \/ AbortCheck \/ AbortStop \/ AbortJoin \/ AbortGuard \/ AbortLock \/ AbortExec
           \/ AbortThrow \/ AbortExecuted \/ AbortUnlock \/ AbortClear \/ AbortSend
  BY <1>3 DEF AbortCheck, AbortStop, AbortJoin, AbortGuard, AbortLock, AbortExec,
              AbortThrow, AbortExecuted, AbortUnlock, AbortClear, AbortSend, Looping, Locked
<1>4. CASE StatesCheck \/ StatesSet
  BY <1>4 DEF StatesCheck, StatesSet
<1>5. QED
  BY <1>1, <1>2, <1>3, <1>4 DEF Handle

LEMMA GridLoop == TypeOK /\ GridInv /\ Loop => GridInv'
<1> SUFFICES ASSUME TypeOK, GridInv, Loop PROVE GridInv'
  OBVIOUS
<1>1. UNCHANGED <<request, jsonSequence, interpolationMap, listener>>
  BY DEF Loop, LoopTest, LoopTick, LoopLock, LoopDevices, LoopRanges, LoopCheckPass,
         LoopCheckAbort, LoopUnlock, LoopReset, LoopTimerDone, LoopClear, loaded
<1>2. sequencer' \in Looping \cup {"reset"} => sequencer \in Looping \cup {"reset"}
  BY DEF Loop, LoopTest, LoopTick, LoopLock, LoopDevices, LoopRanges, LoopCheckPass,
         LoopCheckAbort, LoopUnlock, LoopReset, LoopTimerDone, LoopClear, Looping, Locked
<1>3. QED
  BY <1>1, <1>2 DEF GridInv, Loaded, OnGrid

LEMMA GridCorrect == ASSUME Punctual PROVE Spec => []GridInv
<1>1. TypeOK /\ ControlInv /\ GridInv /\ [Next]_vars => GridInv'
  <2>1. GridInv /\ UNCHANGED vars => GridInv'
    BY DEF vars, flags, lock, loaded, schedule, GridInv, Loaded, OnGrid
  <2>2. QED
    BY ConstantsOK, GridRecv, GridHandle, GridLoop, <2>1 DEF Next, Dead
<1>2. QED
  BY TypeCorrect, ControlCorrect, GridInit, <1>1, PTL DEF Spec

\* Each pass serves its slot.
LEMMA ServedRecv == ServedInv /\ Recv => ServedInv'
BY DEF ServedInv, NextSlot, Served, LeftAt, Recv, RecvStart, RecvAbort, RecvStatesSet,
       AutoAbortChange, flags, lock, loaded, schedule, ranges, run, history

LEMMA ServedHandle ==
  ConstantsOK /\ TypeOK /\ ControlInv /\ ScheduleInv /\ GridInv /\ ServedInv /\ Handle
    => ServedInv'
<1> SUFFICES ASSUME ConstantsOK, TypeOK, ControlInv, ScheduleInv, GridInv,
                    ServedInv, Handle
             PROVE  ServedInv'
  OBVIOUS
<1> USE DEF ServedInv, NextSlot, Served, LeftAt, Looping, Locked, flags, lock, loaded,
            schedule, ranges, run, history
<1>1. CASE StartJoin \/ StartRefuse \/ StartRunning
  BY <1>1 DEF StartJoin, StartRefuse, StartRunning
<1>2. CASE StartLoad
  BY <1>2 DEF StartLoad, ControlInv, ThreadsInv, Alone
<1>3. CASE StartSpawn
  <2>1. /\ sequencer' = "test" /\ iteration' = 0 /\ sequenceTime' = 0
        /\ deviceMap' = jsonSequence.points
        /\ commanded' = [d \in Devices |-> {}]
        /\ UNCHANGED <<jsonSequence, interpolationMap>>
    BY <1>3 DEF StartSpawn, ScheduleInv
  <2>2. ASSUME NEW d \in Devices
        PROVE  LeftAt(0, jsonSequence.points[d], jsonSequence.points[d], {},
                      interpolationMap[d] = "linear")
    <3>1. jsonSequence.points[d] \in SUBSET Nat
      BY DEF TypeOK, Sequence
    <3>2. \A t \in jsonSequence.points[d] : 0 <= t /\ ~(t < 0)
      BY <3>1
    <3>3. interpolationMap[d] = "linear" =>
            Rest(jsonSequence.points[d]) = {} \/ 0 \in jsonSequence.points[d]
      BY <1>3 DEF GridInv, OnGrid, Loaded, StartSpawn
    <3> DEFINE points == jsonSequence.points[d]
               linear == interpolationMap[d] = "linear"
    <3>4. \A t \in Rest(points) : 0 <= t
      BY <3>2 DEF Rest
    <3>5. points \subseteq points /\ points \subseteq {} \cup points
      OBVIOUS
    <3> HIDE DEF points, linear
    <3>6. \A t \in (IF linear THEN Rest(points) ELSE points) : 0 <= t
      BY <3>2, <3>4 DEF points
    <3>7. LeftAt(0, points, points, {}, linear)
      BY <3>2, <3>3, <3>5, <3>6 DEF points, linear
    <3>8. QED
      BY <3>7 DEF points, linear
  <2>3. NextSlot' = 0
    <3>1. NextSlot' = 0 * Interval
      BY <2>1
    <3>2. QED
      BY <3>1 DEF ConstantsOK
  <2>4. ASSUME NEW d \in Devices
        PROVE  LeftAt(NextSlot', jsonSequence'.points[d], deviceMap'[d], commanded'[d],
                      interpolationMap'[d] = "linear")
    BY <2>1, <2>2, <2>3
  <2> HIDE DEF NextSlot, LeftAt
  <2>5. QED
    BY <2>1, <2>4
<1>4. CASE \/ AbortCheck \/ AbortStop \/ AbortJoin \/ AbortGuard \/ AbortLock \/ AbortExec
           \/ AbortThrow \/ AbortExecuted \/ AbortUnlock \/ AbortClear \/ AbortSend
  BY <1>4 DEF AbortCheck, AbortStop, AbortJoin, AbortGuard, AbortLock, AbortExec,
              AbortThrow, AbortExecuted, AbortUnlock, AbortClear, AbortSend
<1>5. CASE StatesCheck \/ StatesSet
  BY <1>5 DEF StatesCheck, StatesSet
<1>6. QED
  BY <1>1, <1>2, <1>3, <1>4, <1>5 DEF Handle

LEMMA ServedLoop ==
  ConstantsOK /\ Punctual /\ TypeOK /\ GridInv /\ ServedInv /\ Loop => ServedInv'
<1> SUFFICES ASSUME ConstantsOK, Punctual, TypeOK, GridInv, ServedInv, Loop
             PROVE  ServedInv'
  OBVIOUS
<1> USE DEF flags, lock, loaded, schedule, ranges, run, history
<1>1. CASE LoopTest \/ LoopCheckPass \/ LoopCheckAbort \/ LoopUnlock \/ LoopLock \/ LoopRanges
  <2>1. /\ UNCHANGED <<deviceMap, commanded, iteration, sequenceTime, jsonSequence,
                       interpolationMap>>
        /\ sequencer \in Looping /\ sequencer' \in Looping \cup {"reset"}
        /\ sequencer' \in {"lock", "devices"} <=> sequencer \in {"lock", "devices"}
        /\ sequencer' \in {"lock"} \cup Locked => sequencer \in {"lock"} \cup Locked
    BY <1>1 DEF LoopTest, LoopCheckPass, LoopCheckAbort, LoopUnlock, LoopLock, LoopRanges,
                Looping, Locked
  <2>2. Served' = Served
    BY <2>1 DEF Served
  <2>3. QED
    BY <2>1, <2>2 DEF ServedInv, NextSlot, LeftAt
<1>2. CASE LoopTick
  <2>1. /\ sequencer = "tick" /\ sequencer' = "lock" /\ iteration' = iteration + 1
        /\ sequenceTime' \in Wakeups /\ iteration \in Nat /\ sequenceTime \in Nat
        /\ UNCHANGED <<deviceMap, commanded, jsonSequence, interpolationMap>>
    BY <1>2 DEF LoopTick, TypeOK
  <2>2. Served' = Served
    BY <2>1 DEF Served
  <2>3. CASE iteration = 0
    <3>1. sequenceTime' = 0 /\ iteration' = 1
      BY <2>1, <2>3 DEF Wakeups
    <3>2. iteration' - 1 = 0
      BY <3>1
    <3>3. sequenceTime' \in 0 * Interval .. 0 * Interval + MaxLate
      BY <3>1 DEF ConstantsOK
    <3>4. sequenceTime' \in (iteration' - 1) * Interval .. (iteration' - 1) * Interval + MaxLate
      BY <3>2, <3>3
    <3>5. iteration' > 0 /\ (iteration' <= 1 => sequenceTime' = 0)
      BY <3>1
    <3>6. \A d \in Devices : LeftAt(NextSlot', jsonSequence'.points[d], deviceMap'[d],
                                    commanded'[d], interpolationMap'[d] = "linear")
      BY <2>1, <2>2 DEF ServedInv, NextSlot, LeftAt, Looping
    <3>7. QED
      BY <3>4, <3>5, <3>6 DEF ServedInv
  <2>4. CASE iteration # 0
    <3> DEFINE last == (iteration - 1) * Interval
               slot == iteration * Interval
    <3>1. sequenceTime \in last .. last + MaxLate
      BY <2>1, <2>4 DEF ServedInv, Looping
    <3>2. last \in Nat /\ slot = last + Interval /\ MaxLate < Interval
      BY <2>1, <2>4, SlotsApart, iteration - 1 \in Nat, (iteration - 1) + 1 = iteration
         DEF ConstantsOK, Punctual
    <3>3. sequenceTime' \in slot .. slot + MaxLate
      <4> HIDE DEF last
      <4>1. slot > sequenceTime
        BY <3>1, <3>2 DEF ConstantsOK
      <4>2. QED
        BY <2>1, <2>4, <4>1 DEF Wakeups
    <3>4. iteration' - 1 = iteration /\ ~(iteration' <= 1) /\ iteration' > 0
      BY <2>1, <2>4
    <3>5. sequenceTime' \in (iteration' - 1) * Interval .. (iteration' - 1) * Interval + MaxLate
      BY <3>3, <3>4
    <3>6. QED
      BY <2>1, <2>2, <3>4, <3>5 DEF ServedInv, NextSlot, LeftAt, Looping, Locked
  <2>5. QED
    BY <2>3, <2>4
<1>3. CASE LoopDevices
  <2> DEFINE pass(d) == Interpolate(interpolationMap[d], deviceMap[d], sequenceTime)
             lo == (iteration - 1) * Interval
             hi == iteration * Interval
  <2>1. /\ sequencer = "devices" /\ sequencer' = "ranges"
        /\ deviceMap \in [Devices -> SUBSET Nat] /\ commanded \in [Devices -> SUBSET Nat]
        /\ jsonSequence.points \in [Devices -> SUBSET Nat]
        /\ interpolationMap \in [Devices -> Modes]
        /\ sequenceTime \in Nat /\ iteration \in Nat /\ iteration > 0
        /\ UNCHANGED <<iteration, sequenceTime, interpolationMap, jsonSequence>>
    BY <1>3 DEF LoopDevices, TypeOK, Sequence, ServedInv, Looping, Locked
  <2>2. commanded' = [d \in Devices |-> commanded[d] \cup pass(d).send]
    BY <1>3 DEF LoopDevices
  <2>3. deviceMap' = [d \in Devices |-> IF pass(d).advance THEN Rest(deviceMap[d])
                                                          ELSE deviceMap[d]]
    BY <1>3 DEF LoopDevices
  <2>4. lo \in Nat /\ hi \in Nat /\ hi = lo + Interval /\ Interval \in Nat \ {0}
    BY <2>1, SlotsApart, iteration - 1 \in Nat, (iteration - 1) + 1 = iteration
       DEF ConstantsOK
  <2>5. NextSlot = lo /\ NextSlot' = hi
    BY <2>1 DEF NextSlot, Served
  <2>6. /\ iteration = 1 => sequenceTime = 0
        /\ sequenceTime \in lo .. lo + MaxLate
        /\ \A d \in Devices : LeftAt(lo, jsonSequence.points[d], deviceMap[d], commanded[d],
                                     interpolationMap[d] = "linear")
    BY <2>1, <2>5 DEF ServedInv, Looping, Locked
  <2>7. lo <= sequenceTime /\ sequenceTime < hi
    BY <2>1, <2>4, <2>6 DEF ConstantsOK, Punctual
  <2>8. lo = 0 => sequenceTime = 0
    <3>1. ASSUME iteration # 1 PROVE lo > 0
      <4>1. PICK i \in Nat : i = iteration - 2
        BY <2>1, <3>1
      <4>2. iteration - 1 = i + 1 /\ (i + 1) * Interval = i * Interval + Interval
            /\ i * Interval \in Nat
        BY <2>1, <2>4, <4>1, SlotsApart
      <4>3. lo = i * Interval + Interval
        BY <4>2
      <4>4. QED
        BY <2>4, <4>2, <4>3
    <3>2. QED
      BY <2>6, <3>1
  <2>9. ASSUME NEW d \in Devices
        PROVE  LeftAt(hi, jsonSequence.points[d], deviceMap'[d], commanded'[d],
                      interpolationMap[d] = "linear")
    <3> DEFINE points == jsonSequence.points[d]
               S      == deviceMap[d]
               done   == commanded[d]
               mode   == interpolationMap[d]
    <3>1. /\ commanded'[d] = done \cup Interpolate(mode, S, sequenceTime).send
          /\ deviceMap'[d] = IF Interpolate(mode, S, sequenceTime).advance THEN Rest(S) ELSE S
      BY <2>2, <2>3
    <3>2. /\ points \in SUBSET Nat /\ done \in SUBSET Nat
          /\ LeftAt(lo, points, S, done, mode = "linear")
      BY <2>1, <2>6
    <3>3. S \in SUBSET points
      BY <3>2 DEF LeftAt
    <3>4. ASSUME NEW t \in points, lo <= t, t < hi PROVE t = lo
      <4>1. PICK k \in 0 .. t : t = k * Interval
        BY DEF GridInv, OnGrid
      <4>2. k \in Nat /\ iteration - 1 \in Nat
        BY <2>1, <3>2
      <4>3. PICK a \in Nat : a = iteration - 1
        BY <4>2
      <4>4. a * Interval <= k * Interval /\ k * Interval < a * Interval + Interval
        BY <2>4, <3>4, <4>1, <4>3
      <4>5. k = a
        BY <2>4, <4>2, <4>4, SlotsApart
      <4>6. QED
        BY <4>1, <4>3, <4>5
    <3> HIDE DEF lo, hi, points, S, done, mode
    <3>5. CASE mode = "linear"
      <4>1. LeftAt(lo, points, S, done, TRUE)
        BY <3>2, <3>5
      <4>2. LeftAt(hi, points, IF Interpolate("linear", S, sequenceTime).advance
                               THEN Rest(S) ELSE S,
                   done \cup Interpolate("linear", S, sequenceTime).send, TRUE)
        BY <2>1, <2>4, <2>7, <2>8, <3>2, <3>3, <3>4, <4>1, LinearServed
      <4>3. QED
        BY <3>1, <3>5, <4>2 DEF points, mode
    <3>6. CASE mode # "linear"
      <4>1. LeftAt(lo, points, S, done, FALSE)
        BY <3>2, <3>6
      <4>2. LeftAt(hi, points, IF Interpolate(mode, S, sequenceTime).advance
                               THEN Rest(S) ELSE S,
                   done \cup Interpolate(mode, S, sequenceTime).send, FALSE)
        BY <2>1, <2>4, <2>7, <3>2, <3>3, <3>4, <3>6, <4>1, NoneServed
      <4>3. QED
        BY <3>1, <3>6, <4>2 DEF points, mode
    <3>7. QED
      BY <3>5, <3>6
  <2> HIDE DEF lo, hi, pass
  <2>10. \A d \in Devices : LeftAt(NextSlot', jsonSequence'.points[d], deviceMap'[d],
                                   commanded'[d], interpolationMap'[d] = "linear")
    BY <2>1, <2>5, <2>9
  <2>11. QED
    BY <2>1, <2>6, <2>10 DEF ServedInv, lo
<1>4. CASE LoopReset \/ LoopTimerDone \/ LoopClear
  BY <1>4 DEF LoopReset, LoopTimerDone, LoopClear, ServedInv, Looping, Locked
<1>5. QED
  BY <1>1, <1>2, <1>3, <1>4 DEF Loop

LEMMA ServedCorrect == ASSUME Punctual PROVE Spec => []ServedInv
<1>1. Init => ServedInv
  BY DEF Init, ServedInv, Looping, Locked
<1>2. TypeOK /\ ControlInv /\ ScheduleInv /\ GridInv /\ ServedInv /\ [Next]_vars => ServedInv'
  <2>1. ServedInv /\ UNCHANGED vars => ServedInv'
    BY DEF vars, flags, lock, loaded, schedule, ranges, run, history, ServedInv, NextSlot,
           Served, LeftAt
  <2>2. QED
    BY ConstantsOK, ServedRecv, ServedHandle, ServedLoop, <2>1 DEF Next, Dead
<1>3. QED
  BY TypeCorrect, ControlCorrect, ScheduleCorrect, GridCorrect, <1>1, <1>2, PTL DEF Spec

\* Only the end time stops a run nobody asked to stop.
LEMMA StopCauseRecv == NoStaleStop /\ TypeOK /\ ControlInv /\ StopCauseInv /\ Recv => StopCauseInv'
<1> SUFFICES ASSUME NoStaleStop, TypeOK, ControlInv, StopCauseInv, Recv PROVE StopCauseInv'
  OBVIOUS
<1> USE DEF StopCauseInv, StartSteps, flags, lock, loaded, schedule, ranges, run, history
<1>1. ASSUME NEW seq \in SeqFiles, NEW abortSeq \in AbortFiles, RecvStart(seq, abortSeq)
      PROVE StopCauseInv'
  <2>1. starts \in Nat /\ starts < MaxStarts /\ starts' = starts + 1
    BY <1>1 DEF RecvStart, TypeOK
  <2>2. "abort" \in Requests => starts = 0
    BY <2>1, ConstantsOK DEF NoStaleStop, ConstantsOK
  <2>3. QED
    BY <1>1, <2>1, <2>2 DEF RecvStart
<1>2. CASE RecvAbort
  BY <1>2 DEF RecvAbort
<1>3. CASE RecvStatesSet
  BY <1>3 DEF RecvStatesSet
<1>4. ASSUME NEW active \in BOOLEAN, AutoAbortChange(active) PROVE StopCauseInv'
  BY <1>4 DEF AutoAbortChange
<1>5. QED
  BY <1>1, <1>2, <1>3, <1>4 DEF Recv

LEMMA StopCauseHandle == TypeOK /\ ControlInv /\ StopCauseInv /\ Handle => StopCauseInv'
<1> SUFFICES ASSUME TypeOK, ControlInv, StopCauseInv, Handle PROVE StopCauseInv'
  OBVIOUS
<1> USE DEF StopCauseInv, StartSteps, flags, lock, loaded, schedule, ranges, run, history
<1>1. CASE StartJoin \/ StartRefuse \/ StartRunning
  BY <1>1 DEF StartJoin, StartRefuse, StartRunning, Looping, Locked
<1>2. CASE StartLoad
  BY <1>2 DEF StartLoad, ControlInv, ThreadsInv, Alone, Looping, Locked
<1>3. CASE StartSpawn
  BY <1>3 DEF StartSpawn, ControlInv, ThreadsInv, Alone, Looping, Locked
<1>4. CASE AbortCheck
  <2>1. starts = 0 /\ "abort" \in Requests => ~sequenceRunning
    BY DEF ControlInv, ThreadsInv, Running, Looping, Locked, Leaving
  <2>2. QED
    BY <1>4, <2>1 DEF AbortCheck
<1>5. CASE AbortStop
  BY <1>5 DEF AbortStop
<1>6. CASE \/ AbortJoin \/ AbortGuard \/ AbortLock \/ AbortExec
           \/ AbortThrow \/ AbortExecuted \/ AbortUnlock \/ AbortClear \/ AbortSend
  BY <1>6 DEF AbortJoin, AbortGuard, AbortLock, AbortExec, AbortThrow, AbortExecuted,
              AbortUnlock, AbortClear, AbortSend, Looping, Locked
<1>7. CASE StatesCheck \/ StatesSet
  BY <1>7 DEF StatesCheck, StatesSet
<1>8. QED
  BY <1>1, <1>2, <1>3, <1>4, <1>5, <1>6, <1>7 DEF Handle

LEMMA StopCauseLoop ==
  ConstantsOK /\ TypeOK /\ ControlInv /\ StopCauseInv /\ Loop => StopCauseInv'
<1> SUFFICES ASSUME ConstantsOK, TypeOK, ControlInv, StopCauseInv, Loop PROVE StopCauseInv'
  OBVIOUS
<1> USE DEF StopCauseInv, flags, lock, loaded, schedule, ranges, run, history
<1>1. sequencer \in Running /\ listener \notin StartSteps \ {"startJoin"}
  BY DEF Loop, LoopTest, LoopTick, LoopLock, LoopDevices, LoopRanges, LoopCheckPass,
         LoopCheckAbort, LoopUnlock, LoopReset, LoopTimerDone, LoopClear, Running, Looping,
         Locked, Leaving, ControlInv, ThreadsInv, Alone, StartSteps
<1>2. CASE LoopTest \/ LoopLock \/ LoopDevices \/ LoopRanges \/ LoopCheckPass \/ LoopUnlock
  BY <1>2 DEF LoopTest, LoopLock, LoopDevices, LoopRanges, LoopCheckPass, LoopUnlock, Looping,
              Locked
<1>3. CASE LoopTick
  <2>1. /\ sequencer = "tick" /\ sequencer' = "lock" /\ iteration' = iteration + 1
        /\ iteration \in Nat /\ ~terminated /\ terminated' = terminated
        /\ sequenceToStop' = (sequenceToStop \/ sequenceTime' > jsonSequence.end)
        /\ UNCHANGED <<listener, starts, stopAsked, jsonSequence>>
    BY <1>3 DEF LoopTick, TypeOK
  <2>2. sequenceTime' >= sequenceTime /\ sequenceTime \in Nat /\ sequenceTime' \in Nat
    <3>1. iteration = 0 => sequenceTime = 0
      BY <2>1 DEF Looping
    <3>2. QED
      BY <1>3, <3>1, WakeupsType DEF LoopTick, TypeOK
  <2>3. jsonSequence.end \in Nat
    BY DEF TypeOK, Sequence
  <2>4. sequenceToStop' /\ ~stopAsked => sequenceTime' > jsonSequence.end
    <3>1. ASSUME sequenceToStop, ~stopAsked PROVE sequenceTime' > jsonSequence.end
      <4>1. sequenceTime > jsonSequence.end
        BY <2>1, <3>1
      <4>2. QED
        BY <2>2, <2>3, <4>1
    <3>2. QED
      BY <2>1, <3>1
  <2>5. iteration' # 0
    BY <2>1
  <2>6. QED
    BY <2>1, <2>4, <2>5, <1>1 DEF Looping, Locked
<1>4. CASE LoopCheckAbort
  BY <1>4 DEF LoopCheckAbort, Looping, Locked
<1>5. CASE LoopReset \/ LoopTimerDone \/ LoopClear
  BY <1>5 DEF LoopReset, LoopTimerDone, LoopClear, Looping, Locked
<1>6. QED
  BY <1>2, <1>3, <1>4, <1>5 DEF Loop

LEMMA StopCauseCorrect == ASSUME NoStaleStop PROVE Spec => []StopCauseInv
<1>1. Init => StopCauseInv
  BY DEF Init, StopCauseInv, StartSteps
<1>2. TypeOK /\ ControlInv /\ StopCauseInv /\ [Next]_vars => StopCauseInv'
  <2>1. StopCauseInv /\ UNCHANGED vars => StopCauseInv'
    BY DEF vars, flags, lock, loaded, schedule, ranges, run, history, StopCauseInv
  <2>2. QED
    BY ConstantsOK, StopCauseRecv, StopCauseHandle, StopCauseLoop, <2>1 DEF Next, Dead
<1>3. QED
  BY TypeCorrect, ControlCorrect, <1>1, <1>2, PTL DEF Spec

\* A punctual run whose time is over has commanded every datapoint up to endTime,
\* aborted or not.
THEOREM DueAtEndCorrect ==
  ASSUME Punctual
  PROVE  Spec => []DueAtEnd
<1>1. ConstantsOK /\ TypeOK /\ ServedInv => DueAtEnd
  <2> SUFFICES ASSUME ConstantsOK, TypeOK, ServedInv, sequencer = "reset",
                      sequenceTime > jsonSequence.end
               PROVE  AllDue
    BY DEF DueAtEnd
  <2> DEFINE slot == (iteration - 1) * Interval
  <2>1. /\ iteration \in Nat /\ sequenceTime \in Nat /\ jsonSequence.end \in Nat
        /\ jsonSequence.points \in [Devices -> SUBSET Nat]
    BY DEF TypeOK, Sequence
  <2>2. iteration > 0
    BY <2>1 DEF ServedInv
  <2>3. /\ sequenceTime \in slot .. slot + MaxLate /\ NextSlot = iteration * Interval
        /\ \A d \in Devices : \A t \in jsonSequence.points[d] :
             t < NextSlot => t \in commanded[d]
    BY <2>2 DEF ServedInv, NextSlot, Served, LeftAt
  <2>4. /\ slot \in Nat /\ iteration * Interval = slot + Interval
    BY <2>1, <2>2, SlotsApart, iteration - 1 \in Nat, (iteration - 1) + 1 = iteration
       DEF ConstantsOK
  <2>5. sequenceTime < NextSlot /\ NextSlot \in Nat
    <3> HIDE DEF slot
    <3>1. QED
      BY <2>1, <2>3, <2>4 DEF ConstantsOK, Punctual
  <2>6. \A d \in Devices : \A t \in jsonSequence.points[d] :
          t <= jsonSequence.end => t < NextSlot
    BY <2>1, <2>5
  <2>7. QED
    BY <2>3, <2>6 DEF AllDue
<1>2. QED
  BY ConstantsOK, TypeCorrect, ServedCorrect, <1>1, PTL

\* A punctual run that nobody stopped has commanded, when its loop ends, every
\* datapoint up to endTime.
THEOREM AllCommandedAtEndCorrect ==
  ASSUME Punctual, NoStaleStop
  PROVE  Spec => []AllCommandedAtEnd
<1>1. StopCauseInv /\ DueAtEnd => AllCommandedAtEnd
  BY DEF StopCauseInv, DueAtEnd, AllCommandedAtEnd
<1>2. QED
  BY StopCauseCorrect, DueAtEndCorrect, <1>1, PTL
=============================================================================
