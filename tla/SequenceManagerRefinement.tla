---------------------- MODULE SequenceManagerRefinement ----------------------
(***************************************************************************)
(* The two threads of SequenceManager implement CommandAuthority: every    *)
(* step of theirs is a hand-over of the authority, a command of whoever    *)
(* holds it, or invisible.                                                 *)
(***************************************************************************)
EXTENDS SequenceManagerProofs

USE DEF Listen, Run

AuthorityStep == [Authority!Next]_(Authority!authorityVars)

\* Where the authority is, in terms of the program counters.
LEMMA PhaseIs ==
  ASSUME TypeOK, ControlInv
  PROVE  /\ sequencer \in Running => Phase = "sequence"
         /\ listener \in AbortSteps => Phase = "abort"
         /\ listener = "abortGuard" => Phase = "over"
         /\ listener \in {"startRunning", "startSpawn"} => Phase = "idle"
         /\ sequencer = "ended" => Phase = "over"
         /\ listener = "statesSet" => Phase \in {"idle", "over"}
BY DEF Phase, ControlInv, ThreadsInv, AbortInv, Running, Alone, AbortSteps, Looping,
       Locked, Leaving

LEMMA PendingIs ==
  ASSUME TypeOK, ControlInv
  PROVE  /\ Phase # "abort" => Pending = {}
         /\ listener = "abortExec" =>
              Pending = {a \in DOMAIN jsonAbortSequence : it <= a}
         /\ listener = "abortClear" => Pending = {}
<1>1. Phase # "abort" => Pending = {}
  BY DEF Pending
<1>2. ASSUME listener = "abortExec"
      PROVE  Pending = {a \in DOMAIN jsonAbortSequence : it <= a}
  <2>1. Pending = DOMAIN jsonAbortSequence \ attempted
    BY <1>2, PhaseIs DEF Pending, AbortSteps
  <2>2. attempted = 1 .. (it - 1) /\ it \in Nat \ {0}
    BY <1>2 DEF ControlInv, AbortInv, TypeOK
  <2>3. DOMAIN jsonAbortSequence \subseteq Nat \ {0}
    BY DEF TypeOK
  <2>4. QED
    BY <2>1, <2>2, <2>3
<1>3. listener = "abortClear" => Pending = {}
  BY DEF Pending, ControlInv, AbortInv
<1>4. QED
  BY <1>1, <1>2, <1>3

\* A step that keeps the program counters' groups, the abort's progress and the
\* issuer is invisible.
LEMMA Invisible ==
  ASSUME Phase' = Phase, Pending' = Pending, issuer' = issuer
  PROVE  AuthorityStep
BY DEF AuthorityStep, Authority!authorityVars

\* A step that leaves the abort's progress and the groups of program counters as
\* they are is invisible.
LEMMA PhaseKept ==
  ASSUME isAbortRunning' = isAbortRunning, attempted' = attempted,
         jsonAbortSequence' = jsonAbortSequence,
         listener' \in AbortSteps <=> listener \in AbortSteps,
         sequencer' \in Running <=> sequencer \in Running,
         \/ isAbortRunning
         \/ sequencer' \in Running
         \/ (sequencer' = "ended" \/ listener' = "abortGuard")
              <=> (sequencer = "ended" \/ listener = "abortGuard"),
         issuer' = issuer
  PROVE  AuthorityStep
<1>1. Phase' = Phase
  BY DEF Phase, Running
<1>2. Pending' = Pending
  BY <1>1 DEF Pending
<1>3. QED
  BY <1>1, <1>2, Invisible

LEMMA AuthorityRecv == TypeOK /\ ControlInv /\ ControlInv' /\ Recv => AuthorityStep
<1> SUFFICES ASSUME TypeOK, ControlInv, ControlInv', Recv PROVE AuthorityStep
  OBVIOUS
<1> USE DEF flags, lock, loaded, schedule, ranges, run, history
<1>1. ASSUME NEW seq \in SeqFiles, NEW abortSeq \in AbortFiles, RecvStart(seq, abortSeq)
      PROVE AuthorityStep
  BY <1>1, PhaseKept DEF RecvStart, AbortSteps, Running, Looping, Locked, Leaving
<1>2. CASE RecvAbort
  BY <1>2, PhaseKept DEF RecvAbort, AbortSteps, Running, Looping, Locked, Leaving
<1>3. CASE RecvStatesSet
  BY <1>3, PhaseKept DEF RecvStatesSet, AbortSteps, Running, Looping, Locked, Leaving
<1>4. ASSUME NEW active \in BOOLEAN, AutoAbortChange(active) PROVE AuthorityStep
  BY <1>4, PhaseKept DEF AutoAbortChange, AbortSteps, Running, Looping, Locked, Leaving
<1>5. QED
  BY <1>1, <1>2, <1>3, <1>4 DEF Recv

LEMMA AuthorityHandle == TypeOK /\ ControlInv /\ ControlInv' /\ Handle => AuthorityStep
<1> SUFFICES ASSUME TypeOK, ControlInv, ControlInv', Handle PROVE AuthorityStep
  OBVIOUS
<1> USE DEF flags, lock, loaded, schedule, ranges, run, history
<1>1. CASE StartJoin
  <2>1. CASE sequencer = "none"
    BY <1>1, <2>1, PhaseKept DEF StartJoin, AbortSteps, Running, Looping, Locked, Leaving
  <2>2. CASE sequencer = "ended"
    <3>1. Phase = "over" /\ Pending = {}
      BY <2>2, PhaseIs, PendingIs
    <3>2. Phase' = "idle" /\ Pending' = {}
      BY <1>1, <2>2 DEF StartJoin, Phase, Pending, Looping, Locked, Leaving, ControlInv, AbortInv
    <3>3. QED
      BY <1>1, <3>1, <3>2 DEF StartJoin, AuthorityStep, Authority!Next, Authority!RunForgotten
  <2>3. QED
    BY <1>1, <2>1, <2>2 DEF StartJoin
<1>2. CASE StartRefuse
  BY <1>2, PhaseKept DEF StartRefuse, AbortSteps, Running, Looping, Locked, Leaving
<1>3. CASE StartLoad
  <2>1. Phase = "idle" /\ Phase' = "idle"
    BY <1>3 DEF StartLoad, IsSequenceRunning, Phase, ControlInv, ThreadsInv, Alone,
                Looping, Locked, Leaving
  <2>2. QED
    BY <1>3, <2>1, Invisible DEF StartLoad, Pending
<1>4. CASE StartRunning
  BY <1>4, PhaseKept DEF StartRunning, AbortSteps, Running, Looping, Locked, Leaving
<1>5. CASE StartSpawn
  <2>1. Phase = "idle" /\ Pending = {}
    BY <1>5, PhaseIs, PendingIs DEF StartSpawn
  <2>2. Phase' = "sequence" /\ Pending' = {}
    BY <1>5 DEF StartSpawn, Phase, Pending, Looping, ControlInv, AbortInv, Alone, AbortSteps
  <2>3. QED
    BY <1>5, <2>1, <2>2 DEF StartSpawn, AuthorityStep, Authority!Next, Authority!SequenceBegins
<1>6. CASE AbortCheck
  BY <1>6, PhaseKept DEF AbortCheck, AbortSteps, Running, Looping, Locked, Leaving
<1>7. CASE AbortStop
  BY <1>7, PhaseKept DEF AbortStop, AbortSteps, Running, Looping, Locked, Leaving
<1>8. CASE AbortJoin
  <2>1. Phase = "over" /\ Pending = {}
    BY <1>8, PhaseIs, PendingIs DEF AbortJoin
  <2>2. Phase' = "over" /\ Pending' = {}
    BY <1>8 DEF AbortJoin, Phase, Pending, Looping, Locked, Leaving, ControlInv, AbortInv
  <2>3. QED
    BY <1>8, <2>1, <2>2, Invisible DEF AbortJoin
<1>9. CASE AbortGuard
  <2>1. ~IsSequenceRunning /\ listener = "abortGuard"
    BY <1>9 DEF AbortGuard, IsSequenceRunning, ControlInv, ThreadsInv, AbortInv, Alone,
                AbortSteps, Running, Looping, Locked, Leaving
  <2>2. Phase = "over" /\ Pending = {}
    BY <2>1, PhaseIs, PendingIs
  <2>3. Phase' = "abort" /\ Pending' = DOMAIN jsonAbortSequence
    BY <1>9, <2>1 DEF AbortGuard, Phase, Pending, AbortSteps
  <2>4. DOMAIN jsonAbortSequence \in SUBSET Nat
    BY DEF TypeOK
  <2>5. QED
    BY <1>9, <2>2, <2>3, <2>4 DEF AbortGuard, AuthorityStep, Authority!Next, Authority!AbortBegins
<1>10. CASE AbortLock
  BY <1>10, PhaseKept DEF AbortLock, AbortSteps, Running, Looping, Locked, Leaving
<1>11. CASE AbortExec
  <2>1. /\ Phase = "abort" /\ Phase' = "abort"
        /\ Pending = DOMAIN jsonAbortSequence \ attempted
        /\ Pending' = DOMAIN jsonAbortSequence \ (attempted \cup {it})
    BY <1>11 DEF AbortExec, Phase, Pending, AbortSteps, ControlInv, AbortInv
  <2>2. it \in Pending
    <3>1. it \in DOMAIN jsonAbortSequence
      BY <1>11 DEF AbortExec, TypeOK
    <3>2. Pending = {a \in DOMAIN jsonAbortSequence : it <= a}
      BY <1>11, PendingIs DEF AbortExec
    <3>3. QED
      BY <3>1, <3>2 DEF TypeOK
  <2>3. Pending' = Pending \ {it}
    BY <2>1
  <2>4. QED
    BY <1>11, <2>1, <2>2, <2>3 DEF AbortExec, AuthorityStep, Authority!Next, Authority!AbortCommands
<1>12. CASE AbortThrow
  <2>1. /\ Phase = "abort" /\ Phase' = "stuck" /\ Pending' = {}
    BY <1>12 DEF AbortThrow, Phase, Pending, AbortSteps, ControlInv, AbortInv
  <2>2. Pending # {}
    <3>1. it \in DOMAIN jsonAbortSequence
      BY <1>12 DEF AbortThrow, TypeOK
    <3>2. Pending = {a \in DOMAIN jsonAbortSequence : it <= a}
      BY <1>12, PendingIs DEF AbortThrow
    <3>3. it \in Pending
      BY <3>1, <3>2 DEF TypeOK
    <3>4. QED
      BY <3>3
  <2>3. QED
    BY <1>12, <2>1, <2>2 DEF AbortThrow, AuthorityStep, Authority!Next, Authority!AbortBreaks
<1>13. CASE AbortExecuted
  BY <1>13, PhaseKept DEF AbortExecuted, AbortSteps, Running, Looping, Locked, Leaving
<1>14. CASE AbortUnlock
  BY <1>14, PhaseKept DEF AbortUnlock, AbortSteps, Running, Looping, Locked, Leaving
<1>15. CASE AbortClear
  <2>1. Phase = "abort" /\ Pending = {}
    BY <1>15, PhaseIs, PendingIs DEF AbortClear, AbortSteps
  <2>2. Phase' = "idle" /\ Pending' = {}
    BY <1>15 DEF AbortClear, Phase, Pending, AbortSteps, ControlInv, ThreadsInv, Alone,
                Looping, Locked, Leaving
  <2>3. QED
    BY <1>15, <2>1, <2>2 DEF AbortClear, AuthorityStep, Authority!Next, Authority!AbortEnds
<1>16. CASE AbortSend
  BY <1>16, PhaseKept DEF AbortSend, AbortSteps, Running, Looping, Locked, Leaving
<1>17. CASE StatesCheck
  BY <1>17, PhaseKept DEF StatesCheck, AbortSteps, Running, Looping, Locked, Leaving
<1>18. CASE StatesSet
  <2>1. Phase \in {"idle", "over"} /\ Pending = {}
    BY <1>18, PhaseIs, PendingIs DEF StatesSet
  <2>2. Phase' = Phase /\ Pending' = Pending
    BY <1>18 DEF StatesSet, Phase, Pending, AbortSteps
  <2>3. QED
    BY <1>18, <2>1, <2>2 DEF StatesSet, AuthorityStep, Authority!Next, Authority!OperatorCommands
<1>19. QED
  BY <1>1, <1>2, <1>3, <1>4, <1>5, <1>6, <1>7, <1>8, <1>9, <1>10, <1>11, <1>12, <1>13, <1>14, <1>15, <1>16, <1>17, <1>18 DEF Handle

LEMMA AuthorityLoop == TypeOK /\ ControlInv /\ ControlInv' /\ Loop => AuthorityStep
<1> SUFFICES ASSUME TypeOK, ControlInv, ControlInv', Loop PROVE AuthorityStep
  OBVIOUS
<1> USE DEF flags, lock, loaded, schedule, ranges, run, history
<1>1. CASE LoopTest
  BY <1>1, PhaseKept DEF LoopTest, AbortSteps, Running, Looping, Locked, Leaving
<1>2. CASE LoopTick
  BY <1>2, PhaseKept DEF LoopTick, AbortSteps, Running, Looping, Locked, Leaving
<1>3. CASE LoopLock
  BY <1>3, PhaseKept DEF LoopLock, AbortSteps, Running, Looping, Locked, Leaving
<1>4. CASE LoopDevices
  <2>1. Phase = "sequence" /\ Phase' = "sequence" /\ Pending = {} /\ Pending' = {}
    BY <1>4 DEF LoopDevices, Phase, Pending, Looping, Locked, ControlInv, AbortInv
  <2>2. issuer' \in {"sequence", issuer}
    BY <1>4 DEF LoopDevices
  <2>3. CASE issuer' = "sequence"
    BY <2>1, <2>3 DEF AuthorityStep, Authority!Next, Authority!SequenceCommands
  <2>4. CASE issuer' = issuer
    BY <2>1, <2>4, Invisible
  <2>5. QED
    BY <2>2, <2>3, <2>4
<1>5. CASE LoopRanges
  BY <1>5, PhaseKept DEF LoopRanges, AbortSteps, Running, Looping, Locked, Leaving
<1>6. CASE LoopCheckPass
  BY <1>6, PhaseKept DEF LoopCheckPass, AbortSteps, Running, Looping, Locked, Leaving
<1>7. CASE LoopCheckAbort
  BY <1>7, PhaseKept DEF LoopCheckAbort, AbortSteps, Running, Looping, Locked, Leaving
<1>8. CASE LoopUnlock
  BY <1>8, PhaseKept DEF LoopUnlock, AbortSteps, Running, Looping, Locked, Leaving
<1>9. CASE LoopReset
  BY <1>9, PhaseKept DEF LoopReset, AbortSteps, Running, Looping, Locked, Leaving
<1>10. CASE LoopTimerDone
  BY <1>10, PhaseKept DEF LoopTimerDone, AbortSteps, Running, Looping, Locked, Leaving
<1>11. CASE LoopClear
  <2>1. Phase = "sequence" /\ Pending = {}
    BY <1>11, PhaseIs, PendingIs DEF LoopClear, Running, Leaving
  <2>2. Phase' = "over" /\ Pending' = {}
    BY <1>11 DEF LoopClear, Phase, Pending, Looping, Locked, Leaving, ControlInv, AbortInv
  <2>3. QED
    BY <1>11, <2>1, <2>2 DEF LoopClear, AuthorityStep, Authority!Next, Authority!SequenceEnds
<1>12. QED
  BY <1>1, <1>2, <1>3, <1>4, <1>5, <1>6, <1>7, <1>8, <1>9, <1>10, <1>11 DEF Loop

\* SequenceManager implements CommandAuthority.
THEOREM AuthorityRefined == Spec => AuthoritySpec
<1>1. Init => Authority!Init
  BY DEF Init, Authority!Init, Phase, Pending, Looping, Locked, Leaving
<1>2. TypeOK /\ ControlInv /\ ControlInv' /\ [Next]_vars => AuthorityStep
  <2>1. UNCHANGED vars => AuthorityStep
    BY Invisible DEF vars, flags, lock, loaded, schedule, ranges, run, history, Phase,
                     Pending
  <2>2. QED
    BY AuthorityRecv, AuthorityHandle, AuthorityLoop, <2>1 DEF Next, Dead
<1>3. QED
  BY TypeCorrect, ControlCorrect, <1>1, <1>2, PTL DEF Spec, AuthoritySpec, Authority!Spec,
     AuthorityStep
=============================================================================
