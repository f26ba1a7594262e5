-------------------------- MODULE MCSequenceManager --------------------------
(* Small sequences and abort sequences on which TLC checks SequenceManager.  *)
EXTENDS SequenceManager, TLC

CONSTANTS d1, d2, s1, s2

\* Two devices, one of them interpolated, and ranges the README would accept.
Hotfire == [end      |-> 2,
            points   |-> (d1 :> {0, 1, 2} @@ d2 :> {0, 2}),
            interp   |-> (d1 :> "none" @@ d2 :> "linear"),
            ranges   |-> (s1 :> {0, 1, 2} @@ s2 :> {0, 1, 2}),
            rangesIs |-> "object",
            listed   |-> {s1},
            valid    |-> TRUE]

\* globals.ranges written as the README's array, no interpolation given.
Coldflow == [Hotfire EXCEPT !.end = 1, !.points[d2] = {0}, !.rangesIs = "array",
                            !.interp = [d \in Devices |-> "absent"]]

\* LoadSequence stops at a datapoint with a bad timestamp.
Broken == [Hotfire EXCEPT !.points[d1] = {0}, !.points[d2] = {}, !.valid = FALSE]

SafetyFiles == {Hotfire, Coldflow, Broken}
SafetyAborts == {<<>>, <<TRUE, TRUE>>, <<TRUE, FALSE>>}

\* All datapoints at distinct multiples of the interval, as far as one pass can
\* command them; the interpolated device has points beyond and at the end time.
OnTime == [Hotfire EXCEPT !.end = 4, !.points[d1] = {0, 2, 4}, !.points[d2] = {0, 4, 6},
                          !.ranges = [s \in Sensors |-> {0, 2}]]

OnTimeFiles == {OnTime, [OnTime EXCEPT !.interp = d1 :> "linear" @@ d2 :> "none"]}
OnTimeAborts == {<<>>, <<TRUE, TRUE>>}

\* The ranges written as an array, with the interpolation given.
ArrayFiles == {[Hotfire EXCEPT !.rangesIs = "array"]}
HotfireFiles == {Hotfire}

\* The empty string scripts/ECUIEmulator.py sends as the abort sequence.
EmulatorAborts == {<<FALSE>>}
=============================================================================
