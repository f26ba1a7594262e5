---------------------------- MODULE SequencePlan ----------------------------
(***************************************************************************)
(* The data of a test sequence and what one pass of the sequence loop      *)
(* makes of it (src/src/SequenceManager.cpp): the maps LoadSequence fills, *)
(* the two interpolation functions and the range bookkeeping.              *)
(*                                                                         *)
(* A datapoint is named by its timestamp, counted in clock ticks from      *)
(* startTime; the parameters it commands are not modelled.  A std::map     *)
(* from timestamps is the set of its keys, so begin() is First and erasing *)
(* begin() leaves Rest.                                                    *)
(***************************************************************************)
EXTENDS Integers, FiniteSets

CONSTANTS Devices,   \* commands and states a sequence drives
          Sensors    \* sensors a nominal range can be given for

Modes == {"none", "linear", "absent"}    \* "absent": no entry in the map

(***************************************************************************)
(* What LoadSequence reads of a sequence: datapoints and nominal ranges as *)
(* sets of timestamps, the declared interpolation, whether globals.ranges  *)
(* is a JSON object or a JSON array, and which sensors it lists.  A        *)
(* sequence that is not valid has an entry that makes LoadSequence return  *)
(* false; its points and ranges are those read before that entry.          *)
(***************************************************************************)
Sequence == [end       : Nat,
             points    : [Devices -> SUBSET Nat],
             interp    : [Devices -> Modes],
             ranges    : [Sensors -> SUBSET Nat],
             rangesIs  : {"object", "array"},
             listed    : SUBSET Sensors,
             valid     : BOOLEAN]

\* jsonSequence before the first start: json::object().
NoSequence == [end      |-> 0,
               points   |-> [d \in Devices |-> {}],
               interp   |-> [d \in Devices |-> "absent"],
               ranges   |-> [s \in Sensors |-> {}],
               rangesIs |-> "object",
               listed   |-> {},
               valid    |-> FALSE]

-----------------------------------------------------------------------------
First(S) == {t \in S : \A u \in S : t <= u}
Rest(S)  == S \ First(S)

\* Mutant: a datapoint is taken one tick ahead of its time.
BugDueEarly(S, now) == {t \in First(S) : t <= now + 1}

Due(S, now) == {t \in First(S) : t <= now}

(***************************************************************************)
(* One device in one pass: the datapoints whose own value is commanded,    *)
(* and whether the front datapoint is erased afterwards.                   *)
(***************************************************************************)
\* Mutant: a late pass catches up by commanding only the newest due datapoint.
BugCatchUp(S, now) ==
  LET due == {t \in S : t <= now}
  IN  [send |-> {t \in due : \A u \in due : u <= t}, advance |-> due # {}]

InterpolateNone(S, now) ==
  [send |-> Due(S, now), advance |-> Due(S, now) # {}]

\* Between two datapoints an interpolated value is commanded; it is the value
\* of the front datapoint only at the front datapoint's own time.
InterpolateLinear(S, now) ==
  LET begun == Due(S, now)
      next  == First(Rest(S))
      over  == Due(Rest(S), now)
  IN  [send    |-> IF begun = {} THEN {}
                   ELSE IF next = {} THEN begun
                   ELSE IF over # {} THEN over
                   ELSE begun \cap {now},
       advance |-> begun # {} /\ (next = {} \/ over # {})]

Interpolate(mode, S, now) ==
  IF mode = "linear" THEN InterpolateLinear(S, now)
                     ELSE InterpolateNone(S, now)

-----------------------------------------------------------------------------
\* json::contains(key) is false for anything but an object.
RangeKnown(seq, s) == seq.rangesIs = "object" /\ s \in seq.listed

\* sensorsNominalRangeMap after LoadSequence.
LoadedRanges(seq) ==
  [s \in Sensors |-> IF RangeKnown(seq, s) THEN seq.ranges[s] ELSE {}]

\* Mutant: the map by time is filled for sensors the map by sensor leaves out.
BugLoadedTimes(seq) ==
  UNION {{<<t, s>> : t \in seq.ranges[s]} : s \in Sensors}

\* sensorsNominalRangeTimeMap after LoadSequence, as pairs of a timestamp and
\* a sensor that has a range there.
LoadedTimes(seq) ==
  UNION {{<<t, s>> : t \in LoadedRanges(seq)[s]} : s \in Sensors}

\* Entries are only ever added or overwritten: a device the new sequence does
\* not mention keeps the mode of an earlier sequence.
LoadInterpolationMap(seq, old) ==
  [d \in Devices |-> IF seq.interp[d] = "absent" THEN old[d] ELSE seq.interp[d]]

\* The timestamps in sensorsNominalRangeTimeMap, and the one it drops in a
\* pass: the first, unless it is the only one or still to come.
RangeTimes(times) == {p[1] : p \in times}

\* Mutant: the last range is dropped as well.
BugRangeDropped(times, now) == Due(RangeTimes(times), now)

RangeDropped(times, now) ==
  IF Rest(RangeTimes(times)) = {} THEN {} ELSE Due(RangeTimes(times), now)
=============================================================================
