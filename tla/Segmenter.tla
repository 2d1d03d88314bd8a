------------------------------ MODULE Segmenter ------------------------------
(***************************************************************************)
(* How samples become drives and charges                                   *)
(* (packages/core/src/engine/segmenter.ts): one step over a sample, as the *)
(* operator Step, and what the events of a step say.                       *)
(*                                                                         *)
(* A sample is [ts, charge, speed, gear, odo]; each of the last four may   *)
(* be Null.  Times are in units of a few minutes, and of the charge state  *)
(* the segmenter tells four values apart: charging, stopped (plugged in),  *)
(* over (complete or disconnected) and Null.                               *)
(***************************************************************************)
EXTENDS Integers, Sequences, SequencesExt

CONSTANTS
  Null,
  DriveEnd,     \* driveEndParkedMs
  Resume,       \* chargeResumeWindowMs
  Gap           \* sampleGapResetMs

ASSUME TimesAssumption ==
  /\ DriveEnd \in Nat \ {0} /\ Resume \in Nat \ {0} /\ Gap \in Nat

MovingSpeed == 1
NowhereSpeed == 10

\* The segment that is open, and the stamp of the last sample.
NoSegment == [open |-> Null, lastTs |-> Null]

Charging(s) == s.charge = "charging"

\* motionOf, prev being the sample before it in the segment that is open.
Motion(s, prev) ==
  IF s.speed # Null THEN IF s.speed > MovingSpeed THEN "moving" ELSE "stationary"
  ELSE IF s.gear = "P" THEN "stationary"
  ELSE IF prev # Null /\ s.odo # Null /\ prev.odo # Null /\ s.odo > prev.odo THEN "moving"
  ELSE "unknown"

InGear(s) == s.gear \in {"D", "R", "N"}

Opened(kind, s) ==
  [kind |-> kind, start |-> s.ts, last |-> s, still |-> Null, paused |-> Null]

Start(kind, s) == [type |-> "start", kind |-> kind, sample |-> s]
Point(s) == [type |-> "point", sample |-> s]
End(kind, s) == [type |-> "end", kind |-> kind, sample |-> s]

\* endEvent: never at the later sample that noticed.
EndOf(open) ==
  End(open.kind, IF open.kind = "charge" /\ open.paused # Null THEN open.paused ELSE open.last)

Since(s, ts) == IF ts = Null THEN 0 ELSE s.ts - ts

\* A charge is open.  What leaves open Null may open another on the same sample.
InCharge(open, s) ==
  LET paused == open.paused
      stopped == IF paused = Null THEN s ELSE paused
      tooLong == paused # Null /\ s.ts - paused.ts >= Resume
      ended == [open |-> Null, events |-> <<EndOf([open EXCEPT !.paused = stopped])>>]
  IN IF Charging(s)
       THEN IF tooLong
              THEN [open |-> Null, events |-> <<EndOf(open)>>]
              ELSE [open |-> [open EXCEPT !.last = s, !.paused = Null], events |-> <<Point(s)>>]
     ELSE IF s.charge = "over" \/ tooLong \/ Motion(s, open.last) = "moving" THEN ended
     ELSE [open |-> [open EXCEPT !.paused = stopped], events |-> <<>>]

\* Mutant: a stop in gear runs the parked clock too.
LightEnds(open, s) ==
  LET m == Motion(s, open.last)
      parked == open.still # Null /\ s.ts - open.still >= DriveEnd
  IN IF Charging(s) THEN [open |-> Null, events |-> <<End("drive", s)>>]
     ELSE IF parked THEN [open |-> Null, events |-> <<EndOf(open)>>]
     ELSE [open |-> [open EXCEPT !.last = s,
                       !.still = IF m = "moving" THEN Null
                                 ELSE IF m = "stationary" /\ @ = Null THEN s.ts ELSE @],
           events |-> <<Point(s)>>]

\* Mutant: a sample that moves is taken in before the stop in front of it is weighed.
MovingFirst(open, s) ==
  LET m == Motion(s, open.last)
      parked == open.still # Null /\ s.ts - open.still >= DriveEnd
  IN IF Charging(s) THEN [open |-> Null, events |-> <<End("drive", s)>>]
     ELSE IF parked /\ m # "moving" THEN [open |-> Null, events |-> <<EndOf(open)>>]
     ELSE [open |-> [open EXCEPT !.last = s,
                       !.still = IF m = "moving" \/ InGear(s) THEN Null
                                 ELSE IF m = "stationary" /\ @ = Null THEN s.ts ELSE @],
           events |-> <<Point(s)>>]

\* A drive is open.
InDrive(open, s) ==
  LET m == Motion(s, open.last)
      parked == open.still # Null /\ s.ts - open.still >= DriveEnd
  IN IF Charging(s) THEN [open |-> Null, events |-> <<End("drive", s)>>]
     ELSE IF parked THEN [open |-> Null, events |-> <<EndOf(open)>>]
     ELSE [open |-> [open EXCEPT !.last = s,
                       !.still = IF m = "moving" \/ InGear(s) THEN Null
                                 ELSE IF m = "stationary" /\ @ = Null THEN s.ts ELSE @],
           events |-> <<Point(s)>>]

\* step: the state after the sample, and what happened, in order.
Step(state, s) ==
  IF state.lastTs # Null /\ s.ts < state.lastTs THEN [state |-> state, events |-> <<>>]
  ELSE
    LET hole == state.open # Null /\ Since(s, state.lastTs) > Gap
        kept == IF hole THEN Null ELSE state.open
        went == IF kept = Null
                  THEN [open |-> Null, events |-> IF hole THEN <<EndOf(state.open)>> ELSE <<>>]
                ELSE IF kept.kind = "charge" THEN InCharge(kept, s) ELSE InDrive(kept, s)
        \* The motion a fresh segment begins with is the one judged above.
        kind == IF Charging(s) THEN "charge"
                ELSE IF Motion(s, IF kept = Null THEN Null ELSE kept.last) = "moving"
                       THEN "drive" ELSE Null
        opens == went.open = Null /\ kind # Null
    IN [state |-> [open |-> IF opens THEN Opened(kind, s) ELSE went.open, lastTs |-> s.ts],
        events |-> went.events \o (IF opens THEN <<Start(kind, s), Point(s)>> ELSE <<>>)]

Odometer(points) == SelectSeq(points, LAMBDA p : p.odo # Null)

\* wentNowhere: no distance, and never faster than NOWHERE_MAX_SPEED_KPH.
WentNowhere(points) ==
  LET read == Odometer(points) IN
  /\ read = <<>> \/ Last(read).odo <= Head(read).odo
  /\ \A i \in DOMAIN points : points[i].speed = Null \/ points[i].speed <= NowhereSpeed
=============================================================================
