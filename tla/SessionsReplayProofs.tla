------------------------- MODULE SessionsReplayProofs -------------------------
(***************************************************************************)
(* More about Sessions, for every scenario: memory and rows are those of   *)
(* the replay of the tape, so that one session runs and none is lost, and  *)
(* each closed row is one trip or one charge.                              *)
(***************************************************************************)
EXTENDS SessionsProofs

-----------------------------------------------------------------------------
(* The replay of a part of a tape, from some time on, beside the whole's.  *)

\* Of the step over sample s: the segment that s meets, what becomes of it, and the kind that s
\* would begin.
Met(st, s) == IF st.open # Null /\ Wide(st, s) THEN Null ELSE st.open
Went(st, s) ==
  IF Met(st, s) = Null
    THEN [open |-> Null, events |-> IF st.open # Null THEN <<EndOf(st.open)>> ELSE <<>>]
  ELSE IF Met(st, s).kind = "charge" THEN InCharge(Met(st, s), s) ELSE InDrive(Met(st, s), s)
Judged(st, s) ==
  IF Charging(s) THEN "charge"
  ELSE IF Motion(s, IF Met(st, s) = Null THEN Null ELSE Met(st, s).last) = "moving"
         THEN "drive" ELSE Null

LEMMA StepIs ==
  ASSUME NEW st, NEW s, ~(st.lastTs # Null /\ s.ts < st.lastTs)
  PROVE  LET opens == Went(st, s).open = Null /\ Judged(st, s) # Null
             k == Judged(st, s)
         IN /\ Step(st, s).state.open = (IF opens THEN Opened(k, s) ELSE Went(st, s).open)
            /\ Step(st, s).events = Went(st, s).events \o
                                      (IF opens THEN <<Start(k, s), Point(s)>> ELSE <<>>)
<1> DEFINE hole == st.open # Null /\ Since(s, st.lastTs) > Gap
           kept == IF hole THEN Null ELSE st.open
           went == IF kept = Null
                     THEN [open |-> Null, events |-> IF hole THEN <<EndOf(st.open)>> ELSE <<>>]
                   ELSE IF kept.kind = "charge" THEN InCharge(kept, s) ELSE InDrive(kept, s)
           kind == IF Charging(s) THEN "charge"
                   ELSE IF Motion(s, IF kept = Null THEN Null ELSE kept.last) = "moving"
                          THEN "drive" ELSE Null
           opens == went.open = Null /\ kind # Null
<1>1. /\ Step(st, s).state = [open |-> IF opens THEN Opened(kind, s) ELSE went.open, lastTs |-> s.ts]
      /\ Step(st, s).events = went.events \o (IF opens THEN <<Start(kind, s), Point(s)>> ELSE <<>>)
  BY DEF Step
<1>2. kept = Met(st, s)
  BY DEF Met, Wide
<1>3. hole <=> st.open # Null /\ kept = Null
  OBVIOUS
<1>4. went = Went(st, s)
  <2>1. CASE kept = Null
    BY <1>2, <1>3, <2>1 DEF Went
  <2>2. CASE kept # Null
    <3> HIDE DEF kept
    <3> QED BY <1>2, <2>2 DEF Went
  <2> QED BY <2>1, <2>2
<1>5. kind = Judged(st, s)
  <2> HIDE DEF kept
  <2> QED BY <1>2 DEF Judged
<1> HIDE DEF went, kind
<1> QED BY <1>1, <1>4, <1>5

\* Segments that differ in their start at most.
Alike(o, n) == o.kind = n.kind /\ o.last = n.last /\ o.still = n.still /\ o.paused = n.paused

\* What they come to, a and b, is alike too, and has their starts.
StayAlike(o, n, a, b) ==
  /\ a.events = b.events
  /\ \/ a.open = Null /\ b.open = Null
     \/ a.open # Null /\ b.open # Null /\ Alike(a.open, b.open)
        /\ a.open.start = o.start /\ b.open.start = n.start

LEMMA AlikeInCharge ==
  ASSUME NEW T \in SUBSET Sample, NEW o \in SegmentsOf(T), NEW n \in SegmentsOf(T), Alike(o, n),
         NEW s \in T
  PROVE  StayAlike(o, n, InCharge(o, s), InCharge(n, s))
<1> DEFINE stopped == IF o.paused = Null THEN s ELSE o.paused
           a == [o EXCEPT !.last = s, !.paused = Null]
           b == [n EXCEPT !.last = s, !.paused = Null]
           c == [o EXCEPT !.paused = stopped]
           d == [n EXCEPT !.paused = stopped]
<1>1. o.kind = n.kind /\ o.last = n.last /\ o.still = n.still /\ o.paused = n.paused
  BY DEF Alike
<1>2. EndOf(o) = EndOf(n)
  BY <1>1 DEF EndOf
<1>3. stopped \in T
  BY DEF SegmentsOf
<1> HIDE DEF stopped
<1>4. /\ a \in SegmentsOf(T) /\ b \in SegmentsOf(T) /\ Alike(a, b)
      /\ a.start = o.start /\ b.start = n.start
  BY <1>1 DEF SegmentsOf, Alike
<1>5. /\ c \in SegmentsOf(T) /\ d \in SegmentsOf(T) /\ Alike(c, d)
      /\ c.start = o.start /\ d.start = n.start
  BY <1>1, <1>3 DEF SegmentsOf, Alike
<1>6. EndOf(c) = EndOf(d)
  BY <1>5 DEF EndOf, Alike
<1>7. Null \notin SegmentsOf(T)
  BY SegmentsNotNull
<1>8. \/ InCharge(o, s) = [open |-> Null, events |-> <<EndOf(o)>>]
         /\ InCharge(n, s) = [open |-> Null, events |-> <<EndOf(n)>>]
      \/ InCharge(o, s) = [open |-> Null, events |-> <<EndOf(c)>>]
         /\ InCharge(n, s) = [open |-> Null, events |-> <<EndOf(d)>>]
      \/ InCharge(o, s) = [open |-> a, events |-> <<Point(s)>>]
         /\ InCharge(n, s) = [open |-> b, events |-> <<Point(s)>>]
      \/ InCharge(o, s) = [open |-> c, events |-> <<>>]
         /\ InCharge(n, s) = [open |-> d, events |-> <<>>]
  BY <1>1 DEF InCharge, stopped
<1> HIDE DEF a, b, c, d
<1> QED BY <1>2, <1>4, <1>5, <1>6, <1>7, <1>8 DEF StayAlike

LEMMA AlikeInDrive ==
  ASSUME NEW T \in SUBSET Sample, NEW o \in SegmentsOf(T), NEW n \in SegmentsOf(T), Alike(o, n),
         NEW s \in T
  PROVE  StayAlike(o, n, InDrive(o, s), InDrive(n, s))
<1> DEFINE m == Motion(s, o.last)
           still == IF m = "moving" \/ InGear(s) THEN Null
                    ELSE IF m = "stationary" /\ o.still = Null THEN s.ts ELSE o.still
           a == [o EXCEPT !.last = s, !.still = still]
           b == [n EXCEPT !.last = s, !.still = still]
<1>1. o.kind = n.kind /\ o.last = n.last /\ o.still = n.still /\ o.paused = n.paused
  BY DEF Alike
<1>2. EndOf(o) = EndOf(n)
  BY <1>1 DEF EndOf
<1>3. still \in Nat \cup {Null}
  BY SampleFields DEF SegmentsOf
<1>4. \/ InDrive(o, s) = [open |-> Null, events |-> <<End("drive", s)>>]
         /\ InDrive(n, s) = [open |-> Null, events |-> <<End("drive", s)>>]
      \/ InDrive(o, s) = [open |-> Null, events |-> <<EndOf(o)>>]
         /\ InDrive(n, s) = [open |-> Null, events |-> <<EndOf(n)>>]
      \/ InDrive(o, s) = [open |-> a, events |-> <<Point(s)>>]
         /\ InDrive(n, s) = [open |-> b, events |-> <<Point(s)>>]
  BY <1>1 DEF InDrive
<1> HIDE DEF still
<1>5. /\ a \in SegmentsOf(T) /\ b \in SegmentsOf(T) /\ Alike(a, b)
      /\ a.start = o.start /\ b.start = n.start
  BY <1>1, <1>3 DEF SegmentsOf, Alike
<1>6. Null \notin SegmentsOf(T)
  BY SegmentsNotNull
<1> HIDE DEF a, b
<1> QED BY <1>2, <1>4, <1>5, <1>6 DEF StayAlike

\* Steps over segments that are alike say the same.
LEMMA AlikeStep ==
  ASSUME NEW T \in SUBSET Sample, NEW x \in TracksOf(T), NEW y \in TracksOf(T), NEW s \in T,
         ~(x.lastTs # Null /\ s.ts < x.lastTs), x.open # Null, y.open # Null,
         y.lastTs = x.lastTs, Alike(x.open, y.open),
         NEW v, v = Step(x, s), NEW u, u = Step(y, s)
  PROVE  /\ v.events = u.events
         /\ \/ v.state.open = u.state.open
            \/ /\ v.state.open # Null /\ u.state.open # Null /\ Alike(v.state.open, u.state.open)
               /\ v.state.open.start = x.open.start /\ u.state.open.start = y.open.start
<1> DEFINE o == x.open
           n == y.open
           a == Went(x, s)
           b == Went(y, s)
<1>1. o \in SegmentsOf(T) /\ n \in SegmentsOf(T)
  BY DEF TracksOf
<1>2. o.kind = n.kind /\ o.last = n.last
  BY DEF Alike
<1>3. EndOf(o) = EndOf(n)
  BY DEF EndOf, Alike
<1>4. Wide(x, s) <=> Wide(y, s)
  BY DEF Wide
<1>5. Judged(x, s) = Judged(y, s)
  <2>1. Met(x, s) = (IF Wide(x, s) THEN Null ELSE o) /\ Met(y, s) = (IF Wide(x, s) THEN Null ELSE n)
    BY <1>4 DEF Met
  <2> QED BY <1>2, <2>1 DEF Judged
<1>6. StayAlike(o, n, a, b)
  <2>1. CASE Wide(x, s)
    <3>1. Met(x, s) = Null /\ Met(y, s) = Null
      BY <1>4, <2>1 DEF Met
    <3>2. a = [open |-> Null, events |-> <<EndOf(o)>>] /\ b = [open |-> Null, events |-> <<EndOf(n)>>]
      BY <3>1 DEF Went
    <3> HIDE DEF a, b
    <3> QED BY <1>3, <3>2 DEF StayAlike
  <2>2. CASE ~Wide(x, s)
    <3>1. Met(x, s) = o /\ Met(y, s) = n
      BY <1>4, <2>2 DEF Met
    <3>2. \/ a = InCharge(o, s) /\ b = InCharge(n, s)
          \/ a = InDrive(o, s) /\ b = InDrive(n, s)
      <4> HIDE DEF o, n
      <4> QED BY <1>2, <3>1 DEF Went, o, n
    <3>3. Alike(o, n)
      OBVIOUS
    <3> HIDE DEF o, n, a, b
    <3> QED BY <1>1, <3>2, <3>3, AlikeInCharge, AlikeInDrive
  <2> QED BY <2>1, <2>2
<1> DEFINE k == Judged(x, s)
           opens == a.open = Null /\ k # Null
<1>7. a.open = Null <=> b.open = Null
  BY <1>6 DEF StayAlike
<1>8. /\ v.state.open = (IF opens THEN Opened(k, s) ELSE a.open)
      /\ v.events = a.events \o (IF opens THEN <<Start(k, s), Point(s)>> ELSE <<>>)
  BY StepIs
<1>9. /\ u.state.open = (IF opens THEN Opened(k, s) ELSE b.open)
      /\ u.events = b.events \o (IF opens THEN <<Start(k, s), Point(s)>> ELSE <<>>)
  <2>1. ~(y.lastTs # Null /\ s.ts < y.lastTs)
    OBVIOUS
  <2> HIDE DEF a
  <2> QED BY <1>5, <1>7, <2>1, StepIs
<1> HIDE DEF a, b, k
<1> QED BY <1>6, <1>8, <1>9 DEF StayAlike

\* Only a charge pauses, and only a drive stands.
Tidy(o) == (o.kind = "drive" => o.paused = Null) /\ (o.kind = "charge" => o.still = Null)

LEMMA TidyStep ==
  ASSUME NEW T \in SUBSET Sample, NEW y \in TracksOf(T), NEW s \in T,
         ~(y.lastTs # Null /\ s.ts < y.lastTs), y.open # Null => Tidy(y.open),
         NEW u, u = Step(y, s).state.open, u # Null
  PROVE  Tidy(u)
<1> DEFINE w == Went(y, s)
           k == Judged(y, s)
           o == Met(y, s)
<1>1. u = Opened(k, s) \/ u = w.open
  <2>1. u = IF w.open = Null /\ k # Null THEN Opened(k, s) ELSE w.open
    BY StepIs
  <2> HIDE DEF w, k
  <2> QED BY <2>1
<1>2. Tidy(Opened(k, s))
  BY DEF Tidy, Opened
<1>3. ASSUME u = w.open PROVE Tidy(u)
  <2>1. o # Null
    <3>1. w.open # Null
      BY <1>3
    <3> HIDE DEF o
    <3> QED BY <3>1 DEF Went, o
  <2>2. o = y.open /\ o \in SegmentsOf(T) /\ Tidy(o)
    <3>1. o = y.open
      BY <2>1 DEF Met
    <3> HIDE DEF o
    <3> QED BY <2>1, <3>1 DEF TracksOf
  <2> HIDE DEF o
  <2>3. CASE o.kind = "charge"
    <3>1. w = InCharge(o, s)
      BY <2>1, <2>3 DEF Went, o
    <3>2. o.still = Null
      BY <2>2, <2>3 DEF Tidy
    <3> DEFINE stopped == IF o.paused = Null THEN s ELSE o.paused
               a == [o EXCEPT !.last = s, !.paused = Null]
               b == [o EXCEPT !.paused = stopped]
    <3>3. a.kind = "charge" /\ a.still = Null /\ b.kind = "charge" /\ b.still = Null
      BY <2>2, <2>3, <3>2 DEF SegmentsOf
    <3>4. w.open = Null \/ w.open = a \/ w.open = b
      BY <3>1 DEF InCharge
    <3> HIDE DEF a, b, w
    <3> QED BY <1>3, <3>3, <3>4 DEF Tidy
  <2>4. CASE o.kind # "charge"
    <3>1. w = InDrive(o, s) /\ o.kind = "drive"
      BY <2>1, <2>2, <2>4 DEF Went, o, SegmentsOf
    <3>2. o.paused = Null
      BY <2>2, <3>1 DEF Tidy
    <3> DEFINE m == Motion(s, o.last)
               still == IF m = "moving" \/ InGear(s) THEN Null
                        ELSE IF m = "stationary" /\ o.still = Null THEN s.ts ELSE o.still
               a == [o EXCEPT !.last = s, !.still = still]
    <3>3. a.kind = "drive" /\ a.paused = Null
      BY <2>2, <3>1, <3>2 DEF SegmentsOf
    <3>4. w.open = Null \/ w.open = a
      BY <3>1 DEF InDrive
    <3> HIDE DEF a, w
    <3> QED BY <1>3, <3>1, <3>3, <3>4 DEF Tidy
  <2> QED BY <2>3, <2>4
<1> HIDE DEF w, k
<1> QED BY <1>1, <1>2, <1>3

\* A sample that begins a session where none is open leaves one like it where one was.
LEMMA BeginsAnyway ==
  ASSUME NEW T \in SUBSET Sample, NEW x \in TracksOf(T), NEW y \in TracksOf(T), NEW s \in T,
         ~(x.lastTs # Null /\ s.ts < x.lastTs), ~(y.lastTs # Null /\ s.ts < y.lastTs),
         x.open = Null, y.open # Null => Tidy(y.open) /\ y.open.start <= s.ts,
         NEW v, v = Step(x, s).state.open, v # Null, NEW u, u = Step(y, s).state.open
  PROVE  u # Null /\ Alike(v, u) /\ u.start <= v.start /\ v.start = s.ts
<1> DEFINE k == IF Charging(s) THEN "charge" ELSE "drive"
           w == Went(y, s)
           o == Met(y, s)
           a == Opened(k, s)
<1>1. v = a /\ (~Charging(s) => Motion(s, Null) = "moving")
  <2>1. Met(x, s) = Null
    BY DEF Met
  <2>2. Went(x, s).open = Null
    BY <2>1 DEF Went
  <2>3. Judged(x, s) # Null /\ v = Opened(Judged(x, s), s)
    <3>1. v = IF Went(x, s).open = Null /\ Judged(x, s) # Null THEN Opened(Judged(x, s), s)
              ELSE Went(x, s).open
      BY StepIs
    <3> QED BY <2>2, <3>1
  <2>4. Judged(x, s) = k /\ (~Charging(s) => Motion(s, Null) = "moving")
    BY <2>1, <2>3 DEF Judged
  <2> QED BY <2>3, <2>4
<1>2. \A n : ~Charging(s) => Motion(s, n) = "moving"
  BY <1>1 DEF Motion
<1>3. Judged(y, s) = k /\ k # Null /\ k \in {"drive", "charge"}
  BY <1>2, SessionsAssumption DEF Judged
<1>4. /\ a.kind = k /\ a.start = s.ts /\ a.last = s /\ a.still = Null /\ a.paused = Null
      /\ a # Null /\ s.ts \in Nat
  <2>1. a \in SegmentsOf(T)
    BY <1>3, OpenedTyped
  <2> HIDE DEF k
  <2> QED BY <2>1, SegmentsNotNull, SampleFields DEF Opened
<1>5. u = IF w.open = Null THEN a ELSE w.open
  <2>1. u = IF w.open = Null /\ Judged(y, s) # Null THEN Opened(Judged(y, s), s) ELSE w.open
    BY StepIs
  <2> HIDE DEF k, w
  <2> QED BY <1>3, <2>1
<1>6. CASE w.open = Null
  <2> HIDE DEF a, w
  <2> QED BY <1>1, <1>4, <1>5, <1>6 DEF Alike
<1>7. CASE w.open # Null
  <2>1. o # Null
    BY <1>7 DEF Went
  <2>2. o = y.open /\ o \in SegmentsOf(T) /\ Tidy(o) /\ o.start <= s.ts
    <3>1. o = y.open
      BY <2>1 DEF Met
    <3> HIDE DEF o
    <3> QED BY <2>1, <3>1 DEF TracksOf
  <2> HIDE DEF o
  <2>3. CASE o.kind = "charge"
    <3>1. w = InCharge(o, s)
      BY <2>1, <2>3 DEF Went, o
    <3> DEFINE b == [o EXCEPT !.last = s, !.paused = Null]
    <3>2. w.open = b /\ Charging(s)
      BY <1>2, <1>7, <3>1 DEF InCharge
    <3>3. b.kind = "charge" /\ b.last = s /\ b.still = Null /\ b.paused = Null /\ b.start = o.start
      BY <2>2, <2>3 DEF SegmentsOf, Tidy
    <3> HIDE DEF a, b, w
    <3> QED BY <1>1, <1>4, <1>5, <1>7, <2>2, <3>2, <3>3 DEF Alike
  <2>4. CASE o.kind # "charge"
    <3>1. w = InDrive(o, s) /\ o.kind = "drive"
      BY <2>1, <2>2, <2>4 DEF Went, o, SegmentsOf
    <3> DEFINE m == Motion(s, o.last)
               still == IF m = "moving" \/ InGear(s) THEN Null
                        ELSE IF m = "stationary" /\ o.still = Null THEN s.ts ELSE o.still
               b == [o EXCEPT !.last = s, !.still = still]
    <3>2. w.open = b /\ ~Charging(s)
      BY <1>7, <3>1 DEF InDrive
    <3>3. still = Null
      BY <1>2, <3>2
    <3> HIDE DEF still
    <3>4. b.kind = "drive" /\ b.last = s /\ b.still = Null /\ b.paused = Null /\ b.start = o.start
      BY <2>2, <3>1, <3>3 DEF SegmentsOf, Tidy
    <3> HIDE DEF a, b, w
    <3> QED BY <1>1, <1>4, <1>5, <1>7, <2>2, <3>2, <3>4 DEF Alike
  <2> QED BY <2>3, <2>4
<1> QED BY <1>6, <1>7

\* Memory m of the replay of a part, k of the whole's: what runs in m runs in k, from no later on
\* and with all of its points.
Within(m, k) ==
  m.seg.open # Null =>
    /\ k.seg.open # Null /\ Alike(m.seg.open, k.seg.open) /\ k.seg.lastTs = m.seg.lastTs
    /\ k.seg.open.start <= m.seg.open.start
    /\ Stamps(m.points) \subseteq Stamps(k.points)

\* After a step that leaves something open there is a point or nothing is said.
LEMMA OpenPoints ==
  ASSUME NEW T \in SUBSET Sample, NEW st \in TracksOf(T), NEW s \in T, NEW pts \in Seq(T), NEW p,
         PointsNext(st, pts, s, p), Step(st, s).state.open # Null
  PROVE  \/ SaysNothing(st, s) /\ p = pts
         \/ SaysPoint(st, s) /\ Stamps(p) = Stamps(pts) \cup {s.ts}
         \/ Step(st, s).events # <<>> /\ ~SaysPoint(st, s) /\ Stamps(p) = {s.ts}
            /\ \E k : Step(st, s).state.open = Opened(k, s)
<1>1. Stamps(<<s>>) = {s.ts} /\ Stamps(Append(pts, s)) = Stamps(pts) \cup {s.ts}
  BY StampsOne, StampsMore
<1>2. \A e : ~SaysEnd(st, s, e)
  BY DEF SaysEnd
<1>3. ASSUME NEW k, SaysStart(st, s, k)
      PROVE  Step(st, s).events # <<>> /\ ~SaysPoint(st, s) /\ Step(st, s).state.open = Opened(k, s)
  BY <1>3, StartsApart, EmptySays DEF SaysStart
<1>4. ASSUME NEW e, NEW k, SaysTurn(st, s, e, k)
      PROVE  Step(st, s).events # <<>> /\ ~SaysPoint(st, s) /\ Step(st, s).state.open = Opened(k, s)
  <2>1. Step(st, s).state.open = Opened(k, s)
    BY <1>4 DEF SaysTurn
  <2>2. ~SaysPoint(st, s)
    BY <1>4, EventsApart
  <2>3. Step(st, s).events # <<>>
    BY <1>4, EmptySays
  <2> QED BY <2>1, <2>2, <2>3
<1> QED BY <1>1, <1>2, <1>3, <1>4 DEF PointsNext

LEMMA PointTells ==
  ASSUME NEW T \in SUBSET Sample, NEW st \in TracksOf(T), NEW s \in T,
         Step(st, s).events = <<Point(s)>>
  PROVE  SaysPoint(st, s)
<1>1. SaysNothing(st, s) \/ SaysPoint(st, s) \/ (\E e \in T : SaysEnd(st, s, e))
      \/ (\E k \in {"drive", "charge"} : SaysStart(st, s, k))
      \/ (\E e \in T, k \in {"drive", "charge"} : SaysTurn(st, s, e, k))
  BY StepSays
<1> DEFINE p == <<Point(s)>>
<1>2. Len(p) = 1 /\ p[1] = Point(s) /\ p # <<>> /\ Point(s).type = "point"
  BY DEF Point
<1>3. ~SaysNothing(st, s)
  BY <1>2 DEF SaysNothing
<1>4. ASSUME NEW e, SaysEnd(st, s, e) PROVE FALSE
  <2> DEFINE q == <<End(st.open.kind, e)>>
  <2>1. q[1] = End(st.open.kind, e) /\ End(st.open.kind, e).type = "end"
    BY DEF End
  <2>2. p = q
    BY <1>4 DEF SaysEnd
  <2> HIDE DEF p, q
  <2> QED BY <1>2, <2>1, <2>2
<1>5. ASSUME NEW k, SaysStart(st, s, k) PROVE FALSE
  <2> DEFINE q == <<Start(k, s), Point(s)>>
  <2>1. Len(q) = 2
    OBVIOUS
  <2>2. p = q
    BY <1>5 DEF SaysStart
  <2> HIDE DEF p, q
  <2> QED BY <1>2, <2>1, <2>2
<1>6. ASSUME NEW e, NEW k, SaysTurn(st, s, e, k) PROVE FALSE
  <2> DEFINE q == <<End(st.open.kind, e), Start(k, s), Point(s)>>
  <2>1. Len(q) = 3
    OBVIOUS
  <2>2. p = q
    BY <1>6 DEF SaysTurn
  <2> HIDE DEF p, q
  <2> QED BY <1>2, <2>1, <2>2
<1> QED BY <1>1, <1>3, <1>4, <1>5, <1>6

\* The next sample, in both.
LEMMA WithinStep ==
  ASSUME NEW T \in SUBSET Sample, NEW x, Fits(T, x), Linked(x.mem), NEW y, Fits(T, y), Linked(y.mem),
         NEW s \in T, ~(x.mem.seg.lastTs # Null /\ s.ts < x.mem.seg.lastTs),
         ~(y.mem.seg.lastTs # Null /\ s.ts < y.mem.seg.lastTs),
         y.mem.seg.open # Null => Tidy(y.mem.seg.open) /\ y.mem.seg.open.start <= s.ts,
         Within(x.mem, y.mem), NEW v, v = ApplySample(x, s), NEW u, u = ApplySample(y, s)
  PROVE  Within(v.mem, u.mem)
<1> DEFINE a == x.mem.seg
           b == y.mem.seg
           o == Step(a, s).state.open
           n == Step(b, s).state.open
           p == v.mem.points
           q == u.mem.points
<1>1. /\ a \in TracksOf(T) /\ b \in TracksOf(T)
      /\ x.mem.points \in Seq(T) /\ y.mem.points \in Seq(T)
  BY FitsParts
<1>2. v.mem.seg = Step(a, s).state
  BY SampleTrack
<1>3. u.mem.seg = Step(b, s).state
  BY SampleTrack
<1>4. PointsNext(a, x.mem.points, s, p)
  BY PointsAfter
<1>5. PointsNext(b, y.mem.points, s, q)
  BY PointsAfter
<1>6. ~(a.lastTs # Null /\ s.ts < a.lastTs) /\ ~(b.lastTs # Null /\ s.ts < b.lastTs)
      /\ (b.open # Null => Tidy(b.open) /\ b.open.start <= s.ts)
  OBVIOUS
<1>7. a.open # Null => /\ b.open # Null /\ Alike(a.open, b.open) /\ b.lastTs = a.lastTs
                       /\ b.open.start <= a.open.start
                       /\ Stamps(x.mem.points) \subseteq Stamps(y.mem.points)
  BY DEF Within
<1> HIDE DEF a, b, p, q
<1>8. Step(a, s).state.lastTs = s.ts /\ Step(b, s).state.lastTs = s.ts
  BY <1>1, <1>6, NewerSays
<1> SUFFICES ASSUME o # Null
             PROVE  n # Null /\ Alike(o, n) /\ n.start <= o.start /\ Stamps(p) \subseteq Stamps(q)
  BY <1>2, <1>3, <1>8 DEF Within, p, q
<1>9. o \in SegmentsOf(T)
  <2>1. Step(a, s).state \in TracksOf(T)
    BY <1>1, StepSays
  <2> QED BY <2>1 DEF TracksOf
<1>10. \/ SaysNothing(a, s) /\ p = x.mem.points
       \/ SaysPoint(a, s) /\ Stamps(p) = Stamps(x.mem.points) \cup {s.ts}
       \/ Step(a, s).events # <<>> /\ ~SaysPoint(a, s) /\ Stamps(p) = {s.ts}
            /\ \E k : o = Opened(k, s)
  BY <1>1, <1>4, OpenPoints
<1>11. n # Null => \/ SaysNothing(b, s) /\ q = y.mem.points
                   \/ SaysPoint(b, s) /\ Stamps(q) = Stamps(y.mem.points) \cup {s.ts}
                   \/ Step(b, s).events # <<>> /\ ~SaysPoint(b, s) /\ Stamps(q) = {s.ts}
                        /\ \E k : n = Opened(k, s)
  BY <1>1, <1>5, OpenPoints
<1>12. CASE a.open = Null
  <2>1. n # Null /\ Alike(o, n) /\ n.start <= o.start /\ o.start = s.ts
    BY <1>1, <1>6, <1>12, BeginsAnyway
  <2>2. ~SaysPoint(a, s) /\ ~SaysNothing(a, s)
    BY <1>12 DEF SaysPoint, SaysNothing
  <2>3. Stamps(p) = {s.ts}
    BY <1>10, <2>2
  <2>4. \E k : o = Opened(k, s)
    BY <1>10, <2>2
  <2>5. n.last = s /\ n.paused = Null
    BY <2>1, <2>4 DEF Alike, Opened
  <2>6. ~SaysNothing(b, s)
    <3>1. ~ChargePauses(b.open, s, n)
      <4>1. s # Null
        BY SampleFields
      <4> QED BY <2>5, <4>1 DEF ChargePauses
    <3>2. Reasoned(b, s)
      BY <1>1, <1>6, StepWhy
    <3>3. b.open = Null => ~SaysNothing(b, s)
      BY <2>1 DEF SaysNothing
    <3> QED BY <3>1, <3>2, <3>3 DEF Reasoned
  <2>7. s.ts \in Stamps(q)
    BY <1>11, <2>1, <2>6
  <2> QED BY <2>1, <2>3, <2>7
<1>13. CASE a.open # Null
  <2>1. /\ Step(a, s).events = Step(b, s).events
        /\ \/ o = n
           \/ /\ o # Null /\ n # Null /\ Alike(o, n)
              /\ o.start = a.open.start /\ n.start = b.open.start
    BY <1>1, <1>6, <1>7, <1>13, AlikeStep
  <2>2. n # Null /\ Alike(o, n) /\ n.start <= o.start
    <3>1. o.start \in Nat
      BY <1>9 DEF SegmentsOf
    <3> HIDE DEF o, n
    <3> QED BY <1>7, <1>13, <2>1, <3>1 DEF Alike
  <2>3. SaysNothing(a, s) => SaysNothing(b, s) \/ SaysPoint(b, s)
    <3>1. SaysNothing(a, s) => Step(b, s).events = <<>>
      BY <2>1 DEF SaysNothing
    <3> QED BY <1>11, <2>2, <3>1
  <2>4. SaysPoint(a, s) => SaysPoint(b, s)
    <3>1. SaysPoint(a, s) => Step(b, s).events = <<Point(s)>>
      BY <2>1 DEF SaysPoint
    <3> QED BY <1>1, <3>1, PointTells
  <2>5. SaysNothing(b, s) => Step(a, s).events = <<>>
    BY <2>1 DEF SaysNothing
  <2>6. SaysPoint(b, s) => SaysPoint(a, s)
    <3>1. SaysPoint(b, s) => Step(a, s).events = <<Point(s)>>
      BY <2>1 DEF SaysPoint
    <3> QED BY <1>1, <3>1, PointTells
  <2>7. ~(SaysPoint(a, s) /\ SaysNothing(a, s)) /\ ~(SaysPoint(b, s) /\ SaysNothing(b, s))
    BY StartsApart
  <2>8. Stamps(p) \subseteq Stamps(q)
    <3>1. CASE SaysNothing(a, s) /\ p = x.mem.points
      <4>1. ~SaysPoint(b, s) /\ Step(b, s).events = <<>>
        <5>1. ~SaysPoint(b, s)
          BY <2>6, <2>7, <3>1
        <5>2. SaysNothing(b, s)
          BY <2>3, <3>1, <5>1
        <5> QED BY <5>1, <5>2 DEF SaysNothing
      <4> QED BY <1>7, <1>11, <1>13, <2>2, <3>1, <4>1
    <3>2. CASE SaysPoint(a, s) /\ Stamps(p) = Stamps(x.mem.points) \cup {s.ts}
      <4>1. SaysPoint(b, s) /\ ~SaysNothing(b, s)
        BY <2>4, <2>7, <3>2
      <4> QED BY <1>7, <1>11, <1>13, <2>2, <3>2, <4>1
    <3>3. CASE Step(a, s).events # <<>> /\ ~SaysPoint(a, s) /\ Stamps(p) = {s.ts}
      <4>1. ~SaysNothing(b, s) /\ ~SaysPoint(b, s)
        BY <2>5, <2>6, <3>3
      <4> QED BY <1>11, <2>2, <3>3, <4>1
    <3> QED BY <1>10, <3>1, <3>2, <3>3
  <2> QED BY <2>2, <2>8
<1> QED BY <1>12, <1>13

\* A rebuild writes its rows as the replay does.
Along(T, x, y) ==
  /\ Fits(T, x) /\ Linked(x.mem) /\ Sound(x.rows, x.mem) /\ Kepts(x.rows)
  /\ Fits(T, y) /\ Linked(y.mem) /\ x.mem.seg = y.mem.seg /\ x.mem.points = y.mem.points

LEMMA AlongStep ==
  ASSUME NEW T \in SUBSET Sample, NEW S \in SUBSET T, NEW x, NEW y, Along(T, x, y), NEW t
  PROVE  Along(T, At(x, S, t), At(y, S, t))
<1>1. CASE Due(S, t) = {}
  BY <1>1 DEF At
<1>2. CASE Due(S, t) # {}
  <2> DEFINE s == CHOOSE s \in Due(S, t) : TRUE
             v == ApplySample(x, s)
             u == ApplySample(y, s)
  <2>1. s \in T
    BY <1>2 DEF Due
  <2>2. At(x, S, t) = v /\ At(y, S, t) = u
    BY <1>2 DEF At
  <2> HIDE DEF s
  <2>3. /\ Fits(T, x) /\ Linked(x.mem) /\ Sound(x.rows, x.mem) /\ Kepts(x.rows)
        /\ Fits(T, y) /\ Linked(y.mem) /\ x.mem.seg = y.mem.seg /\ x.mem.points = y.mem.points
    BY DEF Along
  <2>4. Fits(T, v) /\ Linked(v.mem)
    BY <2>1, <2>3, SampleTrack
  <2>5. Fits(T, u) /\ Linked(u.mem)
    BY <2>1, <2>3, SampleTrack
  <2>6. Sound(v.rows, v.mem)
    BY <2>1, <2>3, SampleSound
  <2>7. v.mem.seg = u.mem.seg /\ v.mem.points = u.mem.points
    BY <2>1, <2>3, SameTrack
  <2>8. Grown(x.rows, v.rows, x.mem.id, s)
    BY <2>1, <2>3, SampleFrame
  <2> HIDE DEF v, u
  <2>9. Kepts(v.rows)
    BY <2>3, <2>8 DEF Kepts, Grown, Follows
  <2> QED BY <2>2, <2>4, <2>5, <2>6, <2>7, <2>9 DEF Along
<1> QED BY <1>1, <1>2

LEMMA RebuiltAlong ==
  ASSUME NEW T \in SUBSET Sample, NEW S \in SUBSET T, NEW q \in Seq(RowsOf(T)), Open(q) = {}, Kepts(q),
         NEW w, w = [rows |-> q, mem |-> Blank, ok |-> TRUE], NEW n \in Nat
  PROVE  Along(T, Upto(w, S, n), Dry(S, n))
<1> DEFINE K == {t \in Nat : Along(T, Upto(w, S, t), Dry(S, t))}
<1>1. Along(T, w, Fresh)
  <2>1. Blank \in MemoryOf(T) /\ Linked(Blank) /\ Blank.id = Null
    BY BlankIs
  <2>2. Fits(T, w) /\ w.rows = q /\ w.mem = Blank
    BY <2>1 DEF Fits, WorksOf
  <2>3. DryOk(T, -1, Fresh) /\ Fresh.mem = Blank
    BY FreshOk DEF Fresh
  <2>4. Fits(T, Fresh) /\ Linked(Fresh.mem)
    BY <2>3 DEF DryOk
  <2> QED BY <2>1, <2>2, <2>3, <2>4 DEF Along, Sound
<1>2. 0 \in K
  BY <1>1, AlongStep, UptoSteps DEF Dry
<1>3. ASSUME NEW t \in Nat, t \in K PROVE t + 1 \in K
  <2> DEFINE x == Upto(w, S, t)
             y == Dry(S, t)
  <2>1. Along(T, x, y) /\ t + 1 \in Nat
    BY <1>3
  <2>2. Upto(w, S, t + 1) = At(x, S, t + 1) /\ Dry(S, t + 1) = At(y, S, t + 1)
    BY UptoSteps DEF Dry
  <2> HIDE DEF x, y
  <2>3. Along(T, At(x, S, t + 1), At(y, S, t + 1))
    BY <2>1, AlongStep
  <2> QED BY <2>1, <2>2, <2>3
<1>4. \A t \in Nat : t \in K
  BY <1>2, <1>3, NatSetInduction
<1> QED BY <1>4

\* What is open after stamp n has begun by n.
LEMMA OpenStart ==
  ASSUME NEW T \in SUBSET Sample, NEW n, NEW x, DryOk(T, n, x), x.mem.seg.open # Null
  PROVE  x.mem.seg.open.start \in Nat /\ x.mem.seg.open.start <= n
<1> DEFINE r == x.rows[x.mem.id]
<1>1. Fits(T, x) /\ Linked(x.mem) /\ Sound(x.rows, x.mem)
  BY DEF DryOk
<1>2. x.mem.id \in DOMAIN x.rows /\ r.start = x.mem.seg.open.start
  BY <1>1 DEF Linked, Sound, Open
<1>3. r.start <= n
  BY <1>2 DEF DryOk
<1>4. x.rows \in Seq(RowsOf(T))
  BY <1>1, FitsParts
<1>5. r \in RowsOf(T)
  BY <1>2, <1>4, RowTyped
<1> HIDE DEF r
<1>6. r.start \in Nat
  BY <1>5, RowStart
<1> QED BY <1>2, <1>3, <1>6

\* A time of the replays of a part from some time on and of the whole.
LEMMA PartStep ==
  ASSUME NEW T \in SUBSET Sample, \A a, b \in T : a.ts = b.ts => a = b, NEW from \in Nat,
         NEW S, S = {s \in T : s.ts >= from}, NEW t \in Nat,
         NEW x, Fits(T, x), Linked(x.mem), NEW y, Fits(T, y), Linked(y.mem),
         x.mem.seg.lastTs # Null => x.mem.seg.lastTs \in Nat /\ x.mem.seg.lastTs <= t,
         y.mem.seg.lastTs # Null => y.mem.seg.lastTs \in Nat /\ y.mem.seg.lastTs <= t,
         y.mem.seg.open # Null => Tidy(y.mem.seg.open) /\ y.mem.seg.open.start <= t,
         Within(x.mem, y.mem), t <= from => x.mem.seg.open = Null,
         NEW v, v = At(x, S, t), NEW u, u = At(y, T, t)
  PROVE  /\ Within(v.mem, u.mem) /\ (u.mem.seg.open # Null => Tidy(u.mem.seg.open))
         /\ t < from => v.mem.seg.open = Null
<1>1. CASE Due(T, t) = {}
  <2>1. Due(S, t) = {}
    BY <1>1 DEF Due
  <2>2. v = x /\ u = y
    BY <1>1, <2>1 DEF At
  <2>3. t < from => t <= from
    OBVIOUS
  <2> QED BY <2>2, <2>3
<1>2. CASE Due(T, t) # {}
  <2>1. PICK s \in T : s.ts = t /\ Due(T, t) = {s}
    BY <1>2 DEF Due
  <2>2. u = ApplySample(y, s)
    BY <2>1 DEF At
  <2>3. /\ ~(x.mem.seg.lastTs # Null /\ s.ts < x.mem.seg.lastTs)
        /\ ~(y.mem.seg.lastTs # Null /\ s.ts < y.mem.seg.lastTs)
    BY <2>1
  <2>4. y.mem.seg \in TracksOf(T) /\ u.mem.seg = Step(y.mem.seg, s).state
    <3>1. y.mem.seg \in TracksOf(T)
      BY FitsParts
    <3>2. Fits(T, y) /\ Linked(y.mem) /\ s \in T
      BY <2>1
    <3>3. u.mem.seg = Step(y.mem.seg, s).state
      BY ONLY <2>2, <3>2, SampleTrack
    <3> QED BY <3>1, <3>3
  <2>5. u.mem.seg.open # Null => Tidy(u.mem.seg.open)
    <3> DEFINE a == y.mem.seg
               o == u.mem.seg.open
    <3>1. /\ a \in TracksOf(T) /\ ~(a.lastTs # Null /\ s.ts < a.lastTs) /\ s \in T
          /\ (a.open # Null => Tidy(a.open)) /\ o = Step(a, s).state.open
      BY <2>1, <2>3, <2>4
    <3> HIDE DEF a, o
    <3>2. o # Null => Tidy(o)
      BY <3>1, TidyStep
    <3> QED BY <3>2 DEF o
  <2>6. CASE t < from
    <3>1. Due(S, t) = {}
      BY <2>6 DEF Due
    <3>2. v = x /\ x.mem.seg.open = Null
      BY <2>6, <3>1 DEF At
    <3> QED BY <2>5, <3>2 DEF Within
  <2>7. CASE ~(t < from)
    <3>1. Due(S, t) = {s}
      <4>1. t >= from
        BY <2>7
      <4> QED BY <2>1, <4>1 DEF Due
    <3>2. v = ApplySample(x, s)
      BY <3>1 DEF At
    <3>3. y.mem.seg.open # Null => Tidy(y.mem.seg.open) /\ y.mem.seg.open.start <= s.ts
      BY <2>1
    <3>4. Within(v.mem, u.mem)
      BY <2>1, <2>2, <2>3, <3>2, <3>3, WithinStep
    <3> QED BY <2>5, <2>7, <3>4
  <2> QED BY <2>6, <2>7
<1> QED BY <1>1, <1>2

\* A replay of part of the tape has no other session at its end than the replay of the tape has,
\* and no more of it.
LEMMA PartWithin ==
  ASSUME NEW T \in SUBSET Sample, \A a, b \in T : a.ts = b.ts => a = b, NEW from \in Nat,
         NEW S, S = {s \in T : s.ts >= from}, NEW n \in Nat
  PROVE  Within(Dry(S, n).mem, Dry(T, n).mem)
<1> DEFINE X(t) == Dry(S, t)
           Y(t) == Dry(T, t)
           Good(t) == /\ Within(X(t).mem, Y(t).mem)
                      /\ Y(t).mem.seg.open # Null => Tidy(Y(t).mem.seg.open)
                      /\ t < from => X(t).mem.seg.open = Null
           K == {t \in Nat : Good(t)}
<1>1. S \in SUBSET T /\ S \in SUBSET Sample /\ \A a, b \in S : a.ts = b.ts => a = b
  OBVIOUS
<1>2. ASSUME NEW t \in Nat
      PROVE  Fits(T, X(t)) /\ DryOk(S, t, X(t)) /\ DryOk(T, t, Y(t))
  <2>1. <<>> \in Seq(RowsOf(T)) /\ Open(<<>>) = {} /\ Kepts(<<>>)
    BY DEF Open, Kepts
  <2>2. Along(T, Upto(Fresh, S, t), Dry(S, t))
    BY <1>1, <2>1, RebuiltAlong DEF Fresh
  <2> QED BY <1>1, <1>2, <2>2, DryIsOk DEF Along
<1>3. 0 \in K
  <2>1. DryOk(T, -1, Fresh) /\ Fresh.mem.seg.lastTs = Null /\ Fresh.mem.seg.open = Null
    BY FreshOk DEF Fresh, Blank, NoSegment
  <2>2. Fits(T, Fresh) /\ Linked(Fresh.mem)
    BY <2>1 DEF DryOk
  <2>3. Within(Fresh.mem, Fresh.mem)
    BY <2>1 DEF Within
  <2>4. X(0) = At(Fresh, S, 0) /\ Y(0) = At(Fresh, T, 0)
    BY UptoSteps DEF Dry
  <2> DEFINE x == Fresh
             v == X(0)
             u == Y(0)
  <2>5. /\ Fits(T, x) /\ Linked(x.mem) /\ Within(x.mem, x.mem)
        /\ x.mem.seg.lastTs = Null /\ x.mem.seg.open = Null
        /\ v = At(x, S, 0) /\ u = At(x, T, 0)
    BY <2>1, <2>2, <2>3, <2>4
  <2> HIDE DEF x, v, u
  <2>6. /\ Within(v.mem, u.mem) /\ (u.mem.seg.open # Null => Tidy(u.mem.seg.open))
        /\ 0 < from => v.mem.seg.open = Null
    BY <2>5, PartStep
  <2> QED BY <2>6 DEF u, v
<1>4. ASSUME NEW t \in Nat, t \in K PROVE t + 1 \in K
  <2> DEFINE x == X(t)
             y == Y(t)
             m == t + 1
  <2>1. X(m) = At(x, S, m) /\ Y(m) = At(y, T, m)
    BY UptoSteps DEF Dry
  <2>2. Fits(T, x) /\ DryOk(S, t, x) /\ DryOk(T, t, y) /\ Good(t) /\ m \in Nat
    BY <1>2, <1>4
  <2> HIDE DEF X, Y
  <2>3. Fits(T, x) /\ Linked(x.mem) /\ Fits(T, y) /\ Linked(y.mem) /\ Sound(y.rows, y.mem)
    BY <2>2 DEF DryOk
  <2>4. /\ x.mem.seg.lastTs # Null => x.mem.seg.lastTs \in Nat /\ x.mem.seg.lastTs <= m
        /\ y.mem.seg.lastTs # Null => y.mem.seg.lastTs \in Nat /\ y.mem.seg.lastTs <= m
    <3>1. /\ x.mem.seg.lastTs # Null => x.mem.seg.lastTs \in Nat /\ x.mem.seg.lastTs <= t
          /\ y.mem.seg.lastTs # Null => y.mem.seg.lastTs \in Nat /\ y.mem.seg.lastTs <= t
      BY <2>2 DEF DryOk
    <3> QED BY <3>1
  <2>5. y.mem.seg.open # Null => y.mem.seg.open.start <= m
    <3>1. y.mem.seg.open # Null => y.mem.seg.open.start \in Nat /\ y.mem.seg.open.start <= t
      BY <2>2, OpenStart
    <3> QED BY <3>1
  <2>6. m <= from => x.mem.seg.open = Null
    <3>1. m <= from => t < from
      OBVIOUS
    <3> QED BY <2>2, <3>1
  <2>7. Within(x.mem, y.mem) /\ (y.mem.seg.open # Null => Tidy(y.mem.seg.open))
    BY <2>2
  <2> HIDE DEF x, y
  <2>8. m \in Nat
    OBVIOUS
  <2> DEFINE v == X(m)
             u == Y(m)
  <2>9. v = At(x, S, m) /\ u = At(y, T, m)
    BY <2>1
  <2>10. y.mem.seg.open # Null => Tidy(y.mem.seg.open) /\ y.mem.seg.open.start <= m
    BY <2>5, <2>7
  <2> HIDE DEF m, v, u
  <2>11. /\ Within(v.mem, u.mem) /\ (u.mem.seg.open # Null => Tidy(u.mem.seg.open))
         /\ m < from => v.mem.seg.open = Null
    BY <2>3, <2>4, <2>6, <2>7, <2>8, <2>9, <2>10, PartStep
  <2>12. m \in K
    BY <2>8, <2>11 DEF u, v
  <2> QED BY <2>12 DEF m
<1>5. \A t \in Nat : t \in K
  BY <1>3, <1>4, NatSetInduction
<1> QED BY <1>5

\* A row that begins while the replay's last session runs stands for that one.
LEMMA MatchIsRunning ==
  ASSUME NEW c, Taped(c), NEW p, p = Dry(tape, c), p.mem.id # Null,
         NEW row \in RowsOf(tape), row.kind = p.mem.seg.open.kind,
         p.mem.seg.open.start <= row.start
  PROVE  MatchFor(p.rows, row) = p.mem.id
<1> DEFINE q == p.rows
           j == p.mem.id
           m == MatchFor(q, row)
<1>1. tape \in SUBSET Sample /\ c \in Nat /\ \A a, b \in tape : a.ts = b.ts => a = b
  BY DEF Taped
<1>2. DryOk(tape, c, p)
  BY <1>1, DryIsOk
<1>3. Sound(q, p.mem) /\ q \in Seq(RowsOf(tape))
  BY <1>2, FitsParts DEF DryOk
<1>4. j \in Open(q) /\ q[j].kind = row.kind /\ q[j].start <= row.start
  BY <1>3 DEF Sound
<1>5. \A i \in DOMAIN q : q[i].start <= q[j].start
  BY <1>1, CutHolds DEF Cut
<1>6. row.start \in Nat /\ \A i \in DOMAIN q : q[i].start \in Nat
  <2>1. \A i \in DOMAIN q : q[i] \in RowsOf(tape)
    BY <1>3, RowTyped
  <2> QED BY <1>1, <2>1, RowStart
<1>7. j \in Fit(q, row)
  <2>1. j \in DOMAIN q /\ q[j].status = "open"
    BY <1>4 DEF Open
  <2>2. q[j].start - Slack <= row.start
    <3>1. q[j].start \in Nat /\ Slack \in Nat /\ q[j].start <= row.start /\ row.start \in Nat
      BY <1>4, <1>6, <2>1, SessionsAssumption
    <3> HIDE DEF q, j
    <3> QED BY <3>1
  <2> QED BY <1>4, <2>1, <2>2 DEF Fit
<1>8. m \in DOMAIN q /\ Distance(q[m].start, row.start) <= Distance(q[j].start, row.start)
  <2> HIDE DEF q, j, m
  <2> QED BY <1>1, <1>3, <1>7, MatchIs DEF m
<1>9. q[m].start = q[j].start
  <2> DEFINE a == q[m].start
             b == q[j].start
             n == row.start
  <2>1. a \in Nat /\ b \in Nat /\ n \in Nat /\ a <= b /\ b <= n /\ Distance(a, n) <= Distance(b, n)
    <3>1. j \in DOMAIN q
      BY <1>4 DEF Open
    <3> HIDE DEF m, q, j
    <3> QED BY <1>4, <1>5, <1>6, <1>8, <3>1
  <2> HIDE DEF a, b, n
  <2>2. a = b
    BY <2>1 DEF Distance
  <2> QED BY <2>2 DEF a, b
<1>10. j \in DOMAIN q
  BY <1>4 DEF Open
<1> HIDE DEF m
<1> QED BY <1>2, <1>8, <1>9, <1>10 DEF DryOk, m

\* What a rebuild from some time on leaves open, the restart carries on.
LEMMA PartMeets ==
  ASSUME NEW c, Taped(c), NEW from \in Nat, NEW S, S = {s \in tape : s.ts >= from},
         NEW q \in Seq(RowsOf(tape)), Open(q) = {}, Kepts(q),
         NEW w, w = [rows |-> q, mem |-> Blank, ok |-> TRUE], NEW x, x = Upto(w, S, c)
  PROVE  Meets(tape, x.rows, c)
<1> DEFINE p == Dry(tape, c)
           z == Dry(S, c)
           j == p.mem.id
<1>1. tape \in SUBSET Sample /\ c \in Nat /\ \A a, b \in tape : a.ts = b.ts => a = b
  BY DEF Taped
<1>2. S \in SUBSET tape
  OBVIOUS
<1>3. Along(tape, x, z)
  BY <1>1, <1>2, RebuiltAlong
<1>4. /\ Fits(tape, x) /\ Linked(x.mem) /\ Sound(x.rows, x.mem)
      /\ x.mem.seg = z.mem.seg /\ x.mem.points = z.mem.points
  BY <1>3 DEF Along
<1>5. Within(z.mem, p.mem)
  BY <1>1, PartWithin
<1>6. DryOk(tape, c, p)
  BY <1>1, DryIsOk
<1>7. Linked(p.mem) /\ Sound(p.rows, p.mem)
  BY <1>6 DEF DryOk
<1> HIDE DEF z
<1>8. ASSUME NEW i \in Open(x.rows)
      PROVE  /\ j \in DOMAIN p.rows /\ MatchFor(p.rows, x.rows[i]) = j
             /\ p.rows[j].kind = x.rows[i].kind /\ p.rows[j].start <= x.rows[i].start
             /\ x.rows[i].points \subseteq p.rows[j].points
  <2> DEFINE y == x.rows[i]
  <2>1. i = x.mem.id /\ i # Null /\ y.kind = x.mem.seg.open.kind /\ y.start = x.mem.seg.open.start
        /\ y.points = Stamps(x.mem.points)
    BY <1>4, <1>8 DEF Sound
  <2>2. z.mem.seg.open # Null /\ y.kind = z.mem.seg.open.kind /\ y.start = z.mem.seg.open.start
        /\ y.points = Stamps(z.mem.points)
    BY <1>4, <2>1 DEF Linked
  <2>3. /\ p.mem.seg.open # Null /\ p.mem.seg.open.kind = y.kind
        /\ p.mem.seg.open.start <= y.start /\ y.points \subseteq Stamps(p.mem.points)
    <3> HIDE DEF p, y
    <3> QED BY <1>5, <2>2 DEF Within, Alike
  <2>4. y \in RowsOf(tape)
    <3>1. x.rows \in Seq(RowsOf(tape)) /\ i \in DOMAIN x.rows
      BY <1>4, <1>8, FitsParts DEF Open
    <3> QED BY <3>1, RowTyped
  <2> HIDE DEF p, y
  <2>5. j # Null /\ j \in DOMAIN p.rows /\ p.rows[j].kind = p.mem.seg.open.kind
        /\ p.rows[j].start = p.mem.seg.open.start /\ p.rows[j].points = Stamps(p.mem.points)
    BY <1>7, <2>3 DEF Linked, Sound, Open
  <2>6. MatchFor(p.rows, y) = j
    <3>1. p = Dry(tape, c) /\ p.mem.id # Null /\ y.kind = p.mem.seg.open.kind
      BY <2>3, <2>5 DEF p
    <3> HIDE DEF j
    <3> QED BY <2>3, <2>4, <3>1, MatchIsRunning DEF j
  <2> QED BY <2>3, <2>5, <2>6 DEF y
<1>9. \A i, k \in Open(x.rows) : i = k
  BY <1>4 DEF Sound
<1> HIDE DEF j
<1> QED BY <1>8, <1>9 DEF Meets

-----------------------------------------------------------------------------
(* The rows and the memory belong together.                                *)

\* Unless something has set them apart: no row is given up; while a worker runs, tape, rows and
\* memory belong together; while none does, the replay has the session of the row that is open.
Together ==
  Clean =>
    /\ Kepts(rows)
    /\ mem = Null =>
         Meets(tape, rows, clock) /\ (astray = {} => Waiting(tape, rows, clock))
    /\ mem # Null => Agreed(tape, owed, rows, mem, pending, clock) /\ (~ahead => Sound(rows, mem))

LEMMA TypedGives ==
  ASSUME Typed
  PROVE  /\ tape \in SUBSET Sample /\ \A a, b \in tape : a.ts = b.ts => a = b
         /\ clock \in Nat /\ \A d \in tape : d.ts \in Nat /\ d.ts <= clock
         /\ \A n \in StampsOf(tape) : n <= clock
         /\ rows \in Seq(RowsOf(tape)) /\ pending \in tape \cup {Null}
         /\ mem # Null => Holds(tape, rows, mem) /\ mem.seg.lastTs \in Nat \cup {Null}
BY SampleFields, NewestIs DEF Typed, StampsApart, StampsOf, Holds

LEMMA EmitsTogether ==
  ASSUME Typed, Together, Clean, mem # Null, NEW v, v = Emitted
  PROVE  Written(tape, owed, rows, mem, pending, clock, v)
<1>1. v = Writes(rows, mem, pending)
  BY DEF Emitted, Writes
<1>2. Kepts(rows) /\ Agreed(tape, owed, rows, mem, pending, clock)
  BY DEF Together
<1> DEFINE T == tape
           O == owed
           q == rows
           m == mem
           s == pending
           c == clock
<1>3. T \in SUBSET Sample /\ (\A a, b \in T : a.ts = b.ts => a = b) /\ c \in Nat
      /\ (\A d \in T : d.ts <= c) /\ q \in Seq(RowsOf(T)) /\ Holds(T, q, m) /\ s \in T \cup {Null}
  BY TypedGives
<1>4. Kepts(q) /\ Agreed(T, O, q, m, s, c) /\ v = Writes(q, m, s)
  BY <1>1, <1>2
<1> HIDE DEF T, O, q, m, s, c
<1>5. Written(T, O, q, m, s, c, v)
  BY <1>3, <1>4, AgreedWrites
<1> QED BY <1>5 DEF T, O, q, m, s, c

\* With a longer tape.
LEMMA RightMore ==
  ASSUME NEW T, NEW U, T \subseteq U, NEW q, NEW m, NEW s, Right(T, q, m, s)
  PROVE  Right(U, q, m, s)
<1>1. Seq(RowsOf(T)) \subseteq Seq(RowsOf(U))
  BY MoreSamples
<1> QED BY <1>1 DEF Right, Redone

\* By message m, whatever becomes of it.
LEMMA HandleTogether ==
  ASSUME Typed, Together, Clean, Clean', mem # Null, mem' # Null, NEW m \in Sample,
         NEW was \in owed \cup {m}, was # m => m \notin tape, Handle(m, was), clock' \in Nat, clock <= clock', StampsApart(tape \cup owed \cup {m}, clock')
  PROVE  Together'
<1> DEFINE v == Emitted
           T == tape
           U == tape \cup {m}
           n == mem.seg.lastTs
           l == v.mem.seg.lastTs
<1>1. Written(tape, owed, rows, mem, pending, clock, v)
  BY EmitsTogether
<1>2. /\ Fits(T, v) /\ Linked(v.mem) /\ l \in Nat \cup {Null}
      /\ Sound(v.rows, v.mem) /\ Tracks(T, v.mem) /\ Kepts(v.rows)
      /\ l = (IF pending = Null THEN n ELSE pending.ts)
      /\ (l # Null => l <= clock)
      /\ (\A d \in T : Newer(d, l) => d \in owed)
      /\ v.rows \in Seq(RowsOf(T)) /\ Right(T, v.rows, mem, pending)
  BY <1>1 DEF Written
<1> HIDE DEF v
<1>3. T \in SUBSET Sample /\ U \in SUBSET Sample /\ T \subseteq U /\ clock \in Nat /\ m.ts \in Nat
      /\ n \in Nat \cup {Null}
  BY TypedGives, SampleFields
<1>4. Kepts(rows) /\ Tracks(T, mem) /\ Ordered(T, owed, n, pending)
      /\ Right(T, rows, mem, pending) /\ (n # Null => n <= clock) /\ (~ahead => Sound(rows, mem))
  BY DEF Together, Agreed
<1>5. pending # Null => pending \in T /\ Newer(pending, n) /\ pending.ts \in Nat
  BY <1>3, <1>4, SampleFields DEF Ordered
<1>6. ~Known(m) => Newer(m, l) /\ Newer(m, n) /\ (pending # Null => pending.ts < m.ts)
  BY <1>2, <1>3, <1>5, SampleFields DEF Known, Newer
<1>7. \A k \in Nat : k <= clock => k <= clock'
  BY <1>3
<1>8. \A d \in U \ T : d = m
  OBVIOUS
<1> SUFFICES Kepts(rows') /\ Agreed(tape', owed', rows', mem', pending', clock')
             /\ (~ahead' => Sound(rows', mem'))
  BY DEF Together
<1>9. ASSUME HandleCommits(m, was), owed \ {was} \subseteq owed'
      PROVE  Kepts(rows') /\ Agreed(tape', owed', rows', mem', pending', clock')
             /\ (~ahead' => Sound(rows', mem'))
  <2>1. CASE Known(m)
    <3>1. m \in T /\ tape' = T /\ UNCHANGED <<rows, mem, pending, ahead>>
      BY <1>9, <2>1 DEF HandleCommits, Clean
    <3>2. \A d \in T : Newer(d, n) => d = pending \/ d # m
      BY <1>3, <1>4, <1>5, <2>1, SampleFields DEF Ordered, Known, Newer
    <3>3. Ordered(T, owed', n, pending)
      BY <1>4, <1>9, <3>1, <3>2 DEF Ordered
    <3> QED BY <1>3, <1>4, <1>7, <1>9, <3>1, <3>3 DEF Agreed
  <2>2. CASE ~Known(m)
    <3>1. /\ tape' = U /\ rows' = v.rows /\ mem' = v.mem /\ pending' = m
          /\ ~\E o \in owed \ {was} : o.ts < m.ts /\ (scenario.restamps => o \in tape /\ ~Known(o))
          /\ was = m \/ was \notin tape
      BY <1>9, <2>2 DEF HandleCommits, Clean, v, Overtakes, Doubles
    <3>2. Tracks(U, v.mem)
      <4>1. \A d \in U \ T : Newer(d, l)
        BY <1>6, <1>8, <2>2
      <4> HIDE DEF T, U
      <4> QED BY <1>2, <1>3, <4>1, TracksMore
    <3>3. Ordered(U, owed', l, m)
      <4>1. ASSUME NEW d \in U, Newer(d, l), d # m PROVE d \in owed' /\ m.ts < d.ts
        <5>1. d \in T /\ d \in owed /\ d # was /\ d \in owed'
          BY <1>2, <1>9, <3>1, <4>1
        <5>3. ~Known(d)
          BY <1>2, <1>3, <1>5, <4>1, <5>1, SampleFields DEF Known, Newer
        <5>2. d.ts \in Nat /\ d.ts # m.ts /\ ~(d.ts < m.ts)
          BY <3>1, <4>1, <5>1, <5>3, SampleFields DEF StampsApart, Typed
        <5> QED BY <1>3, <4>1, <5>1, <5>2
      <4> QED BY <1>6, <2>2, <4>1 DEF Ordered
    <3> HIDE DEF T, U
    <3> QED BY <1>2, <1>7, <1>9, <3>1, <3>2, <3>3 DEF Agreed, Right
  <2> QED BY <2>1, <2>2
<1>10. CASE HandleFails(m, was)
  <2>1. tape' = T /\ owed \subseteq owed' /\ UNCHANGED <<rows, mem, pending, ahead>>
    BY <1>10 DEF HandleFails, database
  <2>2. Ordered(T, owed', n, pending)
    BY <1>4, <2>1 DEF Ordered
  <2> QED BY <1>3, <1>4, <1>7, <2>1, <2>2 DEF Agreed
<1>11. CASE HandleUnanswered(m, was)
  <2>1. /\ tape' = U /\ owed' = (owed \ {was}) \cup {m} /\ rows' = v.rows /\ ~Known(m)
        /\ mem' = mem /\ pending' = pending /\ ahead' /\ (was = m \/ was \notin tape)
    BY <1>11 DEF HandleUnanswered, v, Clean, Doubles
  <2>2. Tracks(U, mem)
    <3>1. \A d \in U \ T : Newer(d, n)
      BY <1>6, <1>8, <2>1
    <3> HIDE DEF T, U
    <3> QED BY <1>3, <1>4, <3>1, TracksMore
  <2>3. Ordered(U, owed', n, pending)
    BY <1>4, <1>6, <2>1 DEF Ordered
  <2>4. Right(U, v.rows, mem, pending)
    <3> HIDE DEF T, U
    <3> QED BY <1>2, <1>3, RightMore
  <2> HIDE DEF T, U
  <2> QED BY <1>2, <1>3, <1>4, <1>7, <2>1, <2>2, <2>3, <2>4 DEF Agreed
<1> QED BY <1>9, <1>10, <1>11 DEF Handle, Handled

LEMMA MessageTogether ==
  ASSUME Typed, Unclosed, Together, Clean, Clean',
         NEW reading \in scenario.readings, NEW d \in scenario.steps, Message(reading, d)
  PROVE  Together'
<1> DEFINE m == Stamped(reading, clock + d)
<1>1. clock \in Nat /\ d \in Nat /\ d >= 1 /\ clock + d \in Nat /\ reading \in Reading
  <2>1. clock \in Nat
    BY DEF Typed
  <2>2. d \in Nat /\ d >= 1 /\ reading \in Reading
    BY ScenarioIs
  <2> QED BY <2>1, <2>2
<1>2. m \in Sample /\ m.ts = clock + d
  BY <1>1, StampedIs
<1>3. mem # Null /\ Handle(m, m) /\ clock' = clock + d
  BY DEF Message
<1>4. \A s \in tape \cup owed : s.ts \in Nat /\ s.ts <= clock
  BY SampleFields DEF Typed, StampsApart
<1> HIDE DEF m
<1>5. StampsApart(tape \cup owed \cup {m}, clock + d)
  <2>1. \A s \in tape \cup owed : s.ts # m.ts
    BY <1>1, <1>2, <1>4
  <2>2. \A s \in tape \cup owed \cup {m} : s.ts <= clock + d /\ clock + d >= 1
    BY <1>1, <1>2, <1>4
  <2>3. \A a, b \in tape \cup owed : a.ts = b.ts => a = b
    BY DEF Typed, StampsApart
  <2> QED BY <2>1, <2>2, <2>3 DEF StampsApart
<1>6. mem' # Null
  BY <1>2, <1>3, HandleDoes DEF Landed
<1>7. clock' \in Nat /\ clock <= clock' /\ StampsApart(tape \cup owed \cup {m}, clock')
  BY <1>1, <1>3, <1>5
<1> QED BY <1>2, <1>3, <1>6, <1>7, HandleTogether

LEMMA RedeliverTogether ==
  ASSUME Typed, Unclosed, Together, Clean, Clean', NEW m \in owed, Redeliver(m)
  PROVE  Together'
<1>1. m \in Sample /\ tape \cup owed \cup {m} = tape \cup owed /\ clock \in Nat
  BY DEF Typed
<1>2. mem # Null /\ Handle(m, m) /\ clock' = clock
  BY DEF Redeliver, world
<1>3. mem' # Null
  BY <1>1, <1>2, HandleDoes DEF Landed
<1>4. StampsApart(tape \cup owed \cup {m}, clock')
  BY <1>1, <1>2 DEF Typed
<1>5. clock' \in Nat /\ clock <= clock'
  BY <1>1, <1>2
<1> QED BY <1>1, <1>2, <1>3, <1>4, <1>5, HandleTogether

LEMMA RedeliverRestampedTogether ==
  ASSUME Typed, Unclosed, Together, Clean, Clean', NEW o \in owed, NEW d \in scenario.steps,
         RedeliverRestamped(o, d)
  PROVE  Together'
<1> DEFINE m == [o EXCEPT !.ts = clock + d]
<1>1. mem # Null /\ Handle(m, o) /\ clock' = clock + d
  BY DEF RedeliverRestamped
<1> HIDE DEF m
<1>2. m \in Sample /\ m \notin tape /\ clock + d \in Nat /\ clock <= clock + d
      /\ StampsApart(tape \cup owed \cup {m}, clock + d)
  BY RestampedIs DEF m
<1>3. mem' # Null
  BY <1>1, <1>2, HandleDoes DEF Landed
<1> QED BY <1>1, <1>2, <1>3, HandleTogether

LEMMA FlushTogether ==
  ASSUME Typed, Unclosed, Together, Clean, Flush
  PROVE  Together'
<1> DEFINE v == Emitted
           T == tape
           n == mem.seg.lastTs
           l == v.mem.seg.lastTs
<1>1. mem # Null /\ pending # Null /\ v.mem # Null
  BY EmittedDoes DEF Flush, Emits
<1>2. Written(tape, owed, rows, mem, pending, clock, v)
  BY <1>1, EmitsTogether
<1>3. /\ Sound(v.rows, v.mem) /\ Tracks(T, v.mem) /\ Kepts(v.rows)
      /\ (l # Null => l <= clock) /\ (\A d \in T : Newer(d, l) => d \in owed)
      /\ Right(T, v.rows, mem, pending)
  BY <1>2 DEF Written
<1>4. /\ rows' = v.rows /\ UNCHANGED <<clock, owed, tape>>
      /\ \/ mem' = v.mem /\ pending' = Null
         \/ mem' = mem /\ pending' = pending /\ ahead'
  BY DEF Flush, world
<1> HIDE DEF v
<1>5. Tracks(T, mem) /\ Ordered(T, owed, n, pending) /\ (n # Null => n <= clock)
  BY <1>1 DEF Together, Agreed
<1>6. CASE mem' = v.mem /\ pending' = Null
  <2>1. Ordered(T, owed, l, Null)
    BY <1>3 DEF Ordered
  <2> QED BY <1>1, <1>3, <1>4, <1>6, <2>1 DEF Together, Agreed, Right
<1>7. CASE mem' = mem /\ pending' = pending /\ ahead'
  BY <1>1, <1>3, <1>4, <1>5, <1>7 DEF Together, Agreed
<1> QED BY <1>4, <1>6, <1>7

\* The rows that an end of the process leaves, with or without an unanswered COMMIT before it.
LEMMA DiesTogether ==
  ASSUME Typed, Together, Clean, Dies
  PROVE  Together'
<1> DEFINE T == tape
           q == rows
           c == clock
<1>1. mem # Null /\ mem' = Null /\ UNCHANGED <<clock, tape, rows>>
  BY DEF Dies, world, database
<1>2. Kepts(q) /\ Agreed(T, owed, q, mem, pending, c)
  BY <1>1 DEF Together
<1>3. /\ T \in SUBSET Sample /\ (\A a, b \in T : a.ts = b.ts => a = b) /\ c \in Nat
      /\ q \in Seq(RowsOf(T)) /\ pending \in T \cup {Null} /\ Holds(T, q, mem)
      /\ mem.seg.lastTs \in Nat \cup {Null}
  BY <1>1, TypedGives
<1>4. Waiting(T, q, c)
  <2>1. CASE Sound(q, mem)
    <3> DEFINE m == mem
    <3>1. Linked(m) /\ m.seg.lastTs \in Nat \cup {Null} /\ (m.seg.lastTs # Null => m.seg.lastTs <= c)
          /\ Sound(q, m) /\ Tracks(T, m)
      BY <1>2, <1>3, <2>1 DEF Agreed, Holds
    <3> HIDE DEF T, q, c, m
    <3> QED BY <1>3, <3>1, RightWaits
  <2>2. CASE ~Sound(q, mem)
    <3> DEFINE v == Emitted
    <3>1. Written(T, owed, q, mem, pending, c, v)
      BY <1>1, EmitsTogether
    <3> DEFINE m == v.mem
    <3>2. Linked(m) /\ m.seg.lastTs \in Nat \cup {Null} /\ (m.seg.lastTs # Null => m.seg.lastTs <= c)
          /\ Sound(q, m) /\ Tracks(T, m)
      BY <2>2, <3>1 DEF Written
    <3> HIDE DEF T, q, c, v, m
    <3> QED BY <1>3, <3>2, RightWaits
  <2> QED BY <2>1, <2>2
<1>5. Meets(T, q, c)
  <2>1. \A n \in StampsOf(T) : n <= c
    BY TypedGives
  <2> HIDE DEF T, q, c
  <2> QED BY <1>3, <1>4, <2>1, WaitingMeets
<1> QED BY <1>1, <1>2, <1>4, <1>5 DEF Together

LEMMA ResumeWarmTogether ==
  ASSUME Typed, Unclosed, Together, Clean, ResumeWarm
  PROVE  Together'
<1> DEFINE T == tape
           c == clock
           p == Replay
           w == Reconciled(p)
           m == [p.mem EXCEPT !.id = w.id]
           l == p.mem.seg.lastTs
<1>1. /\ mem = Null /\ rows' = w.rows /\ mem' = m /\ UNCHANGED <<clock, owed, tape, pending>>
  BY DEF ResumeWarm, world
<1>2. pending = Null
  BY <1>1 DEF Typed
<1>3. m # Null
  BY RestartDoes
<1>4. /\ T \in SUBSET Sample /\ (\A a, b \in T : a.ts = b.ts => a = b) /\ c \in Nat
      /\ (\A n \in StampsOf(T) : n <= c) /\ (\A d \in T : d.ts \in Nat /\ d.ts <= c)
      /\ rows \in Seq(RowsOf(T))
  BY TypedGives
<1>5. p = Dry(T, c)
  BY ApplyAllIs DEF Replay, Dry, Fresh
<1>6. Kepts(rows) /\ Meets(T, rows, c)
  BY <1>1 DEF Together
<1> HIDE DEF T, c, p
<1>7. Sound(w.rows, m) /\ Kepts(w.rows)
  <2> HIDE DEF w, m
  <2> QED BY <1>4, <1>5, <1>6, ReconciledSound DEF w, m
<1>8. DryOk(T, c, p)
  BY <1>4, <1>5, DryIsOk
<1> HIDE DEF w
<1>9. m.seg = p.mem.seg /\ m.points = p.mem.points
  <2>1. p.mem = [seg |-> p.mem.seg, id |-> p.mem.id, points |-> p.mem.points]
    BY <1>8, FitsParts DEF DryOk
  <2> QED BY <2>1
<1> HIDE DEF m
<1>10. DryAt(T, l) = p /\ (l # Null => l <= c) /\ \A d \in T : ~Newer(d, l)
  <2>1. CASE l = Null
    <3>1. p = Fresh /\ \A s \in T : c < s.ts
      BY <1>8, <2>1 DEF DryOk
    <3>2. T = {}
      BY <1>4, <3>1
    <3> QED BY <2>1, <3>1, <3>2 DEF DryAt
  <2>2. CASE l # Null
    <3>1. l \in Nat /\ l <= c /\ \A s \in T : s.ts <= l \/ c < s.ts
      BY <1>8, <2>2 DEF DryOk
    <3>2. \A s \in T : ~(l < s.ts /\ s.ts <= c)
      BY <1>4, <3>1
    <3> HIDE DEF l
    <3>3. Dry(T, c) = Dry(T, l)
      BY <1>4, <3>1, <3>2, UptoQuiet DEF Dry
    <3>4. \A d \in T : ~Newer(d, l)
      BY <1>4, <2>2, <3>1 DEF Newer
    <3> QED BY <1>5, <2>2, <3>1, <3>3, <3>4 DEF DryAt
  <2> QED BY <2>1, <2>2
<1>11. Tracks(T, m) /\ Ordered(T, owed, m.seg.lastTs, Null) /\ (m.seg.lastTs # Null => m.seg.lastTs <= c)
  BY <1>9, <1>10 DEF Tracks, Ordered
<1>12. Agreed(T, owed, w.rows, m, Null, c)
  BY <1>7, <1>11 DEF Agreed, Right
<1> QED BY <1>1, <1>2, <1>3, <1>7, <1>12 DEF Together, T, c

\* A rebuild up to the end of the tape is of all there is from --from on.
LEMMA WindowIs ==
  ASSUME Typed, NEW from, NEW to, <<from, to>> \in Window, ~Beyond(to)
  PROVE  /\ from \in Nat
         /\ {s \in tape : s.ts \in from..to - 1} = {s \in tape : s.ts >= from}
         /\ {s \in samples : s.ts \notin from..to - 1} = {s \in samples : s.ts < from}
         /\ \A i \in DOMAIN rows : rows[i].start \in from..to - 1 <=> rows[i].start >= from
<1>1. /\ tape \in SUBSET Sample /\ clock \in Nat /\ \A d \in tape : d.ts \in Nat /\ d.ts <= clock
      /\ rows \in Seq(RowsOf(tape)) /\ samples \in SUBSET tape
  BY TypedGives DEF Typed
<1>2. from \in Nat /\ to \in Nat
  BY <1>1 DEF Window
<1>3. \A d \in tape : d.ts < to
  BY <1>1, <1>2 DEF Beyond
<1>4. \A d \in tape : d.ts \in from..to - 1 <=> d.ts >= from
  BY <1>1, <1>2, <1>3
<1>5. \A d \in tape : d.ts \notin from..to - 1 <=> d.ts < from
  BY <1>1, <1>2, <1>4
<1>6. ASSUME NEW i \in DOMAIN rows
      PROVE  rows[i].start \in from..to - 1 <=> rows[i].start >= from
  <2>1. rows[i] \in RowsOf(tape)
    BY <1>1, RowTyped
  <2>2. rows[i].start \in StampsOf(tape)
    BY <2>1 DEF RowsOf
  <2>3. PICK d \in tape : d.ts = rows[i].start
    BY <2>2 DEF StampsOf
  <2> QED BY <1>4, <2>3
<1> QED BY <1>1, <1>2, <1>4, <1>5, <1>6

\* What a rebuild that sets nothing apart does.
RebuildDoes(from, q, S, X) ==
  /\ mem = Null /\ UNCHANGED <<clock, tape, mem>> /\ from \in Nat
  /\ from = 0 \/ Clean
  /\ astray' = {} => from = 0
  /\ rows' = ApplyAll([rows |-> q, mem |-> Blank, ok |-> TRUE], S).rows
  /\ samples' = X \cup S
  /\ q \in Seq(RowsOf(tape)) /\ DOMAIN q = DOMAIN rows
  /\ \A i \in DOMAIN rows : /\ q[i].status # "open"
                            /\ q[i] = rows[i] \/ q[i].status = "gone"
                            /\ ~(rows[i].start >= from) => q[i] = rows[i]
                            /\ rows[i].start >= from => q[i].status = "gone"

LEMMA RebuildIs ==
  ASSUME Typed, NEW from, NEW to, <<from, to>> \in Window, Clean', Reprocess(from, to)
  PROVE  RebuildDoes(from, Without(from, to), {s \in tape : s.ts >= from},
                     {s \in samples : s.ts < from})
<1> DEFINE q == Without(from, to)
           S == {s \in tape : s.ts >= from}
           X == {s \in samples : s.ts < from}
<1>1. mem = Null /\ ~Beyond(to) /\ (from = 0 \/ Clean) /\ (astray' = {} => from = 0)
  BY DEF Reprocess, Clean
<1>2. /\ from \in Nat
      /\ {s \in tape : s.ts \in from..to - 1} = S
      /\ {s \in samples : s.ts \notin from..to - 1} = X
      /\ \A i \in DOMAIN rows : rows[i].start \in from..to - 1 <=> rows[i].start >= from
  BY <1>1, WindowIs
<1>3. /\ MayRebuild(from, to) /\ UNCHANGED <<clock, tape, mem>>
      /\ rows' = ApplyAll([rows |-> q, mem |-> Blank, ok |-> TRUE],
                          {s \in tape : s.ts \in from..to - 1}).rows
      /\ samples' = {s \in samples : s.ts \notin from..to - 1}
                      \cup {s \in tape : s.ts \in from..to - 1}
  BY DEF Reprocess, world
<1> DEFINE T == tape
<1>4. T \in SUBSET Sample /\ rows \in Seq(RowsOf(T))
  BY DEF Typed
<1> HIDE DEF T
<1>5. /\ q \in Seq(RowsOf(T)) /\ DOMAIN q = DOMAIN rows
      /\ \A i \in DOMAIN rows : /\ q[i].status # "open"
                                /\ q[i] = rows[i] \/ q[i].status = "gone"
                                /\ rows[i].start \notin from..to - 1 => q[i] = rows[i]
                                /\ rows[i].start \in from..to - 1 => q[i].status = "gone"
  BY <1>3, <1>4, WithoutIs
<1>6. \A i \in DOMAIN rows : /\ q[i].status # "open"
                             /\ q[i] = rows[i] \/ q[i].status = "gone"
                             /\ ~(rows[i].start >= from) => q[i] = rows[i]
                             /\ rows[i].start >= from => q[i].status = "gone"
  BY <1>2, <1>5
<1>7. q \in Seq(RowsOf(tape)) /\ DOMAIN q = DOMAIN rows
  BY <1>5 DEF T
<1> HIDE DEF q, S, X
<1>8. RebuildDoes(from, q, S, X)
  BY <1>1, <1>2, <1>3, <1>6, <1>7 DEF RebuildDoes
<1> QED BY <1>8 DEF q, S, X

\* A rebuild while no worker runs: of everything, it makes up for all there was.
LEMMA ReprocessTogether ==
  ASSUME Typed, Together, NEW from, NEW to, <<from, to>> \in Window, Clean', Reprocess(from, to)
  PROVE  Together'
<1> DEFINE T == tape
           c == clock
           S == {s \in tape : s.ts >= from}
           X == {s \in samples : s.ts < from}
           q == Without(from, to)
           w == [rows |-> q, mem |-> Blank, ok |-> TRUE]
           x == Upto(w, S, c)
           y == Dry(S, c)
<1>1. /\ mem = Null /\ UNCHANGED <<clock, tape, mem>> /\ from \in Nat
      /\ rows' = ApplyAll(w, S).rows /\ (from = 0 \/ Clean) /\ (astray' = {} => from = 0)
      /\ q \in Seq(RowsOf(tape)) /\ DOMAIN q = DOMAIN rows
      /\ \A i \in DOMAIN rows : /\ q[i].status # "open"
                                /\ q[i] = rows[i] \/ q[i].status = "gone"
                                /\ rows[i].start >= from => q[i].status = "gone"
  <2>1. RebuildDoes(from, Without(from, to), {s \in tape : s.ts >= from},
                    {s \in samples : s.ts < from})
    BY RebuildIs
  <2>2. RebuildDoes(from, q, S, X)
    BY <2>1
  <2> HIDE DEF q, S, X
  <2> QED BY <2>2 DEF RebuildDoes
<1>2. /\ T \in SUBSET Sample /\ (\A a, b \in T : a.ts = b.ts => a = b) /\ c \in Nat
      /\ (\A d \in T : d.ts \in Nat /\ d.ts <= c) /\ rows \in Seq(RowsOf(T))
  BY TypedGives
<1>3. from \in Nat /\ S \in SUBSET T /\ Taped(c)
  BY <1>1, <1>2 DEF Taped
<1>4. rows' = x.rows
  BY <1>1, ApplyAllIs
<1> HIDE DEF T, c, q
<1>5. /\ q \in Seq(RowsOf(T)) /\ DOMAIN q = DOMAIN rows
      /\ \A i \in DOMAIN rows : /\ q[i].status # "open"
                                /\ q[i] = rows[i] \/ q[i].status = "gone"
                                /\ rows[i].start >= from => q[i].status = "gone"
  BY <1>1 DEF T
<1>6. \A i \in DOMAIN rows : rows[i].start \in Nat
  <2> TAKE i \in DOMAIN rows
  <2>1. rows[i] \in RowsOf(T)
    BY <1>2, RowTyped
  <2> QED BY <1>2, <2>1, RowStart
<1>7. Open(q) = {} /\ Kepts(q)
  <2>1. CASE from = 0
    <3>1. \A i \in DOMAIN q : q[i].status = "gone"
      BY <1>5, <1>6, <2>1
    <3> QED BY <3>1 DEF Open, Kepts
  <2>2. CASE from # 0
    <3>1. \A i \in DOMAIN rows : rows[i].status # "abandoned"
      BY <1>1, <2>2 DEF Together, Kepts
    <3> QED BY <1>5, <3>1 DEF Open, Kepts
  <2> QED BY <2>1, <2>2
<1>8. Meets(T, x.rows, c)
  <2> HIDE DEF S
  <2>1. S = {s \in tape : s.ts >= from} /\ q \in Seq(RowsOf(tape))
    BY <1>5 DEF S, T
  <2>2. w = [rows |-> q, mem |-> Blank, ok |-> TRUE] /\ x = Upto(w, S, c)
    OBVIOUS
  <2> HIDE DEF w, x
  <2>3. Meets(tape, x.rows, c)
    BY <1>3, <1>7, <2>1, <2>2, PartMeets
  <2> QED BY <2>3 DEF T
<1>9. Along(T, x, y)
  <2> HIDE DEF S
  <2> QED BY <1>2, <1>3, <1>5, <1>7, RebuiltAlong
<1>10. ASSUME from = 0 PROVE Waiting(T, x.rows, c)
  <2>1. S = T
    BY <1>2, <1>10 DEF T
  <2>2. y = Dry(T, c)
    BY <2>1
  <2>3. DryOk(T, c, y)
    BY <1>2, <2>2, DryIsOk
  <2> HIDE DEF S, w, x, y
  <2>4. \A i, j \in Open(x.rows) : i = j
    BY <1>9 DEF Along, Sound
  <2>5. ASSUME NEW i \in Open(x.rows)
        PROVE  \E j \in DOMAIN y.rows :
                 /\ y.rows[j].kind = x.rows[i].kind /\ y.rows[j].start = x.rows[i].start
                 /\ x.rows[i].points \subseteq y.rows[j].points
    <3>1. i = x.mem.id /\ i # Null
      BY <1>9, <2>5 DEF Along, Sound
    <3>2. x.rows[i].kind = x.mem.seg.open.kind /\ x.rows[i].start = x.mem.seg.open.start
          /\ x.rows[i].points = Stamps(x.mem.points)
      BY <1>9, <3>1 DEF Along, Sound
    <3>3. x.mem.seg.open # Null /\ x.mem.seg = y.mem.seg /\ x.mem.points = y.mem.points
      BY <1>9, <3>1 DEF Along, Linked
    <3> DEFINE j == y.mem.id
    <3>4. j # Null /\ j \in Open(y.rows)
      BY <2>3, <3>3 DEF DryOk, Linked, Sound
    <3>5. y.rows[j].kind = y.mem.seg.open.kind /\ y.rows[j].start = y.mem.seg.open.start
          /\ y.rows[j].points = Stamps(y.mem.points)
      BY <2>3, <3>4 DEF DryOk, Sound
    <3>6. j \in DOMAIN y.rows
      BY <3>4 DEF Open
    <3> QED BY <3>2, <3>3, <3>5, <3>6
  <2> QED BY <2>2, <2>4, <2>5 DEF Waiting
<1>11. Kepts(x.rows)
  BY <1>9 DEF Along
<1> HIDE DEF x
<1> QED BY <1>1, <1>4, <1>8, <1>10, <1>11 DEF Together, T, c

LEMMA InitTogether == Init => Together
<1> SUFFICES ASSUME Init PROVE Together
  OBVIOUS
<1>1. Typed /\ mem # Null
  <2>1. Blank # Null
    <3>1. Blank \in MemoryOf(tape) /\ tape \in SUBSET Sample
      BY BlankIs DEF Init
    <3> QED BY <3>1, MemoryIsThere
  <2> QED BY <2>1, InitSane DEF Init
<1>2. Open(<<>>) = {} /\ Blank.id = Null /\ Blank.seg.lastTs = Null
  BY DEF Open, Blank, NoSegment
<1>3. Sound(rows, mem)
  BY <1>2 DEF Init, Sound
<1>4. Tracks(tape, mem)
  BY <1>2 DEF Init, Tracks, DryAt, Fresh
<1>5. Ordered(tape, owed, mem.seg.lastTs, pending)
  BY DEF Init, Ordered
<1>6. Kepts(rows)
  BY DEF Init, Kepts
<1> QED BY <1>1, <1>2, <1>3, <1>4, <1>5, <1>6 DEF Init, Together, Agreed, Right

LEMMA NextTogether ==
  ASSUME Typed, Unclosed, Together, [Next]_vars
  PROVE  Together'
<1> SUFFICES ASSUME Clean' PROVE Together'
  BY DEF Together
<1>1. CASE \E r \in scenario.readings, d \in scenario.steps : Message(r, d)
  <2>1. PICK r \in scenario.readings, d \in scenario.steps : Message(r, d)
    BY <1>1
  <2>2. Clean
    BY <2>1 DEF Message, Handle, Handled, HandleCommits, HandleFails, HandleUnanswered, Clean
  <2> QED BY <2>1, <2>2, MessageTogether
<1>2. CASE \E r \in scenario.readings : ClockStepsBack(r)
  BY <1>2 DEF ClockStepsBack, Clean
<1>3. CASE \E m \in owed : Redeliver(m)
  <2>1. PICK m \in owed : Redeliver(m)
    BY <1>3
  <2>2. Clean
    BY <2>1 DEF Redeliver, Handle, Handled, HandleCommits, HandleFails, HandleUnanswered, Clean
  <2> QED BY <2>1, <2>2, RedeliverTogether
<1>10. CASE \E o \in owed, d \in scenario.steps : RedeliverRestamped(o, d)
  <2>1. PICK o \in owed, d \in scenario.steps : RedeliverRestamped(o, d)
    BY <1>10
  <2> DEFINE m == [o EXCEPT !.ts = clock + d]
  <2>2. Handle(m, o)
    BY <2>1 DEF RedeliverRestamped
  <2> HIDE DEF m
  <2>3. Clean
    BY <2>2 DEF Handle, Handled, HandleCommits, HandleFails, HandleUnanswered, Clean
  <2> QED BY <2>1, <2>3, RedeliverRestampedTogether
<1>4. CASE Flush
  BY <1>4, FlushTogether DEF Flush, Clean
<1>5. CASE Dies
  BY <1>5, DiesTogether DEF Dies, Clean
<1>6. CASE ResumeWarm
  BY <1>6, ResumeWarmTogether DEF ResumeWarm, Clean
<1>7. CASE StartCold
  BY <1>7 DEF StartCold, Clean
<1>8. CASE Rebuilds
  <2>1. PICK w \in Window : Reprocess(w[1], w[2])
    BY <1>8 DEF Rebuilds
  <2>2. <<w[1], w[2]>> \in Window
    BY <2>1 DEF Window
  <2> QED BY <2>1, <2>2, ReprocessTogether
<1>9. CASE UNCHANGED vars
  BY <1>9 DEF vars, Together, Clean
<1> QED BY <1>1, <1>2, <1>3, <1>4, <1>5, <1>6, <1>7, <1>8, <1>9, <1>10 DEF Next

\* At most one row is open, whatever the worker does.
LEMMA OneOpen ==
  ASSUME Typed, Together, Clean
  PROVE  \A i, j \in Open(rows) : i = j
<1>1. CASE mem = Null
  BY <1>1 DEF Together, Meets
<1>2. CASE mem # Null
  <2> DEFINE v == Emitted
  <2>1. Written(tape, owed, rows, mem, pending, clock, v)
    BY <1>2, EmitsTogether
  <2> HIDE DEF v
  <2>2. Sound(rows, mem) \/ Sound(rows, v.mem)
    BY <2>1 DEF Written
  <2> QED BY <2>2 DEF Sound
<1> QED BY <1>1, <1>2

\* pipeline.ts: whatever fails, is sent again, restarts or is rebuilt, one row at most is open,
\* it is the session in memory once a COMMIT without an answer has been made up for, and no
\* resume gives a row up.
THEOREM OpenRowRuns == Spec => []OpenIsRunning
<1>1. Typed /\ Together => OpenIsRunning
  <2> SUFFICES ASSUME Typed, Together, Clean
               PROVE  /\ \A i \in DOMAIN rows : rows[i].status # "abandoned"
                      /\ Cardinality(Open(rows)) <= 1
                      /\ mem # Null /\ ~ahead =>
                           /\ Open(rows) = {mem.id} \ {Null}
                           /\ \A i \in Open(rows) :
                                /\ rows[i].start = mem.seg.open.start
                                /\ rows[i].points = {p.ts : p \in ToSet(mem.points)}
    BY DEF OpenIsRunning
  <2>1. \A i \in DOMAIN rows : rows[i].status # "abandoned"
    BY DEF Together, Kepts
  <2>2. Cardinality(Open(rows)) <= 1
    <3>1. CASE Open(rows) = {}
      BY <3>1, FS_EmptySet
    <3>2. CASE Open(rows) # {}
      <4>1. PICK i \in Open(rows) : TRUE
        BY <3>2
      <4>2. Open(rows) = {i}
        BY <4>1, OneOpen
      <4> QED BY <4>2, FS_Singleton
    <3> QED BY <3>1, <3>2
  <2>3. ASSUME mem # Null, ~ahead PROVE Sound(rows, mem)
    BY <2>3 DEF Together
  <2> QED BY <2>1, <2>2, <2>3 DEF Sound, Stamps
<1>2. Typed /\ Unclosed /\ Together /\ [Next]_vars => Together'
  BY NextTogether
<1>3. Spec => []Together
  BY InitTogether, <1>2, AlwaysSane, PTL DEF Spec
<1> QED BY <1>1, <1>3, AlwaysSane, PTL

-----------------------------------------------------------------------------
(* What the samples say is in the rows.                                    *)

\* Sample s is to be a point of a session of kind k.
Wants(s, k) ==
  \/ k = "charge" /\ Charging(s)
  \/ k = "drive" /\ ~Charging(s) /\ s.speed # Null /\ s.speed > NowhereSpeed

Has(q, s, k) ==
  \E i \in DOMAIN q : /\ q[i].status # "gone" /\ q[i].kind = k
                      /\ s.ts \in q[i].points /\ q[i].start <= s.ts

Tells(q, S) == \A s \in S, k \in {"drive", "charge"} : Wants(s, k) => Has(q, s, k)

\* What is open after such a sample is of its kind, and the sample is a point.
WantedSays(st, s, k) ==
  \/ SaysPoint(st, s) /\ st.open.kind = k
  \/ SaysStart(st, s, k)
  \/ \E e : SaysTurn(st, s, e, k)

LEMMA WantedOpens ==
  ASSUME NEW T \in SUBSET Sample, NEW st \in TracksOf(T), NEW s \in T,
         ~(st.lastTs # Null /\ s.ts < st.lastTs), NEW k \in {"drive", "charge"}, Wants(s, k)
  PROVE  /\ Step(st, s).state.open # Null /\ Step(st, s).state.open.kind = k
         /\ Step(st, s).events # <<>>
<1> DEFINE hole == st.open # Null /\ Since(s, st.lastTs) > Gap
           kept == IF hole THEN Null ELSE st.open
           went == IF kept = Null
                     THEN [open |-> Null, events |-> IF hole THEN <<EndOf(st.open)>> ELSE <<>>]
                   ELSE IF kept.kind = "charge" THEN InCharge(kept, s) ELSE InDrive(kept, s)
           kind == IF Charging(s) THEN "charge"
                   ELSE IF Motion(s, IF kept = Null THEN Null ELSE kept.last) = "moving"
                          THEN "drive" ELSE Null
           opens == went.open = Null /\ kind # Null
<1>1. /\ Step(st, s).state = [open |-> IF opens THEN Opened(kind, s) ELSE went.open, lastTs |-> s.ts]
      /\ Step(st, s).events = went.events \o (IF opens THEN <<Start(kind, s), Point(s)>> ELSE <<>>)
  BY DEF Step
<1>2. \A o : ~Charging(s) => Motion(s, o) = "moving"
  <2>1. ASSUME ~Charging(s) PROVE s.speed # Null /\ s.speed > MovingSpeed
    <3>1. s.speed # Null /\ s.speed > NowhereSpeed
      BY <2>1 DEF Wants
    <3>2. s.speed \in Nat
      BY <3>1 DEF Sample
    <3> QED BY <3>1, <3>2 DEF MovingSpeed, NowhereSpeed
  <2> QED BY <2>1 DEF Motion
<1>3. kind = k /\ (k = "charge" <=> Charging(s))
  BY <1>2 DEF Wants
<1>4. st.open = Null \/ st.open \in SegmentsOf(T)
  BY DEF TracksOf
<1>5. Null \notin SegmentsOf(T) /\ Opened(k, s) \in SegmentsOf(T)
  BY SegmentsNotNull, OpenedTyped
<1>6. kind # Null
  BY <1>3, SessionsAssumption
<1>7. \/ went.open = Null
      \/ went.open \in SegmentsOf(T) /\ went.open.kind = k /\ went.events = <<Point(s)>>
  <2>1. CASE kept = Null
    BY <2>1
  <2>2. CASE kept # Null /\ st.open.kind = "charge"
    <3>1. kept = st.open /\ went = InCharge(st.open, s) /\ st.open \in SegmentsOf(T)
      BY <1>4, <2>2
    <3>2. Charging(s) => \/ InCharge(st.open, s).open = Null
                         \/ InCharge(st.open, s).events = <<Point(s)>>
      BY DEF InCharge
    <3>3. ~Charging(s) => InCharge(st.open, s).open = Null
      BY <1>2 DEF InCharge
    <3>4. InCharge(st.open, s).open = Null \/ (/\ InCharge(st.open, s).open \in SegmentsOf(T)
                                               /\ InCharge(st.open, s).open.kind = st.open.kind)
      BY <3>1, ChargeSays
    <3> HIDE DEF went, kind
    <3> QED BY <1>3, <2>2, <3>1, <3>2, <3>3, <3>4
  <2>3. CASE kept # Null /\ st.open.kind # "charge"
    <3>1. /\ kept = st.open /\ went = InDrive(st.open, s) /\ st.open \in SegmentsOf(T)
          /\ st.open.kind = "drive"
      BY <1>4, <2>3 DEF SegmentsOf
    <3>2. InDrive(st.open, s).open = Null \/ InDrive(st.open, s).events = <<Point(s)>>
      BY DEF InDrive
    <3>3. Charging(s) => InDrive(st.open, s).open = Null
      BY DEF InDrive
    <3>4. InDrive(st.open, s).open = Null \/ (/\ InDrive(st.open, s).open \in SegmentsOf(T)
                                              /\ InDrive(st.open, s).open.kind = st.open.kind)
      BY <3>1, DriveSays
    <3> HIDE DEF went, kind
    <3> QED BY <1>3, <3>1, <3>2, <3>3, <3>4
  <2> QED BY <2>1, <2>2, <2>3
<1> HIDE DEF hole, kept, went, kind
<1>8. CASE opens
  <2>1. Step(st, s).state = [open |-> Opened(k, s), lastTs |-> s.ts]
    BY <1>1, <1>3, <1>8
  <2>2. Step(st, s).events = went.events \o <<Start(kind, s), Point(s)>>
    BY <1>1, <1>8
  <2>3. Step(st, s).events # <<>>
    <3>2. went.open = Null
      BY <1>8
    <3>3. went.events = <<>> \/ \E x : went.events = <<x>>
      <4>1. \/ kept = Null /\ went.events \in {<<>>, <<EndOf(st.open)>>}
            \/ kept # Null /\ kept \in SegmentsOf(T) /\ went = InCharge(kept, s)
            \/ kept # Null /\ kept \in SegmentsOf(T) /\ kept.kind = "drive" /\ went = InDrive(kept, s)
        BY <1>4 DEF kept, went, SegmentsOf
      <4>2. CASE kept = Null /\ went.events \in {<<>>, <<EndOf(st.open)>>}
        BY <4>2
      <4>3. CASE kept # Null /\ kept \in SegmentsOf(T) /\ went = InCharge(kept, s)
        BY <3>2, <4>3, <1>5, ChargeSays
      <4>4. CASE kept # Null /\ kept \in SegmentsOf(T) /\ kept.kind = "drive" /\ went = InDrive(kept, s)
        BY <3>2, <4>4, <1>5, DriveSays
      <4> QED BY <4>1, <4>2, <4>3, <4>4
    <3>4. CASE went.events = <<>>
      <4>1. Step(st, s).events = <<Start(kind, s), Point(s)>>
        BY <2>2, <3>4
      <4> QED BY <4>1
    <3>5. ASSUME NEW x, went.events = <<x>> PROVE Step(st, s).events # <<>>
      <4>1. Step(st, s).events = <<x, Start(kind, s), Point(s)>>
        BY <2>2, <3>5, OneAndTwo
      <4> QED BY <4>1
    <3> QED BY <3>3, <3>4, <3>5
  <2>4. Opened(k, s).kind = k
    BY DEF Opened
  <2> QED BY <1>5, <2>1, <2>3, <2>4
<1>9. CASE ~opens
  <2>1. went.open \in SegmentsOf(T) /\ went.open.kind = k /\ went.events = <<Point(s)>>
    BY <1>6, <1>7, <1>9
  <2>2. Step(st, s).state = [open |-> went.open, lastTs |-> s.ts] /\ Step(st, s).events = went.events \o <<>>
    BY <1>1, <1>9
  <2>3. Step(st, s).events # <<>>
    BY <2>1, <2>2
  <2> QED BY <1>5, <2>1, <2>2, <2>3
<1> QED BY <1>8, <1>9

LEMMA WantedIsSaid ==
  ASSUME NEW T \in SUBSET Sample, NEW st \in TracksOf(T), NEW s \in T,
         ~(st.lastTs # Null /\ s.ts < st.lastTs), NEW k \in {"drive", "charge"}, Wants(s, k)
  PROVE  WantedSays(st, s, k)
<1>1. /\ Step(st, s).state.open # Null /\ Step(st, s).state.open.kind = k
      /\ Step(st, s).events # <<>>
  BY WantedOpens
<1>2. SaysNothing(st, s) \/ SaysPoint(st, s) \/ (\E e \in T : SaysEnd(st, s, e))
      \/ (\E l \in {"drive", "charge"} : SaysStart(st, s, l))
      \/ (\E e \in T, l \in {"drive", "charge"} : SaysTurn(st, s, e, l))
  BY StepSays
<1>3. \A l : Opened(l, s).kind = l
  BY DEF Opened
<1> QED BY <1>1, <1>2, <1>3 DEF SaysNothing, SaysPoint, SaysEnd, SaysStart, SaysTurn, WantedSays

\* After a sample that is wanted a session of its kind runs, and has it.
LEMMA WantedRuns ==
  ASSUME NEW T \in SUBSET Sample, NEW w, Fits(T, w), Linked(w.mem), NEW s \in T,
         ~(w.mem.seg.lastTs # Null /\ s.ts < w.mem.seg.lastTs),
         w.mem.seg.open # Null => w.mem.seg.open.start <= s.ts,
         NEW k \in {"drive", "charge"}, Wants(s, k), NEW v, v = ApplySample(w, s)
  PROVE  /\ v.mem.id # Null /\ v.mem.seg.open.kind = k /\ s.ts \in Stamps(v.mem.points)
         /\ v.mem.seg.open.start <= s.ts
<1> DEFINE st == w.mem.seg
           pts == w.mem.points
           p == v.mem.points
<1>1. Fits(T, v) /\ Linked(v.mem) /\ v.mem.seg = Step(st, s).state
  BY SampleTrack
<1>2. st \in TracksOf(T) /\ pts \in Seq(T)
  BY FitsParts
<1>3. Step(st, s).state.open # Null /\ Step(st, s).state.open.kind = k
  BY <1>2, WantedOpens
<1>4. WantedSays(st, s, k)
  BY <1>2, WantedIsSaid
<1>5. PointsNext(st, pts, s, p)
  BY PointsAfter
<1>6. p = Append(pts, s) \/ p = <<s>>
  <2> HIDE DEF p, st, pts
  <2>1. CASE SaysPoint(st, s)
    BY <1>5, <2>1, EventsApart, StartsApart DEF PointsNext
  <2>2. CASE SaysStart(st, s, k)
    BY <1>5, <2>2, EventsApart, StartsApart DEF PointsNext
  <2>3. CASE \E e : SaysTurn(st, s, e, k)
    BY <1>5, <2>3, EventsApart, StartsApart DEF PointsNext
  <2> QED BY <1>4, <2>1, <2>2, <2>3 DEF WantedSays
<1>7. s.ts \in Stamps(p)
  <2>1. Stamps(<<s>>) = {s.ts}
    BY StampsOne
  <2>2. Stamps(Append(pts, s)) = Stamps(pts) \cup {s.ts}
    BY <1>2, StampsMore
  <2> HIDE DEF p, pts
  <2> QED BY <1>6, <2>1, <2>2
<1>8. Step(st, s).state.open.start <= s.ts
  <2>1. Opened(k, s).start = s.ts /\ s.ts <= s.ts
    BY SampleFields DEF Opened
  <2>2. SaysPoint(st, s) => st.open # Null /\ Step(st, s).state.open.start = st.open.start
    BY DEF SaysPoint
  <2>3. (SaysStart(st, s, k) \/ \E e : SaysTurn(st, s, e, k)) => Step(st, s).state.open = Opened(k, s)
    BY DEF SaysStart, SaysTurn
  <2> QED BY <1>4, <2>1, <2>2, <2>3 DEF WantedSays
<1> QED BY <1>1, <1>3, <1>7, <1>8 DEF Linked

LEMMA RunningHas ==
  ASSUME NEW q, NEW m, Sound(q, m), m.id # Null, NEW s, s.ts \in Stamps(m.points),
         m.seg.open.start <= s.ts
  PROVE  Has(q, s, m.seg.open.kind)
<1>1. m.id \in DOMAIN q /\ q[m.id].status = "open"
  BY DEF Sound, Open
<1>2. q[m.id].kind = m.seg.open.kind /\ s.ts \in q[m.id].points /\ q[m.id].start <= s.ts
  BY DEF Sound
<1> QED BY <1>1, <1>2 DEF Has

\* A drive with a fast sample went somewhere.
LEMMA FastWent ==
  ASSUME NEW T \in SUBSET Sample, \A a, b \in T : a.ts = b.ts => a = b, NEW points \in Seq(T),
         NEW d \in T, d.ts \in Stamps(points), Wants(d, "drive"), NEW e
  PROVE  ~WentNowhere(PointsAtEnd(points, e))
<1>1. PICK i \in DOMAIN points : points[i] = d
  <2>1. PICK x \in ToSet(points) : x.ts = d.ts
    BY DEF Stamps
  <2>2. PICK i \in DOMAIN points : points[i] = x
    BY <2>1 DEF ToSet
  <2>3. points[i] \in T
    BY <2>2
  <2> QED BY <2>1, <2>2, <2>3
<1>2. i \in DOMAIN Append(points, e) /\ Append(points, e)[i] = points[i]
  OBVIOUS
<1>3. i \in DOMAIN PointsAtEnd(points, e) /\ PointsAtEnd(points, e)[i] = d
  BY <1>1, <1>2 DEF PointsAtEnd
<1>4. d.speed # Null /\ d.speed > NowhereSpeed
  BY DEF Wants
<1>5. d.speed \in Nat
  BY <1>4 DEF Sample
<1>6. ~(d.speed <= NowhereSpeed)
  BY <1>4, <1>5 DEF NowhereSpeed
<1> QED BY <1>3, <1>4, <1>6 DEF WentNowhere

\* So the end of a session takes no such sample with it.
LEMMA FateKeeps ==
  ASSUME NEW T \in SUBSET Sample, \A a, b \in T : a.ts = b.ts => a = b, NEW points \in Seq(T),
         NEW d \in T, d.ts \in Stamps(points), NEW k \in {"drive", "charge"}, Wants(d, k),
         NEW e \in T, NEW row \in RowsOf(T), row.status # "gone"
  PROVE  EndedRow(points, k, e, row).status # "gone"
<1>1. k = "drive" => ~WentNowhere(PointsAtEnd(points, e))
  BY FastWent
<1>2. Fate(points, k, e, row.status) = "closed"
  BY <1>1 DEF Fate, FinalOf
<1> DEFINE pts == IF IsLater(points, e) THEN row.points \cup {e.ts} ELSE row.points
           fate == Fate(points, k, e, row.status)
<1>3. EndedRow(points, k, e, row) = [row EXCEPT !.points = pts, !.status = fate]
  BY DEF EndedRow
<1> HIDE DEF pts, fate
<1>4. [row EXCEPT !.points = pts, !.status = fate].status = fate
  BY DEF RowsOf
<1> QED BY <1>2, <1>3, <1>4 DEF fate

\* One of the five things that a sample does.
Says(T, w, s, v) ==
  \/ Silent(w, s, v) \/ Continues(w, s, v) \/ (\E e \in T : Ends(w, s, v, e))
  \/ (\E k \in {"drive", "charge"} : Starts(w, s, v, k))
  \/ (\E e \in T, k \in {"drive", "charge"}, q \in Seq(RowsOf(T)) :
        Turns(w, s, v, e, k, q))

LEMMA SampleSays ==
  ASSUME NEW T \in SUBSET Sample, NEW w, Fits(T, w), Linked(w.mem), NEW s \in T,
         NEW v, v = ApplySample(w, s)
  PROVE  Says(T, w, s, v)
BY SampleDoes DEF Says

\* What a row had, it or a row that comes of it has after a sample.
LEMMA SampleKeeps ==
  ASSUME NEW T \in SUBSET Sample, \A a, b \in T : a.ts = b.ts => a = b,
         NEW w, Fits(T, w), Linked(w.mem), Sound(w.rows, w.mem), NEW s \in T,
         NEW v, v = ApplySample(w, s),
         NEW d \in T, NEW g \in {"drive", "charge"}, Wants(d, g), Has(w.rows, d, g)
  PROVE  Has(v.rows, d, g)
<1>0. \/ Silent(w, s, v) \/ Continues(w, s, v) \/ (\E e \in T : Ends(w, s, v, e))
      \/ (\E k \in {"drive", "charge"} : Starts(w, s, v, k))
      \/ (\E e \in T, k \in {"drive", "charge"}, p \in Seq(RowsOf(T)) :
            Turns(w, s, v, e, k, p))
  <2>1. Says(T, w, s, v)
    BY SampleSays
  <2> QED BY <2>1 DEF Says
<1> DEFINE q == w.rows
           r == v.rows
           i == w.mem.id
           pts == w.mem.points
           kind == w.mem.seg.open.kind
<1>1. PICK j \in DOMAIN q : /\ q[j].status # "gone" /\ q[j].kind = g
                            /\ d.ts \in q[j].points /\ q[j].start <= d.ts
  BY DEF Has
<1>2. Grown(q, r, i, s)
  BY SampleFrame
<1>3. j \in DOMAIN r /\ r[j].kind = g /\ d.ts \in r[j].points /\ r[j].start <= d.ts
  BY <1>1, <1>2 DEF Grown, Follows
<1>4. CASE j # i
  <2>1. q[j].status # "open"
    BY <1>1, <1>4 DEF Sound, Open
  <2>2. r[j] = q[j]
    BY <1>1, <1>2, <1>4, <2>1 DEF Grown
  <2> QED BY <1>1, <1>3, <2>2 DEF Has
<1>5. CASE j = i
  <2>1. i # Null
    <3>1. q \in Seq(RowsOf(T))
      BY FitsParts
    <3>2. j \in Nat
      BY <1>1, <3>1, RowTyped
    <3> QED BY <1>5, <3>2, SessionsAssumption
  <2>2. kind = g /\ d.ts \in Stamps(pts)
    BY <1>1, <1>5, <2>1 DEF Sound
  <2>3. /\ q \in Seq(RowsOf(T)) /\ r \in Seq(RowsOf(T)) /\ pts \in Seq(T)
        /\ q[i] \in RowsOf(T) /\ i \in DOMAIN q
    <3>1. Fits(T, v)
      BY SampleTrack
    <3>2. q \in Seq(RowsOf(T)) /\ pts \in Seq(T)
      BY FitsParts
    <3>3. r \in Seq(RowsOf(T))
      BY <3>1, FitsParts
    <3>4. q[j] \in RowsOf(T)
      BY <1>1, <3>2, RowTyped
    <3> QED BY <1>1, <1>5, <3>2, <3>3, <3>4
  <2>4. ASSUME NEW e \in T PROVE EndedRow(pts, kind, e, q[i]).status # "gone"
    <3>1. q[i].status # "gone"
      BY <1>1, <1>5
    <3> HIDE DEF q, i, pts, kind
    <3> QED BY <2>2, <2>3, <3>1, FateKeeps
  <2>5. r[i].status # "gone"
    <3>2. CASE Silent(w, s, v)
      BY <1>1, <1>5, <3>2 DEF Silent
    <3>3. CASE Continues(w, s, v)
      <4>1. OnlyRow(q, r, i, [q[i] EXCEPT !.points = @ \cup {s.ts}])
        BY <3>3 DEF Continues
      <4> HIDE DEF q, r, i
      <4>2. Pointed(q, r, i, s)
        BY <2>3, <4>1, PointsOnlyRow
      <4>3. r[i].status = q[i].status
        BY <4>2 DEF Pointed
      <4> QED BY <1>1, <1>5, <4>3
    <3>4. ASSUME NEW e \in T, Ends(w, s, v, e) PROVE r[i].status # "gone"
      <4>1. r[i] = EndedRow(pts, kind, e, q[i])
        BY <3>4 DEF Ends, OnlyRow
      <4> HIDE DEF q, r, i, pts, kind
      <4> QED BY <2>4, <4>1
    <3>5. ASSUME NEW k \in {"drive", "charge"}, Starts(w, s, v, k) PROVE r[i].status # "gone"
      BY <2>1, <3>5 DEF Starts, SaysStart, Linked
    <3>6. ASSUME NEW e \in T, NEW k \in {"drive", "charge"}, NEW p \in Seq(RowsOf(T)),
                 Turns(w, s, v, e, k, p)
          PROVE  r[i].status # "gone"
      <4>1. /\ OnlyRow(q, p, i, EndedRow(pts, kind, e, q[i])) /\ Begins(p, r, v.mem.id, k, s)
        BY <3>6 DEF Turns
      <4> DEFINE b == v.mem.id
      <4> HIDE DEF q, r, i, b, pts, kind
      <4>2. Begun(p, r, b, k, s)
        BY <2>3, <4>1, BeginsFacts DEF b
      <4>3. i \in DOMAIN p /\ p[i] = EndedRow(pts, kind, e, q[i])
        <5>1. Len(p) = Len(q)
          BY <4>1 DEF OnlyRow
        <5> QED BY <2>3, <4>1, <5>1 DEF OnlyRow
      <4>4. r[i].status = p[i].status
        BY <4>2, <4>3 DEF Begun
      <4> QED BY <2>4, <4>3, <4>4
    <3> HIDE DEF r, i
    <3> QED BY <1>0, <3>2, <3>3, <3>4, <3>5, <3>6
  <2> QED BY <1>3, <1>5, <2>5 DEF Has
<1> QED BY <1>4, <1>5

\* The sample that is due is told, and those that were stay so.
LEMMA WritesTells ==
  ASSUME NEW T \in SUBSET Sample, \A a, b \in T : a.ts = b.ts => a = b,
         NEW c \in Nat, \A d \in T : d.ts <= c, NEW O,
         NEW q \in Seq(RowsOf(T)), Kepts(q), NEW m, Holds(T, q, m), NEW s \in T \cup {Null},
         Agreed(T, O, q, m, s, c), NEW v, v = Writes(q, m, s),
         NEW S \in SUBSET T, Tells(q, S)
  PROVE  Tells(v.rows, S) /\ (s # Null => Tells(v.rows, S \cup {s}))
<1> DEFINE w == [rows |-> q, mem |-> m, ok |-> TRUE]
           n == m.seg.lastTs
<1>1. Written(T, O, q, m, s, c, v)
  BY AgreedWrites
<1>2. Sound(v.rows, v.mem) /\ (Sound(q, m) \/ v.rows = q)
  BY <1>1 DEF Written
<1>3. CASE s = Null
  BY <1>3 DEF Writes
<1>4. CASE s # Null
  <2>1. v = ApplySample(w, s) /\ s \in T
    BY <1>4 DEF Writes
  <2>2. m \in MemoryOf(T) /\ Linked(m) /\ m.id \in DOMAIN q \cup {Null}
    BY DEF Holds
  <2>3. Fits(T, w) /\ Linked(w.mem) /\ w.rows = q /\ w.mem = m
    BY <2>2, AgreedFits
  <2>4. Newer(s, n)
    BY <1>4 DEF Agreed, Ordered
  <2>5. n \in Nat \cup {Null} /\ s.ts \in Nat
    BY <2>1, <2>2, NewestIs, SampleFields
  <2>6. ~(n # Null /\ s.ts < n)
    BY <2>4, <2>5 DEF Newer
  <2>7. m.seg.open # Null => m.seg.open.start <= s.ts
    <3> DEFINE x == DryAt(T, n)
    <3>1. m.seg = x.mem.seg
      BY DEF Agreed, Tracks
    <3>2. CASE n = Null
      BY <3>1, <3>2 DEF DryAt, Fresh, Blank, NoSegment
    <3>3. CASE n # Null
      <4>1. n \in Nat /\ x = Dry(T, n) /\ n <= s.ts
        BY <2>5, <2>6, <3>3 DEF DryAt
      <4> HIDE DEF n, x
      <4>2. DryOk(T, n, x)
        BY <4>1, DryIsOk
      <4>3. x.mem.seg.open # Null => x.mem.seg.open.start \in Nat /\ x.mem.seg.open.start <= n
        BY <4>2, OpenStart
      <4>4. m.seg.open # Null => m.seg.open.start \in Nat /\ m.seg.open.start <= n
        BY <3>1, <4>3
      <4> QED BY <2>5, <4>1, <4>4
    <3> QED BY <3>2, <3>3
  <2> HIDE DEF w
  <2>8. ASSUME NEW k \in {"drive", "charge"}, Wants(s, k) PROVE Has(v.rows, s, k)
    <3>1. /\ v.mem.id # Null /\ v.mem.seg.open.kind = k /\ s.ts \in Stamps(v.mem.points)
          /\ v.mem.seg.open.start <= s.ts
      BY <2>1, <2>3, <2>6, <2>8, <2>7, WantedRuns
    <3> QED BY <1>2, <3>1, RunningHas
  <2>9. ASSUME NEW d \in S, NEW k \in {"drive", "charge"}, Wants(d, k) PROVE Has(v.rows, d, k)
    <3>1. Has(q, d, k)
      BY <2>9 DEF Tells
    <3>2. CASE v.rows = q
      BY <3>1, <3>2
    <3>3. CASE Sound(q, m)
      <4>1. Sound(w.rows, w.mem) /\ Has(w.rows, d, k) /\ d \in T
        BY <2>3, <3>1, <3>3
      <4> QED BY <2>1, <2>3, <2>9, <4>1, SampleKeeps
    <3> QED BY <1>2, <3>2, <3>3
  <2> QED BY <2>8, <2>9 DEF Tells
<1> QED BY <1>3, <1>4

LEMMA EmitsTells ==
  ASSUME Typed, Together, Clean, mem # Null, Tells(rows, samples), NEW v, v = Emitted
  PROVE  Tells(v.rows, samples) /\ Tells(v.rows, samples \cup EmittedSample)
<1>1. /\ tape \in SUBSET Sample /\ (\A a, b \in tape : a.ts = b.ts => a = b)
      /\ clock \in Nat /\ (\A d \in tape : d.ts <= clock)
      /\ rows \in Seq(RowsOf(tape)) /\ pending \in tape \cup {Null} /\ Holds(tape, rows, mem)
  BY TypedGives
<1>2. samples \in SUBSET tape
  BY DEF Typed
<1>3. Kepts(rows) /\ Agreed(tape, owed, rows, mem, pending, clock)
  BY DEF Together
<1>4. v = Writes(rows, mem, pending)
  BY DEF Emitted, Writes
<1>5. Tells(v.rows, samples) /\ (pending # Null => Tells(v.rows, samples \cup {pending}))
  BY <1>1, <1>2, <1>3, <1>4, WritesTells
<1>6. pending = Null => samples \cup EmittedSample = samples
  BY DEF EmittedSample
<1>7. pending # Null => EmittedSample = {pending}
  BY DEF EmittedSample
<1> QED BY <1>5, <1>6, <1>7

-----------------------------------------------------------------------------
(* The samples of a session, in order.                                     *)

\* Every sample at one of the stamps is among them.
LEMMA SamplesAtHas ==
  ASSUME tape \in SUBSET Sample, \A a, b \in tape : a.ts = b.ts => a = b,
         NEW c \in Nat, \A d \in tape : d.ts <= c, NEW X, NEW d \in tape, d.ts \in X
  PROVE  \E i \in DOMAIN SamplesAt(X) : SamplesAt(X)[i] = d
<1> DEFINE S == {s \in tape : s.ts \in X}
           Before(x) == {r \in S : r.ts < x.ts}
           n == Cardinality(Before(d)) + 1
<1>1. IsFiniteSet(S) /\ d \in S
  BY SamplesFinite
<1>2. \A x \in S : Before(x) \in SUBSET S /\ x.ts \in Nat
  BY SampleFields
<1>3. ASSUME NEW x \in S
      PROVE  IsFiniteSet(Before(x)) /\ Cardinality(Before(x)) \in Nat
             /\ Cardinality(Before(x)) <= Cardinality(S) /\ Cardinality(S) \in Nat
             /\ (Cardinality(Before(x)) = Cardinality(S) => S = Before(x))
  <2> DEFINE B == Before(x)
  <2>1. B \in SUBSET S
    BY <1>3, <1>2
  <2> HIDE DEF S, B
  <2>2. IsFiniteSet(B) /\ Cardinality(B) <= Cardinality(S) /\ (Cardinality(S) = Cardinality(B) => S = B)
    BY <1>1, <2>1, FS_Subset
  <2>3. Cardinality(B) \in Nat /\ Cardinality(S) \in Nat
    BY <1>1, <2>2, FS_CardinalityType
  <2> QED BY <2>2, <2>3 DEF B
<1>4. n \in 1..Cardinality(S)
  <2>1. d \notin Before(d)
    BY <1>1, <1>2
  <2>2. Cardinality(Before(d)) # Cardinality(S)
    BY <1>1, <1>3, <2>1
  <2> DEFINE a == Cardinality(Before(d))
             b == Cardinality(S)
  <2>3. a \in Nat /\ b \in Nat /\ a <= b /\ a # b
    BY <1>1, <1>3, <2>2
  <2> HIDE DEF a, b
  <2>4. a + 1 \in 1..b
    BY <2>3
  <2> QED BY <2>4 DEF a, b
<1>5. n - 1 = Cardinality(Before(d))
  <2> DEFINE a == Cardinality(Before(d))
  <2>1. a \in Nat
    BY <1>1, <1>3
  <2> HIDE DEF a
  <2>2. (a + 1) - 1 = a
    BY <2>1
  <2> QED BY <2>2 DEF a
\* No two of them have the same number before them.
<1>6. ASSUME NEW x \in S, NEW y \in S, x.ts < y.ts
      PROVE  Cardinality(Before(x)) # Cardinality(Before(y))
  <2> DEFINE A == Before(x)
             B == Before(y)
  <2>1. A \in SUBSET B
    BY <1>2, <1>6
  <2>2. x \in B /\ x \notin A
    BY <1>2, <1>6
  <2>3. IsFiniteSet(B)
    BY <1>3
  <2> HIDE DEF A, B
  <2>4. Cardinality(B) = Cardinality(A) => B = A
    BY <2>1, <2>3, FS_Subset
  <2> QED BY <2>2, <2>4 DEF A, B
<1>7. \A x \in S : Cardinality(Before(x)) = n - 1 => x = d
  <2> TAKE x \in S
  <2>1. n - 1 = Cardinality(Before(d))
    BY <1>5
  <2>2. x.ts < d.ts \/ d.ts < x.ts \/ x.ts = d.ts
    BY <1>1, <1>2
  <2> HIDE DEF Before, n
  <2> QED BY <1>1, <1>6, <2>1, <2>2
<1>8. (CHOOSE s \in S : Cardinality(Before(s)) = n - 1) = d
  <2>1. Cardinality(Before(d)) = n - 1
    BY <1>5
  <2> HIDE DEF Before, n, S
  <2> QED BY <1>1, <1>7, <2>1
<1>9. SamplesAt(X) = [j \in 1..Cardinality(S) |-> CHOOSE s \in S : Cardinality(Before(s)) = j - 1]
  BY DEF SamplesAt
<1>10. n \in DOMAIN SamplesAt(X) /\ SamplesAt(X)[n] = d
  <2> HIDE DEF Before, n, S
  <2> QED BY <1>4, <1>8, <1>9
<1> QED BY <1>10

-----------------------------------------------------------------------------
(* The restart and the rebuild lose nothing.                               *)

\* What an open row has, its row has after the restart.
LEMMA ReconciledTells ==
  ASSUME tape \in SUBSET Sample, \A a, b \in tape : a.ts = b.ts => a = b, NEW c \in Nat,
         \A d \in tape : d.ts <= c, \A n \in StampsOf(tape) : n <= c,
         rows \in Seq(RowsOf(tape)), Kepts(rows), Meets(tape, rows, c),
         NEW p, p = Dry(tape, c), NEW w, w = Reconciled(p),
         NEW S \in SUBSET tape, Tells(rows, S)
  PROVE  Tells(w.rows, S)
<1> DEFINE T == tape
           e == CarriedOn(p)
           q == Settled(p)
           u == [rows |-> q, id |-> e]
           l == p.mem.id
<1>0. DryOk(T, c, p) /\ Fits(T, p) /\ Linked(p.mem) /\ Sound(p.rows, p.mem)
  BY DryIsOk DEF DryOk
<1>1. /\ q \in Seq(RowsOf(T)) /\ DOMAIN q = DOMAIN rows
      /\ \A i \in DOMAIN rows : q[i].kind = rows[i].kind
      /\ \A i \in Open(rows) : Goes(p, i, q[i])
  BY <1>0, SettledDoes
<1>2. \/ /\ e = Null
         /\ l = Null \/ \A i \in Open(rows) : MatchFor(p.rows, rows[i]) # l
      \/ e \in Open(rows) /\ l # Null /\ MatchFor(p.rows, rows[e]) = l
  BY CarriedOnIs
<1>3. w = Carried(p, u) /\ Reconciles(T, p, w)
  <2>1. w = Carried(p, u)
    BY DEF Reconciled
  <2> QED BY <1>0, <2>1, ReconciledDoes
<1> HIDE DEF e, q
<1>4. u.rows = q /\ u.id = e /\ u = [rows |-> u.rows, id |-> u.id]
  OBVIOUS
<1> HIDE DEF u
<1> SUFFICES ASSUME NEW d \in S, NEW k \in {"drive", "charge"}, Wants(d, k)
             PROVE  Has(w.rows, d, k)
  BY DEF Tells
<1>5. PICK i \in DOMAIN rows : /\ rows[i].status # "gone" /\ rows[i].kind = k
                               /\ d.ts \in rows[i].points /\ rows[i].start <= d.ts
  BY DEF Tells, Has
<1>6. i \in DOMAIN w.rows /\ rows[i] \in RowsOf(T) /\ i \in Nat /\ i # Null
  <2>1. rows[i] \in RowsOf(T) /\ i \in Nat
    BY RowTyped
  <2> QED BY <1>3, <2>1, SessionsAssumption DEF Reconciles
<1>7. CASE rows[i].status # "open"
  <2>1. w.rows[i] = rows[i]
    BY <1>3, <1>7 DEF Reconciles
  <2> QED BY <1>5, <1>6, <2>1 DEF Has
<1>8. CASE rows[i].status = "open"
  <2>1. i \in Open(rows) /\ \A j \in Open(rows) : j = i
    BY <1>8 DEF Open, Meets
  <2>2. PICK j \in DOMAIN p.rows : /\ MatchFor(p.rows, rows[i]) = j
                                   /\ p.rows[j].kind = rows[i].kind
                                   /\ p.rows[j].start <= rows[i].start
                                   /\ rows[i].points \subseteq p.rows[j].points
    BY <2>1 DEF Meets
  <2>3. MatchFor(p.rows, rows[i]) = j
    BY <2>2
  <2>4. d.ts \in p.rows[j].points /\ p.rows[j].start <= d.ts
    <3>1. p.rows \in Seq(RowsOf(T))
      BY <1>0, FitsParts
    <3>2. p.rows[j] \in RowsOf(T)
      BY <3>1, RowTyped
    <3>3. p.rows[j].start \in Nat /\ rows[i].start \in Nat /\ d.ts \in Nat
      BY <1>6, <3>2, RowStart, SampleFields
    <3>4. p.rows[j].start <= rows[i].start /\ rows[i].start <= d.ts
      BY <1>5, <2>2
    <3>5. p.rows[j].start <= d.ts
      <4> DEFINE a == p.rows[j].start
                 b == rows[i].start
      <4>1. a \in Nat /\ b \in Nat /\ d.ts \in Nat /\ a <= b /\ b <= d.ts
        BY <3>3, <3>4
      <4> HIDE DEF a, b
      <4>2. a <= d.ts
        BY <4>1
      <4> QED BY <4>2 DEF a
    <3> QED BY <1>5, <2>2, <3>5
  <2>5. j # Null /\ (p.rows[j].status = "open" <=> j = l)
    <3>1. p.rows \in Seq(RowsOf(T))
      BY <1>0, FitsParts
    <3>2. j \in Nat
      BY <3>1, RowTyped
    <3> QED BY <1>0, <3>2, SessionsAssumption DEF Sound, Open
  <2>6. Goes(p, i, q[i])
    BY <1>1, <2>1
  <2>7. CASE j = l
    <3>1. e = i /\ l # Null
      BY <1>2, <2>1, <2>3, <2>5, <2>7
    <3>2. q[i] = rows[i]
      BY <2>3, <2>5, <2>6, <2>7 DEF Goes
    <3>3. e \in Open(q)
      BY <1>1, <1>5, <1>8, <3>1, <3>2 DEF Open
    <3>4. Carries(T, p, u, w)
      BY <1>0, <1>1, <1>3, <1>4, <3>1, <3>3, CarriedDoes
    <3>5. w.id = i /\ w.rows[i].status = "open" /\ w.rows[i].points = Stamps(p.mem.points)
          /\ w.rows[i].kind = q[i].kind /\ w.rows[i].start = p.rows[l].start
      BY <1>1, <1>4, <1>6, <3>1, <3>4 DEF Carries
    <3>6. p.rows[l].points = Stamps(p.mem.points)
      BY <1>0, <3>1 DEF Sound
    <3> QED BY <1>5, <1>6, <2>4, <2>7, <3>2, <3>5, <3>6 DEF Has
  <2>8. CASE j # l
    <3>1. q[i].points = p.rows[j].points /\ q[i].start = p.rows[j].start /\ q[i].status \in {"closed", "gone"}
          /\ q[i].status = FinalOf(rows[i].kind, SamplesAt(p.rows[j].points), "open")
      BY <2>3, <2>5, <2>6, <2>8 DEF Goes
    <3>2. k = "drive" => ~WentNowhere(SamplesAt(p.rows[j].points))
      <4> SUFFICES ASSUME k = "drive" PROVE ~WentNowhere(SamplesAt(p.rows[j].points))
        OBVIOUS
      <4>1. d \in tape
        OBVIOUS
      <4>2. PICK a \in DOMAIN SamplesAt(p.rows[j].points) : SamplesAt(p.rows[j].points)[a] = d
        BY <2>4, <4>1, SamplesAtHas
      <4>3. d.speed # Null /\ d.speed > NowhereSpeed
        BY DEF Wants
      <4>4. d.speed \in Nat
        BY <4>1, <4>3 DEF Sample
      <4>5. ~(d.speed <= NowhereSpeed)
        BY <4>3, <4>4 DEF NowhereSpeed
      <4> QED BY <4>2, <4>3, <4>5 DEF WentNowhere
    <3>3. q[i].status = "closed"
      BY <1>5, <3>1, <3>2 DEF FinalOf
    <3>4. e = Null
      BY <1>2, <2>1, <2>3, <2>8
    <3>5. w.rows[i] = q[i]
      <4>1. CASE l = Null
        BY <1>3, <1>4, <4>1 DEF Carried
      <4>2. CASE l # Null
        <5>1. Carries(T, p, u, w)
          BY <1>0, <1>1, <1>3, <1>4, <3>4, <4>2, CarriedDoes
        <5>2. w.id \in Open(q) \/ w.id \notin DOMAIN q
          BY <1>4, <3>4, <5>1 DEF Carries
        <5>3. w.id # i
          BY <1>1, <3>3, <5>2 DEF Open
        <5> QED BY <1>1, <1>4, <5>1, <5>3 DEF Carries
      <4> QED BY <4>1, <4>2
    <3> QED BY <1>1, <1>5, <1>6, <2>4, <3>1, <3>3, <3>5 DEF Has
  <2> QED BY <2>7, <2>8
<1> QED BY <1>7, <1>8

\* A sample that is due, of rows that are sound.
LEMMA DueTells ==
  ASSUME NEW T \in SUBSET Sample, \A a, b \in T : a.ts = b.ts => a = b, NEW S \in SUBSET T,
         NEW x, Fits(T, x), Linked(x.mem), Sound(x.rows, x.mem), NEW t \in Nat,
         x.mem.seg.lastTs # Null => x.mem.seg.lastTs \in Nat /\ x.mem.seg.lastTs <= t,
         x.mem.seg.open # Null => x.mem.seg.open.start <= t,
         NEW X \in SUBSET T, Tells(x.rows, X)
  PROVE  Tells(At(x, S, t).rows, X \cup Due(S, t))
<1>1. CASE Due(S, t) = {}
  BY <1>1 DEF At
<1>2. CASE Due(S, t) # {}
  <2> DEFINE s == CHOOSE s \in Due(S, t) : TRUE
             v == ApplySample(x, s)
  <2>1. s \in T /\ s.ts = t /\ Due(S, t) = {s}
    BY <1>2 DEF Due
  <2>2. At(x, S, t) = v
    BY <1>2 DEF At
  <2> HIDE DEF s
  <2>3. /\ ~(x.mem.seg.lastTs # Null /\ s.ts < x.mem.seg.lastTs)
        /\ x.mem.seg.open # Null => x.mem.seg.open.start <= s.ts
    BY <2>1
  <2>4. Sound(v.rows, v.mem)
    BY <2>1, SampleSound
  <2>5. ASSUME NEW k \in {"drive", "charge"}, Wants(s, k) PROVE Has(v.rows, s, k)
    <3>1. /\ v.mem.id # Null /\ v.mem.seg.open.kind = k /\ s.ts \in Stamps(v.mem.points)
          /\ v.mem.seg.open.start <= s.ts
      BY <2>1, <2>3, <2>5, WantedRuns
    <3> HIDE DEF v
    <3> QED BY <2>4, <3>1, RunningHas
  <2>6. ASSUME NEW d \in X, NEW k \in {"drive", "charge"}, Wants(d, k) PROVE Has(v.rows, d, k)
    <3>1. Has(x.rows, d, k) /\ d \in T
      BY <2>6 DEF Tells
    <3> QED BY <2>1, <2>6, <3>1, SampleKeeps
  <2> HIDE DEF v
  <2> QED BY <2>1, <2>2, <2>5, <2>6 DEF Tells
<1> QED BY <1>1, <1>2

\* A rebuild of part S, over rows that tell of X.
LEMMA RebuiltTells ==
  ASSUME NEW T \in SUBSET Sample, \A a, b \in T : a.ts = b.ts => a = b, NEW S \in SUBSET T,
         NEW q \in Seq(RowsOf(T)), Open(q) = {}, Kepts(q), NEW X \in SUBSET T, Tells(q, X),
         NEW w, w = [rows |-> q, mem |-> Blank, ok |-> TRUE], NEW n \in Nat,
         \A s \in S : s.ts <= n
  PROVE  Tells(Upto(w, S, n).rows, X \cup S)
<1> DEFINE K == {t \in Nat : Tells(Upto(w, S, t).rows, X \cup {s \in S : s.ts <= t})}
<1>0. \A s \in S : s.ts \in Nat
  BY SampleFields
<1>1. 0 \in K
  <2>1. Blank \in MemoryOf(T) /\ Linked(Blank) /\ Blank.id = Null
    BY BlankIs
  <2>2. Fits(T, w) /\ Linked(w.mem) /\ w.rows = q /\ w.mem = Blank
    BY <2>1, AgreedFits
  <2>3. Sound(w.rows, w.mem) /\ w.mem.seg.lastTs = Null /\ w.mem.seg.open = Null
    BY <2>1, <2>2 DEF Sound, Blank, NoSegment
  <2>4. Tells(w.rows, X)
    BY <2>2
  <2>5. Tells(At(w, S, 0).rows, X \cup Due(S, 0))
    BY <2>2, <2>3, <2>4, DueTells
  <2>6. {s \in S : s.ts <= 0} = Due(S, 0)
    <3>1. \A s \in S : s.ts <= 0 <=> s.ts = 0
      BY <1>0
    <3> QED BY <3>1 DEF Due
  <2>7. Upto(w, S, 0) = At(w, S, 0)
    BY UptoSteps
  <2> QED BY <2>5, <2>6, <2>7
<1>2. ASSUME NEW t \in Nat, t \in K PROVE t + 1 \in K
  <2> DEFINE x == Upto(w, S, t)
             y == Dry(S, t)
             Y == X \cup {s \in S : s.ts <= t}
             n1 == t + 1
  <2>1. Along(T, x, y) /\ Tells(x.rows, Y) /\ n1 \in Nat
    BY <1>2, RebuiltAlong
  <2>2. Upto(w, S, n1) = At(x, S, n1)
    BY UptoSteps
  <2>3. X \cup {s \in S : s.ts <= n1} = Y \cup Due(S, n1) /\ Y \in SUBSET T
    <3>1. \A s \in S : s.ts <= n1 <=> (s.ts <= t \/ s.ts = n1)
      BY <1>0
    <3> QED BY <3>1 DEF Due
  <2>4. DryOk(S, t, y)
    BY DryIsOk
  <2> HIDE DEF x, y, Y
  <2>5. /\ x.mem.seg.lastTs # Null => x.mem.seg.lastTs \in Nat /\ x.mem.seg.lastTs <= n1
        /\ x.mem.seg.open # Null => x.mem.seg.open.start <= n1
    <3>1. x.mem.seg = y.mem.seg
      BY <2>1 DEF Along
    <3>2. y.mem.seg.lastTs # Null => y.mem.seg.lastTs \in Nat /\ y.mem.seg.lastTs <= t
      BY <2>4 DEF DryOk
    <3>3. y.mem.seg.open # Null => y.mem.seg.open.start \in Nat /\ y.mem.seg.open.start <= t
      BY <2>4, OpenStart
    <3>4. /\ y.mem.seg.lastTs # Null => y.mem.seg.lastTs \in Nat /\ y.mem.seg.lastTs <= n1
          /\ y.mem.seg.open # Null => y.mem.seg.open.start <= n1
      BY <3>2, <3>3
    <3> QED BY <3>1, <3>4
  <2> HIDE DEF n1
  <2>6. Tells(At(x, S, n1).rows, Y \cup Due(S, n1))
    <3>1. Fits(T, x) /\ Linked(x.mem) /\ Sound(x.rows, x.mem)
      BY <2>1 DEF Along
    <3> QED BY <2>1, <2>3, <2>5, <3>1, DueTells
  <2>7. n1 \in K
    BY <2>1, <2>2, <2>3, <2>6
  <2> QED BY <2>7 DEF n1
<1>3. \A t \in Nat : t \in K
  BY <1>1, <1>2, NatSetInduction
<1>4. S = {s \in S : s.ts <= n}
  OBVIOUS
<1> QED BY <1>3, <1>4

\* The newest sample of the tape is in the session that runs at the end of the replay.
LEMMA NewestRuns ==
  ASSUME NEW T \in SUBSET Sample, \A a, b \in T : a.ts = b.ts => a = b, NEW c \in Nat,
         \A d \in T : d.ts <= c, NEW s \in T, \A d \in T : d.ts <= s.ts,
         NEW k \in {"drive", "charge"}, Wants(s, k), NEW p, p = Dry(T, c)
  PROVE  /\ p.mem.id # Null /\ p.mem.seg.open.kind = k /\ s.ts \in Stamps(p.mem.points)
         /\ p.mem.seg.open.start <= s.ts
<1> DEFINE n == s.ts
           x == IF n = 0 THEN Fresh ELSE Dry(T, n - 1)
<1>1. n \in Nat /\ n <= c
  BY SampleFields
<1>2. p = Dry(T, n)
  <2>1. \A d \in T : d.ts \in Nat
    BY SampleFields
  <2>2. \A d \in T : ~(n < d.ts /\ d.ts <= c)
    BY <1>1, <2>1
  <2> QED BY <1>1, <2>2, UptoQuiet DEF Dry
<1>3. Dry(T, n) = At(x, T, n)
  <2>1. CASE n = 0
    BY <2>1, UptoSteps DEF Dry
  <2>2. CASE n # 0
    <3>1. n - 1 \in Nat /\ (n - 1) + 1 = n
      BY <1>1, <2>2
    <3> DEFINE b == n - 1
    <3>2. Dry(T, b + 1) = At(Dry(T, b), T, b + 1)
      <4>1. b \in Nat
        BY <3>1
      <4> HIDE DEF b
      <4> QED BY <4>1, UptoSteps DEF Dry
    <3> QED BY <2>2, <3>1, <3>2
  <2> QED BY <2>1, <2>2
<1>4. /\ Fits(T, x) /\ Linked(x.mem)
      /\ ~(x.mem.seg.lastTs # Null /\ n < x.mem.seg.lastTs)
      /\ (x.mem.seg.open # Null => x.mem.seg.open.start <= n)
  <2>1. CASE n = 0
    <3>1. x = Fresh
      BY <2>1
    <3>2. Fits(T, Fresh) /\ Linked(Fresh.mem)
      BY FreshOk DEF DryOk
    <3>3. Fresh.mem.seg.lastTs = Null /\ Fresh.mem.seg.open = Null
      BY DEF Fresh, Blank, NoSegment
    <3> QED BY <3>1, <3>2, <3>3
  <2>2. CASE n # 0
    <3>1. n - 1 \in Nat /\ x = Dry(T, n - 1)
      BY <1>1, <2>2
    <3>2. DryOk(T, n - 1, Dry(T, n - 1))
      BY <3>1, DryIsOk
    <3>3. x.mem.seg.lastTs # Null => x.mem.seg.lastTs \in Nat /\ x.mem.seg.lastTs <= n - 1
      BY <3>1, <3>2 DEF DryOk
    <3>4. x.mem.seg.lastTs # Null => ~(n < x.mem.seg.lastTs)
      BY <1>1, <3>3
    <3>5. Fits(T, x) /\ Linked(x.mem)
      BY <3>1, <3>2 DEF DryOk
    <3>6. x.mem.seg.open # Null => x.mem.seg.open.start \in Nat /\ x.mem.seg.open.start <= n - 1
      <4> DEFINE b == n - 1
      <4>1. DryOk(T, b, x)
        BY <3>1, <3>2
      <4> HIDE DEF b, x
      <4>2. x.mem.seg.open # Null => x.mem.seg.open.start \in Nat /\ x.mem.seg.open.start <= b
        BY <4>1, OpenStart
      <4> QED BY <4>2 DEF b
    <3>7. x.mem.seg.open # Null => x.mem.seg.open.start <= n
      BY <1>1, <3>6
    <3> QED BY <3>4, <3>5, <3>7
  <2> QED BY <2>1, <2>2
<1>5. At(x, T, n) = ApplySample(x, s)
  <2>1. Due(T, n) = {s}
    BY DEF Due
  <2> QED BY <2>1 DEF At
<1> HIDE DEF x
<1>6. p = ApplySample(x, s)
  BY <1>2, <1>3, <1>5
<1> QED BY <1>4, <1>6, WantedRuns

-----------------------------------------------------------------------------
(* Nothing is lost.                                                        *)

\* Every sample that is written is in a session, unless something has set rows and tape apart.
Told == Clean => Tells(rows, samples)

LEMMA HandleTold ==
  ASSUME Typed, Together, Told, Clean, mem # Null, NEW m, NEW was, Handle(m, was)
  PROVE  Told'
<1> DEFINE v == Emitted
<1>1. Tells(rows, samples) /\ Tells(v.rows, samples) /\ Tells(v.rows, samples \cup EmittedSample)
  BY EmitsTells DEF Told
<1>2. \/ rows' = rows /\ samples' = samples
      \/ rows' = v.rows /\ samples' = samples \cup EmittedSample
  BY DEF Handle, Handled, HandleCommits, HandleFails, HandleUnanswered, database
<1> HIDE DEF v
<1>3. Tells(rows', samples')
  BY <1>1, <1>2
<1> QED BY <1>3 DEF Told, Tells, Has

LEMMA FlushTold ==
  ASSUME Typed, Together, Told, Clean, Flush
  PROVE  Told'
<1> DEFINE v == Emitted
<1>1. mem # Null /\ rows' = v.rows /\ samples' = samples \cup EmittedSample
  BY DEF Flush
<1>2. Tells(v.rows, samples \cup EmittedSample)
  BY <1>1, EmitsTells DEF Told
<1> HIDE DEF v
<1>3. Tells(rows', samples')
  BY <1>1, <1>2
<1> QED BY <1>3 DEF Told, Tells, Has

LEMMA ResumeWarmTold ==
  ASSUME Typed, Together, Told, Clean, ResumeWarm
  PROVE  Told'
<1> DEFINE c == clock
           p == Replay
           w == Reconciled(p)
           m == [p.mem EXCEPT !.id = w.id]
<1>1. mem = Null /\ rows' = w.rows /\ samples' = samples \cup Flushed
  BY DEF ResumeWarm
<1>2. /\ tape \in SUBSET Sample /\ (\A a, b \in tape : a.ts = b.ts => a = b) /\ c \in Nat
      /\ (\A n \in StampsOf(tape) : n <= c) /\ (\A d \in tape : d.ts <= c)
      /\ rows \in Seq(RowsOf(tape))
  BY TypedGives
<1>3. p = Dry(tape, c)
  BY ApplyAllIs DEF Replay, Dry, Fresh
<1>4. Kepts(rows) /\ Meets(tape, rows, c)
  BY <1>1 DEF Together
<1>5. Tells(rows, samples) /\ samples \in SUBSET tape
  BY DEF Told, Typed
<1>6. Fits(tape, p) /\ Reconciles(tape, p, w)
  BY ReplayFits, RestartDoes
<1> HIDE DEF c, p
<1>7. Sound(w.rows, m)
  <2> HIDE DEF w, m
  <2> QED BY <1>2, <1>3, <1>4, ReconciledSound DEF w, m
<1>8. Tells(w.rows, samples)
  <2> HIDE DEF w
  <2> QED BY <1>2, <1>3, <1>4, <1>5, ReconciledTells DEF w
<1> HIDE DEF w
<1>9. m.seg = p.mem.seg /\ m.points = p.mem.points /\ m.id = w.id
  <2>1. p.mem = [seg |-> p.mem.seg, id |-> p.mem.id, points |-> p.mem.points]
    BY <1>6, FitsParts
  <2> QED BY <2>1
<1> HIDE DEF m
<1>10. ASSUME NEW s \in Flushed, NEW k \in {"drive", "charge"}, Wants(s, k) PROVE Has(w.rows, s, k)
  <2>1. s \in tape /\ \A d \in tape : d.ts <= s.ts
    BY DEF Flushed
  <2>2. /\ p.mem.id # Null /\ p.mem.seg.open.kind = k /\ s.ts \in Stamps(p.mem.points)
        /\ p.mem.seg.open.start <= s.ts
    BY <1>2, <1>3, <1>10, <2>1, NewestRuns
  <2>3. m.id # Null
    BY <1>6, <1>9, <2>2 DEF Reconciles
  <2>4. m.seg.open.kind = k /\ s.ts \in Stamps(m.points) /\ m.seg.open.start <= s.ts
    BY <1>9, <2>2
  <2> QED BY <1>7, <2>3, <2>4, RunningHas
<1>11. Tells(rows', samples')
  BY <1>1, <1>8, <1>10 DEF Tells
<1> QED BY <1>11 DEF Told, Tells, Has

LEMMA ReprocessTold ==
  ASSUME Typed, Together, Told, NEW from, NEW to, <<from, to>> \in Window, Clean',
         Reprocess(from, to)
  PROVE  Told'
<1> DEFINE T == tape
           c == clock
           S == {s \in tape : s.ts >= from}
           X == {s \in samples : s.ts < from}
           q == Without(from, to)
           w == [rows |-> q, mem |-> Blank, ok |-> TRUE]
           x == Upto(w, S, c)
<1>1. /\ rows' = ApplyAll(w, S).rows /\ samples' = X \cup S
      /\ from \in Nat /\ (from = 0 \/ Clean)
      /\ q \in Seq(RowsOf(tape)) /\ DOMAIN q = DOMAIN rows
      /\ \A i \in DOMAIN rows : /\ q[i].status # "open"
                                /\ q[i] = rows[i] \/ q[i].status = "gone"
                                /\ ~(rows[i].start >= from) => q[i] = rows[i]
                                /\ rows[i].start >= from => q[i].status = "gone"
  <2>1. RebuildDoes(from, Without(from, to), {s \in tape : s.ts >= from},
                    {s \in samples : s.ts < from})
    BY RebuildIs
  <2>2. RebuildDoes(from, q, S, X)
    BY <2>1
  <2> HIDE DEF q, S, X
  <2> QED BY <2>2 DEF RebuildDoes
<1>2. /\ T \in SUBSET Sample /\ (\A a, b \in T : a.ts = b.ts => a = b) /\ c \in Nat
      /\ (\A d \in T : d.ts \in Nat /\ d.ts <= c) /\ rows \in Seq(RowsOf(T))
      /\ samples \in SUBSET T
  BY TypedGives DEF Typed
<1>3. from \in Nat /\ S \in SUBSET T /\ X \in SUBSET T
  BY <1>1, <1>2
<1>4. rows' = x.rows
  BY <1>1, ApplyAllIs
<1>5. \A d \in X : d \in samples /\ d.ts \in Nat /\ d.ts < from
  BY <1>2
<1>6. from = 0 => X = {}
  BY <1>5
<1> HIDE DEF T, c, S, X, q
<1>7. /\ q \in Seq(RowsOf(T)) /\ DOMAIN q = DOMAIN rows
      /\ \A i \in DOMAIN rows : /\ q[i].status # "open"
                                /\ q[i] = rows[i] \/ q[i].status = "gone"
                                /\ ~(rows[i].start >= from) => q[i] = rows[i]
                                /\ rows[i].start >= from => q[i].status = "gone"
  BY <1>1 DEF T
<1>8. \A i \in DOMAIN rows : rows[i].start \in Nat
  <2> TAKE i \in DOMAIN rows
  <2>1. rows[i] \in RowsOf(T)
    BY <1>2, RowTyped
  <2> QED BY <1>2, <2>1, RowStart
<1>9. Open(q) = {} /\ Kepts(q)
  <2>1. CASE from = 0
    <3>1. \A i \in DOMAIN q : q[i].status = "gone"
      BY <1>7, <1>8, <2>1
    <3> QED BY <3>1 DEF Open, Kepts
  <2>2. CASE from # 0
    <3>1. \A i \in DOMAIN rows : rows[i].status # "abandoned"
      BY <1>1, <2>2 DEF Together, Kepts
    <3> QED BY <1>7, <3>1 DEF Open, Kepts
  <2> QED BY <2>1, <2>2
\* A session with a sample from before has begun before, and its row is kept.
<1>10. Tells(q, X)
  <2> SUFFICES ASSUME NEW d \in X, NEW k \in {"drive", "charge"}, Wants(d, k) PROVE Has(q, d, k)
    BY DEF Tells
  <2>1. Tells(rows, samples)
    BY <1>1, <1>6 DEF Told
  <2>2. PICK i \in DOMAIN rows : /\ rows[i].status # "gone" /\ rows[i].kind = k
                                 /\ d.ts \in rows[i].points /\ rows[i].start <= d.ts
    BY <1>5, <2>1 DEF Tells, Has
  <2>3. ~(rows[i].start >= from)
    BY <1>3, <1>5, <1>8, <2>2
  <2>4. q[i] = rows[i]
    BY <1>7, <2>3
  <2> QED BY <1>7, <2>2, <2>4 DEF Has
<1>11. Tells(x.rows, X \cup S)
  <2>1. /\ T \in SUBSET Sample /\ (\A a, b \in T : a.ts = b.ts => a = b)
        /\ S \in SUBSET T /\ X \in SUBSET T /\ c \in Nat
        /\ \A s \in S : s.ts <= c
    BY <1>2, <1>3
  <2>2. q \in Seq(RowsOf(T)) /\ Open(q) = {} /\ Kepts(q) /\ Tells(q, X)
    BY <1>7, <1>9, <1>10
  <2>3. w = [rows |-> q, mem |-> Blank, ok |-> TRUE]
    OBVIOUS
  <2> HIDE DEF w
  <2>4. Tells(Upto(w, S, c).rows, X \cup S)
    BY ONLY <2>1, <2>2, <2>3, RebuiltTells
  <2> QED BY <2>4
<1> HIDE DEF x
<1>12. Tells(rows', samples')
  BY <1>1, <1>3, <1>4, <1>11
<1> QED BY <1>12 DEF Told, Tells, Has

LEMMA NextTold ==
  ASSUME Typed, Together, Told, [Next]_vars
  PROVE  Told'
<1> SUFFICES ASSUME Clean' PROVE Told'
  BY DEF Told
<1>1. CASE \E r \in scenario.readings, d \in scenario.steps : Message(r, d)
  <2>1. PICK r \in scenario.readings, d \in scenario.steps : Message(r, d)
    BY <1>1
  <2>2. Clean /\ mem # Null
    BY <2>1 DEF Message, Handle, Handled, HandleCommits, HandleFails, HandleUnanswered, Clean
  <2>3. Handle(Stamped(r, clock + d), Stamped(r, clock + d))
    BY <2>1 DEF Message
  <2> QED BY <2>2, <2>3, HandleTold
<1>2. CASE \E r \in scenario.readings : ClockStepsBack(r)
  BY <1>2 DEF ClockStepsBack, Clean
<1>3. CASE \E m \in owed : Redeliver(m)
  <2>1. PICK m \in owed : Redeliver(m)
    BY <1>3
  <2>2. Clean /\ mem # Null /\ Handle(m, m)
    BY <2>1 DEF Redeliver, Handle, Handled, HandleCommits, HandleFails, HandleUnanswered, Clean
  <2> QED BY <2>2, HandleTold
<1>10. CASE \E o \in owed, d \in scenario.steps : RedeliverRestamped(o, d)
  <2>1. PICK o \in owed, d \in scenario.steps : RedeliverRestamped(o, d)
    BY <1>10
  <2> DEFINE m == [o EXCEPT !.ts = clock + d]
  <2>2. mem # Null /\ Handle(m, o)
    BY <2>1 DEF RedeliverRestamped
  <2> HIDE DEF m
  <2>3. Clean
    BY <2>2 DEF Handle, Handled, HandleCommits, HandleFails, HandleUnanswered, Clean
  <2> QED BY <2>2, <2>3, HandleTold
<1>4. CASE Flush
  BY <1>4, FlushTold DEF Flush, Clean
<1>5. CASE Dies
  BY <1>5 DEF Dies, database, Told, Tells, Has, Clean
<1>6. CASE ResumeWarm
  BY <1>6, ResumeWarmTold DEF ResumeWarm, Clean
<1>7. CASE StartCold
  BY <1>7 DEF StartCold, Clean
<1>8. CASE Rebuilds
  <2>1. PICK w \in Window : Reprocess(w[1], w[2])
    BY <1>8 DEF Rebuilds
  <2>2. <<w[1], w[2]>> \in Window
    BY <2>1 DEF Window
  <2> QED BY <2>1, <2>2, ReprocessTold
<1>9. CASE UNCHANGED vars
  BY <1>9 DEF vars, Told, Tells, Has, Clean
<1> QED BY <1>1, <1>2, <1>3, <1>4, <1>5, <1>6, <1>7, <1>8, <1>9, <1>10 DEF Next

\* pipeline.ts, sessions.ts, reprocess.ts: whatever fails, is sent again, restarts or is rebuilt,
\* every sample that charges is a point of a charge, and every one that drives fast of a drive:
\* no end of a session, no restart and no rebuild from some time on takes it away (Clean says
\* when that is promised).
THEOREM SamplesAreTold == Spec => []NothingLost
<1>1. Told => NothingLost
  <2> SUFFICES ASSUME Tells(rows, samples), NEW s \in samples PROVE ChargeTold(s) /\ DriveTold(s)
    BY DEF Told, NothingLost
  <2>1. \A k \in {"drive", "charge"} : Has(rows, s, k) => In(s, k)
    BY DEF Has, In, Kept
  <2> QED BY <2>1 DEF Tells, Wants, ChargeTold, DriveTold
<1>2. Init => Told
  BY DEF Init, Told, Tells
<1>3. Typed /\ Together /\ Told /\ [Next]_vars => Told'
  BY NextTold
<1>4. Init => Typed /\ Unclosed /\ Together
  BY InitSane, InitTogether
<1>5. Typed /\ Unclosed /\ Together /\ [Next]_vars => Typed' /\ Unclosed' /\ Together'
  BY NextSane, NextTogether
<1> QED BY <1>1, <1>2, <1>3, <1>4, <1>5, PTL DEF Spec

-----------------------------------------------------------------------------
(* The rows and the replay's.                                              *)

\* Row y of the table is row z of a replay, or becomes it.
Mirror(y, z) ==
  /\ z.kind = y.kind /\ z.start = y.start /\ y.points \subseteq z.points
  /\ y.status = "closed" => z.status # "open" /\ z.points = y.points

\* So it is of each row of q that is not deleted, and no two of them are one session.
Mirrored(q, p) ==
  /\ \A i \in DOMAIN q : q[i].status # "gone" => \E k \in DOMAIN p : Mirror(q[i], p[k])
  /\ \A i, j \in DOMAIN q :
       q[i].status # "gone" /\ q[j].status # "gone" /\ q[i].start = q[j].start => i = j

\* One row of each changes, and they are the same after.
LEMMA MirrorOne ==
  ASSUME NEW q, NEW p, Mirrored(q, p), NEW i \in DOMAIN q, q[i].status # "gone",
         NEW k \in DOMAIN p, p[k].start = q[i].start,
         NEW r, DOMAIN r = DOMAIN q, \A j \in DOMAIN q : j # i => r[j] = q[j],
         NEW o, DOMAIN o = DOMAIN p, \A j \in DOMAIN p : j # k => o[j] = p[j],
         r[i] = o[k], r[i].start = q[i].start
  PROVE  Mirrored(r, o)
<1>1. ASSUME NEW j \in DOMAIN r, r[j].status # "gone" PROVE \E l \in DOMAIN o : Mirror(r[j], o[l])
  <2>1. CASE j = i
    <3>1. Mirror(r[i], o[k])
      BY DEF Mirror
    <3> QED BY <2>1, <3>1
  <2>2. CASE j # i
    <3>1. j \in DOMAIN q /\ r[j] = q[j]
      BY <2>2
    <3>2. PICK l \in DOMAIN p : Mirror(q[j], p[l])
      BY <1>1, <3>1 DEF Mirrored
    <3>3. l # k
      BY <1>1, <2>2, <3>1, <3>2 DEF Mirrored, Mirror
    <3> QED BY <3>1, <3>2, <3>3
  <2> QED BY <2>1, <2>2
<1>2. \A j \in DOMAIN r : /\ r[j].start = q[j].start
                          /\ r[j].status # "gone" => q[j].status # "gone"
  OBVIOUS
<1> QED BY <1>1, <1>2 DEF Mirrored

\* A session begins in each.
OneRowMore(q, r, i) ==
  DOMAIN r = DOMAIN q \cup {i} /\ i \notin DOMAIN q /\ \A j \in DOMAIN q : r[j] = q[j]

LEMMA MirrorNew ==
  ASSUME NEW q, NEW p, Mirrored(q, p), NEW n, \A k \in DOMAIN p : p[k].start # n,
         NEW i, NEW r, OneRowMore(q, r, i), NEW k, NEW o, OneRowMore(p, o, k),
         r[i] = o[k], r[i].start = n
  PROVE  Mirrored(r, o)
<1>0. /\ DOMAIN r = DOMAIN q \cup {i} /\ i \notin DOMAIN q /\ \A j \in DOMAIN q : r[j] = q[j]
      /\ DOMAIN o = DOMAIN p \cup {k} /\ k \notin DOMAIN p /\ \A j \in DOMAIN p : o[j] = p[j]
  BY DEF OneRowMore
<1>1. ASSUME NEW j \in DOMAIN r, r[j].status # "gone" PROVE \E l \in DOMAIN o : Mirror(r[j], o[l])
  <2>1. CASE j = i
    <3>1. Mirror(r[i], o[k])
      BY <1>0 DEF Mirror
    <3> QED BY <1>0, <2>1, <3>1
  <2>2. CASE j # i
    <3>1. j \in DOMAIN q /\ r[j] = q[j]
      BY <1>0, <2>2
    <3>2. PICK l \in DOMAIN p : Mirror(q[j], p[l])
      BY <1>1, <3>1 DEF Mirrored
    <3> QED BY <1>0, <3>1, <3>2
  <2> QED BY <2>1, <2>2
<1>2. \A j \in DOMAIN q : q[j].status # "gone" => q[j].start # n
  BY DEF Mirrored, Mirror
<1>3. ASSUME NEW a \in DOMAIN r, NEW b \in DOMAIN r, r[a].status # "gone", r[b].status # "gone",
             r[a].start = r[b].start
      PROVE  a = b
  <2>1. CASE a \in DOMAIN q /\ b \in DOMAIN q
    BY <1>0, <1>3, <2>1 DEF Mirrored
  <2>2. CASE a \notin DOMAIN q /\ b \notin DOMAIN q
    BY <1>0, <2>2
  <2>3. CASE a \in DOMAIN q /\ b \notin DOMAIN q
    <3>1. b = i /\ r[a] = q[a]
      BY <1>0, <2>3
    <3> QED BY <1>2, <1>3, <2>3, <3>1
  <2>4. CASE a \notin DOMAIN q /\ b \in DOMAIN q
    <3>1. a = i /\ r[b] = q[b]
      BY <1>0, <2>4
    <3> QED BY <1>2, <1>3, <2>4, <3>1
  <2> QED BY <2>1, <2>2, <2>3, <2>4
<1> QED BY <1>1, <1>3 DEF Mirrored

\* A sample does the same to two works on one segment.
Both(T, w, x, s, v, y) ==
  \/ Silent(w, s, v) /\ Silent(x, s, y)
  \/ Continues(w, s, v) /\ Continues(x, s, y)
  \/ \E e \in T : Ends(w, s, v, e) /\ Ends(x, s, y, e)
  \/ \E k \in {"drive", "charge"} : Starts(w, s, v, k) /\ Starts(x, s, y, k)
  \/ \E e \in T, k \in {"drive", "charge"}, q \in Seq(RowsOf(T)), p \in Seq(RowsOf(T)) :
       Turns(w, s, v, e, k, q) /\ Turns(x, s, y, e, k, p)

LEMMA SaysBoth ==
  ASSUME NEW T \in SUBSET Sample, NEW w, Fits(T, w), Linked(w.mem), NEW x, Fits(T, x), Linked(x.mem),
         w.mem.seg = x.mem.seg, NEW s \in T, NEW v, v = ApplySample(w, s), NEW y, y = ApplySample(x, s)
  PROVE  Both(T, w, x, s, v, y)
<1> DEFINE st == w.mem.seg
<1>1. Says(T, w, s, v) /\ Says(T, x, s, y)
  BY SampleSays
<1>2. x.mem.seg = st
  OBVIOUS
<1> HIDE DEF st
<1>3. /\ \A e, d, k, l :
           /\ SaysEnd(st, s, e) /\ SaysEnd(st, s, d) => e = d
           /\ SaysTurn(st, s, e, k) /\ SaysTurn(st, s, d, l) => e = d /\ k = l
           /\ ~(SaysEnd(st, s, e) /\ SaysTurn(st, s, d, l))
           /\ ~(SaysEnd(st, s, e) /\ SaysPoint(st, s)) /\ ~(SaysTurn(st, s, e, k) /\ SaysPoint(st, s))
           /\ ~(SaysEnd(st, s, e) /\ SaysNothing(st, s)) /\ ~(SaysTurn(st, s, e, k) /\ SaysNothing(st, s))
      /\ \A e, k, l :
           /\ SaysStart(st, s, k) /\ SaysStart(st, s, l) => k = l
           /\ ~(SaysStart(st, s, k) /\ SaysNothing(st, s)) /\ ~(SaysStart(st, s, k) /\ SaysPoint(st, s))
           /\ ~(SaysStart(st, s, k) /\ SaysEnd(st, s, e)) /\ ~(SaysStart(st, s, k) /\ SaysTurn(st, s, e, l))
      /\ ~(SaysNothing(st, s) /\ SaysPoint(st, s))
  BY EventsApart, StartsApart
<1>4. CASE Silent(w, s, v)
  <2>1. SaysNothing(st, s)
    BY <1>4 DEF Silent, st
  <2>2. Silent(x, s, y)
    BY <1>1, <1>2, <1>3, <2>1 DEF Says, Continues, Ends, Starts, Turns
  <2> QED BY <1>4, <2>2 DEF Both
<1>5. CASE Continues(w, s, v)
  <2>1. SaysPoint(st, s)
    BY <1>5 DEF Continues, st
  <2>2. Continues(x, s, y)
    BY <1>1, <1>2, <1>3, <2>1 DEF Says, Silent, Ends, Starts, Turns
  <2> QED BY <1>5, <2>2 DEF Both
<1>6. CASE \E e \in T : Ends(w, s, v, e)
  <2>1. PICK e \in T : Ends(w, s, v, e)
    BY <1>6
  <2>2. SaysEnd(st, s, e)
    BY <2>1 DEF Ends, st
  <2>3. PICK d \in T : Ends(x, s, y, d)
    BY <1>1, <1>2, <1>3, <2>2 DEF Says, Silent, Continues, Starts, Turns
  <2>4. d = e
    BY <1>2, <1>3, <2>2, <2>3 DEF Ends
  <2> QED BY <2>1, <2>3, <2>4 DEF Both
<1>7. CASE \E k \in {"drive", "charge"} : Starts(w, s, v, k)
  <2>1. PICK k \in {"drive", "charge"} : Starts(w, s, v, k)
    BY <1>7
  <2>2. SaysStart(st, s, k)
    BY <2>1 DEF Starts, st
  <2>3. PICK l \in {"drive", "charge"} : Starts(x, s, y, l)
    BY <1>1, <1>2, <1>3, <2>2 DEF Says, Silent, Continues, Ends, Turns
  <2>4. l = k
    BY <1>2, <1>3, <2>2, <2>3 DEF Starts
  <2> QED BY <2>1, <2>3, <2>4 DEF Both
<1>8. CASE \E e \in T, k \in {"drive", "charge"}, q \in Seq(RowsOf(T)) : Turns(w, s, v, e, k, q)
  <2>1. PICK e \in T, k \in {"drive", "charge"}, q \in Seq(RowsOf(T)) : Turns(w, s, v, e, k, q)
    BY <1>8
  <2>2. SaysTurn(st, s, e, k)
    BY <2>1 DEF Turns, st
  <2>3. PICK d \in T, l \in {"drive", "charge"}, p \in Seq(RowsOf(T)) : Turns(x, s, y, d, l, p)
    BY <1>1, <1>2, <1>3, <2>2 DEF Says, Silent, Continues, Ends, Starts
  <2>4. d = e /\ l = k
    BY <1>2, <1>3, <2>2, <2>3 DEF Turns
  <2> QED BY <2>1, <2>3, <2>4 DEF Both
<1> QED BY <1>1, <1>4, <1>5, <1>6, <1>7, <1>8 DEF Says

\* The row of the segment is the same in two works on it.
OneOpenRow(T, q, p, i, k) ==
  /\ i \in DOMAIN q /\ k \in DOMAIN p /\ q[i] = p[k] /\ q[i] \in RowsOf(T)
  /\ q[i].status = "open" /\ Open(q) = {i} /\ Open(p) = {k}

LEMMA OpenRowsSame ==
  ASSUME NEW T \in SUBSET Sample, NEW w, Fits(T, w), Linked(w.mem), Sound(w.rows, w.mem),
         NEW x, Fits(T, x), Linked(x.mem), Sound(x.rows, x.mem),
         w.mem.seg = x.mem.seg, w.mem.points = x.mem.points, w.mem.id # Null,
         NEW i, i = w.mem.id, NEW k, k = x.mem.id
  PROVE  OneOpenRow(T, w.rows, x.rows, i, k)
<1>1. k # Null
  BY DEF Linked
<1>2. Open(w.rows) = {i} /\ Open(x.rows) = {k}
  BY <1>1 DEF Sound
<1> DEFINE a == w.rows[i]
           b == x.rows[k]
<1>3. i \in DOMAIN w.rows /\ k \in DOMAIN x.rows /\ a.status = "open" /\ b.status = "open"
  BY <1>2 DEF Open
<1>4. w.rows \in Seq(RowsOf(T)) /\ x.rows \in Seq(RowsOf(T))
  BY FitsParts
<1>5. a \in RowsOf(T) /\ b \in RowsOf(T)
  BY <1>3, <1>4, RowTyped
<1>6. a.kind = b.kind /\ a.start = b.start /\ a.points = b.points
  BY <1>1 DEF Sound
<1>7. a = b
  <2> HIDE DEF a, b
  <2> QED BY <1>3, <1>5, <1>6 DEF RowsOf
<1> QED BY <1>2, <1>3, <1>5, <1>7 DEF OneOpenRow

\* It ends in both.
Evenly(p, r, o) ==
  /\ Mirrored(r, o) /\ Open(r) = {} /\ Open(o) = {}
  /\ \A j \in DOMAIN o : j \in DOMAIN p /\ o[j].start = p[j].start

LEMMA MirrorEnds ==
  ASSUME NEW T \in SUBSET Sample, NEW q \in Seq(RowsOf(T)), NEW p \in Seq(RowsOf(T)), Mirrored(q, p),
         NEW i \in DOMAIN q, NEW k \in DOMAIN p, q[i] = p[k], q[i].status = "open",
         Open(q) = {i}, Open(p) = {k}, NEW points, NEW kind, NEW e \in T,
         NEW r \in Seq(RowsOf(T)), OnlyRow(q, r, i, EndedRow(points, kind, e, q[i])),
         NEW o \in Seq(RowsOf(T)), OnlyRow(p, o, k, EndedRow(points, kind, e, p[k]))
  PROVE  Evenly(p, r, o)
<1> DEFINE y == EndedRow(points, kind, e, q[i])
<1>1. Ended(q, r, i, y)
  BY EndsOnlyRow
<1>2. Ended(p, o, k, y)
  BY EndsOnlyRow
<1> HIDE DEF y
<1>3. Open(r) = {} /\ Open(o) = {}
  BY <1>1, <1>2, EndsLast
<1>4. /\ DOMAIN r = DOMAIN q /\ r[i] = y /\ (\A j \in DOMAIN q : j # i => r[j] = q[j])
      /\ r[i].start = q[i].start
  BY <1>1 DEF Ended, Follows
<1>5. /\ DOMAIN o = DOMAIN p /\ o[k] = y /\ (\A j \in DOMAIN p : j # k => o[j] = p[j])
      /\ \A j \in DOMAIN o : j \in DOMAIN p /\ o[j].start = p[j].start
  BY <1>2 DEF Ended, Follows
<1>6. q[i].status # "gone" /\ p[k].start = q[i].start /\ r[i] = o[k]
  BY <1>4, <1>5
<1>7. Mirrored(r, o)
  BY <1>4, <1>5, <1>6, MirrorOne
<1> QED BY <1>3, <1>5, <1>7 DEF Evenly

\* One begins in both.
LEMMA MirrorBegins ==
  ASSUME NEW T \in SUBSET Sample, NEW q \in Seq(RowsOf(T)), NEW p \in Seq(RowsOf(T)), Mirrored(q, p),
         Open(q) = {}, Open(p) = {}, NEW k \in {"drive", "charge"}, NEW s \in T,
         \A j \in DOMAIN p : p[j].start # s.ts,
         NEW r \in Seq(RowsOf(T)), NEW i, Begins(q, r, i, k, s),
         NEW o \in Seq(RowsOf(T)), NEW j, Begins(p, o, j, k, s)
  PROVE  Mirrored(r, o)
<1>1. Begun(q, r, i, k, s)
  BY BeginsFacts
<1>2. Begun(p, o, j, k, s)
  BY BeginsFacts
<1>3. i \notin DOMAIN q /\ j \notin DOMAIN p
  BY <1>1, <1>2 DEF Begun
<1> DEFINE z == [kind |-> k, start |-> s.ts, points |-> {s.ts}, status |-> "open"]
<1>4. /\ DOMAIN r = DOMAIN q \cup {i} /\ r[i] = z /\ \A a \in DOMAIN q : r[a] = q[a]
  BY <1>1, <1>3 DEF Begun
<1>5. /\ DOMAIN o = DOMAIN p \cup {j} /\ o[j] = z /\ \A a \in DOMAIN p : o[a] = p[a]
  BY <1>2, <1>3 DEF Begun
<1> DEFINE n == s.ts
<1>6. /\ r[i].start = n /\ r[i] = o[j] /\ \A a \in DOMAIN p : p[a].start # n
      /\ OneRowMore(q, r, i) /\ OneRowMore(p, o, j)
  BY <1>3, <1>4, <1>5 DEF OneRowMore
<1> HIDE DEF z, n
<1> QED BY <1>6, MirrorNew

\* A sample that is applied to the table and to a replay that has come as far.
LEMMA MirrorStep ==
  ASSUME NEW T \in SUBSET Sample, NEW w, Fits(T, w), Linked(w.mem), Sound(w.rows, w.mem),
         NEW x, Fits(T, x), Linked(x.mem), Sound(x.rows, x.mem),
         w.mem.seg = x.mem.seg, w.mem.points = x.mem.points, Mirrored(w.rows, x.rows),
         NEW s \in T, \A j \in DOMAIN x.rows : x.rows[j].start # s.ts,
         NEW v, v = ApplySample(w, s), NEW y, y = ApplySample(x, s)
  PROVE  Mirrored(v.rows, y.rows)
<1> DEFINE q == w.rows
           p == x.rows
           r == v.rows
           o == y.rows
           i == w.mem.id
           k == x.mem.id
           st == w.mem.seg
           pts == w.mem.points
           kind == st.open.kind
<1>1. Both(T, w, x, s, v, y)
  BY SaysBoth
<1>2. q \in Seq(RowsOf(T)) /\ p \in Seq(RowsOf(T)) /\ r \in Seq(RowsOf(T)) /\ o \in Seq(RowsOf(T))
  <2>1. Fits(T, v)
    BY SampleTrack
  <2>2. Fits(T, y)
    BY SampleTrack
  <2> QED BY <2>1, <2>2, FitsParts
<1>3. i # Null => /\ i \in DOMAIN q /\ k \in DOMAIN p /\ q[i] = p[k] /\ q[i] \in RowsOf(T)
                  /\ q[i].status = "open" /\ Open(q) = {i} /\ Open(p) = {k}
  <2>1. i # Null => OneOpenRow(T, q, p, i, k)
    BY OpenRowsSame
  <2> QED BY <2>1 DEF OneOpenRow
<1>4. i = Null => Open(q) = {} /\ Open(p) = {}
  BY DEF Linked, Sound
<1>5. (i = Null <=> st.open = Null) /\ x.mem.seg = st /\ x.mem.points = pts
  BY DEF Linked
<1>6. Mirrored(q, p) /\ \A j \in DOMAIN p : p[j].start # s.ts
  OBVIOUS
<1>7. CASE Silent(w, s, v) /\ Silent(x, s, y)
  BY <1>7 DEF Silent
<1>8. CASE Continues(w, s, v) /\ Continues(x, s, y)
  <2>1. /\ OnlyRow(q, r, i, [q[i] EXCEPT !.points = @ \cup {s.ts}])
        /\ OnlyRow(p, o, k, [p[k] EXCEPT !.points = @ \cup {s.ts}]) /\ i # Null
    BY <1>5, <1>8 DEF Continues, SaysPoint
  <2> HIDE DEF q, p, r, o, i, k, st
  <2>2. Pointed(q, r, i, s)
    BY <1>2, <1>3, <2>1, PointsOnlyRow
  <2>3. Pointed(p, o, k, s)
    BY <1>2, <1>3, <2>1, PointsOnlyRow
  <2>4. r[i] = o[k]
    BY <1>3, <2>1 DEF OnlyRow
  <2>5. /\ DOMAIN r = DOMAIN q /\ (\A j \in DOMAIN q : j # i => r[j] = q[j])
        /\ r[i].start = q[i].start
    BY <1>3, <2>1, <2>2 DEF Pointed, Follows
  <2>6. DOMAIN o = DOMAIN p /\ (\A j \in DOMAIN p : j # k => o[j] = p[j])
    BY <2>3 DEF Pointed
  <2>7. i \in DOMAIN q /\ q[i].status # "gone" /\ k \in DOMAIN p /\ p[k].start = q[i].start
    BY <1>3, <2>1
  <2>8. Mirrored(r, o)
    BY <1>6, <2>4, <2>5, <2>6, <2>7, MirrorOne
  <2> QED BY <2>8 DEF r, o
<1>9. CASE \E e \in T : Ends(w, s, v, e) /\ Ends(x, s, y, e)
  <2>1. PICK e \in T : Ends(w, s, v, e) /\ Ends(x, s, y, e)
    BY <1>9
  <2>2. /\ OnlyRow(q, r, i, EndedRow(pts, kind, e, q[i]))
        /\ OnlyRow(p, o, k, EndedRow(pts, kind, e, p[k])) /\ i # Null
    BY <1>5, <2>1 DEF Ends, SaysEnd
  <2> HIDE DEF q, p, r, o, i, k, st, pts, kind
  <2>3. Mirrored(r, o)
    BY <1>2, <1>3, <1>6, <2>2, MirrorEnds DEF Evenly
  <2> QED BY <2>3 DEF r, o
<1>10. CASE \E l \in {"drive", "charge"} : Starts(w, s, v, l) /\ Starts(x, s, y, l)
  <2>1. PICK l \in {"drive", "charge"} : Starts(w, s, v, l) /\ Starts(x, s, y, l)
    BY <1>10
  <2> DEFINE a == v.mem.id
             b == y.mem.id
  <2>2. Begins(q, r, a, l, s) /\ Begins(p, o, b, l, s) /\ i = Null
    BY <1>5, <2>1 DEF Starts, SaysStart
  <2> HIDE DEF q, p, r, o, i, k, st, a, b
  <2>3. Mirrored(r, o)
    BY <1>2, <1>4, <1>6, <2>2, MirrorBegins
  <2> QED BY <2>3 DEF r, o
<1>11. CASE \E e \in T, l \in {"drive", "charge"}, f \in Seq(RowsOf(T)), g \in Seq(RowsOf(T)) :
              Turns(w, s, v, e, l, f) /\ Turns(x, s, y, e, l, g)
  <2>1. PICK e \in T, l \in {"drive", "charge"}, f \in Seq(RowsOf(T)), g \in Seq(RowsOf(T)) :
              Turns(w, s, v, e, l, f) /\ Turns(x, s, y, e, l, g)
    BY <1>11
  <2> DEFINE a == v.mem.id
             b == y.mem.id
  <2>2. /\ OnlyRow(q, f, i, EndedRow(pts, kind, e, q[i])) /\ Begins(f, r, a, l, s)
        /\ OnlyRow(p, g, k, EndedRow(pts, kind, e, p[k])) /\ Begins(g, o, b, l, s) /\ i # Null
    BY <1>5, <2>1 DEF Turns, SaysTurn
  <2> HIDE DEF q, p, r, o, i, k, st, pts, kind, a, b
  <2>3. Evenly(p, f, g)
    BY <1>2, <1>3, <1>6, <2>2, MirrorEnds
  <2>4. Mirrored(f, g) /\ Open(f) = {} /\ Open(g) = {} /\ \A j \in DOMAIN g : g[j].start # s.ts
    BY <1>6, <2>3 DEF Evenly
  <2>5. Mirrored(r, o)
    BY <1>2, <2>2, <2>4, MirrorBegins
  <2> QED BY <2>5 DEF r, o
<1> QED BY <1>1, <1>7, <1>8, <1>9, <1>10, <1>11 DEF Both

\* A row of the replay that is not open is there to stay.
LEMMA DryClosed ==
  ASSUME NEW T \in SUBSET Sample, \A a, b \in T : a.ts = b.ts => a = b,
         NEW n \in Nat, NEW m \in Nat, n <= m, NEW i \in DOMAIN Dry(T, n).rows,
         Dry(T, n).rows[i].status # "open"
  PROVE  i \in DOMAIN Dry(T, m).rows /\ Dry(T, m).rows[i] = Dry(T, n).rows[i]
<1> DEFINE row == Dry(T, n).rows[i]
           Lasts(x) == i \in DOMAIN x.rows /\ x.rows[i] = row
           K == {t \in Nat : n <= t => Lasts(Dry(T, t))}
<1>0. Lasts(Dry(T, n)) /\ row.status # "open"
  OBVIOUS
<1> HIDE DEF row
<1>1. 0 \in K
  <2> SUFFICES ASSUME n <= 0 PROVE Lasts(Dry(T, 0))
    OBVIOUS
  <2>1. n = 0
    OBVIOUS
  <2> HIDE DEF Lasts
  <2> QED BY <1>0, <2>1
<1>2. ASSUME NEW t \in Nat, t \in K PROVE t + 1 \in K
  <2> SUFFICES ASSUME n <= t + 1 PROVE Lasts(Dry(T, t + 1))
    OBVIOUS
  <2>1. CASE n = t + 1
    <3> HIDE DEF Lasts
    <3> QED BY <1>0, <2>1
  <2>2. CASE n # t + 1
    <3> DEFINE x == Dry(T, t)
    <3>1. Lasts(x)
      BY <1>2, <2>2
    <3>2. Dry(T, t + 1) = At(x, T, t + 1)
      BY UptoSteps DEF Dry
    <3>3. DryOk(T, t, x)
      BY DryIsOk
    <3> HIDE DEF x
    <3>4. Lasts(At(x, T, t + 1))
      <4>1. CASE Due(T, t + 1) = {}
        <5>1. At(x, T, t + 1) = x
          BY <4>1 DEF At
        <5> QED BY <3>1, <5>1
      <4>2. CASE Due(T, t + 1) # {}
        <5> DEFINE s == CHOOSE s \in Due(T, t + 1) : TRUE
                   v == ApplySample(x, s)
        <5>1. s \in T
          BY <4>2 DEF Due
        <5>2. At(x, T, t + 1) = v
          BY <4>2 DEF At
        <5> HIDE DEF s
        <5>3. Fits(T, x) /\ Linked(x.mem) /\ Sound(x.rows, x.mem)
          BY <3>3 DEF DryOk
        <5>4. Grown(x.rows, v.rows, x.mem.id, s)
          BY <5>1, <5>3, SampleFrame
        <5> HIDE DEF v
        <5>5. i # x.mem.id
          <6>1. i \notin Open(x.rows) /\ i # Null
            <7>1. x.rows \in Seq(RowsOf(T))
              BY <5>3, FitsParts
            <7>2. i \in Nat
              BY <3>1, <7>1
            <7> QED BY <1>0, <3>1, <7>2, SessionsAssumption DEF Open
          <6> QED BY <5>3, <6>1 DEF Sound
        <5> QED BY <1>0, <3>1, <5>2, <5>4, <5>5 DEF Grown
      <4> QED BY <4>1, <4>2
    <3> QED BY <3>2, <3>4
  <2> QED BY <2>1, <2>2
<1>3. \A t \in Nat : t \in K
  BY <1>1, <1>2, NatSetInduction
<1>4. Lasts(Dry(T, m))
  BY <1>3
<1> QED BY <1>4 DEF row

\* What is mirrored stays so while the replay goes on.
LEMMA MirrorMore ==
  ASSUME NEW T \in SUBSET Sample, \A a, b \in T : a.ts = b.ts => a = b, NEW q,
         NEW n \in Nat \cup {Null}, NEW m \in Nat, n # Null => n <= m, Mirrored(q, DryAt(T, n).rows)
  PROVE  Mirrored(q, Dry(T, m).rows)
<1> SUFFICES ASSUME NEW i \in DOMAIN q, q[i].status # "gone"
             PROVE  \E k \in DOMAIN Dry(T, m).rows : Mirror(q[i], Dry(T, m).rows[k])
  BY DEF Mirrored
<1>1. PICK k \in DOMAIN DryAt(T, n).rows : Mirror(q[i], DryAt(T, n).rows[k])
  BY DEF Mirrored
<1>2. n # Null
  <2>1. DOMAIN <<>> = {}
    OBVIOUS
  <2> QED BY <1>1, <2>1 DEF DryAt, Fresh
<1> DEFINE p == Dry(T, n).rows
           o == Dry(T, m).rows
<1>3. n \in Nat /\ n <= m /\ k \in DOMAIN p /\ Mirror(q[i], p[k])
  BY <1>1, <1>2 DEF DryAt
<1>4. /\ k \in DOMAIN o /\ o[k].kind = p[k].kind /\ o[k].start = p[k].start
      /\ p[k].points \subseteq o[k].points
  BY <1>3, DryStays
<1>5. p[k].status # "open" => o[k] = p[k]
  BY <1>3, DryClosed
<1> HIDE DEF p, o
<1>6. Mirror(q[i], o[k])
  BY <1>3, <1>4, <1>5 DEF Mirror
<1> QED BY <1>4, <1>6 DEF o

\* A longer tape changes nothing of what was replayed.
LEMMA DryAtMore ==
  ASSUME NEW T \in SUBSET Sample, NEW U \in SUBSET Sample, T \subseteq U,
         NEW n \in Nat \cup {Null}, \A d \in U \ T : Newer(d, n)
  PROVE  DryAt(U, n) = DryAt(T, n)
<1>1. CASE n = Null
  BY <1>1 DEF DryAt
<1>2. CASE n # Null
  <2>1. n \in Nat /\ \A d \in U : d.ts \in Nat
    BY <1>2, SampleFields
  <2>2. \A t \in 0..n : Due(U, t) = Due(T, t)
    BY <1>2, <2>1 DEF Due, Newer
  <2>3. Dry(U, n) = Dry(T, n)
    BY <2>1, <2>2, UptoAgree DEF Dry
  <2> QED BY <1>2, <2>3 DEF DryAt
<1> QED BY <1>1, <1>2

\* The rows of memory m are the replay's up to m's newest sample; or, when s has been written and
\* not answered, up to s.
Mirrors(T, q, m, s) ==
  \/ Sound(q, m) /\ Mirrored(q, DryAt(T, m.seg.lastTs).rows)
  \/ s # Null /\ Redone(T, q, m, s) /\ Mirrored(q, Dry(T, s.ts).rows)

\* A sample that is written again writes nothing.
LEMMA RedoneAgain ==
  ASSUME NEW T \in SUBSET Sample, NEW q \in Seq(RowsOf(T)), NEW m, Holds(T, q, m), NEW s \in T,
         Redone(T, q, m, s), NEW v, v = ApplySample([rows |-> q, mem |-> m, ok |-> TRUE], s)
  PROVE  v.rows = q
<1>1. m \in MemoryOf(T) /\ Linked(m) /\ m.id \in DOMAIN q \cup {Null}
  BY DEF Holds
<1>2. PICK p \in Seq(RowsOf(T)) :
        /\ m.id \in DOMAIN p \cup {Null} /\ Sound(p, m)
        /\ q = ApplySample([rows |-> p, mem |-> m, ok |-> TRUE], s).rows
  BY DEF Redone
<1> DEFINE w == [rows |-> p, mem |-> m, ok |-> TRUE]
           x == [rows |-> q, mem |-> m, ok |-> TRUE]
           u == ApplySample(w, s)
<1>3. Fits(T, w) /\ Linked(w.mem) /\ w.rows = p /\ w.mem = m
  BY <1>1, <1>2, AgreedFits
<1>4. Fits(T, x) /\ x.rows = q /\ x.mem = m
  BY <1>1, AgreedFits
<1>5. q = u.rows /\ v = ApplySample(x, s)
  BY <1>2
<1> HIDE DEF w, x
<1>6. x.rows = u.rows /\ x.mem = w.mem /\ Sound(w.rows, w.mem)
  BY <1>2, <1>3, <1>4, <1>5
<1> HIDE DEF u
<1>7. v.rows = u.rows
  BY <1>3, <1>4, <1>5, <1>6, SampleTwice DEF u
<1> QED BY <1>5, <1>7

\* What is written when the pending sample is due.
WritesMirrored(T, q, m, s, v) ==
  /\ Mirrored(v.rows, DryAt(T, v.mem.seg.lastTs).rows)
  /\ s # Null => v.mem.seg.lastTs = s.ts /\ Redone(T, v.rows, m, s) /\ Mirrored(v.rows, Dry(T, s.ts).rows)
  /\ s = Null => v.rows = q /\ v.mem = m

LEMMA WritesMirror ==
  ASSUME NEW T \in SUBSET Sample, \A a, b \in T : a.ts = b.ts => a = b,
         NEW c \in Nat, \A d \in T : d.ts <= c, NEW O,
         NEW q \in Seq(RowsOf(T)), Kepts(q), NEW m, Holds(T, q, m), NEW s \in T \cup {Null},
         Agreed(T, O, q, m, s, c), Mirrors(T, q, m, s), NEW v, v = Writes(q, m, s)
  PROVE  WritesMirrored(T, q, m, s, v)
<1> DEFINE w == [rows |-> q, mem |-> m, ok |-> TRUE]
           n == m.seg.lastTs
<1>0. s = Null \/ (s \in T /\ s # Null /\ s.ts \in Nat)
  BY SampleFields
<1>1. Written(T, O, q, m, s, c, v)
  BY AgreedWrites
<1>2. CASE s = Null
  <2>1. v.rows = q /\ v.mem = m
    BY <1>2 DEF Writes
  <2> QED BY <1>2, <2>1 DEF Mirrors, WritesMirrored
<1>3. CASE s # Null
  <2>1. s \in T /\ s.ts \in Nat /\ s.ts # Null /\ v = ApplySample(w, s)
    BY <1>0, <1>3, SessionsAssumption DEF Writes
  <2>2. v.mem.seg.lastTs = s.ts
    BY <1>1, <1>3 DEF Written
  <2>3. m \in MemoryOf(T) /\ Linked(m) /\ m.id \in DOMAIN q \cup {Null} /\ n \in Nat \cup {Null}
    BY NewestIs DEF Holds
  <2>4. Fits(T, w) /\ Linked(w.mem) /\ w.rows = q /\ w.mem = m
    BY <2>3, AgreedFits
  <2>5. Redone(T, v.rows, m, s) /\ Mirrored(v.rows, Dry(T, s.ts).rows)
    <3>1. CASE Redone(T, q, m, s) /\ Mirrored(q, Dry(T, s.ts).rows)
      <4>1. v.rows = q
        BY <2>1, <3>1, RedoneAgain
      <4> QED BY <3>1, <4>1
    <3>2. CASE Sound(q, m) /\ Mirrored(q, DryAt(T, n).rows)
      <4>1. Redone(T, v.rows, m, s)
        BY <2>1, <2>3, <3>2 DEF Redone
      <4> DEFINE x == DryAt(T, n)
                 y == ApplySample(x, s)
      <4>2. Tracks(T, m) /\ Newer(s, n) /\ \A d \in T : Newer(d, n) => d = s \/ s.ts < d.ts
        BY <1>3 DEF Agreed, Ordered
      <4>3. m.seg = x.mem.seg /\ m.points = x.mem.points
        BY <4>2 DEF Tracks
      <4> HIDE DEF n
      <4>4. Dry(T, s.ts) = y
        BY <2>1, <2>3, <4>2, DryNext
      <4>5. Fits(T, x) /\ Linked(x.mem) /\ Sound(x.rows, x.mem)
        BY <2>3, DryAtOk
      <4>6. \A j \in DOMAIN x.rows : x.rows[j].start # s.ts
        <5>1. CASE n = Null
          <6>1. x.rows = <<>> /\ DOMAIN <<>> = {}
            BY <5>1 DEF DryAt, Fresh
          <6> QED BY <6>1
        <5>2. CASE n # Null
          <6>1. n \in Nat /\ x = Dry(T, n)
            BY <2>3, <5>2 DEF DryAt
          <6>2. DryOk(T, n, x)
            BY <6>1, DryIsOk
          <6>3. ~(s.ts <= n)
            BY <2>1, <4>2, <5>2, <6>1 DEF Newer
          <6> HIDE DEF x
          <6> QED BY <6>2, <6>3 DEF DryOk
        <5> QED BY <5>1, <5>2
      <4> HIDE DEF w, x
      <4>7. Sound(w.rows, w.mem) /\ w.mem.seg = x.mem.seg /\ w.mem.points = x.mem.points
            /\ Mirrored(w.rows, x.rows)
        BY <2>4, <3>2, <4>3 DEF x
      <4>8. Mirrored(v.rows, y.rows)
        BY <2>1, <2>4, <4>5, <4>6, <4>7, MirrorStep
      <4> QED BY <4>1, <4>4, <4>8
    <3> QED BY <3>1, <3>2 DEF Mirrors
  <2> QED BY <1>3, <2>1, <2>2, <2>5 DEF WritesMirrored, DryAt
<1> QED BY <1>2, <1>3

\* Unless something has set them apart, the rows are the replay's.
Faithful ==
  astray = {} =>
    /\ mem = Null => Mirrored(rows, Dry(tape, clock).rows)
    /\ mem # Null => Mirrors(tape, rows, mem, pending)

LEMMA EmitsMirror ==
  ASSUME Typed, Together, Faithful, astray = {}, mem # Null, NEW v, v = Emitted
  PROVE  WritesMirrored(tape, rows, mem, pending, v)
<1>1. v = Writes(rows, mem, pending)
  BY DEF Emitted, Writes
<1> DEFINE T == tape
           O == owed
           q == rows
           m == mem
           s == pending
           c == clock
<1>2. T \in SUBSET Sample /\ (\A a, b \in T : a.ts = b.ts => a = b) /\ c \in Nat
      /\ (\A d \in T : d.ts <= c) /\ q \in Seq(RowsOf(T)) /\ Holds(T, q, m) /\ s \in T \cup {Null}
  BY TypedGives
<1>3. Kepts(q) /\ Agreed(T, O, q, m, s, c) /\ v = Writes(q, m, s) /\ Mirrors(T, q, m, s)
  BY <1>1 DEF Together, Faithful, Clean
<1> HIDE DEF T, O, q, m, s, c
<1>4. WritesMirrored(T, q, m, s, v)
  BY <1>2, <1>3, WritesMirror
<1> QED BY <1>4 DEF T, q, m, s

LEMMA HandleFaithful ==
  ASSUME Typed, Together, Faithful, astray = {}, astray' = {}, mem # Null, mem' # Null,
         NEW m \in Sample, NEW was, Handle(m, was)
  PROVE  Faithful'
<1> DEFINE v == Emitted
           T == tape
           U == tape \cup {m}
           n == mem.seg.lastTs
           l == v.mem.seg.lastTs
<1>1. Written(tape, owed, rows, mem, pending, clock, v)
  BY EmitsTogether DEF Clean
<1>2. WritesMirrored(T, rows, mem, pending, v)
  BY EmitsMirror
<1>3. /\ l \in Nat \cup {Null} /\ Sound(v.rows, v.mem)
      /\ l = (IF pending = Null THEN n ELSE pending.ts)
  BY <1>1 DEF Written
<1> HIDE DEF v
<1>4. T \in SUBSET Sample /\ U \in SUBSET Sample /\ T \subseteq U /\ m.ts \in Nat
      /\ n \in Nat \cup {Null} /\ (pending # Null => pending.ts \in Nat /\ pending.ts # Null)
  BY TypedGives, SampleFields, SessionsAssumption
<1>5. ~Known(m) => \A d \in U \ T : Newer(d, l)
  BY <1>3, <1>4, SampleFields DEF Known, Newer
<1>6. ~Known(m) => DryAt(U, l) = DryAt(T, l)
  <2> HIDE DEF T, U, l
  <2> QED BY <1>3, <1>4, <1>5, DryAtMore
<1>7. Mirrors(T, rows, mem, pending)
  BY DEF Faithful
<1> SUFFICES Mirrors(tape', rows', mem', pending')
  BY DEF Faithful
<1>8. CASE HandleCommits(m, was)
  <2>1. CASE Known(m)
    <3>1. m \in T /\ tape' = T /\ UNCHANGED <<rows, mem, pending>>
      BY <1>8, <2>1 DEF HandleCommits
    <3> QED BY <1>7, <3>1
  <2>2. CASE ~Known(m)
    <3>1. tape' = U /\ rows' = v.rows /\ mem' = v.mem /\ pending' = m
      BY <1>8, <2>2 DEF HandleCommits, v
    <3>2. Mirrored(v.rows, DryAt(T, l).rows)
      BY <1>2 DEF WritesMirrored
    <3> HIDE DEF T, U
    <3> QED BY <1>3, <1>6, <2>2, <3>1, <3>2 DEF Mirrors
  <2> QED BY <2>1, <2>2
<1>9. CASE HandleFails(m, was)
  <2>1. tape' = T /\ UNCHANGED <<rows, mem, pending>>
    BY <1>9 DEF HandleFails, database
  <2> QED BY <1>7, <2>1
<1>10. CASE HandleUnanswered(m, was)
  <2>1. tape' = U /\ rows' = v.rows /\ mem' = mem /\ pending' = pending /\ ~Known(m)
    BY <1>10 DEF HandleUnanswered, v
  <2>2. CASE pending = Null
    <3>1. v.rows = rows /\ l = n
      BY <1>2, <1>3, <2>2 DEF WritesMirrored
    <3>2. Sound(rows, mem) /\ Mirrored(rows, DryAt(T, n).rows)
      BY <1>7, <2>2 DEF Mirrors
    <3> HIDE DEF T, U
    <3> QED BY <1>6, <2>1, <3>1, <3>2 DEF Mirrors
  <2>3. CASE pending # Null
    <3>1. l = pending.ts /\ Redone(T, v.rows, mem, pending) /\ Mirrored(v.rows, Dry(T, l).rows)
      BY <1>2, <2>3 DEF WritesMirrored
    <3>2. Dry(U, l) = Dry(T, l)
      BY <1>4, <1>6, <2>1, <2>3, <3>1 DEF DryAt
    <3>3. Redone(U, v.rows, mem, pending)
      <4>1. Seq(RowsOf(T)) \subseteq Seq(RowsOf(U))
        <5> HIDE DEF T, U
        <5> QED BY <1>4, MoreSamples
      <4> QED BY <3>1, <4>1 DEF Redone
    <3> HIDE DEF T, U
    <3> QED BY <2>1, <2>3, <3>1, <3>2, <3>3 DEF Mirrors
  <2> QED BY <2>2, <2>3
<1> QED BY <1>8, <1>9, <1>10 DEF Handle, Handled

LEMMA FlushFaithful ==
  ASSUME Typed, Unclosed, Together, Faithful, astray = {}, Flush
  PROVE  Faithful'
<1> DEFINE v == Emitted
<1>1. mem # Null /\ pending # Null /\ v.mem # Null
  BY EmittedDoes DEF Flush, Emits
<1>2. Sound(v.rows, v.mem)
  BY <1>1, EmitsTogether DEF Clean, Written
<1>3. WritesMirrored(tape, rows, mem, pending, v)
  BY <1>1, EmitsMirror
<1>4. /\ rows' = v.rows /\ tape' = tape
      /\ \/ mem' = v.mem /\ pending' = Null
         \/ mem' = mem /\ pending' = pending
  BY DEF Flush, world
<1> HIDE DEF v
<1>5. CASE mem' = v.mem /\ pending' = Null
  <2>1. Mirrors(tape, v.rows, v.mem, Null)
    BY <1>2, <1>3 DEF Mirrors, WritesMirrored
  <2> QED BY <1>1, <1>4, <1>5, <2>1 DEF Faithful
<1>6. CASE mem' = mem /\ pending' = pending
  <2>1. Mirrors(tape, v.rows, mem, pending)
    BY <1>1, <1>3 DEF Mirrors, WritesMirrored
  <2> QED BY <1>1, <1>4, <1>6, <2>1 DEF Faithful
<1> QED BY <1>4, <1>5, <1>6

LEMMA DiesFaithful ==
  ASSUME Typed, Together, Faithful, astray = {}, Dies
  PROVE  Faithful'
<1> DEFINE T == tape
           q == rows
           c == clock
           n == mem.seg.lastTs
<1>1. mem # Null /\ mem' = Null /\ UNCHANGED <<clock, tape, rows>>
  BY DEF Dies, world, database
<1>2. /\ T \in SUBSET Sample /\ (\A a, b \in T : a.ts = b.ts => a = b) /\ c \in Nat
      /\ n \in Nat \cup {Null} /\ (n # Null => n <= c)
      /\ (pending # Null => pending.ts \in Nat /\ pending.ts <= c)
  BY <1>1, TypedGives DEF Together, Agreed, Clean
<1>3. Mirrored(q, Dry(T, c).rows)
  <2>1. CASE Mirrored(q, DryAt(T, n).rows)
    <3> HIDE DEF T, q, c, n
    <3> QED BY <1>2, <2>1, MirrorMore
  <2>2. CASE pending # Null /\ Mirrored(q, Dry(T, pending.ts).rows)
    <3> DEFINE l == pending.ts
    <3>1. l \in Nat \cup {Null} /\ l <= c /\ Mirrored(q, DryAt(T, l).rows)
      BY <1>2, <2>2, SessionsAssumption DEF DryAt
    <3> HIDE DEF T, q, c, l
    <3> QED BY <1>2, <3>1, MirrorMore
  <2> QED BY <1>1, <2>1, <2>2 DEF Faithful, Mirrors
<1> QED BY <1>1, <1>3 DEF Faithful

\* The restart of a worker whose rows are the replay's so far.
LEMMA ReconciledMirrors ==
  ASSUME NEW T \in SUBSET Sample, \A a, b \in T : a.ts = b.ts => a = b, NEW c \in Nat,
         \A n \in StampsOf(T) : n <= c, rows \in Seq(RowsOf(T)), Kepts(rows), Waiting(T, rows, c),
         NEW p, p = Dry(T, c), Mirrored(rows, p.rows), NEW w, w = Reconciled(p)
  PROVE  Mirrored(w.rows, p.rows)
<1> DEFINE d == CarriedOn(p)
           q == Settled(p)
           u == [rows |-> q, id |-> d]
           l == p.mem.id
           m == [p.mem EXCEPT !.id = w.id]
<1>0. DryOk(T, c, p) /\ Fits(T, p) /\ Linked(p.mem) /\ Sound(p.rows, p.mem)
  BY DryIsOk DEF DryOk
<1>1. /\ q \in Seq(RowsOf(T)) /\ DOMAIN q = DOMAIN rows
      /\ \A i \in DOMAIN rows : rows[i].status # "open" => q[i] = rows[i]
      /\ \A i \in DOMAIN rows : q[i].kind = rows[i].kind
      /\ \A i \in Open(rows) : Goes(p, i, q[i])
  BY <1>0, SettledDoes
<1>2. \/ /\ d = Null
         /\ l = Null \/ \A i \in Open(rows) : MatchFor(p.rows, rows[i]) # l
      \/ d \in Open(rows) /\ l # Null /\ MatchFor(p.rows, rows[d]) = l
  BY CarriedOnIs
<1>3. w = Carried(p, u)
  BY DEF Reconciled
<1>4. Kepts(w.rows)
  <2> HIDE DEF m
  <2>1. Meets(T, rows, c)
    BY WaitingMeets
  <2> QED BY <2>1, ReconciledSound DEF m
<1> HIDE DEF d, q, m
<1>5. u.rows = q /\ u.id = d /\ u = [rows |-> u.rows, id |-> u.id]
  OBVIOUS
<1> HIDE DEF u
<1>6. ASSUME NEW i \in DOMAIN rows, NEW j \in DOMAIN p.rows, Mirror(rows[i], p.rows[j])
      PROVE  MatchFor(p.rows, rows[i]) = j
  <2>1. rows[i] \in RowsOf(T)
    BY RowTyped
  <2> QED BY <1>0, <1>6, <2>1, MatchIsIt DEF Mirror
<1>7. \A j \in DOMAIN p.rows : j # Null /\ (p.rows[j].status = "open" <=> j = l)
  <2>1. p.rows \in Seq(RowsOf(T))
    BY <1>0, FitsParts
  <2>2. \A j \in DOMAIN p.rows : j \in Nat
    BY <2>1, RowTyped
  <2> QED BY <1>0, <2>2, SessionsAssumption DEF Sound, Open
\* The rows that settle are the same sessions as before.
<1>8. ASSUME NEW i \in DOMAIN q, q[i].status # "gone"
      PROVE  /\ rows[i].status # "gone" /\ q[i].start = rows[i].start
             /\ \E j \in DOMAIN p.rows : Mirror(q[i], p.rows[j])
  <2>0. i \in DOMAIN rows
    BY <1>1
  <2>1. CASE rows[i].status # "open"
    <3>1. q[i] = rows[i]
      BY <1>1, <2>0, <2>1
    <3> QED BY <1>8, <2>0, <3>1 DEF Mirrored
  <2>2. CASE rows[i].status = "open"
    <3>1. i \in Open(rows)
      BY <2>0, <2>2 DEF Open
    <3>2. PICK j \in DOMAIN p.rows : Mirror(rows[i], p.rows[j])
      BY <2>0, <2>2 DEF Mirrored
    <3>3. MatchFor(p.rows, rows[i]) = j
      BY <1>6, <2>0, <3>2
    <3>4. Goes(p, i, q[i]) /\ q[i].kind = rows[i].kind
      BY <1>1, <2>0, <3>1
    <3>5. CASE q[i] = rows[i]
      BY <2>2, <3>2, <3>5
    <3>6. CASE q[i] # rows[i]
      <4>1. /\ p.rows[j].status # "open" /\ q[i].start = p.rows[j].start
            /\ q[i].points = p.rows[j].points
        BY <1>7, <3>3, <3>4, <3>6 DEF Goes
      <4>2. Mirror(q[i], p.rows[j])
        BY <3>2, <3>4, <4>1 DEF Mirror
      <4> QED BY <2>2, <3>2, <4>1, <4>2 DEF Mirror
    <3> QED BY <3>5, <3>6
  <2> QED BY <2>1, <2>2
<1>9. Mirrored(q, p.rows)
  BY <1>1, <1>8 DEF Mirrored
\* No row is carried on.
<1>10. CASE d = Null
  <2>1. CASE l = Null
    BY <1>3, <1>5, <1>9, <2>1 DEF Carried
  <2>2. CASE l # Null
    <3>1. Open(q) = {}
      <4> SUFFICES ASSUME NEW i \in DOMAIN q, q[i].status = "open" PROVE FALSE
        BY DEF Open
      <4>1. i \in Open(rows)
        BY <1>1, <1>4 DEF Open
      <4>2. Goes(p, i, q[i]) /\ MatchFor(p.rows, rows[i]) # l
        <5>1. Null \notin Open(rows)
          <6>1. \A k \in DOMAIN rows : k \in Nat
            BY RowTyped
          <6> QED BY <6>1, SessionsAssumption DEF Open
        <5> QED BY <1>1, <1>2, <1>10, <2>2, <4>1, <5>1
      <4> QED BY <4>2 DEF Goes
    <3>2. Carries(T, p, u, w)
      BY <1>0, <1>1, <1>3, <1>5, <1>10, <2>2, CarriedDoes
    <3> DEFINE y == w.rows[w.id]
    <3>3. /\ w.id \notin DOMAIN q /\ DOMAIN w.rows = DOMAIN q \cup {w.id}
          /\ \A i \in DOMAIN q : w.rows[i] = q[i]
      BY <1>5, <1>10, <3>1, <3>2 DEF Carries
    <3>4. y.status = "open" /\ y.kind = p.rows[l].kind /\ y.start = p.rows[l].start /\ y.points = Stamps(p.mem.points)
      BY <1>5, <1>10, <3>2 DEF Carries
    <3>5. l \in DOMAIN p.rows /\ p.rows[l].points = Stamps(p.mem.points) /\ p.rows[l].status = "open"
      BY <1>0, <2>2 DEF Sound, Open
    <3>6. Mirror(y, p.rows[l])
      BY <3>4, <3>5 DEF Mirror
    <3>7. ASSUME NEW i \in DOMAIN q, q[i].status # "gone" PROVE q[i].start # y.start
      <4>1. PICK j \in DOMAIN p.rows : Mirror(q[i], p.rows[j])
        BY <1>8, <3>7
      <4>2. q[i].status \in {"open", "closed", "abandoned"}
        <5>1. q[i] \in RowsOf(T)
          BY <1>1, RowTyped
        <5> QED BY <3>7, <5>1 DEF RowsOf
      <4>3. q[i].status = "closed"
        BY <1>4, <3>1, <3>3, <4>2 DEF Kepts, Open
      <4>4. j # l
        BY <3>5, <4>1, <4>3 DEF Mirror
      <4> QED BY <1>0, <3>4, <3>5, <4>1, <4>4 DEF DryOk, Mirror
    <3> DEFINE r == w.rows
    <3>8. \A i \in DOMAIN r : i # w.id => i \in DOMAIN q /\ r[i] = q[i]
      BY <3>3
    <3> HIDE DEF y, r
    <3>9. \A i \in DOMAIN r : r[i].status # "gone" => \E j \in DOMAIN p.rows : Mirror(r[i], p.rows[j])
      BY <1>9, <3>5, <3>6, <3>8 DEF Mirrored, y, r
    <3>10. \A i, j \in DOMAIN r :
             r[i].status # "gone" /\ r[j].status # "gone" /\ r[i].start = r[j].start => i = j
      BY <1>9, <3>7, <3>8 DEF Mirrored, y, r
    <3> QED BY <3>9, <3>10 DEF Mirrored, r
  <2> QED BY <2>1, <2>2
\* Row d is carried on.
<1>11. CASE d # Null
  <2>1. d \in Open(rows) /\ l # Null /\ MatchFor(p.rows, rows[d]) = l
    BY <1>2, <1>11
  <2>2. d \in DOMAIN rows /\ rows[d].status = "open"
    BY <2>1 DEF Open
  <2>3. Mirror(rows[d], p.rows[l]) /\ l \in DOMAIN p.rows
    <3>1. PICK j \in DOMAIN p.rows : Mirror(rows[d], p.rows[j])
      BY <2>2 DEF Mirrored
    <3> QED BY <1>6, <2>1, <2>2, <3>1
  <2>4. q[d] = rows[d] /\ d \in Open(q)
    <3>1. Goes(p, d, q[d])
      BY <1>1, <2>1
    <3> QED BY <1>1, <2>1, <2>2, <3>1 DEF Goes, Open
  <2>5. Carries(T, p, u, w)
    BY <1>0, <1>1, <1>3, <1>5, <2>1, <2>4, CarriedDoes
  <2>6. /\ w.id = d /\ DOMAIN w.rows = DOMAIN q /\ \A i \in DOMAIN q : i # d => w.rows[i] = q[i]
        /\ w.rows[d].status = "open" /\ w.rows[d].kind = q[d].kind
        /\ w.rows[d].start = p.rows[l].start /\ w.rows[d].points = Stamps(p.mem.points)
    BY <1>1, <1>5, <1>11, <2>2, <2>5 DEF Carries
  <2>7. p.rows[l].points = Stamps(p.mem.points)
    BY <1>0, <2>1 DEF Sound
  <2>8. Mirror(w.rows[d], p.rows[l]) /\ w.rows[d].start = q[d].start
    BY <2>3, <2>4, <2>6, <2>7 DEF Mirror
  <2> DEFINE r == w.rows
  <2>9. /\ DOMAIN r = DOMAIN q /\ d \in DOMAIN q
        /\ \A i \in DOMAIN r : i # d => r[i] = q[i]
        /\ \A i \in DOMAIN r : r[i].start = q[i].start /\ (r[i].status # "gone" => q[i].status # "gone")
    BY <1>1, <2>2, <2>4, <2>6, <2>8
  <2>10. Mirror(r[d], p.rows[l])
    BY <2>8
  <2> HIDE DEF r
  <2>11. \A i \in DOMAIN r : r[i].status # "gone" => \E j \in DOMAIN p.rows : Mirror(r[i], p.rows[j])
    BY <1>9, <2>3, <2>9, <2>10 DEF Mirrored
  <2>12. \A i, j \in DOMAIN r :
           r[i].status # "gone" /\ r[j].status # "gone" /\ r[i].start = r[j].start => i = j
    BY <1>9, <2>9 DEF Mirrored
  <2> QED BY <2>11, <2>12 DEF Mirrored, r
<1> QED BY <1>10, <1>11

LEMMA ResumeWarmFaithful ==
  ASSUME Typed, Unclosed, Together, Faithful, astray = {}, ResumeWarm
  PROVE  Faithful'
<1> DEFINE T == tape
           c == clock
           p == Replay
           w == Reconciled(p)
           m == [p.mem EXCEPT !.id = w.id]
           l == p.mem.seg.lastTs
<1>1. /\ mem = Null /\ rows' = w.rows /\ mem' = m /\ UNCHANGED <<clock, owed, tape, pending, astray>>
  BY DEF ResumeWarm, world
<1>2. m # Null
  BY RestartDoes
<1>3. /\ T \in SUBSET Sample /\ (\A a, b \in T : a.ts = b.ts => a = b) /\ c \in Nat
      /\ (\A n \in StampsOf(T) : n <= c) /\ (\A d \in T : d.ts \in Nat /\ d.ts <= c)
      /\ rows \in Seq(RowsOf(T))
  BY TypedGives
<1>4. p = Dry(T, c)
  BY ApplyAllIs DEF Replay, Dry, Fresh
<1>5. Kepts(rows) /\ Meets(T, rows, c) /\ Waiting(T, rows, c) /\ Mirrored(rows, Dry(T, c).rows)
  BY <1>1 DEF Together, Faithful, Clean
<1> HIDE DEF T, c, p
<1>6. Sound(w.rows, m)
  <2> HIDE DEF w, m
  <2> QED BY <1>3, <1>4, <1>5, ReconciledSound DEF w, m
<1>7. Mirrored(w.rows, p.rows)
  <2> HIDE DEF w
  <2> QED BY <1>3, <1>4, <1>5, ReconciledMirrors DEF w
<1>8. DryOk(T, c, p)
  BY <1>3, <1>4, DryIsOk
<1> HIDE DEF w
<1>9. m.seg = p.mem.seg
  <2>1. p.mem = [seg |-> p.mem.seg, id |-> p.mem.id, points |-> p.mem.points]
    BY <1>8, FitsParts DEF DryOk
  <2> QED BY <2>1
<1> HIDE DEF m
<1>10. DryAt(T, l) = p
  <2>1. CASE l = Null
    BY <1>8, <2>1 DEF DryOk, DryAt
  <2>2. CASE l # Null
    <3>1. l \in Nat /\ l <= c /\ \A s \in T : s.ts <= l \/ c < s.ts
      BY <1>8, <2>2 DEF DryOk
    <3>2. \A s \in T : ~(l < s.ts /\ s.ts <= c)
      BY <1>3, <3>1
    <3> HIDE DEF l
    <3>3. Dry(T, c) = Dry(T, l)
      BY <1>3, <3>1, <3>2, UptoQuiet DEF Dry
    <3> QED BY <1>4, <2>2, <3>3 DEF DryAt
  <2> QED BY <2>1, <2>2
<1>11. Mirrors(T, w.rows, m, pending)
  BY <1>6, <1>7, <1>9, <1>10 DEF Mirrors
<1> QED BY <1>1, <1>2, <1>11 DEF Faithful, T

\* A rebuild over rows that are gone writes the replay's.
LEMMA RebuiltMirrors ==
  ASSUME NEW T \in SUBSET Sample, \A a, b \in T : a.ts = b.ts => a = b,
         NEW q \in Seq(RowsOf(T)), \A i \in DOMAIN q : q[i].status = "gone",
         NEW w, w = [rows |-> q, mem |-> Blank, ok |-> TRUE], NEW n \in Nat
  PROVE  Mirrored(Upto(w, T, n).rows, Dry(T, n).rows)
<1> DEFINE Holds2(x, y) == Mirrored(x.rows, y.rows)
           K == {t \in Nat : Holds2(Upto(w, T, t), Dry(T, t))}
<1>0. Open(q) = {} /\ Kepts(q)
  BY DEF Open, Kepts
<1>1. ASSUME NEW t \in Int, t >= -1, NEW x, NEW y, Along(T, x, y), DryOk(T, t, y), Holds2(x, y)
      PROVE  Holds2(At(x, T, t + 1), At(y, T, t + 1))
  <2>1. CASE Due(T, t + 1) = {}
    BY <1>1, <2>1 DEF At
  <2>2. CASE Due(T, t + 1) # {}
    <3> DEFINE s == CHOOSE s \in Due(T, t + 1) : TRUE
               v == ApplySample(x, s)
               z == ApplySample(y, s)
    <3>1. s \in T /\ s.ts = t + 1
      BY <2>2 DEF Due
    <3>2. At(x, T, t + 1) = v /\ At(y, T, t + 1) = z
      BY <2>2 DEF At
    <3> HIDE DEF s
    <3>3. /\ Fits(T, x) /\ Linked(x.mem) /\ Sound(x.rows, x.mem)
          /\ Fits(T, y) /\ Linked(y.mem) /\ Sound(y.rows, y.mem)
          /\ x.mem.seg = y.mem.seg /\ x.mem.points = y.mem.points
      BY <1>1 DEF Along, DryOk
    <3>4. \A j \in DOMAIN y.rows : y.rows[j].start # s.ts
      <4>1. \A j \in DOMAIN y.rows : y.rows[j].start <= t
        BY <1>1 DEF DryOk
      <4>2. ~(t + 1 <= t)
        BY <1>1
      <4> QED BY <3>1, <4>1, <4>2
    <3>5. Mirrored(v.rows, z.rows)
      BY <1>1, <3>1, <3>3, <3>4, MirrorStep
    <3> QED BY <3>2, <3>5
  <2> QED BY <2>1, <2>2
<1>2. 0 \in K
  <2>1. Blank \in MemoryOf(T) /\ Linked(Blank) /\ Blank.id = Null
    BY BlankIs
  <2>2. Fits(T, w) /\ w.rows = q /\ w.mem = Blank
    BY <2>1 DEF Fits, WorksOf
  <2>3. DryOk(T, -1, Fresh) /\ Fresh.mem = Blank
    BY FreshOk DEF Fresh
  <2>4. Along(T, w, Fresh)
    BY <1>0, <2>1, <2>2, <2>3 DEF Along, Sound, DryOk
  <2>5. Holds2(w, Fresh)
    BY <2>2 DEF Mirrored
  <2> DEFINE a == -1
  <2>6. a \in Int /\ a >= -1 /\ a + 1 = 0 /\ DryOk(T, a, Fresh)
    BY <2>3
  <2> HIDE DEF a, Holds2
  <2>7. Holds2(At(w, T, a + 1), At(Fresh, T, a + 1))
    BY <1>1, <2>4, <2>5, <2>6
  <2> QED BY <2>6, <2>7, UptoSteps DEF Dry
<1>3. ASSUME NEW t \in Nat, t \in K PROVE t + 1 \in K
  <2> DEFINE x == Upto(w, T, t)
             y == Dry(T, t)
  <2>1. Along(T, x, y) /\ DryOk(T, t, y) /\ Holds2(x, y)
    BY <1>0, <1>3, RebuiltAlong, DryIsOk
  <2>2. Upto(w, T, t + 1) = At(x, T, t + 1) /\ Dry(T, t + 1) = At(y, T, t + 1)
    BY UptoSteps DEF Dry
  <2>3. t \in Int /\ t >= -1 /\ t + 1 \in Nat
    OBVIOUS
  <2> HIDE DEF x, y, Holds2
  <2>4. Holds2(At(x, T, t + 1), At(y, T, t + 1))
    BY <1>1, <2>1, <2>3
  <2> QED BY <2>2, <2>3, <2>4
<1>4. \A t \in Nat : t \in K
  <2> HIDE DEF K
  <2> QED BY <1>2, <1>3, NatSetInduction
<1> QED BY <1>4

LEMMA ReprocessFaithful ==
  ASSUME Typed, NEW from, NEW to, <<from, to>> \in Window, astray' = {}, Reprocess(from, to)
  PROVE  Faithful'
<1> DEFINE T == tape
           c == clock
           S == {s \in tape : s.ts >= from}
           X == {s \in samples : s.ts < from}
           q == Without(from, to)
           w == [rows |-> q, mem |-> Blank, ok |-> TRUE]
           x == Upto(w, T, c)
<1>1. /\ from = 0 /\ mem = Null /\ UNCHANGED <<clock, tape, mem>>
      /\ rows' = ApplyAll([rows |-> q, mem |-> Blank, ok |-> TRUE], S).rows
      /\ q \in Seq(RowsOf(tape)) /\ DOMAIN q = DOMAIN rows
      /\ \A i \in DOMAIN rows : rows[i].start >= from => q[i].status = "gone"
  <2>1. Clean'
    BY DEF Clean
  <2>2. RebuildDoes(from, Without(from, to), {s \in tape : s.ts >= from},
                    {s \in samples : s.ts < from})
    BY <2>1, RebuildIs
  <2>3. RebuildDoes(from, q, S, X)
    BY <2>2
  <2> HIDE DEF q, S, X
  <2> QED BY <2>3 DEF RebuildDoes
<1>2. /\ T \in SUBSET Sample /\ (\A a, b \in T : a.ts = b.ts => a = b) /\ c \in Nat
      /\ (\A d \in T : d.ts \in Nat) /\ rows \in Seq(RowsOf(T))
  BY TypedGives
<1>3. S = T
  BY <1>1, <1>2
<1>4. rows' = x.rows
  BY <1>1, <1>3, ApplyAllIs
<1> HIDE DEF T, c, S, q
<1>5. /\ q \in Seq(RowsOf(T)) /\ DOMAIN q = DOMAIN rows
      /\ \A i \in DOMAIN rows : rows[i].start >= from => q[i].status = "gone"
  BY <1>1 DEF T
<1>6. \A i \in DOMAIN rows : rows[i].start >= from
  <2> TAKE i \in DOMAIN rows
  <2>1. rows[i] \in RowsOf(T)
    BY <1>2, RowTyped
  <2>2. rows[i].start \in Nat
    BY <1>2, <2>1, RowStart
  <2> QED BY <1>1, <2>2
<1>7. \A i \in DOMAIN q : q[i].status = "gone"
  BY <1>5, <1>6
<1>8. Mirrored(x.rows, Dry(T, c).rows)
  BY <1>2, <1>5, <1>7, RebuiltMirrors
<1> QED BY <1>1, <1>4, <1>8 DEF Faithful, T, c

LEMMA InitFaithful == Init => Faithful
<1> SUFFICES ASSUME Init PROVE Faithful
  OBVIOUS
<1>1. Blank # Null
  <2>1. Blank \in MemoryOf(tape) /\ tape \in SUBSET Sample
    BY BlankIs DEF Init
  <2> QED BY <2>1, MemoryIsThere
<1>2. Open(<<>>) = {} /\ Blank.id = Null /\ DOMAIN <<>> = {}
  BY DEF Open, Blank
<1>3. Sound(<<>>, Blank)
  BY <1>2 DEF Sound
<1>4. Mirrored(<<>>, DryAt(tape, mem.seg.lastTs).rows)
  BY <1>2 DEF Mirrored
<1> QED BY <1>1, <1>3, <1>4 DEF Init, Faithful, Mirrors

LEMMA NextFaithful ==
  ASSUME Typed, Unclosed, Together, Faithful, [Next]_vars
  PROVE  Faithful'
<1> SUFFICES ASSUME astray' = {} PROVE Faithful'
  BY DEF Faithful
<1>0. ASSUME NEW m \in Sample, NEW was \in owed \cup {m}, mem # Null, Handle(m, was)
      PROVE  mem' # Null /\ astray = {}
  <2>1. mem' # Null
    BY <1>0, HandleDoes DEF Landed
  <2>2. astray = {}
    BY <1>0 DEF Handle, Handled, HandleCommits, HandleFails, HandleUnanswered
  <2> QED BY <2>1, <2>2
<1>1. CASE \E r \in scenario.readings, d \in scenario.steps : Message(r, d)
  <2>1. PICK r \in scenario.readings, d \in scenario.steps : Message(r, d)
    BY <1>1
  <2> DEFINE m == Stamped(r, clock + d)
  <2>2. clock \in Nat /\ d \in Nat /\ r \in Reading
    BY ScenarioIs DEF Typed
  <2>3. m \in Sample
    <3>1. clock + d \in Nat
      BY <2>2
    <3> QED BY <2>2, <3>1, StampedIs
  <2>4. mem # Null /\ Handle(m, m)
    BY <2>1 DEF Message
  <2> HIDE DEF m
  <2> QED BY <1>0, <2>3, <2>4, HandleFaithful
<1>2. CASE \E r \in scenario.readings : ClockStepsBack(r)
  BY <1>2 DEF ClockStepsBack
<1>3. CASE \E m \in owed : Redeliver(m)
  <2>1. PICK m \in owed : Redeliver(m)
    BY <1>3
  <2>2. m \in Sample /\ mem # Null /\ Handle(m, m)
    BY <2>1 DEF Redeliver, Typed
  <2> QED BY <1>0, <2>2, HandleFaithful
<1>10. CASE \E o \in owed, d \in scenario.steps : RedeliverRestamped(o, d)
  <2>1. PICK o \in owed, d \in scenario.steps : RedeliverRestamped(o, d)
    BY <1>10
  <2> DEFINE m == [o EXCEPT !.ts = clock + d]
  <2>2. mem # Null /\ Handle(m, o)
    BY <2>1 DEF RedeliverRestamped
  <2> HIDE DEF m
  <2>3. m \in Sample
    BY RestampedIs DEF m
  <2> QED BY <1>0, <2>2, <2>3, HandleFaithful
<1>4. CASE Flush
  BY <1>4, FlushFaithful DEF Flush
<1>5. CASE Dies
  BY <1>5, DiesFaithful DEF Dies
<1>6. CASE ResumeWarm
  BY <1>6, ResumeWarmFaithful DEF ResumeWarm
<1>7. CASE StartCold
  BY <1>7 DEF StartCold
<1>8. CASE Rebuilds
  <2>1. PICK w \in Window : Reprocess(w[1], w[2])
    BY <1>8 DEF Rebuilds
  <2>2. <<w[1], w[2]>> \in Window
    BY <2>1 DEF Window
  <2> QED BY <2>1, <2>2, ReprocessFaithful
<1>9. CASE UNCHANGED vars
  BY <1>9 DEF vars, Faithful
<1> QED BY <1>1, <1>2, <1>3, <1>4, <1>5, <1>6, <1>7, <1>8, <1>9, <1>10 DEF Next

\* A session that has nothing after stamp z has ended by z.
LEMMA EndWithin ==
  ASSUME NEW T \in SUBSET Sample, NEW y \in RowsOf(T), NEW z \in Nat, y.start <= z,
         \A n \in y.points : n <= z
  PROVE  EndedAt(y) <= z
<1>1. y.points \subseteq Nat
  BY RowStart
<1>2. CASE y.points = {}
  BY <1>2 DEF EndedAt
<1>3. CASE y.points # {}
  <2> DEFINE F == y.points
             g == [n \in F |-> n]
  <2>1. F # {} /\ \A n \in F : g[n] = n /\ g[n] \in Nat /\ g[n] <= z
    BY <1>1, <1>3
  <2> HIDE DEF g
  <2>2. PICK n \in F : \A k \in F : g[k] <= g[n]
    <3> HIDE DEF F
    <3> QED BY <2>1, LastExists
  <2>3. \A k \in F : k <= n
    BY <2>1, <2>2
  <2>4. EndedAt(y) = n
    BY <1>1, <2>2, <2>3, EndedAtIs
  <2> QED BY <2>2, <2>4
<1> QED BY <1>2, <1>3

\* Rows that a replay of whole sessions mirrors.
WellCut(q) ==
  /\ \A i \in DOMAIN q : q[i].status = "closed" =>
       Whole(q[i].kind, Between(q[i].start, EndedAt(q[i])))
  /\ \A i, j \in DOMAIN q :
       q[i].status # "gone" /\ q[j].status # "gone" /\ q[i].start < q[j].start =>
         EndedAt(q[i]) <= q[j].start /\ Reason(q[i].kind, Between(q[i].start, q[j].start))
  /\ \A i, j \in DOMAIN q :
       q[i].status # "gone" /\ q[j].status # "gone" /\ q[i].start = q[j].start => i = j

LEMMA MirrorCuts ==
  ASSUME NEW c, Taped(c), NEW p \in Seq(RowsOf(tape)), NEW m, Sound(p, m), Cut(p, m),
         NEW q \in Seq(RowsOf(tape)), Mirrored(q, p)
  PROVE  WellCut(q)
<1>0. tape \in SUBSET Sample
  BY DEF Taped
<1>1. \A k \in DOMAIN p : k # Null
  BY RowTyped, SessionsAssumption
<1>2. ASSUME NEW k \in DOMAIN p, k # m.id
      PROVE  \E z \in Nat : /\ Done(p[k], z)
                            /\ \A l \in DOMAIN p : p[k].start < p[l].start => z <= p[l].start
  BY <1>2 DEF Cut, Over
<1>3. \A i \in DOMAIN q : q[i] \in RowsOf(tape) /\ q[i].start \in Nat
  BY <1>0, RowTyped, RowStart
<1>4. \A i \in DOMAIN p : p[i] \in RowsOf(tape) /\ p[i].start \in Nat
  BY <1>0, RowTyped, RowStart
<1>5. ASSUME NEW i \in DOMAIN q, q[i].status = "closed"
      PROVE  Whole(q[i].kind, Between(q[i].start, EndedAt(q[i])))
  <2>1. PICK k \in DOMAIN p : Mirror(q[i], p[k])
    BY <1>5 DEF Mirrored
  <2>2. p[k].status # "open" /\ p[k].points = q[i].points /\ p[k].start = q[i].start /\ p[k].kind = q[i].kind
    BY <1>5, <2>1 DEF Mirror
  <2>3. k # m.id
    BY <1>1, <2>2 DEF Sound, Open
  <2>4. Whole(p[k].kind, Between(p[k].start, EndedAt(p[k])))
    BY <1>2, <2>3 DEF Done
  <2>5. EndedAt(p[k]) = EndedAt(q[i])
    BY <2>2 DEF EndedAt
  <2> QED BY <2>2, <2>4, <2>5
<1>6. ASSUME NEW i \in DOMAIN q, NEW j \in DOMAIN q, q[i].status # "gone", q[j].status # "gone",
             q[i].start < q[j].start
      PROVE  EndedAt(q[i]) <= q[j].start /\ Reason(q[i].kind, Between(q[i].start, q[j].start))
  <2>1. PICK k \in DOMAIN p : Mirror(q[i], p[k])
    BY <1>6 DEF Mirrored
  <2>2. PICK l \in DOMAIN p : Mirror(q[j], p[l])
    BY <1>6 DEF Mirrored
  <2> DEFINE a == q[i].start
             b == q[j].start
  <2>3. a \in Nat /\ b \in Nat /\ a < b
    BY <1>3, <1>6
  <2>4. p[k].start = a /\ p[l].start = b /\ p[k].kind = q[i].kind /\ q[i].points \subseteq p[k].points
    BY <2>1, <2>2 DEF Mirror
  <2>5. k # m.id
    <3>1. ~(p[l].start <= p[k].start)
      BY <2>3, <2>4
    <3> QED BY <1>1, <3>1 DEF Cut
  <2>6. PICK z \in Nat : Done(p[k], z) /\ \A h \in DOMAIN p : p[k].start < p[h].start => z <= p[h].start
    BY <1>2, <2>5
  <2>7. z <= b /\ a <= z /\ (\A n \in q[i].points : n <= z) /\ Reason(q[i].kind, Between(a, z))
    BY <2>3, <2>4, <2>6 DEF Done
  <2>8. EndedAt(q[i]) <= b
    <3> DEFINE y == q[i]
    <3>1. y \in RowsOf(tape) /\ y.start <= b
      BY <1>3, <2>3
    <3>2. \A n \in y.points : n <= b
      <4>1. y.points \subseteq Nat
        BY <1>0, <3>1, RowStart
      <4> QED BY <2>3, <2>7, <4>1
    <3> HIDE DEF y
    <3> QED BY <1>0, <2>3, <3>1, <3>2, EndWithin DEF y
  <2>9. Reason(q[i].kind, Between(a, b))
    <3> HIDE DEF a, b
    <3>1. Heads(Between(a, z), Between(a, b))
      BY <2>3, <2>7, BetweenHeads
    <3>2. Between(a, z) \in Seq(Sample) /\ Between(a, b) \in Seq(Sample)
      BY BetweenIs DEF Rising
    <3> QED BY <2>7, <3>1, <3>2, ReasonStays
  <2> QED BY <2>8, <2>9
<1> QED BY <1>5, <1>6 DEF WellCut, Mirrored

\* The rows are those of some replay, as far as it has come.
LEMMA RowsMirrored ==
  ASSUME Typed, Together, Faithful, astray = {}
  PROVE  \E n \in Nat : Mirrored(rows, Dry(tape, n).rows)
<1> DEFINE T == tape
           c == clock
           n == mem.seg.lastTs
<1>1. /\ T \in SUBSET Sample /\ (\A a, b \in T : a.ts = b.ts => a = b) /\ c \in Nat
      /\ (mem # Null => n \in Nat \cup {Null} /\ (n # Null => n <= c))
      /\ (pending # Null => pending.ts \in Nat)
  BY TypedGives DEF Together, Agreed, Clean
<1>2. CASE mem = Null
  BY <1>1, <1>2 DEF Faithful
<1>3. CASE mem # Null
  <2>1. CASE pending # Null /\ Mirrored(rows, Dry(T, pending.ts).rows)
    BY <1>1, <2>1
  <2>2. CASE Mirrored(rows, DryAt(T, n).rows)
    <3>1. n \in Nat \cup {Null} /\ (n # Null => n <= c)
      BY <1>1, <1>3
    <3> HIDE DEF T, n, c
    <3>2. Mirrored(rows, Dry(T, c).rows)
      BY <1>1, <2>2, <3>1, MirrorMore
    <3> QED BY <1>1, <3>2 DEF T
  <2> QED BY <1>3, <2>1, <2>2 DEF Faithful, Mirrors
<1> QED BY <1>2, <1>3

\* segmenter.ts, pipeline.ts: whatever fails, is sent again, restarts or is rebuilt, a row that is
\* closed is one trip or one charge and the whole of it: nothing in its samples would have ended
\* it, no two rows overlap, and between the starts of two rows of a kind the tape has the reason
\* that ended the first; as long as nothing sets the tape and the rows apart (astray), as a
\* message does that is on the tape at two stamps.
THEOREM SegmentsHold == Spec => []SegmentsSound
<1>1. ASSUME Typed, Together, Faithful PROVE SegmentsSound
  <2> SUFFICES ASSUME astray = {} PROVE SegmentsSound
    BY DEF SegmentsSound, SegmentsApart, SegmentsUncut
  <2>1. Taped(clock)
    BY <1>1, TypedGives DEF Taped
  <2>2. rows \in Seq(RowsOf(tape)) /\ tape \in SUBSET Sample
    BY <1>1, TypedGives
  <2>3. PICK n \in Nat : Mirrored(rows, Dry(tape, n).rows)
    BY <1>1, RowsMirrored
  <2> DEFINE x == Dry(tape, n)
  <2>4. DryOk(tape, n, x)
    BY <2>1, DryIsOk DEF Taped
  <2>5. Cut(x.rows, x.mem)
    BY <2>1, CutHolds
  <2> HIDE DEF x
  <2>6. x.rows \in Seq(RowsOf(tape)) /\ Sound(x.rows, x.mem)
    BY <2>2, <2>4, FitsParts DEF DryOk
  <2>7. WellCut(rows)
    BY <2>1, <2>2, <2>3, <2>5, <2>6, MirrorCuts DEF x
  <2>8. \A i \in DOMAIN rows : rows[i].start \in Nat
    BY <2>2, RowTyped, RowStart
  <2>9. ASSUME NEW i \in Kept, NEW j \in Kept, i < j
        PROVE  EndedAt(rows[i]) <= rows[j].start \/ EndedAt(rows[j]) <= rows[i].start
    <3>1. /\ i \in DOMAIN rows /\ j \in DOMAIN rows /\ rows[i].status # "gone" /\ rows[j].status # "gone"
          /\ i # j
      <4>1. i \in Nat /\ j \in Nat
        BY <2>2 DEF Kept
      <4> QED BY <2>9, <4>1 DEF Kept
    <3> DEFINE a == rows[i].start
               b == rows[j].start
    <3>2. a \in Nat /\ b \in Nat /\ a # b
      BY <2>7, <2>8, <3>1 DEF WellCut
    <3>3. a < b \/ b < a
      BY <3>2
    <3> QED BY <2>7, <3>1, <3>3 DEF WellCut
  <2>10. ASSUME NEW i \in Closed
         PROVE  Whole(rows[i].kind, Between(rows[i].start, EndedAt(rows[i])))
    BY <2>7 DEF WellCut, Closed, Kept
  <2>11. SegmentsApart
    BY <2>9, <2>10 DEF SegmentsApart, Whole
  <2>12. SegmentsUncut
    <3> SUFFICES ASSUME NEW i \in Kept, NEW j \in Kept, rows[i].start < rows[j].start
                 PROVE  Reason(rows[i].kind, Between(rows[i].start, rows[j].start))
      BY DEF SegmentsUncut, Reason
    <3> QED BY <2>7 DEF WellCut, Kept
  <2> QED BY <2>11, <2>12 DEF SegmentsSound
<1>2. Init => Typed /\ Unclosed /\ Together /\ Faithful
  BY InitSane, InitTogether, InitFaithful
<1>3. Typed /\ Unclosed /\ Together /\ [Next]_vars => Typed' /\ Unclosed' /\ Together'
  BY NextSane, NextTogether
<1>4. Typed /\ Unclosed /\ Together /\ Faithful /\ [Next]_vars => Faithful'
  BY NextFaithful
<1> QED BY <1>1, <1>2, <1>3, <1>4, PTL DEF Spec
===============================================================================
