---------------------------- MODULE SessionsProofs ----------------------------
(***************************************************************************)
(* Theorems about Sessions, for every scenario: any readings, any number   *)
(* of messages and of faults.  Its types, that a closed row stays, that a  *)
(* sample applied twice is a sample, and that every session of a replay is *)
(* whole and ends for a reason.                                            *)
(***************************************************************************)
EXTENDS Sessions, InductionFacts, SequenceTheorems, FiniteSetTheorems

-----------------------------------------------------------------------------
(* What a step of the segmenter says: nothing, a point, an end, or a       *)
(* session that starts with a point, alone or behind an end.               *)

\* What the segmenter, the memory and the rows may hold when the samples are those of T.
SegmentsOf(T) ==
  [kind : {"drive", "charge"}, start : Nat, last : T, still : Nat \cup {Null},
   paused : T \cup {Null}]
TracksOf(T) == [open : SegmentsOf(T) \cup {Null}, lastTs : Nat \cup {Null}]

SaysNothing(st, s) ==
  /\ Step(st, s).events = <<>>
  /\ (Step(st, s).state.open = Null) <=> (st.open = Null)
  /\ st.open # Null => /\ Step(st, s).state.open.kind = st.open.kind
                       /\ Step(st, s).state.open.start = st.open.start

SaysPoint(st, s) ==
  /\ Step(st, s).events = <<Point(s)>>
  /\ st.open # Null /\ Step(st, s).state.open # Null
  /\ Step(st, s).state.open.kind = st.open.kind
  /\ Step(st, s).state.open.start = st.open.start

SaysEnd(st, s, e) ==
  /\ Step(st, s).events = <<End(st.open.kind, e)>>
  /\ st.open # Null /\ Step(st, s).state.open = Null

SaysStart(st, s, k) ==
  /\ Step(st, s).events = <<Start(k, s), Point(s)>>
  /\ st.open = Null /\ Step(st, s).state.open = Opened(k, s)

SaysTurn(st, s, e, k) ==
  /\ Step(st, s).events = <<End(st.open.kind, e), Start(k, s), Point(s)>>
  /\ st.open # Null /\ Step(st, s).state.open = Opened(k, s)

LEMMA OneAndTwo == ASSUME NEW a, NEW b, NEW c PROVE <<a>> \o <<b, c>> = <<a, b, c>>
<1> DEFINE S == {a, b, c}
           p == <<a>>
           q == <<b, c>>
           r == <<a, b, c>>
<1>1. p \in Seq(S) /\ q \in Seq(S) /\ r \in Seq(S)
  OBVIOUS
<1>2. /\ Len(p) = 1 /\ p[1] = a /\ Len(q) = 2 /\ q[1] = b /\ q[2] = c
      /\ Len(r) = 3 /\ r[1] = a /\ r[2] = b /\ r[3] = c
  OBVIOUS
<1> HIDE DEF S, p, q, r
<1>3. /\ p \o q \in Seq(S) /\ Len(p \o q) = Len(p) + Len(q)
      /\ \A i \in 1..Len(p) + Len(q) :
           (p \o q)[i] = IF i <= Len(p) THEN p[i] ELSE q[i - Len(p)]
  BY <1>1, ConcatProperties
<1>4. /\ Len(p \o q) = 3
      /\ (p \o q)[1] = a /\ (p \o q)[2] = b /\ (p \o q)[3] = c
  BY <1>2, <1>3
<1>5. \A i \in 1..3 : i = 1 \/ i = 2 \/ i = 3
  OBVIOUS
<1>6. \A i \in 1..3 : (p \o q)[i] = r[i]
  BY <1>2, <1>4, <1>5
<1>7. p \o q = r
  BY <1>1, <1>2, <1>3, <1>6, SeqEqual
<1> QED BY <1>7 DEF p, q, r

LEMMA SegmentsNotNull == ASSUME NEW T \in SUBSET Sample PROVE Null \notin SegmentsOf(T)
BY SessionsAssumption DEF SegmentsOf, OpenSegment

LEMMA SampleFields ==
  ASSUME NEW s \in Sample
  PROVE  s # Null /\ s.ts \in Nat /\ s.ts # Null
BY SessionsAssumption DEF Sample

LEMMA OpenedTyped ==
  ASSUME NEW T \in SUBSET Sample, NEW s \in T, NEW k \in {"drive", "charge"}
  PROVE  Opened(k, s) \in SegmentsOf(T)
BY SampleFields DEF Opened, SegmentsOf

\* Where what is open ends is one of the samples.
LEMMA EndIsSample ==
  ASSUME NEW T \in SUBSET Sample, NEW o \in SegmentsOf(T)
  PROVE  \E e \in T : EndOf(o) = End(o.kind, e)
<1>1. o.last \in T /\ o.paused \in T \cup {Null}
  BY DEF SegmentsOf
<1> QED BY <1>1 DEF EndOf

\* A charge goes on, silently or with a point, or ends.
LEMMA ChargeSays ==
  ASSUME NEW T \in SUBSET Sample, NEW o \in SegmentsOf(T), NEW s \in T
  PROVE  \/ /\ InCharge(o, s).open = Null
            /\ \E e \in T : InCharge(o, s).events = <<End(o.kind, e)>>
         \/ /\ InCharge(o, s).open \in SegmentsOf(T)
            /\ InCharge(o, s).open.kind = o.kind /\ InCharge(o, s).open.start = o.start
            /\ InCharge(o, s).events \in {<<>>, <<Point(s)>>}
<1> DEFINE stopped == IF o.paused = Null THEN s ELSE o.paused
           paused == [o EXCEPT !.paused = stopped]
           on == [o EXCEPT !.last = s, !.paused = Null]
<1>1. stopped \in T
  BY DEF SegmentsOf
<1>2. paused \in SegmentsOf(T) /\ paused.kind = o.kind /\ paused.start = o.start
  BY <1>1 DEF SegmentsOf
<1>3. on \in SegmentsOf(T) /\ on.kind = o.kind /\ on.start = o.start
  BY DEF SegmentsOf
<1>4. \E e \in T : EndOf(paused) = End(o.kind, e)
  BY <1>2, EndIsSample
<1>5. \E e \in T : EndOf(o) = End(o.kind, e)
  BY EndIsSample
<1>6. \/ InCharge(o, s) = [open |-> Null, events |-> <<EndOf(o)>>]
      \/ InCharge(o, s) = [open |-> Null, events |-> <<EndOf(paused)>>]
      \/ InCharge(o, s) = [open |-> on, events |-> <<Point(s)>>]
      \/ InCharge(o, s) = [open |-> paused, events |-> <<>>]
  BY DEF InCharge
<1> HIDE DEF paused, on
<1> QED BY <1>2, <1>3, <1>4, <1>5, <1>6

\* A drive goes on with a point, or ends.
LEMMA DriveSays ==
  ASSUME NEW T \in SUBSET Sample, NEW o \in SegmentsOf(T), o.kind = "drive", NEW s \in T
  PROVE  \/ /\ InDrive(o, s).open = Null
            /\ \E e \in T : InDrive(o, s).events = <<End(o.kind, e)>>
         \/ /\ InDrive(o, s).open \in SegmentsOf(T)
            /\ InDrive(o, s).open.kind = o.kind /\ InDrive(o, s).open.start = o.start
            /\ InDrive(o, s).events \in {<<>>, <<Point(s)>>}
<1> DEFINE m == Motion(s, o.last)
           still == IF m = "moving" \/ InGear(s) THEN Null
                    ELSE IF m = "stationary" /\ o.still = Null THEN s.ts ELSE o.still
           on == [o EXCEPT !.last = s, !.still = still]
<1>1. still \in Nat \cup {Null}
  BY SampleFields DEF SegmentsOf
<1> HIDE DEF still
<1>2. on \in SegmentsOf(T) /\ on.kind = o.kind /\ on.start = o.start
  BY <1>1 DEF SegmentsOf
<1>3. \E e \in T : EndOf(o) = End(o.kind, e)
  BY EndIsSample
<1>4. \/ InDrive(o, s) = [open |-> Null, events |-> <<End("drive", s)>>]
      \/ InDrive(o, s) = [open |-> Null, events |-> <<EndOf(o)>>]
      \/ InDrive(o, s) = [open |-> on, events |-> <<Point(s)>>]
  BY DEF InDrive, still
<1> HIDE DEF on
<1> QED BY <1>2, <1>3, <1>4

\* Of a sample that is not older than the last.
LEMMA NewerSays ==
  ASSUME NEW T \in SUBSET Sample, NEW st \in TracksOf(T), NEW s \in T,
         ~(st.lastTs # Null /\ s.ts < st.lastTs)
  PROVE  /\ Step(st, s).state \in TracksOf(T) /\ Step(st, s).state.lastTs = s.ts
         /\ \/ SaysNothing(st, s) \/ SaysPoint(st, s) \/ (\E e \in T : SaysEnd(st, s, e))
            \/ (\E k \in {"drive", "charge"} : SaysStart(st, s, k))
            \/ (\E e \in T, k \in {"drive", "charge"} : SaysTurn(st, s, e, k))
<1> DEFINE hole == st.open # Null /\ Since(s, st.lastTs) > Gap
           kept == IF hole THEN Null ELSE st.open
           went == IF kept = Null
                     THEN [open |-> Null, events |-> IF hole THEN <<EndOf(st.open)>> ELSE <<>>]
                   ELSE IF kept.kind = "charge" THEN InCharge(kept, s) ELSE InDrive(kept, s)
           kind == IF Charging(s) THEN "charge"
                   ELSE IF Motion(s, IF kept = Null THEN Null ELSE kept.last) = "moving"
                          THEN "drive" ELSE Null
           opens == went.open = Null /\ kind # Null
<1>1. /\ Step(st, s).state = [open |-> IF opens THEN Opened(kind, s) ELSE went.open, lastTs |-> s.ts]
      /\ Step(st, s).events = went.events \o (IF opens THEN <<Start(kind, s), Point(s)>> ELSE <<>>)
  BY DEF Step
<1>2. kind \in {"drive", "charge", Null}
  OBVIOUS
<1>3. st.open = Null \/ st.open \in SegmentsOf(T)
  BY DEF TracksOf
<1>4. Null \notin SegmentsOf(T)
  BY SegmentsNotNull
<1>5. \/ /\ st.open = Null /\ went.open = Null /\ went.events = <<>>
      \/ /\ st.open # Null /\ went.open = Null
         /\ \E e \in T : went.events = <<End(st.open.kind, e)>>
      \/ /\ st.open # Null /\ went.open \in SegmentsOf(T)
         /\ went.open.kind = st.open.kind /\ went.open.start = st.open.start
         /\ went.events \in {<<>>, <<Point(s)>>}
  <2>1. CASE st.open = Null
    BY <2>1
  <2>2. CASE st.open # Null /\ hole
    <3>1. went.open = Null /\ went.events = <<EndOf(st.open)>>
      BY <2>2
    <3> QED BY <2>2, <3>1, <1>3, EndIsSample
  <2>3. CASE st.open # Null /\ ~hole
    <3>1. kept = st.open /\ st.open \in SegmentsOf(T)
      BY <2>3, <1>3
    <3>2. CASE st.open.kind = "charge"
      <4>1. went = InCharge(st.open, s)
        BY <2>3, <3>1, <3>2
      <4> HIDE DEF went, kind, opens
      <4> QED BY <2>3, <3>1, <4>1, ChargeSays
    <3>3. CASE st.open.kind # "charge"
      <4>1. went = InDrive(st.open, s) /\ st.open.kind = "drive"
        BY <2>3, <3>1, <3>3 DEF SegmentsOf
      <4> HIDE DEF went, kind, opens
      <4> QED BY <2>3, <3>1, <4>1, DriveSays
    <3> QED BY <3>2, <3>3
  <2> QED BY <2>1, <2>2, <2>3
<1> HIDE DEF hole, kept, went, kind
<1>6. s.ts \in Nat
  BY SampleFields
<1>7. CASE opens
  <2>1. kind \in {"drive", "charge"} /\ Opened(kind, s) \in SegmentsOf(T)
    BY <1>2, <1>7, OpenedTyped
  <2>2. Step(st, s).state = [open |-> Opened(kind, s), lastTs |-> s.ts]
    BY <1>1, <1>7
  <2>3. Step(st, s).events = went.events \o <<Start(kind, s), Point(s)>>
    BY <1>1, <1>7
  <2>4. went.open = Null
    BY <1>7
  <2>5. CASE st.open = Null
    <3>1. went.events = <<>>
      BY <1>5, <2>5
    <3>2. Step(st, s).events = <<Start(kind, s), Point(s)>>
      BY <2>3, <3>1
    <3> QED BY <2>1, <2>2, <2>5, <3>2, <1>6 DEF SaysStart, TracksOf
  <2>6. CASE st.open # Null
    <3>1. PICK e \in T : went.events = <<End(st.open.kind, e)>>
      BY <1>4, <1>5, <2>4, <2>6
    <3>2. <<End(st.open.kind, e)>> \o <<Start(kind, s), Point(s)>>
            = <<End(st.open.kind, e), Start(kind, s), Point(s)>>
      BY OneAndTwo
    <3>3. Step(st, s).events = <<End(st.open.kind, e), Start(kind, s), Point(s)>>
      BY <2>3, <3>1, <3>2
    <3> QED BY <2>1, <2>2, <2>6, <3>3, <1>6 DEF SaysTurn, TracksOf
  <2> QED BY <2>5, <2>6
<1>8. CASE ~opens
  <2>1. Step(st, s).state = [open |-> went.open, lastTs |-> s.ts]
    BY <1>1, <1>8
  <2>2. Step(st, s).events = went.events
    <3>1. Step(st, s).events = went.events \o <<>>
      BY <1>1, <1>8
    <3>2. \/ went.events = <<>> \/ went.events = <<Point(s)>>
          \/ \E e \in T : went.events = <<End(st.open.kind, e)>>
      BY <1>5
    <3>3. <<>> \o <<>> = <<>> /\ <<Point(s)>> \o <<>> = <<Point(s)>>
      OBVIOUS
    <3>4. \A e \in T : <<End(st.open.kind, e)>> \o <<>> = <<End(st.open.kind, e)>>
      OBVIOUS
    <3> QED BY <3>1, <3>2, <3>3, <3>4
  <2>3. CASE st.open = Null
    <3>1. went.open = Null /\ went.events = <<>>
      BY <1>5, <2>3
    <3> QED BY <2>1, <2>2, <2>3, <3>1, <1>6 DEF SaysNothing, TracksOf
  <2>4. CASE st.open # Null /\ went.open = Null
    <3>1. PICK e \in T : went.events = <<End(st.open.kind, e)>>
      BY <1>4, <1>5, <2>4
    <3> QED BY <2>1, <2>2, <2>4, <3>1, <1>6 DEF SaysEnd, TracksOf
  <2>5. CASE st.open # Null /\ went.open # Null
    <3>1. /\ went.open \in SegmentsOf(T)
          /\ went.open.kind = st.open.kind /\ went.open.start = st.open.start
          /\ went.events \in {<<>>, <<Point(s)>>}
      BY <1>5, <2>5
    <3> QED BY <2>1, <2>2, <2>5, <3>1, <1>6 DEF SaysNothing, SaysPoint, TracksOf
  <2> QED BY <2>3, <2>4, <2>5
<1> QED BY <1>7, <1>8

LEMMA OlderSays ==
  ASSUME NEW st, NEW s, st.lastTs # Null, s.ts < st.lastTs
  PROVE  Step(st, s).state = st /\ SaysNothing(st, s)
BY DEF Step, SaysNothing

LEMMA StepSays ==
  ASSUME NEW T \in SUBSET Sample, NEW st \in TracksOf(T), NEW s \in T
  PROVE  /\ Step(st, s).state \in TracksOf(T)
         /\ \/ SaysNothing(st, s) \/ SaysPoint(st, s) \/ (\E e \in T : SaysEnd(st, s, e))
            \/ (\E k \in {"drive", "charge"} : SaysStart(st, s, k))
            \/ (\E e \in T, k \in {"drive", "charge"} : SaysTurn(st, s, e, k))
<1>1. CASE st.lastTs # Null /\ s.ts < st.lastTs
  <2>1. Step(st, s).state = st /\ SaysNothing(st, s)
    BY <1>1, OlderSays
  <2> QED BY <2>1
<1>2. CASE ~(st.lastTs # Null /\ s.ts < st.lastTs)
  BY <1>2, NewerSays
<1> QED BY <1>1, <1>2

-----------------------------------------------------------------------------
(* The events of a step, one after the other.                              *)

LEMMA EventsAre ==
  ASSUME NEW w, NEW q, Len(q) \in Nat, NEW g,
         g = [n \in 0..Len(q) |-> IF n = 0 THEN w ELSE OnEvent(g[n - 1], q[n])]
  PROVE  OnEvents(w, q) = g[Len(q)]
<1> DEFINE Def(f) == f = [n \in 0..Len(q) |-> IF n = 0 THEN w ELSE OnEvent(f[n - 1], q[n])]
           after == CHOOSE f : Def(f)
<1>1. Def(g)
  OBVIOUS
<1>2. Def(after)
  BY <1>1
<1>3. OnEvents(w, q) = after[Len(q)]
  BY DEF OnEvents
<1> HIDE DEF after
<1> DEFINE S == {n \in Nat : n <= Len(q) => after[n] = g[n]}
<1>4. 0 \in S
  <2>1. after[0] = w /\ g[0] = w
    BY <1>1, <1>2
  <2> QED BY <2>1
<1>5. ASSUME NEW n \in Nat, n \in S PROVE n + 1 \in S
  <2> SUFFICES ASSUME n + 1 <= Len(q) PROVE after[n + 1] = g[n + 1]
    OBVIOUS
  <2>1. n + 1 \in 0..Len(q) /\ n + 1 # 0 /\ (n + 1) - 1 = n
    OBVIOUS
  <2>2. after[n + 1] = OnEvent(after[n], q[n + 1])
    BY <1>2, <2>1
  <2>3. g[n + 1] = OnEvent(g[n], q[n + 1])
    BY <1>1, <2>1
  <2> QED BY <1>5, <2>2, <2>3
<1>6. \A n \in Nat : n \in S
  BY <1>4, <1>5, NatSetInduction
<1> QED BY <1>3, <1>6

LEMMA NoEvents == ASSUME NEW w PROVE OnEvents(w, <<>>) = w
<1> DEFINE g == [n \in 0..0 |-> w]
<1>1. Len(<<>>) = 0
  OBVIOUS
<1>2. g = [n \in 0..Len(<<>>) |-> IF n = 0 THEN w ELSE OnEvent(g[n - 1], <<>>[n])]
  BY <1>1
<1> HIDE DEF g
<1>3. OnEvents(w, <<>>) = g[Len(<<>>)]
  BY <1>1, <1>2, EventsAre
<1> QED BY <1>1, <1>3 DEF g

LEMMA OneEvent == ASSUME NEW w, NEW a PROVE OnEvents(w, <<a>>) = OnEvent(w, a)
<1> DEFINE q == <<a>>
           g == [n \in 0..1 |-> IF n = 0 THEN w ELSE OnEvent(w, a)]
<1>1. Len(q) = 1 /\ q[1] = a
  OBVIOUS
<1>2. g[0] = w /\ g[1] = OnEvent(w, a)
  OBVIOUS
<1>3. \A n \in 0..1 : g[n] = IF n = 0 THEN w ELSE OnEvent(g[n - 1], q[n])
  <2>1. \A n \in 0..1 : n = 0 \/ n = 1
    OBVIOUS
  <2>2. 1 - 1 = 0
    OBVIOUS
  <2> HIDE DEF g, q
  <2> QED BY <1>1, <1>2, <2>1, <2>2
<1>4. g = [n \in 0..1 |-> g[n]]
  OBVIOUS
<1> HIDE DEF g, q
<1>5. g = [n \in 0..Len(q) |-> IF n = 0 THEN w ELSE OnEvent(g[n - 1], q[n])]
  BY <1>1, <1>3, <1>4
<1>6. OnEvents(w, q) = g[Len(q)]
  <2>1. Len(q) \in Nat
    BY <1>1
  <2> QED BY <1>5, <2>1, EventsAre
<1> QED BY <1>1, <1>2, <1>6 DEF q

LEMMA TwoEvents ==
  ASSUME NEW w, NEW a, NEW b PROVE OnEvents(w, <<a, b>>) = OnEvent(OnEvent(w, a), b)
<1> DEFINE q == <<a, b>>
           g == [n \in 0..2 |-> IF n = 0 THEN w ELSE IF n = 1 THEN OnEvent(w, a)
                                ELSE OnEvent(OnEvent(w, a), b)]
<1>1. Len(q) = 2 /\ q[1] = a /\ q[2] = b
  OBVIOUS
<1>2. g[0] = w /\ g[1] = OnEvent(w, a) /\ g[2] = OnEvent(OnEvent(w, a), b)
  OBVIOUS
<1>3. \A n \in 0..2 : g[n] = IF n = 0 THEN w ELSE OnEvent(g[n - 1], q[n])
  <2>1. \A n \in 0..2 : n = 0 \/ n = 1 \/ n = 2
    OBVIOUS
  <2>2. 1 - 1 = 0 /\ 2 - 1 = 1
    OBVIOUS
  <2> HIDE DEF g, q
  <2> QED BY <1>1, <1>2, <2>1, <2>2
<1>4. g = [n \in 0..2 |-> g[n]]
  OBVIOUS
<1> HIDE DEF g, q
<1>5. g = [n \in 0..Len(q) |-> IF n = 0 THEN w ELSE OnEvent(g[n - 1], q[n])]
  BY <1>1, <1>3, <1>4
<1>6. OnEvents(w, q) = g[Len(q)]
  BY <1>1, <1>5, EventsAre
<1> QED BY <1>1, <1>2, <1>6 DEF q

LEMMA ThreeEvents ==
  ASSUME NEW w, NEW a, NEW b, NEW c
  PROVE  OnEvents(w, <<a, b, c>>) = OnEvent(OnEvent(OnEvent(w, a), b), c)
<1> DEFINE q == <<a, b, c>>
           g == [n \in 0..3 |-> IF n = 0 THEN w ELSE IF n = 1 THEN OnEvent(w, a)
                                ELSE IF n = 2 THEN OnEvent(OnEvent(w, a), b)
                                ELSE OnEvent(OnEvent(OnEvent(w, a), b), c)]
<1>1. Len(q) = 3 /\ q[1] = a /\ q[2] = b /\ q[3] = c
  OBVIOUS
<1>2. /\ g[0] = w /\ g[1] = OnEvent(w, a) /\ g[2] = OnEvent(OnEvent(w, a), b)
      /\ g[3] = OnEvent(OnEvent(OnEvent(w, a), b), c)
  OBVIOUS
<1>3. \A n \in 0..3 : g[n] = IF n = 0 THEN w ELSE OnEvent(g[n - 1], q[n])
  <2>1. \A n \in 0..3 : n = 0 \/ n = 1 \/ n = 2 \/ n = 3
    OBVIOUS
  <2>2. 1 - 1 = 0 /\ 2 - 1 = 1 /\ 3 - 1 = 2
    OBVIOUS
  <2> HIDE DEF g, q
  <2> QED BY <1>1, <1>2, <2>1, <2>2
<1>4. g = [n \in 0..3 |-> g[n]]
  OBVIOUS
<1> HIDE DEF g, q
<1>5. g = [n \in 0..Len(q) |-> IF n = 0 THEN w ELSE OnEvent(g[n - 1], q[n])]
  BY <1>1, <1>3, <1>4
<1>6. OnEvents(w, q) = g[Len(q)]
  BY <1>1, <1>5, EventsAre
<1> QED BY <1>1, <1>2, <1>6 DEF q

-----------------------------------------------------------------------------
(* What an event does to the rows and to the memory.                       *)

StampsOf(T) == {s.ts : s \in T}
RowsOf(T) ==
  [kind : {"drive", "charge"}, start : StampsOf(T), points : SUBSET StampsOf(T),
   status : {"open", "closed", "abandoned", "gone"}]
MemoryOf(T) == [seg : TracksOf(T), id : Nat \cup {Null}, points : Seq(T)]
WorksOf(T) == [rows : Seq(RowsOf(T)), mem : MemoryOf(T), ok : BOOLEAN]

\* The session in memory has a row.
Fits(T, w) == w \in WorksOf(T) /\ w.mem.id \in DOMAIN w.rows \cup {Null}

\* The end of a session at sample e, by the points in memory: its last points, and its row.
IsLater(points, e) == points = <<>> \/ e.ts > Last(points).ts
PointsAtEnd(points, e) == IF IsLater(points, e) THEN Append(points, e) ELSE points
FinalOf(kind, points, status) ==
  IF kind = "drive" /\ WentNowhere(points) THEN "gone"
  ELSE IF status = "gone" THEN "gone" ELSE "closed"
Fate(points, kind, e, status) == FinalOf(kind, PointsAtEnd(points, e), status)
EndedRow(points, kind, e, row) ==
  [row EXCEPT !.points = IF IsLater(points, e) THEN @ \cup {e.ts} ELSE @,
              !.status = Fate(points, kind, e, row.status)]

\* Rows q and r differ in row i only, which is x in r.
OnlyRow(q, r, i, x) ==
  /\ Len(r) = Len(q) /\ r[i] = x
  /\ \A j \in DOMAIN q : j # i => r[j] = q[j]

LEMMA RowTyped ==
  ASSUME NEW T, NEW q \in Seq(RowsOf(T)), NEW i \in DOMAIN q
  PROVE  /\ q[i] \in RowsOf(T) /\ i \in Nat /\ i >= 1 /\ i <= Len(q)
         /\ q[i].points \subseteq StampsOf(T)
<1> DEFINE R == RowsOf(T)
<1>1. q \in Seq(R)
  OBVIOUS
<1>2. \A r \in R : r.points \subseteq StampsOf(T)
  BY DEF RowsOf
<1> HIDE DEF R
<1>3. DOMAIN q = 1..Len(q) /\ Len(q) \in Nat
  BY <1>1
<1>4. q[i] \in R
  BY <1>1
<1> QED BY <1>2, <1>3, <1>4 DEF R

LEMMA NewRowTyped ==
  ASSUME NEW T, NEW k \in {"drive", "charge"}, NEW s \in T
  PROVE  Row(k, s.ts) \in RowsOf(T)
<1>1. s.ts \in StampsOf(T)
  BY DEF StampsOf
<1> QED BY <1>1 DEF Row, RowsOf

LEMMA FitsParts ==
  ASSUME NEW T, NEW w, Fits(T, w)
  PROVE  /\ w.rows \in Seq(RowsOf(T)) /\ w.mem \in MemoryOf(T) /\ w.ok \in BOOLEAN
         /\ w = [rows |-> w.rows, mem |-> w.mem, ok |-> w.ok]
         /\ w.mem.seg \in TracksOf(T) /\ w.mem.points \in Seq(T)
         /\ w.mem.id \in Nat \cup {Null}
         /\ w.mem = [seg |-> w.mem.seg, id |-> w.mem.id, points |-> w.mem.points]
         /\ w.mem.id # Null => w.mem.id \in DOMAIN w.rows
BY DEF Fits, WorksOf, MemoryOf

LEMMA RowReplaced ==
  ASSUME NEW T, NEW q \in Seq(RowsOf(T)), NEW i \in DOMAIN q, NEW x \in RowsOf(T)
  PROVE  /\ [q EXCEPT ![i] = x] \in Seq(RowsOf(T))
         /\ OnlyRow(q, [q EXCEPT ![i] = x], i, x)
<1> DEFINE R == RowsOf(T)
<1>1. i \in 1..Len(q) /\ DOMAIN q = 1..Len(q)
  OBVIOUS
<1> HIDE DEF R
<1>2. [q EXCEPT ![i] = x] \in Seq(R) /\ Len([q EXCEPT ![i] = x]) = Len(q)
  BY <1>1, ExceptSeq DEF R
<1> QED BY <1>1, <1>2 DEF OnlyRow, R

\* A row that is new is one more.
LEMMA RowAdded ==
  ASSUME NEW T, NEW q \in Seq(RowsOf(T)), NEW x \in RowsOf(T)
  PROVE  /\ Append(q, x) \in Seq(RowsOf(T)) /\ Len(Append(q, x)) = Len(q) + 1
         /\ DOMAIN Append(q, x) = DOMAIN q \cup {Len(q) + 1} /\ Len(q) + 1 \notin DOMAIN q
         /\ Append(q, x)[Len(q) + 1] = x /\ Len(q) + 1 \in Nat
         /\ \A j \in DOMAIN q : Append(q, x)[j] = q[j]
<1> DEFINE R == RowsOf(T)
<1>1. q \in Seq(R) /\ x \in R
  OBVIOUS
<1> HIDE DEF R
<1>2. Append(q, x) \in Seq(R) /\ Len(Append(q, x)) = Len(q) + 1 /\ DOMAIN q = 1..Len(q) /\ Len(q) \in Nat
  BY <1>1
<1>3. DOMAIN Append(q, x) = 1..Len(q) + 1
  BY <1>2
<1>4. Append(q, x)[Len(q) + 1] = x /\ \A j \in DOMAIN q : Append(q, x)[j] = q[j]
  BY <1>1, <1>2
<1> QED BY <1>2, <1>3, <1>4 DEF R

LEMMA PointDoes ==
  ASSUME NEW T \in SUBSET Sample, NEW w, Fits(T, w), NEW s \in T, w.mem.id # Null,
         NEW v, v = PutPoint(w, s)
  PROVE  /\ Fits(T, v)
         /\ v.mem = [seg |-> w.mem.seg, id |-> w.mem.id, points |-> Append(w.mem.points, s)]
         /\ OnlyRow(w.rows, v.rows, w.mem.id,
                    [w.rows[w.mem.id] EXCEPT !.points = @ \cup {s.ts}])
         /\ v.ok <=> (w.ok /\ w.rows[w.mem.id].status # "gone")
<1> DEFINE i == w.mem.id
           x == [w.rows[i] EXCEPT !.points = @ \cup {s.ts}]
<1>1. i \in DOMAIN w.rows /\ w.rows \in Seq(RowsOf(T)) /\ w.mem \in MemoryOf(T) /\ w.ok \in BOOLEAN
  BY FitsParts
<1>2. w.rows[i] \in RowsOf(T)
  BY <1>1, RowTyped
<1>3. x \in RowsOf(T)
  BY <1>2 DEF RowsOf, StampsOf
<1>4. v.rows = [w.rows EXCEPT ![i] = x]
  BY DEF PutPoint, AppendPoint
<1> HIDE DEF x, i
<1>5. v.rows \in Seq(RowsOf(T)) /\ OnlyRow(w.rows, v.rows, i, x)
  BY <1>1, <1>3, <1>4, RowReplaced
<1> USE DEF i
<1>6. v.mem = [seg |-> w.mem.seg, id |-> w.mem.id, points |-> Append(w.mem.points, s)]
  BY <1>1 DEF PutPoint, MemoryOf
<1>7. v.mem \in MemoryOf(T) /\ v.mem.id = i
  BY <1>1, <1>6 DEF MemoryOf
<1>8. v = [rows |-> v.rows, mem |-> v.mem, ok |-> v.ok] /\ v.ok \in BOOLEAN
      /\ (v.ok <=> (w.ok /\ w.rows[w.mem.id].status # "gone"))
  BY <1>1 DEF PutPoint
<1>9. DOMAIN v.rows = DOMAIN w.rows
  BY <1>1, <1>5 DEF OnlyRow
<1>10. Fits(T, v)
  BY <1>1, <1>5, <1>7, <1>8, <1>9 DEF Fits, WorksOf
<1> QED BY <1>5, <1>6, <1>8, <1>10 DEF x

LEMMA PointEvent ==
  ASSUME NEW w, NEW s, w.mem.id # Null
  PROVE  OnEvent(w, Point(s)) = PutPoint(w, s)
BY DEF OnEvent, Point

LEMMA EndEvent ==
  ASSUME NEW w, NEW k, NEW e, w.mem.id # Null
  PROVE  OnEvent(w, End(k, e)) = EndRow(w, End(k, e))
BY DEF OnEvent, End

LEMMA EndedTyped ==
  ASSUME NEW T \in SUBSET Sample, NEW m, NEW k, NEW e \in T, NEW row \in RowsOf(T)
  PROVE  /\ EndedRow(m, k, e, row) \in RowsOf(T)
         /\ EndedRow(m, k, e, row).status \in {"closed", "gone"}
         /\ EndedRow(m, k, e, row).kind = row.kind /\ EndedRow(m, k, e, row).start = row.start
<1> DEFINE pts == IF IsLater(m, e) THEN row.points \cup {e.ts} ELSE row.points
           fate == Fate(m, k, e, row.status)
<1>1. pts \in SUBSET StampsOf(T)
  BY DEF RowsOf, StampsOf
<1>2. fate \in {"closed", "gone"}
  BY DEF Fate, FinalOf
<1>3. EndedRow(m, k, e, row) = [row EXCEPT !.points = pts, !.status = fate]
  BY DEF EndedRow
<1> HIDE DEF pts, fate
<1> QED BY <1>1, <1>2, <1>3 DEF RowsOf

LEMMA FinishIs ==
  ASSUME NEW T, NEW q \in Seq(RowsOf(T)), NEW i \in DOMAIN q, NEW k, NEW points
  PROVE  Finish(q, i, k, points) =
           [q EXCEPT ![i] = [q[i] EXCEPT !.status = FinalOf(k, points, q[i].status)]]
<1>1. CASE k = "drive" /\ WentNowhere(points)
  BY <1>1 DEF Finish, DiscardSession, FinalOf
<1>2. CASE ~(k = "drive" /\ WentNowhere(points))
  BY <1>2 DEF Finish, CloseSession, FinalOf
<1> QED BY <1>1, <1>2

LEMMA EndDoes ==
  ASSUME NEW T \in SUBSET Sample, NEW w, Fits(T, w), NEW k, NEW e \in T, w.mem.id # Null,
         NEW v, v = OnEvent(w, End(k, e))
  PROVE  /\ Fits(T, v)
         /\ v.mem = [seg |-> w.mem.seg, id |-> Null, points |-> <<>>]
         /\ OnlyRow(w.rows, v.rows, w.mem.id, EndedRow(w.mem.points, k, e, w.rows[w.mem.id]))
<1> DEFINE i == w.mem.id
           u == IF IsLater(w.mem.points, e) THEN PutPoint(w, e) ELSE w
           row == w.rows[i]
           mid == [row EXCEPT !.points = IF IsLater(w.mem.points, e) THEN @ \cup {e.ts} ELSE @]
           x == EndedRow(w.mem.points, k, e, row)
<1>1. i \in DOMAIN w.rows /\ w.rows \in Seq(RowsOf(T)) /\ w.mem \in MemoryOf(T)
  BY FitsParts
<1>2. row \in RowsOf(T)
  BY <1>1, RowTyped
<1>3. x \in RowsOf(T)
  BY <1>2, EndedTyped
<1>4. v = [u EXCEPT !.rows = Finish(@, u.mem.id, k, u.mem.points),
                    !.mem.id = Null, !.mem.points = <<>>]
  <2>1. v = EndRow(w, End(k, e))
    BY EndEvent
  <2>2. End(k, e).sample = e /\ End(k, e).kind = k
    BY DEF End
  <2> QED BY <2>1, <2>2 DEF EndRow, IsLater
<1>5. /\ Fits(T, u) /\ u.mem.id = i /\ u.mem.seg = w.mem.seg
      /\ u.mem.points = PointsAtEnd(w.mem.points, e)
      /\ OnlyRow(w.rows, u.rows, i, mid)
  <2>1. CASE IsLater(w.mem.points, e)
    <3>1. u = PutPoint(w, e)
      BY <2>1
    <3>2. mid = [row EXCEPT !.points = @ \cup {e.ts}]
      BY <2>1
    <3> HIDE DEF u
    <3>3. /\ Fits(T, u)
          /\ u.mem = [seg |-> w.mem.seg, id |-> w.mem.id, points |-> Append(w.mem.points, e)]
          /\ OnlyRow(w.rows, u.rows, w.mem.id, [w.rows[w.mem.id] EXCEPT !.points = @ \cup {e.ts}])
      BY <3>1, PointDoes
    <3> QED BY <2>1, <3>2, <3>3 DEF PointsAtEnd
  <2>2. CASE ~IsLater(w.mem.points, e)
    <3>1. mid = row
      BY <1>2, <2>2 DEF RowsOf
    <3>2. OnlyRow(w.rows, w.rows, i, row)
      BY DEF OnlyRow
    <3> QED BY <2>2, <3>1, <3>2 DEF PointsAtEnd
  <2> QED BY <2>1, <2>2
<1> HIDE DEF u
<1>6. u.rows \in Seq(RowsOf(T)) /\ u.mem \in MemoryOf(T) /\ u.ok \in BOOLEAN
      /\ u = [rows |-> u.rows, mem |-> u.mem, ok |-> u.ok]
      /\ u.mem = [seg |-> u.mem.seg, id |-> u.mem.id, points |-> u.mem.points]
  BY <1>5, FitsParts
<1>7. i \in DOMAIN u.rows /\ u.rows[i] = mid /\ DOMAIN u.rows = DOMAIN w.rows
  BY <1>1, <1>5, <1>6 DEF OnlyRow
<1>8. Finish(u.rows, i, k, u.mem.points) = [u.rows EXCEPT ![i] = x]
  <2>1. mid.status = row.status
    BY <1>2 DEF RowsOf
  <2>2. [mid EXCEPT !.status = FinalOf(k, u.mem.points, mid.status)] = x
    BY <1>2, <1>5, <2>1 DEF EndedRow, Fate, RowsOf
  <2> HIDE DEF mid, x
  <2> QED BY <1>6, <1>7, <2>2, FinishIs
<1>9. v.rows = [u.rows EXCEPT ![i] = x] /\ v.ok = u.ok
      /\ v.mem = [seg |-> w.mem.seg, id |-> Null, points |-> <<>>]
      /\ v = [rows |-> v.rows, mem |-> v.mem, ok |-> v.ok]
  <2> HIDE DEF x, i
  <2> QED BY <1>4, <1>5, <1>6, <1>8, ZenonT(40)
<1>10. v.rows \in Seq(RowsOf(T)) /\ OnlyRow(u.rows, v.rows, i, x)
  <2> HIDE DEF x, i
  <2> QED BY <1>3, <1>6, <1>7, <1>9, RowReplaced
<1>11. OnlyRow(w.rows, v.rows, i, x)
  BY <1>5, <1>7, <1>10 DEF OnlyRow
<1>12. v.mem \in MemoryOf(T) /\ v.mem.id = Null
  BY <1>1, <1>9 DEF MemoryOf
<1>13. Fits(T, v)
  BY <1>6, <1>9, <1>10, <1>12 DEF Fits, WorksOf
<1> QED BY <1>9, <1>11, <1>13

\* The row a session of kind k starts in at sample s, j of r, is an open one of q, or new.
Founded(q, r, j, k, s) ==
  \/ j \in Open(q) /\ q[j].kind = k /\ r = q
  \/ /\ \A i \in Open(q) : q[i].kind # k
     /\ r = Append(q, Row(k, s.ts)) /\ j = Len(q) + 1

LEMMA StartDoes ==
  ASSUME NEW T \in SUBSET Sample, NEW w, Fits(T, w), NEW k \in {"drive", "charge"},
         NEW s \in T, NEW v, v = OnEvent(w, Start(k, s))
  PROVE  /\ Fits(T, v) /\ v.ok = w.ok /\ v.mem.id # Null /\ v.mem.id \in DOMAIN v.rows
         /\ v.mem = [seg |-> w.mem.seg, id |-> v.mem.id, points |-> <<>>]
         /\ Founded(w.rows, v.rows, v.mem.id, k, s)
<1> DEFINE o == OpenSession(w.rows, k, s.ts)
           same == {i \in Open(w.rows) : w.rows[i].kind = k}
<1>1. /\ w.rows \in Seq(RowsOf(T)) /\ w.mem \in MemoryOf(T) /\ w.ok \in BOOLEAN
      /\ w = [rows |-> w.rows, mem |-> w.mem, ok |-> w.ok]
      /\ w.mem = [seg |-> w.mem.seg, id |-> w.mem.id, points |-> w.mem.points]
  BY FitsParts
<1>2. /\ v.rows = o.rows /\ v.ok = w.ok
      /\ v.mem = [seg |-> w.mem.seg, id |-> o.id, points |-> <<>>]
      /\ v = [rows |-> v.rows, mem |-> v.mem, ok |-> v.ok]
  <2>1. v = [w EXCEPT !.rows = o.rows, !.mem.id = o.id, !.mem.points = <<>>]
    BY DEF OnEvent, Start
  <2> HIDE DEF o
  <2> QED BY <1>1, <2>1
<1>3. CASE same = {}
  <2>1. o = [rows |-> Append(w.rows, Row(k, s.ts)), id |-> Len(w.rows) + 1]
    BY <1>3 DEF OpenSession
  <2>2. Row(k, s.ts) \in RowsOf(T)
    BY NewRowTyped
  <2>3. /\ v.rows \in Seq(RowsOf(T)) /\ v.mem.id = Len(w.rows) + 1
        /\ v.mem.id \in DOMAIN v.rows /\ v.mem.id \in Nat
    BY <1>1, <1>2, <2>1, <2>2, RowAdded
  <2>4. v.mem \in MemoryOf(T) /\ v.mem.id # Null
    BY <1>1, <1>2, <2>3, SessionsAssumption DEF MemoryOf
  <2>5. Fits(T, v)
    BY <1>1, <1>2, <2>3, <2>4 DEF Fits, WorksOf
  <2>6. \A i \in Open(w.rows) : w.rows[i].kind # k
    BY <1>3
  <2> HIDE DEF o
  <2> QED BY <1>2, <2>1, <2>3, <2>4, <2>5, <2>6 DEF Founded
<1>4. CASE same # {}
  <2>1. o = [rows |-> w.rows, id |-> CHOOSE i \in same : TRUE]
    BY <1>4 DEF OpenSession
  <2>2. (CHOOSE i \in same : TRUE) \in same
    BY <1>4
  <2>3. o.id \in same /\ o.rows = w.rows
    BY <2>1, <2>2
  <2>4. o.id \in Open(w.rows) /\ o.id \in DOMAIN w.rows /\ w.rows[o.id].kind = k
    BY <2>3 DEF Open
  <2> HIDE DEF o
  <2>5. o.id \in Nat /\ o.id # Null
    <3>1. o.id \in Nat
      BY <1>1, <2>4, RowTyped
    <3> QED BY <3>1, SessionsAssumption
  <2>6. v.mem \in MemoryOf(T) /\ v.mem.id = o.id
    BY <1>1, <1>2, <2>5 DEF MemoryOf
  <2>7. Fits(T, v)
    BY <1>1, <1>2, <2>3, <2>4, <2>6 DEF Fits, WorksOf
  <2> QED BY <1>2, <2>3, <2>4, <2>5, <2>6, <2>7 DEF Founded
<1> QED BY <1>3, <1>4

-----------------------------------------------------------------------------
(* A sample.                                                               *)

\* The memory has a row exactly while a segment is open.
Linked(m) == (m.id = Null) <=> (m.seg.open = Null)

\* A session of kind k begins at sample s: rows q become r, and j is its row.
Begins(q, r, j, k, s) ==
  \/ /\ j \in Open(q) /\ q[j].kind = k
     /\ OnlyRow(q, r, j, [q[j] EXCEPT !.points = @ \cup {s.ts}])
  \/ /\ \A i \in Open(q) : q[i].kind # k
     /\ j = Len(q) + 1
     /\ OnlyRow(Append(q, Row(k, s.ts)), r, j, [Row(k, s.ts) EXCEPT !.points = @ \cup {s.ts}])

\* What sample s makes of w, by what the segmenter says.
Silent(w, s, v) ==
  /\ SaysNothing(w.mem.seg, s)
  /\ v.rows = w.rows /\ v.mem.id = w.mem.id /\ v.mem.points = w.mem.points
Continues(w, s, v) ==
  /\ SaysPoint(w.mem.seg, s)
  /\ OnlyRow(w.rows, v.rows, w.mem.id, [w.rows[w.mem.id] EXCEPT !.points = @ \cup {s.ts}])
  /\ v.mem.id = w.mem.id /\ v.mem.points = Append(w.mem.points, s)
Ends(w, s, v, e) ==
  /\ SaysEnd(w.mem.seg, s, e)
  /\ OnlyRow(w.rows, v.rows, w.mem.id,
             EndedRow(w.mem.points, w.mem.seg.open.kind, e, w.rows[w.mem.id]))
  /\ v.mem.id = Null /\ v.mem.points = <<>>
Starts(w, s, v, k) ==
  /\ SaysStart(w.mem.seg, s, k)
  /\ Begins(w.rows, v.rows, v.mem.id, k, s) /\ v.mem.points = <<s>>
Turns(w, s, v, e, k, q) ==
  /\ SaysTurn(w.mem.seg, s, e, k)
  /\ OnlyRow(w.rows, q, w.mem.id,
             EndedRow(w.mem.points, w.mem.seg.open.kind, e, w.rows[w.mem.id]))
  /\ Begins(q, v.rows, v.mem.id, k, s) /\ v.mem.points = <<s>>

\* A start, and its point.
LEMMA BeginDoes ==
  ASSUME NEW T \in SUBSET Sample, NEW w, Fits(T, w), NEW k \in {"drive", "charge"},
         NEW s \in T, NEW v, v = OnEvent(OnEvent(w, Start(k, s)), Point(s))
  PROVE  /\ Fits(T, v) /\ v.mem.id # Null /\ v.mem.seg = w.mem.seg /\ v.mem.points = <<s>>
         /\ Begins(w.rows, v.rows, v.mem.id, k, s)
<1> DEFINE u == OnEvent(w, Start(k, s))
<1>1. /\ Fits(T, u) /\ u.ok = w.ok /\ u.mem.id # Null /\ u.mem.id \in DOMAIN u.rows
      /\ u.mem = [seg |-> w.mem.seg, id |-> u.mem.id, points |-> <<>>]
      /\ Founded(w.rows, u.rows, u.mem.id, k, s)
  BY StartDoes
<1>2. v = PutPoint(u, s)
  <2>1. v = OnEvent(u, Point(s))
    OBVIOUS
  <2> HIDE DEF u
  <2> QED BY <1>1, <2>1, PointEvent
<1> HIDE DEF u
<1>3. /\ Fits(T, v)
      /\ v.mem = [seg |-> u.mem.seg, id |-> u.mem.id, points |-> Append(u.mem.points, s)]
      /\ OnlyRow(u.rows, v.rows, u.mem.id, [u.rows[u.mem.id] EXCEPT !.points = @ \cup {s.ts}])
  BY <1>1, <1>2, PointDoes
<1>4. v.mem.id = u.mem.id /\ v.mem.seg = w.mem.seg /\ v.mem.points = <<s>>
  <2>1. u.mem.points = <<>> /\ Append(<<>>, s) = <<s>>
    BY <1>1
  <2> QED BY <1>1, <1>3, <2>1
<1>5. w.rows \in Seq(RowsOf(T)) /\ Row(k, s.ts) \in RowsOf(T)
  BY FitsParts, NewRowTyped
<1>6. Append(w.rows, Row(k, s.ts))[Len(w.rows) + 1] = Row(k, s.ts)
  BY <1>5, RowAdded
<1>7. Begins(w.rows, v.rows, v.mem.id, k, s)
  <2>1. CASE u.mem.id \in Open(w.rows) /\ w.rows[u.mem.id].kind = k /\ u.rows = w.rows
    BY <1>3, <1>4, <2>1 DEF Begins
  <2>2. CASE /\ \A i \in Open(w.rows) : w.rows[i].kind # k
             /\ u.rows = Append(w.rows, Row(k, s.ts)) /\ u.mem.id = Len(w.rows) + 1
    <3>1. u.rows[u.mem.id] = Row(k, s.ts)
      BY <1>6, <2>2
    <3> QED BY <1>3, <1>4, <2>2, <3>1 DEF Begins
  <2> QED BY <1>1, <2>1, <2>2 DEF Founded
<1> QED BY <1>1, <1>3, <1>4, <1>7

LEMMA SampleDoes ==
  ASSUME NEW T \in SUBSET Sample, NEW w, Fits(T, w), Linked(w.mem), NEW s \in T,
         NEW v, v = ApplySample(w, s)
  PROVE  /\ Fits(T, v) /\ Linked(v.mem) /\ v.mem.seg = Step(w.mem.seg, s).state
         /\ \/ Silent(w, s, v) \/ Continues(w, s, v) \/ (\E e \in T : Ends(w, s, v, e))
            \/ (\E k \in {"drive", "charge"} : Starts(w, s, v, k))
            \/ (\E e \in T, k \in {"drive", "charge"}, q \in Seq(RowsOf(T)) :
                  Turns(w, s, v, e, k, q))
<1> DEFINE st == w.mem.seg
           nx == Step(st, s).state
           u == [w EXCEPT !.mem.seg = nx]
<1>1. st \in TracksOf(T) /\ w = [rows |-> w.rows, mem |-> w.mem, ok |-> w.ok]
      /\ w.mem = [seg |-> st, id |-> w.mem.id, points |-> w.mem.points]
  BY FitsParts
<1>2. /\ nx \in TracksOf(T)
      /\ \/ SaysNothing(st, s) \/ SaysPoint(st, s) \/ (\E e \in T : SaysEnd(st, s, e))
         \/ (\E k \in {"drive", "charge"} : SaysStart(st, s, k))
         \/ (\E e \in T, k \in {"drive", "charge"} : SaysTurn(st, s, e, k))
  BY <1>1, StepSays
<1>3. v = OnEvents(u, Step(st, s).events)
  BY DEF ApplySample
<1>4. /\ Fits(T, u) /\ u.rows = w.rows /\ u.mem.id = w.mem.id /\ u.mem.points = w.mem.points
      /\ u.mem.seg = nx
  <2>1. w.mem \in MemoryOf(T)
    BY FitsParts
  <2> HIDE DEF nx
  <2>2. u = [rows |-> w.rows, mem |-> [w.mem EXCEPT !.seg = nx], ok |-> w.ok]
    BY <1>1
  <2>3. [w.mem EXCEPT !.seg = nx] = [seg |-> nx, id |-> w.mem.id, points |-> w.mem.points]
    BY <1>1
  <2>4. [w.mem EXCEPT !.seg = nx] \in MemoryOf(T)
    BY <1>2, <2>1 DEF MemoryOf
  <2>5. u.mem = [seg |-> nx, id |-> w.mem.id, points |-> w.mem.points] /\ u.rows = w.rows /\ u.ok = w.ok
    BY <2>2, <2>3
  <2> QED BY <1>1, <2>2, <2>4, <2>5 DEF Fits, WorksOf
<1> HIDE DEF u
<1>5. CASE SaysNothing(st, s)
  <2>1. v = u
    BY <1>3, <1>5, NoEvents DEF SaysNothing
  <2> QED BY <1>4, <1>5, <2>1 DEF Linked, Silent, SaysNothing
<1>6. CASE SaysPoint(st, s)
  <2>1. w.mem.id # Null
    BY <1>6 DEF Linked, SaysPoint
  <2>2. v = OnEvent(u, Point(s))
    BY <1>3, <1>6, OneEvent DEF SaysPoint
  <2>3. v = PutPoint(u, s)
    BY <1>4, <2>1, <2>2, PointEvent
  <2>4. /\ Fits(T, v)
        /\ v.mem = [seg |-> u.mem.seg, id |-> u.mem.id, points |-> Append(u.mem.points, s)]
        /\ OnlyRow(u.rows, v.rows, u.mem.id, [u.rows[u.mem.id] EXCEPT !.points = @ \cup {s.ts}])
    BY <1>4, <2>1, <2>3, PointDoes
  <2>5. Linked(v.mem)
    BY <1>4, <1>6, <2>1, <2>4 DEF Linked, SaysPoint
  <2> QED BY <1>4, <1>6, <2>4, <2>5 DEF Continues
<1>7. ASSUME NEW e \in T, SaysEnd(st, s, e)
      PROVE  Fits(T, v) /\ Linked(v.mem) /\ v.mem.seg = nx /\ Ends(w, s, v, e)
  <2>1. w.mem.id # Null
    BY <1>7 DEF Linked, SaysEnd
  <2>2. v = OnEvent(u, End(st.open.kind, e))
    BY <1>3, <1>7, OneEvent DEF SaysEnd
  <2>3. /\ Fits(T, v)
        /\ v.mem = [seg |-> u.mem.seg, id |-> Null, points |-> <<>>]
        /\ OnlyRow(u.rows, v.rows, u.mem.id,
                   EndedRow(u.mem.points, st.open.kind, e, u.rows[u.mem.id]))
    BY <1>4, <2>1, <2>2, EndDoes
  <2>4. Linked(v.mem)
    BY <1>4, <1>7, <2>3 DEF Linked, SaysEnd
  <2> QED BY <1>4, <1>7, <2>3, <2>4 DEF Ends
<1>8. ASSUME NEW k \in {"drive", "charge"}, SaysStart(st, s, k)
      PROVE  Fits(T, v) /\ Linked(v.mem) /\ v.mem.seg = nx /\ Starts(w, s, v, k)
  <2>1. v = OnEvent(OnEvent(u, Start(k, s)), Point(s))
    BY <1>3, <1>8, TwoEvents DEF SaysStart
  <2>2. /\ Fits(T, v) /\ v.mem.id # Null /\ v.mem.seg = u.mem.seg /\ v.mem.points = <<s>>
        /\ Begins(u.rows, v.rows, v.mem.id, k, s)
    BY <1>4, <2>1, BeginDoes
  <2>3. Opened(k, s) # Null
    BY OpenedTyped, SegmentsNotNull
  <2>4. Linked(v.mem)
    BY <1>4, <1>8, <2>2, <2>3 DEF Linked, SaysStart
  <2> QED BY <1>4, <1>8, <2>2, <2>4 DEF Starts
<1>9. ASSUME NEW e \in T, NEW k \in {"drive", "charge"}, SaysTurn(st, s, e, k)
      PROVE  /\ Fits(T, v) /\ Linked(v.mem) /\ v.mem.seg = nx
             /\ \E q \in Seq(RowsOf(T)) : Turns(w, s, v, e, k, q)
  <2> DEFINE x == OnEvent(u, End(st.open.kind, e))
  <2>1. w.mem.id # Null
    BY <1>9 DEF Linked, SaysTurn
  <2>2. v = OnEvent(OnEvent(x, Start(k, s)), Point(s))
    BY <1>3, <1>9, ThreeEvents DEF SaysTurn
  <2>3. /\ Fits(T, x)
        /\ x.mem = [seg |-> u.mem.seg, id |-> Null, points |-> <<>>]
        /\ OnlyRow(u.rows, x.rows, u.mem.id,
                   EndedRow(u.mem.points, st.open.kind, e, u.rows[u.mem.id]))
    <3> HIDE DEF x
    <3>1. x = OnEvent(u, End(st.open.kind, e))
      BY DEF x
    <3> QED BY <1>4, <2>1, <3>1, EndDoes
  <2> HIDE DEF x
  <2>4. /\ Fits(T, v) /\ v.mem.id # Null /\ v.mem.seg = x.mem.seg /\ v.mem.points = <<s>>
        /\ Begins(x.rows, v.rows, v.mem.id, k, s)
    BY <2>2, <2>3, BeginDoes
  <2>5. Opened(k, s) # Null
    BY OpenedTyped, SegmentsNotNull
  <2>6. v.mem.seg = nx
    BY <1>4, <2>3, <2>4
  <2>7. Linked(v.mem)
    BY <1>9, <2>4, <2>5, <2>6 DEF Linked, SaysTurn
  <2>8. x.rows \in Seq(RowsOf(T))
    BY <2>3, FitsParts
  <2>9. Turns(w, s, v, e, k, x.rows)
    BY <1>4, <1>9, <2>3, <2>4 DEF Turns
  <2> QED BY <2>4, <2>6, <2>7, <2>8, <2>9
<1> HIDE DEF nx
<1> QED BY <1>2, <1>5, <1>6, <1>7, <1>8, <1>9 DEF nx

-----------------------------------------------------------------------------
(* The rows a sample leaves alone.                                         *)

\* Row x may come of row y: the same session, no shorter, and not given up.
Follows(x, y) ==
  /\ x.kind = y.kind /\ x.start = y.start /\ y.points \subseteq x.points
  /\ x.status = "abandoned" => y.status = "abandoned"

\* Rows q become r by the beginning of a session at row j, by a point on row i, by row i's end.
Begun(q, r, j, k, s) ==
  /\ j \in DOMAIN r /\ r[j].status = "open" /\ r[j].kind = k /\ DOMAIN r = DOMAIN q \cup {j}
  /\ j \in DOMAIN q => j \in Open(q)
  /\ j \notin DOMAIN q => /\ r[j] = [kind |-> k, start |-> s.ts, points |-> {s.ts}, status |-> "open"]
                          /\ j = Len(q) + 1 /\ \A i \in Open(q) : q[i].kind # k
  /\ \A i \in DOMAIN q : i # j => r[i] = q[i]
  /\ \A i \in DOMAIN q : Follows(r[i], q[i]) /\ r[i].status = q[i].status
Pointed(q, r, i, s) ==
  /\ DOMAIN r = DOMAIN q /\ r[i].status = q[i].status /\ r[i].points = q[i].points \cup {s.ts}
  /\ \A j \in DOMAIN q : j # i => r[j] = q[j]
  /\ \A j \in DOMAIN q : Follows(r[j], q[j]) /\ r[j].status = q[j].status
Ended(q, r, i, x) ==
  /\ DOMAIN r = DOMAIN q /\ r[i] = x /\ r[i].status \in {"closed", "gone"}
  /\ \A j \in DOMAIN q : j # i => r[j] = q[j]
  /\ \A j \in DOMAIN q : Follows(r[j], q[j])

LEMMA BeginsFacts ==
  ASSUME NEW T \in SUBSET Sample, NEW q \in Seq(RowsOf(T)), NEW k \in {"drive", "charge"},
         NEW s \in T, NEW r \in Seq(RowsOf(T)), NEW j, Begins(q, r, j, k, s)
  PROVE  Begun(q, r, j, k, s)
<1>0. s.ts \in Nat /\ DOMAIN q = 1..Len(q) /\ DOMAIN r = 1..Len(r) /\ Len(q) \in Nat
  BY SampleFields
<1>1. CASE /\ j \in Open(q) /\ q[j].kind = k
           /\ OnlyRow(q, r, j, [q[j] EXCEPT !.points = @ \cup {s.ts}])
  <2> DEFINE x == [q[j] EXCEPT !.points = @ \cup {s.ts}]
  <2>1. j \in DOMAIN q /\ q[j].status = "open" /\ q[j].kind = k
    BY <1>1 DEF Open
  <2>2. q[j] \in RowsOf(T)
    BY <2>1, RowTyped
  <2>3. /\ x.kind = q[j].kind /\ x.start = q[j].start /\ x.status = "open"
        /\ q[j].points \subseteq x.points
    BY <2>1, <2>2 DEF RowsOf
  <2>4. Len(r) = Len(q) /\ r[j] = x /\ \A i \in DOMAIN q : i # j => r[i] = q[i]
    BY <1>1 DEF OnlyRow
  <2>5. DOMAIN r = DOMAIN q
    BY <1>0, <2>4
  <2> HIDE DEF x
  <2> QED BY <1>1, <2>1, <2>3, <2>4, <2>5 DEF Follows, Begun
<1>2. CASE /\ \A i \in Open(q) : q[i].kind # k
           /\ j = Len(q) + 1
           /\ OnlyRow(Append(q, Row(k, s.ts)), r, j, [Row(k, s.ts) EXCEPT !.points = @ \cup {s.ts}])
  <2> DEFINE y == Row(k, s.ts)
             x == [y EXCEPT !.points = @ \cup {s.ts}]
             p == Append(q, y)
  <2>1. y \in RowsOf(T)
    BY NewRowTyped
  <2>2. x = [kind |-> k, start |-> s.ts, points |-> {s.ts}, status |-> "open"]
    <3>1. y = [kind |-> k, start |-> s.ts, points |-> {}, status |-> "open"]
      BY DEF Row
    <3>2. y.points \cup {s.ts} = {s.ts}
      BY <3>1
    <3> DEFINE z == y.points \cup {s.ts}
    <3>3. x = [y EXCEPT !.points = z]
      OBVIOUS
    <3> HIDE DEF x, y, z
    <3>4. x = [kind |-> k, start |-> s.ts, points |-> z, status |-> "open"]
      BY <3>1, <3>3
    <3> QED BY <3>2, <3>4 DEF z
  <2>3. /\ Len(p) = Len(q) + 1 /\ DOMAIN p = DOMAIN q \cup {Len(q) + 1} /\ Len(q) + 1 \notin DOMAIN q
        /\ \A i \in DOMAIN q : p[i] = q[i]
        /\ p \in Seq(RowsOf(T))
    BY <2>1, RowAdded
  <2>4. Len(r) = Len(p) /\ r[j] = x /\ \A i \in DOMAIN p : i # j => r[i] = p[i]
    BY <1>2 DEF OnlyRow
  <2> HIDE DEF x, p, y
  <2>5. DOMAIN r = DOMAIN p
    BY <1>0, <2>3, <2>4
  <2>6. j \notin DOMAIN q /\ DOMAIN r = DOMAIN q \cup {j} /\ \A i \in DOMAIN q : r[i] = q[i]
    BY <1>2, <2>3, <2>4, <2>5
  <2> QED BY <1>2, <2>2, <2>4, <2>6 DEF Follows, Begun
<1> QED BY <1>1, <1>2 DEF Begins

LEMMA EndedLonger ==
  ASSUME NEW T \in SUBSET Sample, NEW m, NEW k, NEW e \in T, NEW row \in RowsOf(T)
  PROVE  row.points \subseteq EndedRow(m, k, e, row).points
<1> DEFINE pts == IF IsLater(m, e) THEN row.points \cup {e.ts} ELSE row.points
           fate == Fate(m, k, e, row.status)
<1>1. row.points \subseteq pts
  OBVIOUS
<1>2. EndedRow(m, k, e, row) = [row EXCEPT !.points = pts, !.status = fate]
  BY DEF EndedRow
<1> HIDE DEF pts, fate
<1> QED BY <1>1, <1>2 DEF RowsOf

LEMMA EndsOnlyRow ==
  ASSUME NEW T \in SUBSET Sample, NEW q \in Seq(RowsOf(T)), NEW i \in DOMAIN q,
         NEW points, NEW kind, NEW e \in T, NEW r \in Seq(RowsOf(T)),
         OnlyRow(q, r, i, EndedRow(points, kind, e, q[i]))
  PROVE  Ended(q, r, i, EndedRow(points, kind, e, q[i]))
<1>1. q[i] \in RowsOf(T)
  BY RowTyped
<1>2. /\ EndedRow(points, kind, e, q[i]).status \in {"closed", "gone"}
      /\ EndedRow(points, kind, e, q[i]).kind = q[i].kind
      /\ EndedRow(points, kind, e, q[i]).start = q[i].start
      /\ q[i].points \subseteq EndedRow(points, kind, e, q[i]).points
  BY <1>1, EndedTyped, EndedLonger
<1>3. DOMAIN r = DOMAIN q /\ DOMAIN q = 1..Len(q)
  BY DEF OnlyRow
<1> QED BY <1>2, <1>3 DEF OnlyRow, Follows, Ended

LEMMA PointsOnlyRow ==
  ASSUME NEW T \in SUBSET Sample, NEW q \in Seq(RowsOf(T)), NEW i \in DOMAIN q, NEW s \in T,
         NEW r \in Seq(RowsOf(T)), OnlyRow(q, r, i, [q[i] EXCEPT !.points = @ \cup {s.ts}])
  PROVE  Pointed(q, r, i, s)
<1> DEFINE x == [q[i] EXCEPT !.points = @ \cup {s.ts}]
<1>1. q[i] \in RowsOf(T)
  BY RowTyped
<1>2. /\ x.status = q[i].status /\ x.kind = q[i].kind /\ x.start = q[i].start
      /\ x.points = q[i].points \cup {s.ts}
  BY <1>1 DEF RowsOf
<1>3. DOMAIN r = DOMAIN q /\ DOMAIN q = 1..Len(q) /\ r[i] = x
  BY DEF OnlyRow
<1> HIDE DEF x
<1> QED BY <1>2, <1>3 DEF OnlyRow, Follows, Pointed

\* By sample s, one row may come; each stays the session it is; and one that is not open stays
\* as it is, but for row i.
Grown(q, r, i, s) ==
  /\ DOMAIN q \subseteq DOMAIN r
  /\ \A j \in DOMAIN q : Follows(r[j], q[j])
  /\ \A j \in DOMAIN q : j # i /\ q[j].status # "open" => r[j] = q[j]
  /\ \A j \in DOMAIN r \ DOMAIN q : /\ r[j].status = "open" /\ j = Len(q) + 1
                                   /\ r[j].start = s.ts /\ s.ts \in r[j].points

LEMMA SampleFrame ==
  ASSUME NEW T \in SUBSET Sample, NEW w, Fits(T, w), Linked(w.mem), NEW s \in T,
         NEW v, v = ApplySample(w, s)
  PROVE  Grown(w.rows, v.rows, w.mem.id, s)
<1> DEFINE q == w.rows
           r == v.rows
           i == w.mem.id
<1>1. /\ Fits(T, v)
      /\ \/ Silent(w, s, v) \/ Continues(w, s, v) \/ (\E e \in T : Ends(w, s, v, e))
         \/ (\E k \in {"drive", "charge"} : Starts(w, s, v, k))
         \/ (\E e \in T, k \in {"drive", "charge"}, p \in Seq(RowsOf(T)) :
               Turns(w, s, v, e, k, p))
  BY SampleDoes
<1>2. q \in Seq(RowsOf(T)) /\ r \in Seq(RowsOf(T))
  BY <1>1, FitsParts
<1>3. i # Null => i \in DOMAIN q
  BY FitsParts
<1>4. CASE Silent(w, s, v)
  BY <1>4 DEF Silent, Follows, Grown
<1>5. CASE Continues(w, s, v)
  <2>1. i \in DOMAIN q
    BY <1>3, <1>5 DEF Continues, SaysPoint, Linked
  <2>2. OnlyRow(q, r, i, [q[i] EXCEPT !.points = @ \cup {s.ts}])
    BY <1>5 DEF Continues
  <2> HIDE DEF q, r, i
  <2>3. Pointed(q, r, i, s)
    BY <1>2, <2>1, <2>2, PointsOnlyRow
  <2>4. Grown(q, r, i, s)
    BY <2>3 DEF Pointed, Grown
  <2> QED BY <2>4 DEF q, r, i
<1>6. ASSUME NEW e \in T, Ends(w, s, v, e) PROVE Grown(q, r, i, s)
  <2> DEFINE kind == w.mem.seg.open.kind
             points == w.mem.points
  <2>1. i \in DOMAIN q
    BY <1>3, <1>6 DEF Ends, SaysEnd, Linked
  <2>2. OnlyRow(q, r, i, EndedRow(points, kind, e, q[i]))
    BY <1>6 DEF Ends
  <2> HIDE DEF q, r, i, kind, points
  <2>3. Ended(q, r, i, EndedRow(points, kind, e, q[i]))
    BY <1>2, <2>1, <2>2, EndsOnlyRow
  <2> QED BY <2>3 DEF Ended, Grown
<1>7. ASSUME NEW k \in {"drive", "charge"}, Starts(w, s, v, k) PROVE Grown(q, r, i, s)
  <2> DEFINE j == v.mem.id
  <2>1. Begins(q, r, j, k, s)
    BY <1>7 DEF Starts
  <2> HIDE DEF q, r, i, j
  <2>2. Begun(q, r, j, k, s)
    BY <1>2, <2>1, BeginsFacts
  <2> QED BY <2>2 DEF Begun, Open, Grown
<1>8. ASSUME NEW e \in T, NEW k \in {"drive", "charge"}, NEW p \in Seq(RowsOf(T)),
             Turns(w, s, v, e, k, p)
      PROVE  Grown(q, r, i, s)
  <2> DEFINE j == v.mem.id
             kind == w.mem.seg.open.kind
             points == w.mem.points
  <2>1. i \in DOMAIN q
    BY <1>3, <1>8 DEF Turns, SaysTurn, Linked
  <2>2. OnlyRow(q, p, i, EndedRow(points, kind, e, q[i])) /\ Begins(p, r, j, k, s)
    BY <1>8 DEF Turns
  <2> HIDE DEF q, r, i, j, kind, points
  <2>3. Ended(q, p, i, EndedRow(points, kind, e, q[i]))
    BY <1>2, <2>1, <2>2, EndsOnlyRow
  <2>4. Begun(p, r, j, k, s)
    BY <1>2, <2>2, BeginsFacts
  <2>5. \A n \in DOMAIN q : Follows(r[n], q[n])
    BY <2>3, <2>4 DEF Follows, Ended, Begun
  <2>6. \A n \in DOMAIN q : n # i /\ q[n].status # "open" => r[n] = q[n]
    BY <2>3, <2>4 DEF Open, Ended, Begun
  <2>7. Len(p) = Len(q)
    <3>1. DOMAIN p = DOMAIN q
      BY <2>3 DEF Ended
    <3> QED BY <1>2, <3>1
  <2>8. /\ DOMAIN q \subseteq DOMAIN r
        /\ \A n \in DOMAIN r \ DOMAIN q : /\ r[n].status = "open" /\ n = Len(q) + 1
                                         /\ r[n].start = s.ts /\ s.ts \in r[n].points
    BY <2>3, <2>4, <2>7 DEF Ended, Begun
  <2> QED BY <2>5, <2>6, <2>8 DEF Grown
<1> QED BY <1>1, <1>4, <1>5, <1>6, <1>7, <1>8

\* The row was closed by this very sample, and closing it again changes nothing.
Spent(m, s, row) ==
  \E e \in Sample :
    /\ SaysEnd(m.seg, s, e) \/ (\E k \in {"drive", "charge"} : SaysTurn(m.seg, s, e, k))
    /\ EndedRow(m.points, m.seg.open.kind, e, row) = row

LEMMA EndedTwice ==
  ASSUME NEW T \in SUBSET Sample, NEW points, NEW kind, NEW e \in T, NEW row \in RowsOf(T)
  PROVE  EndedRow(points, kind, e, EndedRow(points, kind, e, row)) = EndedRow(points, kind, e, row)
<1> DEFINE x == EndedRow(points, kind, e, row)
           pts == IF IsLater(points, e) THEN row.points \cup {e.ts} ELSE row.points
           fate == Fate(points, kind, e, row.status)
<1>1. x = [row EXCEPT !.points = pts, !.status = fate]
  BY DEF EndedRow
<1>2. (IF IsLater(points, e) THEN pts \cup {e.ts} ELSE pts) = pts
  OBVIOUS
<1>3. Fate(points, kind, e, fate) = fate
  BY DEF Fate, FinalOf
<1> HIDE DEF pts, fate
<1>4. x.points = pts /\ x.status = fate
  BY <1>1 DEF RowsOf
<1>5. EndedRow(points, kind, e, x) = [x EXCEPT !.points = pts, !.status = fate]
  BY <1>2, <1>3, <1>4 DEF EndedRow
<1> QED BY <1>1, <1>5 DEF RowsOf

LEMMA EventsApart ==
  ASSUME NEW st, NEW s, NEW e, NEW d, NEW k, NEW l
  PROVE  /\ SaysEnd(st, s, e) /\ SaysEnd(st, s, d) => e = d
         /\ SaysTurn(st, s, e, k) /\ SaysTurn(st, s, d, l) => e = d /\ k = l
         /\ ~(SaysEnd(st, s, e) /\ SaysTurn(st, s, d, l))
         /\ ~(SaysEnd(st, s, e) /\ SaysPoint(st, s)) /\ ~(SaysTurn(st, s, e, k) /\ SaysPoint(st, s))
         /\ ~(SaysEnd(st, s, e) /\ SaysNothing(st, s)) /\ ~(SaysTurn(st, s, e, k) /\ SaysNothing(st, s))
<1> DEFINE kind == st.open.kind
           a == <<End(kind, e)>>
           b == <<End(kind, d)>>
           f == <<End(kind, e), Start(k, s), Point(s)>>
           g == <<End(kind, d), Start(l, s), Point(s)>>
           p == <<Point(s)>>
<1>1. /\ Len(a) = 1 /\ a[1] = End(kind, e) /\ Len(b) = 1 /\ b[1] = End(kind, d)
      /\ Len(f) = 3 /\ f[1] = End(kind, e) /\ f[2] = Start(k, s)
      /\ Len(g) = 3 /\ g[1] = End(kind, d) /\ g[2] = Start(l, s)
      /\ Len(p) = 1 /\ p[1] = Point(s) /\ Len(<<>>) = 0
  OBVIOUS
<1>2. /\ End(kind, e).sample = e /\ End(kind, d).sample = d
      /\ Start(k, s).kind = k /\ Start(l, s).kind = l
      /\ End(kind, e).type = "end" /\ Point(s).type = "point"
  BY DEF End, Start, Point
<1>3. /\ SaysEnd(st, s, e) => Step(st, s).events = a
      /\ SaysEnd(st, s, d) => Step(st, s).events = b
      /\ SaysTurn(st, s, e, k) => Step(st, s).events = f
      /\ SaysTurn(st, s, d, l) => Step(st, s).events = g
      /\ SaysPoint(st, s) => Step(st, s).events = p
      /\ SaysNothing(st, s) => Step(st, s).events = <<>>
  BY DEF SaysEnd, SaysTurn, SaysPoint, SaysNothing
<1> HIDE DEF a, b, f, g, p, kind
<1> QED BY <1>1, <1>2, <1>3

LEMMA SampleSpends ==
  ASSUME NEW T \in SUBSET Sample, NEW w, Fits(T, w), Linked(w.mem), NEW s \in T,
         NEW v, v = ApplySample(w, s), NEW i, i = w.mem.id, i # Null,
         w.rows[i].status = "closed" => Spent(w.mem, s, w.rows[i])
  PROVE  /\ v.rows[i].status = "closed" => Spent(w.mem, s, v.rows[i])
         /\ w.rows[i].status = "closed" => v.rows[i] = w.rows[i]
<1> DEFINE q == w.rows
           r == v.rows
           m == w.mem
           kind == m.seg.open.kind
           Goal == /\ r[i].status = "closed" => Spent(m, s, r[i])
                   /\ q[i].status = "closed" => r[i] = q[i]
<1>1. /\ Fits(T, v)
      /\ \/ Silent(w, s, v) \/ Continues(w, s, v) \/ (\E e \in T : Ends(w, s, v, e))
         \/ (\E k \in {"drive", "charge"} : Starts(w, s, v, k))
         \/ (\E e \in T, k \in {"drive", "charge"}, p \in Seq(RowsOf(T)) :
               Turns(w, s, v, e, k, p))
  BY SampleDoes
<1>2. q \in Seq(RowsOf(T)) /\ r \in Seq(RowsOf(T)) /\ i \in DOMAIN q
  BY <1>1, FitsParts
<1>3. q[i] \in RowsOf(T)
  BY <1>2, RowTyped
<1>4. CASE Silent(w, s, v)
  BY <1>4 DEF Silent
<1>5. CASE Continues(w, s, v)
  <2>1. SaysPoint(m.seg, s) /\ OnlyRow(q, r, i, [q[i] EXCEPT !.points = @ \cup {s.ts}])
    BY <1>5 DEF Continues
  <2>2. ~Spent(m, s, q[i])
    <3> HIDE DEF q, m
    <3> QED BY <2>1, EventsApart DEF Spent
  <2>3. r[i].status = q[i].status
    <3> HIDE DEF q, r
    <3>1. Pointed(q, r, i, s)
      BY <1>2, <2>1, PointsOnlyRow
    <3> QED BY <3>1 DEF Pointed
  <2> QED BY <2>2, <2>3
<1>6. ASSUME NEW e \in T, NEW p \in Seq(RowsOf(T)),
             SaysEnd(m.seg, s, e) \/ (\E k \in {"drive", "charge"} : SaysTurn(m.seg, s, e, k)),
             OnlyRow(q, p, i, EndedRow(m.points, kind, e, q[i])), r[i] = p[i]
      PROVE  Goal
  <2> DEFINE x == q[i]
             z == m.points
  <2>1. r[i] = EndedRow(z, kind, e, x)
    BY <1>6 DEF OnlyRow
  <2>2. EndedRow(z, kind, e, r[i]) = r[i]
    <3> HIDE DEF x, r, z, kind
    <3> QED BY <1>3, <2>1, EndedTwice DEF x
  <2>3. Spent(m, s, r[i])
    <3> HIDE DEF r
    <3> QED BY <1>6, <2>2 DEF Spent
  <2>4. ASSUME x.status = "closed" PROVE r[i] = x
    <3>1. PICK d \in Sample :
            /\ SaysEnd(m.seg, s, d) \/ (\E k \in {"drive", "charge"} : SaysTurn(m.seg, s, d, k))
            /\ EndedRow(z, kind, d, x) = x
      BY <2>4 DEF Spent
    <3>2. d = e
      <4> HIDE DEF m
      <4> QED BY <1>6, <3>1, EventsApart
    <3> QED BY <2>1, <3>1, <3>2
  <2> QED BY <2>3, <2>4
<1>7. ASSUME NEW e \in T, Ends(w, s, v, e) PROVE Goal
  <2>1. SaysEnd(m.seg, s, e) /\ OnlyRow(q, r, i, EndedRow(m.points, kind, e, q[i]))
    BY <1>7 DEF Ends
  <2> HIDE DEF Goal
  <2> QED BY <1>2, <1>6, <2>1
<1>8. ASSUME NEW e \in T, NEW k \in {"drive", "charge"}, NEW p \in Seq(RowsOf(T)),
             Turns(w, s, v, e, k, p)
      PROVE  Goal
  <2> DEFINE j == v.mem.id
             z == m.points
  <2>1. OnlyRow(q, p, i, EndedRow(z, kind, e, q[i])) /\ SaysTurn(m.seg, s, e, k)
        /\ Begins(p, r, j, k, s)
    BY <1>8 DEF Turns
  <2>2. r[i] = p[i]
    <3> HIDE DEF q, r, z, kind, j
    <3>1. Ended(q, p, i, EndedRow(z, kind, e, q[i]))
      BY <1>2, <2>1, EndsOnlyRow
    <3>2. Begun(p, r, j, k, s)
      BY <1>2, <2>1, BeginsFacts
    <3> QED BY <1>2, <3>1, <3>2 DEF Ended, Begun, Open
  <2> HIDE DEF Goal
  <2> QED BY <1>6, <2>1, <2>2
<1>9. ~(\E k \in {"drive", "charge"} : Starts(w, s, v, k))
  BY DEF Starts, SaysStart, Linked
<1> HIDE DEF Goal
<1>10. Goal
  BY <1>1, <1>4, <1>5, <1>7, <1>8, <1>9 DEF Goal
<1> QED BY <1>10 DEF Goal

-----------------------------------------------------------------------------
(* A replay, one time after the other.                                     *)

Due(S, t) == {s \in S : s.ts = t}
At(x, S, t) == IF Due(S, t) = {} THEN x ELSE ApplySample(x, CHOOSE s \in Due(S, t) : TRUE)
IsRun(f, w, S, n) == f = [t \in 0..n |-> At(IF t = 0 THEN w ELSE f[t - 1], S, t)]

\* What the samples of S up to time n make of w.
Upto(w, S, n) == (CHOOSE f : IsRun(f, w, S, n))[n]

LEMMA ApplyAllIs == ASSUME NEW w, NEW S PROVE ApplyAll(w, S) = Upto(w, S, clock)
BY DEF ApplyAll, Upto, IsRun, At, Due

LEMMA RunSteps ==
  ASSUME NEW w, NEW S, NEW n \in Nat, NEW f, IsRun(f, w, S, n)
  PROVE  /\ f[0] = At(w, S, 0)
         /\ \A t \in 0..n : t # 0 => f[t] = At(f[t - 1], S, t)
BY DEF IsRun

LEMMA RunEnds ==
  ASSUME NEW w, NEW S, NEW n \in Nat, NEW f, IsRun(f, w, S, n + 1)
  PROVE  f[n + 1] = At(f[n], S, n + 1)
<1>1. n + 1 \in 0..n + 1 /\ n + 1 # 0 /\ (n + 1) - 1 = n /\ n + 1 \in Nat
  OBVIOUS
<1>2. f = [t \in 0..n + 1 |-> At(IF t = 0 THEN w ELSE f[t - 1], S, t)]
  BY DEF IsRun
<1>3. f[n + 1] = At(IF n + 1 = 0 THEN w ELSE f[(n + 1) - 1], S, n + 1)
  BY <1>1, <1>2
<1> QED BY <1>1, <1>3

LEMMA RunExists ==
  ASSUME NEW w, NEW S PROVE \A n \in Nat : \E f : IsRun(f, w, S, n)
<1> DEFINE K == {n \in Nat : \E f : IsRun(f, w, S, n)}
<1>1. 0 \in K
  <2> DEFINE f == [t \in 0..0 |-> At(w, S, 0)]
  <2>1. \A t \in 0..0 : t = 0
    OBVIOUS
  <2>2. f = [t \in 0..0 |-> At(IF t = 0 THEN w ELSE f[t - 1], S, t)]
    <3> DEFINE g == [t \in 0..0 |-> At(IF t = 0 THEN w ELSE f[t - 1], S, t)]
    <3>1. \A t \in 0..0 : f[t] = g[t]
      BY <2>1
    <3>2. f = [t \in 0..0 |-> f[t]] /\ g = [t \in 0..0 |-> g[t]]
      OBVIOUS
    <3> HIDE DEF f, g
    <3> QED BY <3>1, <3>2 DEF g
  <2>3. IsRun(f, w, S, 0)
    BY <2>2 DEF IsRun
  <2> HIDE DEF f
  <2> QED BY <2>3
<1>2. ASSUME NEW n \in Nat, n \in K PROVE n + 1 \in K
  <2>1. PICK f : IsRun(f, w, S, n)
    BY <1>2
  <2> DEFINE g == [t \in 0..n + 1 |-> IF t = n + 1 THEN At(f[n], S, n + 1) ELSE f[t]]
             h == [t \in 0..n + 1 |-> At(IF t = 0 THEN w ELSE g[t - 1], S, t)]
  <2>2. f[0] = At(w, S, 0) /\ \A t \in 0..n : t # 0 => f[t] = At(f[t - 1], S, t)
    BY <2>1, RunSteps
  <2>3. ASSUME NEW t \in 0..n + 1 PROVE g[t] = h[t]
    <3>1. CASE t = 0
      <4>1. g[0] = f[0] /\ h[0] = At(w, S, 0)
        <5>1. 0 \in 0..n + 1 /\ 0 # n + 1
          OBVIOUS
        <5> QED BY <5>1
      <4> QED BY <3>1, <4>1, <2>2
    <3>2. CASE t # 0 /\ t # n + 1
      <4>1. t \in 0..n /\ t - 1 \in 0..n + 1 /\ t - 1 # n + 1
        BY <3>2
      <4>2. g[t] = f[t] /\ g[t - 1] = f[t - 1]
        BY <3>2, <4>1
      <4>3. h[t] = At(g[t - 1], S, t)
        BY <3>2
      <4> HIDE DEF g, h
      <4> QED BY <2>2, <3>2, <4>1, <4>2, <4>3
    <3>3. CASE t = n + 1
      <4>1. t # 0 /\ t - 1 = n /\ n \in 0..n + 1 /\ n # n + 1
        BY <3>3
      <4>2. g[t] = At(f[n], S, t) /\ g[n] = f[n]
        BY <3>3, <4>1
      <4>3. h[t] = At(g[n], S, t)
        BY <4>1
      <4> HIDE DEF g, h
      <4> QED BY <4>2, <4>3
    <3> QED BY <3>1, <3>2, <3>3
  <2>4. g = [t \in 0..n + 1 |-> g[t]] /\ h = [t \in 0..n + 1 |-> h[t]]
    OBVIOUS
  <2>5. g = h
    <3> HIDE DEF g, h
    <3> QED BY <2>3, <2>4
  <2>6. IsRun(g, w, S, n + 1)
    <3> HIDE DEF g
    <3> QED BY <2>5 DEF IsRun
  <2> HIDE DEF g
  <2> QED BY <2>6
<1>3. \A n \in Nat : n \in K
  BY <1>1, <1>2, NatSetInduction
<1> QED BY <1>3

\* Two runs over samples that are the same up to time k are the same up to k.
LEMMA RunsAgree ==
  ASSUME NEW w, NEW S, NEW R, NEW n \in Nat, NEW m \in Nat, NEW f, NEW g,
         IsRun(f, w, S, n), IsRun(g, w, R, m),
         NEW k \in Nat, k <= n, k <= m, \A t \in 0..k : Due(S, t) = Due(R, t)
  PROVE  f[k] = g[k]
<1> DEFINE K == {t \in Nat : t <= k => f[t] = g[t]}
<1>1. f[0] = At(w, S, 0) /\ \A t \in 0..n : t # 0 => f[t] = At(f[t - 1], S, t)
  BY RunSteps
<1>2. g[0] = At(w, R, 0) /\ \A t \in 0..m : t # 0 => g[t] = At(g[t - 1], R, t)
  BY RunSteps
<1>3. ASSUME NEW x, NEW t \in 0..k PROVE At(x, S, t) = At(x, R, t)
  <2> DEFINE C(D) == IF D = {} THEN x ELSE ApplySample(x, CHOOSE s \in D : TRUE)
  <2>1. At(x, S, t) = C(Due(S, t)) /\ At(x, R, t) = C(Due(R, t))
    BY DEF At
  <2>2. Due(S, t) = Due(R, t)
    OBVIOUS
  <2> HIDE DEF C
  <2> QED BY <2>1, <2>2
<1>4. 0 \in K
  <2>1. 0 \in 0..k
    OBVIOUS
  <2> QED BY <1>1, <1>2, <1>3, <2>1
<1>5. ASSUME NEW t \in Nat, t \in K PROVE t + 1 \in K
  <2> SUFFICES ASSUME t + 1 <= k PROVE f[t + 1] = g[t + 1]
    OBVIOUS
  <2>1. t + 1 \in 0..k /\ t + 1 \in 0..n /\ t + 1 \in 0..m /\ t + 1 # 0 /\ (t + 1) - 1 = t /\ t <= k
    OBVIOUS
  <2>2. f[t + 1] = At(f[t], S, t + 1) /\ g[t + 1] = At(g[t], R, t + 1)
    BY <1>1, <1>2, <2>1
  <2>3. f[t] = g[t]
    BY <1>5, <2>1
  <2> QED BY <1>3, <2>1, <2>2, <2>3
<1>6. \A t \in Nat : t \in K
  BY <1>4, <1>5, NatSetInduction
<1> QED BY <1>6

LEMMA UptoSteps ==
  ASSUME NEW w, NEW S
  PROVE  /\ Upto(w, S, 0) = At(w, S, 0)
         /\ \A n \in Nat : Upto(w, S, n + 1) = At(Upto(w, S, n), S, n + 1)
<1> DEFINE F(n) == CHOOSE f : IsRun(f, w, S, n)
<1>1. \A n \in Nat : IsRun(F(n), w, S, n)
  BY RunExists
<1>2. \A n \in Nat : Upto(w, S, n) = F(n)[n]
  BY DEF Upto
<1> HIDE DEF F
<1>3. F(0)[0] = At(w, S, 0)
  BY <1>1, RunSteps
<1>4. ASSUME NEW n \in Nat PROVE F(n + 1)[n + 1] = At(F(n)[n], S, n + 1)
  <2>1. n + 1 \in Nat /\ n + 1 \in 0..n + 1 /\ n + 1 # 0 /\ (n + 1) - 1 = n /\ n <= n /\ n <= n + 1
    OBVIOUS
  <2>2. F(n + 1)[n + 1] = At(F(n + 1)[n], S, n + 1)
    <3>1. IsRun(F(n + 1), w, S, n + 1)
      BY <1>1, <2>1
    <3> QED BY <3>1, RunEnds
  <2>3. F(n + 1)[n] = F(n)[n]
    <3>1. IsRun(F(n + 1), w, S, n + 1) /\ IsRun(F(n), w, S, n)
      BY <1>1, <2>1
    <3> QED BY <2>1, <3>1, RunsAgree
  <2> QED BY <2>2, <2>3
<1>5. \A n \in Nat : n + 1 \in Nat
  OBVIOUS
<1> QED BY <1>2, <1>3, <1>4, <1>5

LEMMA UptoAgree ==
  ASSUME NEW w, NEW S, NEW R, NEW n \in Nat, \A t \in 0..n : Due(S, t) = Due(R, t)
  PROVE  Upto(w, S, n) = Upto(w, R, n)
<1> DEFINE F == CHOOSE f : IsRun(f, w, S, n)
           G == CHOOSE f : IsRun(f, w, R, n)
<1>1. IsRun(F, w, S, n) /\ IsRun(G, w, R, n)
  BY RunExists
<1>2. Upto(w, S, n) = F[n] /\ Upto(w, R, n) = G[n]
  BY DEF Upto
<1> HIDE DEF F, G
<1>3. F[n] = G[n]
  BY <1>1, RunsAgree
<1> QED BY <1>2, <1>3

\* Where no sample is due, nothing changes.
LEMMA UptoQuiet ==
  ASSUME NEW w, NEW S, NEW a \in Nat, NEW b \in Nat, a <= b,
         \A s \in S : ~(a < s.ts /\ s.ts <= b)
  PROVE  Upto(w, S, b) = Upto(w, S, a)
<1> DEFINE K == {n \in Nat : a <= n /\ n <= b => Upto(w, S, n) = Upto(w, S, a)}
<1>1. 0 \in K
  OBVIOUS
<1>2. ASSUME NEW n \in Nat, n \in K PROVE n + 1 \in K
  <2> SUFFICES ASSUME a <= n + 1, n + 1 <= b PROVE Upto(w, S, n + 1) = Upto(w, S, a)
    OBVIOUS
  <2>1. CASE a = n + 1
    BY <2>1
  <2>2. CASE a # n + 1
    <3>1. a <= n /\ n <= b /\ a < n + 1
      BY <2>2
    <3>2. Due(S, n + 1) = {}
      BY <3>1 DEF Due
    <3>3. Upto(w, S, n + 1) = Upto(w, S, n)
      BY <3>2, UptoSteps DEF At
    <3> QED BY <1>2, <3>1, <3>3
  <2> QED BY <2>1, <2>2
<1>3. \A n \in Nat : n \in K
  BY <1>1, <1>2, NatSetInduction
<1> QED BY <1>3

\* Every sample of the replay, and what it makes of what was there.
LEMMA UptoFits ==
  ASSUME NEW T \in SUBSET Sample, NEW S \in SUBSET T, NEW w, Fits(T, w), Linked(w.mem), NEW n \in Nat
  PROVE  Fits(T, Upto(w, S, n)) /\ Linked(Upto(w, S, n).mem)
<1> DEFINE K == {t \in Nat : Fits(T, Upto(w, S, t)) /\ Linked(Upto(w, S, t).mem)}
<1>1. ASSUME NEW x, Fits(T, x), Linked(x.mem), NEW t
      PROVE  Fits(T, At(x, S, t)) /\ Linked(At(x, S, t).mem)
  <2>1. CASE Due(S, t) = {}
    BY <1>1, <2>1 DEF At
  <2>2. CASE Due(S, t) # {}
    <3> DEFINE s == CHOOSE s \in Due(S, t) : TRUE
               v == ApplySample(x, s)
    <3>1. s \in T
      BY <2>2 DEF Due
    <3>2. At(x, S, t) = v
      BY <2>2 DEF At
    <3> HIDE DEF s
    <3>3. Fits(T, v) /\ Linked(v.mem)
      BY <1>1, <3>1, SampleDoes
    <3> QED BY <3>2, <3>3
  <2> QED BY <2>1, <2>2
<1>2. 0 \in K
  BY <1>1, UptoSteps
<1>3. ASSUME NEW t \in Nat, t \in K PROVE t + 1 \in K
  <2> DEFINE x == Upto(w, S, t)
  <2>1. Upto(w, S, t + 1) = At(x, S, t + 1)
    BY UptoSteps
  <2>3. Fits(T, x) /\ Linked(x.mem) /\ t + 1 \in Nat
    BY <1>3
  <2> HIDE DEF x
  <2>2. Fits(T, At(x, S, t + 1)) /\ Linked(At(x, S, t + 1).mem)
    BY <1>1, <2>3
  <2> QED BY <2>1, <2>2, <2>3
<1>4. \A t \in Nat : t \in K
  BY <1>2, <1>3, NatSetInduction
<1> QED BY <1>4

-----------------------------------------------------------------------------
(* The restart.                                                            *)

\* What the restart finds of the rows: each open one's match, and the last of several.
Fit(dry, row) ==
  {i \in DOMAIN dry : /\ dry[i].kind = row.kind
                      /\ dry[i].start - Slack <= row.start
                      /\ dry[i].status = "open" \/ row.start <= EndedAt(dry[i])}

LEMMA NearestExists ==
  ASSUME NEW F \in SUBSET Nat, F # {}, NEW d \in [F -> Nat]
  PROVE  \E i \in F : \A j \in F : d[i] < d[j] \/ (d[i] = d[j] /\ i <= j)
<1> DEFINE D == {d[i] : i \in F}
<1>1. D \in SUBSET Nat /\ D # {}
  OBVIOUS
<1>2. PICK n \in D : \A k \in D : n <= k
  BY <1>1, MinExists
<1> DEFINE E == {i \in F : d[i] = n}
<1>3. E \in SUBSET Nat /\ E # {}
  BY <1>2
<1>4. PICK i \in E : \A k \in E : i <= k
  <2> HIDE DEF E
  <2> QED BY <1>3, MinExists
<1>5. ASSUME NEW j \in F PROVE d[i] < d[j] \/ (d[i] = d[j] /\ i <= j)
  <2>1. d[j] \in D /\ n <= d[j] /\ d[i] = n /\ d[j] \in Nat /\ n \in Nat
    BY <1>1, <1>2
  <2>2. CASE d[j] = n
    BY <1>4, <2>1, <2>2
  <2>3. CASE d[j] # n
    BY <2>1, <2>3
  <2> QED BY <2>2, <2>3
<1> QED BY <1>5

LEMMA DistanceIs ==
  ASSUME NEW a \in Nat, NEW b \in Nat
  PROVE  Distance(a, b) \in Nat /\ (Distance(a, b) = 0 <=> a = b)
BY DEF Distance

LEMMA RowStart ==
  ASSUME NEW T \in SUBSET Sample, NEW row \in RowsOf(T)
  PROVE  row.start \in Nat /\ row.start \in StampsOf(T) /\ row.points \subseteq Nat
         /\ row.kind \in {"drive", "charge"}
BY SampleFields DEF RowsOf, StampsOf

\* Its match is one of its kind, and the nearest.
LEMMA MatchIs ==
  ASSUME NEW T \in SUBSET Sample, NEW dry \in Seq(RowsOf(T)), NEW row \in RowsOf(T),
         NEW m, m = MatchFor(dry, row)
  PROVE  /\ Fit(dry, row) = {} => m = Null
         /\ Fit(dry, row) # {} =>
              /\ m \in Fit(dry, row) /\ m \in DOMAIN dry /\ m \in Nat /\ dry[m].kind = row.kind
              /\ \A j \in Fit(dry, row) :
                   Distance(dry[m].start, row.start) <= Distance(dry[j].start, row.start)
<1> DEFINE F == Fit(dry, row)
           off(i) == Distance(dry[i].start, row.start)
           d == [i \in F |-> off(i)]
           Best(i) == \A j \in F : off(i) < off(j) \/ (off(i) = off(j) /\ i <= j)
<1>1. m = IF F = {} THEN Null ELSE CHOOSE i \in F : Best(i)
  BY DEF MatchFor, Fit
<1>2. F \in SUBSET DOMAIN dry /\ \A i \in F : dry[i].kind = row.kind
  BY DEF Fit
<1>3. DOMAIN dry \in SUBSET Nat
  OBVIOUS
<1>4. \A i \in F : off(i) \in Nat
  <2> TAKE i \in F
  <2>1. i \in DOMAIN dry
    BY <1>2
  <2>2. dry[i] \in RowsOf(T)
    BY <2>1, RowTyped
  <2>3. dry[i].start \in Nat /\ row.start \in Nat
    BY <2>2, RowStart
  <2> QED BY <2>3, DistanceIs
<1> HIDE DEF F
<1>5. ASSUME F # {} PROVE m \in F /\ Best(m)
  <2>1. d \in [F -> Nat]
    <3> HIDE DEF off
    <3> QED BY <1>4
  <2>2. \A i \in F : d[i] = off(i)
    OBVIOUS
  <2>3. F \in SUBSET Nat
    BY <1>2, <1>3
  <2> HIDE DEF d, off
  <2>4. PICK i \in F : \A j \in F : d[i] < d[j] \/ (d[i] = d[j] /\ i <= j)
    BY <1>5, <2>1, <2>3, NearestExists
  <2>5. Best(i)
    BY <2>2, <2>4
  <2> HIDE DEF Best
  <2> QED BY <1>1, <1>5, <2>5
<1>6. ASSUME F # {}, NEW j \in F PROVE off(m) <= off(j)
  <2>1. off(m) < off(j) \/ off(m) = off(j)
    BY <1>5, <1>6
  <2>2. off(m) \in Nat /\ off(j) \in Nat
    BY <1>4, <1>5, <1>6
  <2> HIDE DEF off
  <2> QED BY <2>1, <2>2
<1>7. F # {} => m \in DOMAIN dry /\ m \in Nat /\ dry[m].kind = row.kind
  BY <1>2, <1>3, <1>5
<1> QED BY <1>1, <1>5, <1>6, <1>7 DEF F

\* Two rows of a set of rows that are bounded: one starts last.
LEMMA LastExists ==
  ASSUME NEW F, F # {}, NEW g, NEW b \in Nat, \A i \in F : g[i] \in Nat /\ g[i] <= b
  PROVE  \E i \in F : \A j \in F : g[j] <= g[i]
<1> DEFINE D == {b - g[i] : i \in F}
<1>1. D \in SUBSET Nat /\ D # {}
  OBVIOUS
<1>2. PICK n \in D : \A k \in D : n <= k
  BY <1>1, MinExists
<1>3. PICK i \in F : n = b - g[i]
  BY <1>2
<1>4. ASSUME NEW j \in F PROVE g[j] <= g[i]
  <2>1. b - g[i] <= b - g[j]
    BY <1>2, <1>3
  <2> QED BY <2>1
<1> QED BY <1>4

LEMMA StampsTyped ==
  ASSUME NEW T, NEW points \in Seq(T)
  PROVE  Stamps(points) \in SUBSET StampsOf(T)
<1>1. \A i \in DOMAIN points : points[i] \in T
  OBVIOUS
<1> QED BY <1>1 DEF Stamps, ToSet, StampsOf

\* An open row of the table, and the row of the replay it stands for.
Goes(p, i, x) ==
  LET m == MatchFor(p.rows, rows[i]) IN
  \/ m # Null /\ m = p.mem.id /\ x = rows[i]
  \/ /\ m # Null /\ m # p.mem.id /\ p.rows[m].status # "open"
     /\ x.status \in {"closed", "gone"}
     /\ x.status = FinalOf(rows[i].kind, SamplesAt(p.rows[m].points), "open")
     /\ x.start = p.rows[m].start /\ x.points = p.rows[m].points
  \/ /\ m = Null \/ m # p.mem.id
     /\ m = Null \/ p.rows[m].status = "open"
     /\ x.status = "abandoned"

LEMMA SettleDoes ==
  ASSUME NEW T \in SUBSET Sample, rows \in Seq(RowsOf(T)), NEW p, Fits(T, p),
         NEW i \in DOMAIN rows, rows[i].status = "open"
  PROVE  /\ Settle(p, i) \in RowsOf(T) /\ Settle(p, i).kind = rows[i].kind
         /\ Goes(p, i, Settle(p, i))
<1> DEFINE q == rows
           row == q[i]
           m == MatchFor(p.rows, row)
           as == p.rows[m]
           x == Settle(p, i)
<1>1. row \in RowsOf(T) /\ p.rows \in Seq(RowsOf(T))
  BY RowTyped, FitsParts
<1>2. m # Null => m \in DOMAIN p.rows
  <2> HIDE DEF m, row
  <2> QED BY <1>1, MatchIs DEF m
<1>3. CASE m # Null /\ m = p.mem.id
  <2>1. x = row
    BY <1>3 DEF Settle
  <2> QED BY <1>1, <1>3, <2>1 DEF Goes
<1>4. CASE m # Null /\ m # p.mem.id /\ as.status # "open"
  <2> DEFINE y == [row EXCEPT !.start = as.start, !.points = as.points]
             r == [q EXCEPT ![i] = y]
             kind == row.kind
             points == SamplesAt(as.points)
             fate == FinalOf(kind, points, r[i].status)
  <2>1. as \in RowsOf(T)
    BY <1>1, <1>2, <1>4, RowTyped
  <2>2. y \in RowsOf(T) /\ y.kind = row.kind /\ y.start = as.start /\ y.points = as.points
    BY <1>1, <2>1 DEF RowsOf
  <2>3. r \in Seq(RowsOf(T)) /\ OnlyRow(q, r, i, y)
    <3> HIDE DEF y, q
    <3> QED BY <2>2, RowReplaced DEF q
  <2>4. i \in DOMAIN r /\ r[i] = y
    BY <2>3 DEF OnlyRow
  <2>5. ResetSession(rows, i, as.start, as.points) = r
    BY DEF ResetSession
  <2>6. x = Finish(r, i, kind, points)[i]
    BY <1>4, <2>5 DEF Settle
  <2>7. Finish(r, i, kind, points) = [r EXCEPT ![i] = [r[i] EXCEPT !.status = fate]]
    <3> HIDE DEF r, y, row, as, q, kind, points
    <3> QED BY <2>3, <2>4, FinishIs
  <2>8. fate \in {"closed", "gone"} /\ fate = FinalOf(rows[i].kind, SamplesAt(as.points), "open")
    <3>1. y.status = "open"
      BY <1>1 DEF RowsOf
    <3>2. fate = FinalOf(kind, points, "open")
      BY <2>4, <3>1
    <3> QED BY <3>2 DEF FinalOf
  <2> HIDE DEF fate
  <2>9. x = [y EXCEPT !.status = fate]
    <3> HIDE DEF r, y, as, kind, points
    <3> QED BY <2>4, <2>6, <2>7
  <2>10. x \in RowsOf(T) /\ x.kind = y.kind /\ x.start = y.start /\ x.points = y.points /\ x.status = fate
    <3> HIDE DEF y
    <3> QED BY <2>2, <2>8, <2>9 DEF RowsOf
  <2> HIDE DEF x, y
  <2>11. x.status = FinalOf(rows[i].kind, SamplesAt(as.points), "open")
    BY <2>8, <2>10
  <2> QED BY <1>4, <2>2, <2>8, <2>10, <2>11 DEF Goes, x
<1>5. CASE ~(m # Null /\ m = p.mem.id) /\ ~(m # Null /\ as.status # "open")
  <2>1. x = AbandonSession(rows, i)[i]
    BY <1>5 DEF Settle
  <2>2. x = [row EXCEPT !.status = "abandoned"]
    BY <2>1 DEF AbandonSession
  <2>3. x \in RowsOf(T) /\ x.kind = row.kind /\ x.status = "abandoned"
    BY <1>1, <2>2 DEF RowsOf
  <2> HIDE DEF x
  <2> QED BY <1>5, <2>3 DEF Goes, x
<1> QED BY <1>3, <1>4, <1>5

LEMMA SettledDoes ==
  ASSUME NEW T \in SUBSET Sample, rows \in Seq(RowsOf(T)), NEW p, Fits(T, p)
  PROVE  /\ Settled(p) \in Seq(RowsOf(T)) /\ DOMAIN Settled(p) = DOMAIN rows
         /\ \A i \in DOMAIN rows : rows[i].status # "open" => Settled(p)[i] = rows[i]
         /\ \A i \in DOMAIN rows : Settled(p)[i].kind = rows[i].kind
         /\ \A i \in Open(rows) : Goes(p, i, Settled(p)[i])
<1> DEFINE q == Settled(p)
<1>1. q = [i \in DOMAIN rows |-> IF i \in Open(rows) THEN Settle(p, i) ELSE rows[i]]
  BY DEF Settled
<1>2. \A i \in DOMAIN rows : i \in Open(rows) <=> rows[i].status = "open"
  BY DEF Open
<1>3. \A i \in Open(rows) : Settle(p, i) \in RowsOf(T) /\ Settle(p, i).kind = rows[i].kind
                             /\ Goes(p, i, Settle(p, i)) /\ i \in DOMAIN rows
  BY SettleDoes DEF Open
<1>4. \A i \in DOMAIN rows : rows[i] \in RowsOf(T)
  BY RowTyped
<1>5. \A i \in DOMAIN rows : q[i] = IF i \in Open(rows) THEN Settle(p, i) ELSE rows[i]
  BY <1>1
<1>6. q \in Seq(RowsOf(T))
  <2> DEFINE R == RowsOf(T)
  <2>1. DOMAIN rows = 1..Len(rows) /\ Len(rows) \in Nat
    OBVIOUS
  <2>2. \A i \in DOMAIN rows : q[i] \in R
    BY <1>3, <1>4, <1>5
  <2>3. q \in [1..Len(rows) -> R]
    <3>1. q = [i \in 1..Len(rows) |-> q[i]]
      BY <1>1, <2>1
    <3> HIDE DEF q
    <3> QED BY <2>1, <2>2, <3>1
  <2> HIDE DEF q, R
  <2>4. q \in Seq(R)
    BY <2>1, <2>3
  <2> QED BY <2>4 DEF R
<1>7. DOMAIN q = DOMAIN rows
  BY <1>1
<1> HIDE DEF q
<1> QED BY <1>2, <1>3, <1>5, <1>6, <1>7 DEF q

\* A row that is opened at a stamp of the tape.
OpensAt(T, q, k, n, o) ==
  /\ o.rows \in Seq(RowsOf(T)) /\ o.id \in DOMAIN o.rows /\ o.id \in Nat
  /\ o = [rows |-> o.rows, id |-> o.id]
  /\ o.rows[o.id].status = "open" /\ o.rows[o.id].kind = k
  /\ \/ o.id \in Open(q) /\ o.rows = q
     \/ /\ \A i \in Open(q) : q[i].kind # k
        /\ o.rows = Append(q, Row(k, n)) /\ o.id = Len(q) + 1
  /\ DOMAIN q \subseteq DOMAIN o.rows /\ \A i \in DOMAIN q : o.rows[i] = q[i]

LEMMA OpenDoes ==
  ASSUME NEW T \in SUBSET Sample, NEW q \in Seq(RowsOf(T)), NEW k \in {"drive", "charge"},
         NEW n \in StampsOf(T), NEW o, o = OpenSession(q, k, n)
  PROVE  OpensAt(T, q, k, n, o)
<1> DEFINE same == {i \in Open(q) : q[i].kind = k}
<1>1. CASE same = {}
  <2> DEFINE y == Row(k, n)
  <2>1. o = [rows |-> Append(q, y), id |-> Len(q) + 1]
    BY <1>1 DEF OpenSession
  <2>2. y \in RowsOf(T) /\ y.status = "open" /\ y.kind = k
    BY NewRowTyped DEF StampsOf, Row
  <2>3. \A i \in Open(q) : q[i].kind # k
    BY <1>1
  <2> HIDE DEF y, same
  <2>4. /\ Append(q, y) \in Seq(RowsOf(T)) /\ DOMAIN Append(q, y) = DOMAIN q \cup {Len(q) + 1}
        /\ Append(q, y)[Len(q) + 1] = y /\ Len(q) + 1 \in Nat
        /\ \A j \in DOMAIN q : Append(q, y)[j] = q[j]
    BY <2>2, RowAdded
  <2> QED BY <2>1, <2>2, <2>3, <2>4 DEF y, OpensAt
<1>2. CASE same # {}
  <2>1. o = [rows |-> q, id |-> CHOOSE i \in same : TRUE]
    BY <1>2 DEF OpenSession
  <2>2. (CHOOSE i \in same : TRUE) \in same
    BY <1>2
  <2>3. o.id \in same /\ o.rows = q
    BY <2>1, <2>2
  <2>4. o.id \in Open(q) /\ o.id \in DOMAIN q /\ q[o.id].kind = k /\ q[o.id].status = "open"
    BY <2>3 DEF Open
  <2>5. o.id \in Nat
    BY <2>4, RowTyped
  <2> QED BY <2>1, <2>3, <2>4, <2>5 DEF OpensAt
<1> QED BY <1>1, <1>2

\* The row of what still runs: u's, or one that is opened.
Carries(T, p, u, w) ==
  /\ w.rows \in Seq(RowsOf(T)) /\ w.id \in DOMAIN w.rows /\ w.id \in Nat /\ w.id # Null
  /\ w.rows[w.id].status = "open" /\ w.rows[w.id].start = p.rows[p.mem.id].start
  /\ w.rows[w.id].points = Stamps(p.mem.points)
  /\ DOMAIN u.rows \subseteq DOMAIN w.rows
  /\ \A i \in DOMAIN u.rows : /\ w.rows[i].kind = u.rows[i].kind
                              /\ w.rows[i].status = u.rows[i].status
                              /\ i # w.id => w.rows[i] = u.rows[i]
  /\ u.id # Null => w.id = u.id /\ DOMAIN w.rows = DOMAIN u.rows
  /\ u.id = Null =>
       /\ w.rows[w.id].kind = p.rows[p.mem.id].kind
       /\ \/ w.id \in Open(u.rows) /\ DOMAIN w.rows = DOMAIN u.rows
          \/ w.id \notin DOMAIN u.rows /\ DOMAIN w.rows = DOMAIN u.rows \cup {w.id}

LEMMA CarriedDoes ==
  ASSUME NEW T \in SUBSET Sample, NEW p, Fits(T, p), p.mem.id # Null,
         NEW u, u = [rows |-> u.rows, id |-> u.id], u.rows \in Seq(RowsOf(T)),
         u.id # Null => u.id \in Open(u.rows),
         NEW w, w = Carried(p, u)
  PROVE  Carries(T, p, u, w)
<1> DEFINE s == p.rows[p.mem.id]
           o == IF u.id = Null THEN OpenSession(u.rows, s.kind, s.start) ELSE u
           pts == Stamps(p.mem.points)
           row == o.rows[o.id]
           y == [row EXCEPT !.start = s.start, !.points = pts]
           r == [o.rows EXCEPT ![o.id] = y]
<1>1. s \in RowsOf(T) /\ pts \in SUBSET StampsOf(T)
  <2>1. p.rows \in Seq(RowsOf(T)) /\ p.mem.id \in DOMAIN p.rows /\ p.mem.points \in Seq(T)
    BY FitsParts
  <2> QED BY <2>1, RowTyped, StampsTyped
<1>2. s.kind \in {"drive", "charge"} /\ s.start \in StampsOf(T)
  BY <1>1 DEF RowsOf
<1>3. /\ o.rows \in Seq(RowsOf(T)) /\ o.id \in DOMAIN o.rows /\ o.id \in Nat
      /\ o = [rows |-> o.rows, id |-> o.id]
      /\ o.rows[o.id].status = "open"
      /\ DOMAIN u.rows \subseteq DOMAIN o.rows /\ \A i \in DOMAIN u.rows : o.rows[i] = u.rows[i]
      /\ u.id # Null => o.id = u.id /\ o.rows = u.rows
      /\ u.id = Null =>
           /\ o.rows[o.id].kind = s.kind
           /\ \/ o.id \in Open(u.rows) /\ o.rows = u.rows
              \/ o.id \notin DOMAIN u.rows /\ DOMAIN o.rows = DOMAIN u.rows \cup {o.id}
  <2>1. CASE u.id # Null
    <3>1. o = u /\ u.id \in DOMAIN u.rows /\ u.rows[u.id].status = "open"
      BY <2>1 DEF Open
    <3>2. u.id \in Nat
      BY <3>1, RowTyped
    <3> HIDE DEF o
    <3> QED BY <2>1, <3>1, <3>2
  <2>2. CASE u.id = Null
    <3> DEFINE q == u.rows
               kind == s.kind
               start == s.start
    <3>1. o = OpenSession(q, kind, start)
      BY <2>2
    <3> HIDE DEF o, s
    <3>2. q \in Seq(RowsOf(T)) /\ kind \in {"drive", "charge"} /\ start \in StampsOf(T)
      BY <1>2
    <3> HIDE DEF q, kind, start
    <3>3. /\ o.rows \in Seq(RowsOf(T)) /\ o.id \in DOMAIN o.rows /\ o.id \in Nat
          /\ o = [rows |-> o.rows, id |-> o.id]
          /\ o.rows[o.id].status = "open" /\ o.rows[o.id].kind = kind
          /\ \/ o.id \in Open(q) /\ o.rows = q
             \/ /\ \A i \in Open(q) : q[i].kind # kind
                /\ o.rows = Append(q, Row(kind, start)) /\ o.id = Len(q) + 1
          /\ DOMAIN q \subseteq DOMAIN o.rows /\ \A i \in DOMAIN q : o.rows[i] = q[i]
      <4>1. OpensAt(T, q, kind, start, o)
        BY <3>1, <3>2, OpenDoes
      <4> QED BY <4>1 DEF OpensAt
    <3>4. ASSUME o.rows = Append(q, Row(kind, start)), o.id = Len(q) + 1
          PROVE  o.id \notin DOMAIN q /\ DOMAIN o.rows = DOMAIN q \cup {o.id}
      <4>1. Row(kind, start) \in RowsOf(T)
        BY <3>2, NewRowTyped DEF StampsOf
      <4> QED BY <3>2, <3>4, <4>1, RowAdded
    <3>5. \/ o.id \in Open(q) /\ o.rows = q
          \/ o.id \notin DOMAIN q /\ DOMAIN o.rows = DOMAIN q \cup {o.id}
      BY <3>3, <3>4
    <3> QED BY <2>2, <3>3, <3>5 DEF q, kind
  <2> QED BY <2>1, <2>2
<1>4. w = [o EXCEPT !.rows = ResetSession(@, o.id, s.start, pts)]
  BY DEF Carried
<1>5. ResetSession(o.rows, o.id, s.start, pts) = r
  BY DEF ResetSession
<1> HIDE DEF o
<1>6. w.rows = r /\ w.id = o.id
  <2>1. w = [o EXCEPT !.rows = r]
    BY <1>4, <1>5
  <2> HIDE DEF r
  <2> QED BY <1>3, <2>1
<1>7. row \in RowsOf(T)
  BY <1>3, RowTyped
<1>8. y \in RowsOf(T) /\ y.kind = row.kind /\ y.status = row.status /\ y.start = s.start /\ y.points = pts
  <2> HIDE DEF s, row, pts
  <2> QED BY <1>1, <1>2, <1>7 DEF RowsOf
<1> DEFINE q == o.rows
           j == o.id
<1>9. r \in Seq(RowsOf(T)) /\ OnlyRow(q, r, j, y)
  <2>1. q \in Seq(RowsOf(T)) /\ j \in DOMAIN q /\ y \in RowsOf(T) /\ r = [q EXCEPT ![j] = y]
    BY <1>3, <1>8
  <2> HIDE DEF y, q, j, r
  <2> QED BY <2>1, RowReplaced
<1>10. DOMAIN r = DOMAIN q /\ r[j] = y /\ \A i \in DOMAIN q : i # j => r[i] = q[i]
  <2> HIDE DEF r, y
  <2> QED BY <1>3, <1>9 DEF OnlyRow
<1> HIDE DEF r, y, s, pts
<1>11. \A i \in DOMAIN u.rows : /\ r[i].kind = u.rows[i].kind
                                /\ r[i].status = u.rows[i].status
                                /\ i # o.id => r[i] = u.rows[i]
  <2> TAKE i \in DOMAIN u.rows
  <2>1. q[i] = u.rows[i] /\ i \in DOMAIN q
    BY <1>3
  <2>2. CASE i = j
    <3>1. r[i] = y /\ row = u.rows[i]
      BY <1>10, <2>1, <2>2
    <3> QED BY <1>8, <2>2, <3>1
  <2>3. CASE i # j
    BY <1>10, <2>1, <2>3
  <2> QED BY <2>2, <2>3
<1>12. o.id # Null
  BY <1>3, SessionsAssumption
<1>13. u.id = Null => r[o.id].kind = s.kind
  BY <1>3, <1>8, <1>10
<1>14. o.id \in DOMAIN r /\ r[o.id].status = "open" /\ r[o.id].start = s.start /\ r[o.id].points = pts
  BY <1>3, <1>8, <1>10
<1>15. DOMAIN r = DOMAIN o.rows
  BY <1>10
<1> HIDE DEF row, q, j
<1> QED BY <1>3, <1>6, <1>9, <1>11, <1>12, <1>13, <1>14, <1>15 DEF s, pts, Carries

LEMMA CarriedOnIs ==
  ASSUME NEW T \in SUBSET Sample, rows \in Seq(RowsOf(T)), NEW b \in Nat,
         \A n \in StampsOf(T) : n <= b, NEW p, NEW c, c = CarriedOn(p)
  PROVE  \/ /\ c = Null
            /\ \/ p.mem.id = Null
               \/ \A i \in Open(rows) : MatchFor(p.rows, rows[i]) # p.mem.id
         \/ /\ c \in Open(rows) /\ p.mem.id # Null /\ MatchFor(p.rows, rows[c]) = p.mem.id
            /\ \A i \in Open(rows) :
                 MatchFor(p.rows, rows[i]) = p.mem.id => rows[i].start <= rows[c].start
<1> DEFINE mine == {i \in Open(rows) : MatchFor(p.rows, rows[i]) = p.mem.id}
           Late(i) == \A j \in mine : rows[j].start <= rows[i].start
<1>1. c = IF p.mem.id = Null \/ mine = {} THEN Null ELSE CHOOSE i \in mine : Late(i)
  BY DEF CarriedOn
<1>2. ASSUME mine # {} PROVE \E i \in mine : Late(i)
  <2> DEFINE g == [i \in DOMAIN rows |-> rows[i].start]
  <2>1. \A i \in mine : i \in DOMAIN rows
    BY DEF Open
  <2>2. \A i \in mine : g[i] \in Nat /\ g[i] <= b
    <3> TAKE i \in mine
    <3>1. rows[i] \in RowsOf(T) /\ g[i] = rows[i].start
      BY <2>1, RowTyped
    <3> HIDE DEF g, mine
    <3> QED BY <3>1, RowStart
  <2>3. \A i \in mine : g[i] = rows[i].start
    BY <2>1
  <2> HIDE DEF g, mine
  <2>4. PICK i \in mine : \A j \in mine : g[j] <= g[i]
    BY <1>2, <2>2, LastExists
  <2> QED BY <2>3, <2>4 DEF mine
<1>3. CASE p.mem.id = Null \/ mine = {}
  BY <1>1, <1>3
<1>4. CASE p.mem.id # Null /\ mine # {}
  <2>1. c \in mine /\ Late(c)
    <3> HIDE DEF mine, Late
    <3> QED BY <1>1, <1>2, <1>4
  <2> QED BY <1>4, <2>1
<1> QED BY <1>3, <1>4

Reconciles(T, p, w) ==
  /\ w.rows \in Seq(RowsOf(T)) /\ w.id \in (DOMAIN w.rows \cap Nat) \cup {Null}
  /\ (w.id = Null) <=> (p.mem.id = Null)
  /\ w.id # Null => w.rows[w.id].status = "open"
  /\ DOMAIN rows \subseteq DOMAIN w.rows
  /\ \A i \in DOMAIN rows : rows[i].status # "open" => w.rows[i] = rows[i]

LEMMA ReconciledDoes ==
  ASSUME NEW T \in SUBSET Sample, rows \in Seq(RowsOf(T)), NEW b \in Nat,
         \A n \in StampsOf(T) : n <= b, NEW p, Fits(T, p), NEW w, w = Reconciled(p)
  PROVE  Reconciles(T, p, w)
<1> DEFINE c == CarriedOn(p)
           q == Settled(p)
           u == [rows |-> q, id |-> c]
<1>1. /\ q \in Seq(RowsOf(T)) /\ DOMAIN q = DOMAIN rows
      /\ \A i \in DOMAIN rows : rows[i].status # "open" => q[i] = rows[i]
      /\ \A i \in Open(rows) : Goes(p, i, q[i])
  BY SettledDoes
<1>2. \/ c = Null
      \/ c \in Open(rows) /\ p.mem.id # Null /\ MatchFor(p.rows, rows[c]) = p.mem.id
  BY CarriedOnIs
<1>3. w = Carried(p, u)
  BY DEF Reconciled
<1> HIDE DEF c, q
<1>4. u.rows = q /\ u.id = c /\ u = [rows |-> u.rows, id |-> u.id]
  OBVIOUS
<1> HIDE DEF u
<1>5. c # Null => c \in Open(q)
  <2> SUFFICES ASSUME c # Null PROVE c \in Open(q)
    OBVIOUS
  <2>1. Goes(p, c, q[c]) /\ c \in DOMAIN rows
    BY <1>1, <1>2 DEF Open
  <2>2. q[c] = rows[c]
    BY <1>2, <2>1 DEF Goes
  <2> QED BY <1>1, <1>2, <2>1, <2>2 DEF Open
<1>6. CASE p.mem.id = Null
  <2>1. w = u /\ c = Null
    BY <1>2, <1>3, <1>6 DEF Carried
  <2> QED BY <1>1, <1>4, <1>6, <2>1 DEF Reconciles
<1>7. CASE p.mem.id # Null
  <2>1. Carries(T, p, u, w)
    BY <1>1, <1>3, <1>4, <1>5, <1>7, CarriedDoes
  <2>2. \A i \in DOMAIN rows : rows[i].status # "open" => w.rows[i] = rows[i]
    <3> SUFFICES ASSUME NEW i \in DOMAIN rows, rows[i].status # "open" PROVE w.rows[i] = rows[i]
      OBVIOUS
    <3>1. q[i] = rows[i] /\ w.rows[i].status = q[i].status
      BY <1>1, <1>4, <2>1 DEF Carries
    <3>2. i # w.id
      BY <2>1, <3>1 DEF Carries
    <3> QED BY <1>1, <1>4, <2>1, <3>1, <3>2 DEF Carries
  <2> QED BY <1>1, <1>4, <1>7, <2>1, <2>2 DEF Carries, Reconciles
<1> QED BY <1>6, <1>7

\* The session that runs after a sample: one that has begun, or the one before it.
Runs(w, s, v) ==
  \/ v.mem.id = Null
  \/ v.mem.id \in DOMAIN v.rows /\ v.rows[v.mem.id].status = "open"
  \/ /\ v.mem.id = w.mem.id /\ v.rows[v.mem.id].status = w.rows[w.mem.id].status
     /\ SaysNothing(w.mem.seg, s) \/ SaysPoint(w.mem.seg, s)

LEMMA SampleRuns ==
  ASSUME NEW T \in SUBSET Sample, NEW w, Fits(T, w), Linked(w.mem), NEW s \in T,
         NEW v, v = ApplySample(w, s)
  PROVE  Runs(w, s, v)
<1> DEFINE q == w.rows
           r == v.rows
           i == w.mem.id
           j == v.mem.id
<1>1. /\ Fits(T, v)
      /\ \/ Silent(w, s, v) \/ Continues(w, s, v) \/ (\E e \in T : Ends(w, s, v, e))
         \/ (\E k \in {"drive", "charge"} : Starts(w, s, v, k))
         \/ (\E e \in T, k \in {"drive", "charge"}, p \in Seq(RowsOf(T)) :
               Turns(w, s, v, e, k, p))
  BY SampleDoes
<1>2. q \in Seq(RowsOf(T)) /\ r \in Seq(RowsOf(T))
  BY <1>1, FitsParts
<1>3. CASE Silent(w, s, v)
  BY <1>3 DEF Silent, Runs
<1>4. CASE Continues(w, s, v)
  <2>1. OnlyRow(q, r, i, [q[i] EXCEPT !.points = @ \cup {s.ts}]) /\ i \in DOMAIN q
        /\ SaysPoint(w.mem.seg, s) /\ j = i
    <3>1. i # Null
      BY <1>4 DEF Continues, SaysPoint, Linked
    <3> QED BY <1>4, <3>1, FitsParts DEF Continues
  <2>2. r[i].status = q[i].status
    <3> HIDE DEF q, r, i
    <3>1. Pointed(q, r, i, s)
      BY <1>2, <2>1, PointsOnlyRow
    <3> QED BY <3>1 DEF Pointed
  <2> QED BY <2>1, <2>2 DEF Runs
<1>5. CASE \E e \in T : Ends(w, s, v, e)
  BY <1>5 DEF Ends, Runs
<1>6. ASSUME NEW p \in Seq(RowsOf(T)), NEW k \in {"drive", "charge"}, Begins(p, r, j, k, s)
      PROVE  Runs(w, s, v)
  <2>1. j \in DOMAIN r /\ r[j].status = "open"
    <3> HIDE DEF r, j
    <3>1. Begun(p, r, j, k, s)
      BY <1>2, <1>6, BeginsFacts
    <3> QED BY <3>1 DEF Begun
  <2> QED BY <2>1 DEF Runs
<1>7. ASSUME NEW k \in {"drive", "charge"}, Starts(w, s, v, k) PROVE Runs(w, s, v)
  BY <1>2, <1>6, <1>7 DEF Starts
<1>8. ASSUME NEW e \in T, NEW k \in {"drive", "charge"}, NEW p \in Seq(RowsOf(T)),
             Turns(w, s, v, e, k, p)
      PROVE  Runs(w, s, v)
  BY <1>6, <1>8 DEF Turns
<1> QED BY <1>1, <1>3, <1>4, <1>5, <1>7, <1>8

\* A replay over rows of which none is open leaves them alone.
Besides(w, x) ==
  /\ DOMAIN w.rows \subseteq DOMAIN x.rows /\ \A i \in DOMAIN w.rows : x.rows[i] = w.rows[i]
  /\ x.mem.id \notin DOMAIN w.rows

LEMMA UptoBesides ==
  ASSUME NEW T \in SUBSET Sample, NEW S \in SUBSET T, NEW w, Fits(T, w), Linked(w.mem),
         w.mem.id = Null, \A i \in DOMAIN w.rows : w.rows[i].status # "open", NEW n \in Nat
  PROVE  Besides(w, Upto(w, S, n))
<1> DEFINE K == {t \in Nat : Besides(w, Upto(w, S, t))}
<1>0. Besides(w, w)
  <2>1. w.rows \in Seq(RowsOf(T))
    BY FitsParts
  <2>2. \A i \in DOMAIN w.rows : i \in Nat
    BY <2>1, RowTyped
  <2> QED BY <2>2, SessionsAssumption DEF Besides
<1>1. ASSUME NEW x, Fits(T, x), Linked(x.mem), Besides(w, x), NEW t
      PROVE  Besides(w, At(x, S, t))
  <2>1. CASE Due(S, t) = {}
    BY <1>1, <2>1 DEF At
  <2>2. CASE Due(S, t) # {}
    <3> DEFINE s == CHOOSE s \in Due(S, t) : TRUE
               v == ApplySample(x, s)
    <3>1. s \in T
      BY <2>2 DEF Due
    <3>2. At(x, S, t) = v
      BY <2>2 DEF At
    <3> HIDE DEF s
    <3>3. Grown(x.rows, v.rows, x.mem.id, s)
      BY <1>1, <3>1, SampleFrame
    <3>4. Runs(x, s, v)
      BY <1>1, <3>1, SampleRuns
    <3> HIDE DEF v
    <3>5. DOMAIN w.rows \subseteq DOMAIN v.rows /\ \A i \in DOMAIN w.rows : v.rows[i] = w.rows[i]
      BY <1>1, <3>3 DEF Besides, Grown
    <3>6. v.mem.id \notin DOMAIN w.rows
      <4>1. Null \notin DOMAIN w.rows
        BY <1>0 DEF Besides
      <4> QED BY <1>1, <3>4, <3>5, <4>1 DEF Besides, Runs
    <3> QED BY <3>2, <3>5, <3>6 DEF Besides
  <2> QED BY <2>1, <2>2
<1>2. 0 \in K
  BY <1>0, <1>1, UptoSteps
<1>3. ASSUME NEW t \in Nat, t \in K PROVE t + 1 \in K
  <2> DEFINE x == Upto(w, S, t)
  <2>1. Upto(w, S, t + 1) = At(x, S, t + 1)
    BY UptoSteps
  <2>2. Fits(T, x) /\ Linked(x.mem)
    BY UptoFits
  <2>3. Besides(w, x) /\ t + 1 \in Nat
    BY <1>3
  <2> HIDE DEF x
  <2>4. Besides(w, At(x, S, t + 1))
    BY <1>1, <2>2, <2>3
  <2> QED BY <2>1, <2>3, <2>4
<1>4. \A t \in Nat : t \in K
  BY <1>2, <1>3, NatSetInduction
<1> QED BY <1>4

-----------------------------------------------------------------------------
(* What holds of the state.                                                *)

\* A memory whose row is one of q.
Holds(T, q, m) == m \in MemoryOf(T) /\ m.id \in DOMAIN q \cup {Null} /\ Linked(m)

StampsApart(S, n) ==
  /\ \A s \in S : s.ts <= n /\ n >= 1
  /\ \A a, b \in S : a.ts = b.ts => a = b

Typed ==
  /\ scenario \in Scenarios /\ clock \in Nat /\ odo \in Nat /\ ahead \in BOOLEAN
  /\ tape \in SUBSET Sample /\ owed \in SUBSET Sample /\ samples \in SUBSET tape
  /\ StampsApart(tape \cup owed, clock)
  /\ rows \in Seq(RowsOf(tape))
  /\ pending \in tape \cup {Null}
  /\ mem = Null => pending = Null /\ ahead = FALSE
  /\ mem # Null => Holds(tape, rows, mem)

\* If the row in memory is closed, it was closed by the sample that is still pending: the
\* transaction was committed, and the memory was rolled back.
Unclosed ==
  mem # Null /\ mem.id # Null /\ rows[mem.id].status = "closed" =>
    pending # Null /\ Spent(mem, pending, rows[mem.id])

LEMMA MemoryIsThere == ASSUME NEW T \in SUBSET Sample PROVE Null \notin MemoryOf(T)
<1>1. MemoryOf(T) \subseteq Memory
  <2>1. SegmentsOf(T) \subseteq OpenSegment
    BY DEF SegmentsOf, OpenSegment
  <2>2. TracksOf(T) \subseteq [open : OpenSegment \cup {Null}, lastTs : Nat \cup {Null}]
    BY <2>1 DEF TracksOf
  <2>3. Seq(T) \subseteq Seq(Sample)
    OBVIOUS
  <2> HIDE DEF OpenSegment
  <2> QED BY <2>2, <2>3 DEF MemoryOf, Memory
<1> QED BY <1>1, SessionsAssumption

\* With more samples there is room for more.
LEMMA MoreSamples ==
  ASSUME NEW T, NEW U, T \subseteq U
  PROVE  /\ RowsOf(T) \subseteq RowsOf(U) /\ Seq(RowsOf(T)) \subseteq Seq(RowsOf(U))
         /\ MemoryOf(T) \subseteq MemoryOf(U)
         /\ \A q, m : Holds(T, q, m) => Holds(U, q, m)
<1>1. StampsOf(T) \subseteq StampsOf(U)
  BY DEF StampsOf
<1>2. RowsOf(T) \subseteq RowsOf(U)
  BY <1>1 DEF RowsOf
<1>3. Seq(RowsOf(T)) \subseteq Seq(RowsOf(U))
  BY <1>2
<1>4. SegmentsOf(T) \subseteq SegmentsOf(U)
  BY DEF SegmentsOf
<1>5. TracksOf(T) \subseteq TracksOf(U)
  BY <1>4 DEF TracksOf
<1>6. Seq(T) \subseteq Seq(U)
  OBVIOUS
<1>7. MemoryOf(T) \subseteq MemoryOf(U)
  BY <1>5, <1>6 DEF MemoryOf
<1> QED BY <1>2, <1>3, <1>7 DEF Holds

Emits(v) ==
  /\ Fits(tape, v) /\ Linked(v.mem) /\ v.mem # Null
  /\ v.rows \in Seq(RowsOf(tape)) /\ Holds(tape, v.rows, v.mem)
  /\ DOMAIN rows \subseteq DOMAIN v.rows
  /\ \A i \in DOMAIN rows : rows[i].status = "closed" => v.rows[i] = rows[i]
  /\ v.mem.id # Null => v.rows[v.mem.id].status # "closed"
  /\ mem.id # Null /\ v.rows[mem.id].status = "closed" =>
       pending # Null /\ Spent(mem, pending, v.rows[mem.id])

LEMMA EmittedDoes ==
  ASSUME Typed, Unclosed, mem # Null, NEW v, v = Emitted
  PROVE  Emits(v)
<1> DEFINE w == [rows |-> rows, mem |-> mem, ok |-> TRUE]
           q == rows
           m == mem
           s == pending
           T == tape
<1>1. T \in SUBSET Sample /\ q \in Seq(RowsOf(T)) /\ s \in T \cup {Null} /\ Holds(T, q, m)
  BY DEF Typed
<1>2. Fits(T, w) /\ Linked(w.mem) /\ w.rows = q /\ w.mem = m
  BY <1>1 DEF Fits, WorksOf, Holds
<1>3. ASSUME NEW x, Fits(T, x), Linked(x.mem)
      PROVE  x.mem # Null /\ x.rows \in Seq(RowsOf(T)) /\ Holds(T, x.rows, x.mem)
  <2> HIDE DEF T
  <2>1. x.mem \in MemoryOf(T) /\ x.rows \in Seq(RowsOf(T)) /\ x.mem.id \in DOMAIN x.rows \cup {Null}
    BY <1>1, <1>3, FitsParts
  <2>2. Null \notin MemoryOf(T)
    BY <1>1, MemoryIsThere
  <2> QED BY <1>3, <2>1, <2>2 DEF Holds
<1>4. CASE s = Null
  <2>1. v = w
    BY <1>4 DEF Emitted
  <2>2. m.id # Null => q[m.id].status # "closed"
    BY <1>4 DEF Unclosed
  <2> HIDE DEF w
  <2> QED BY <1>2, <1>3, <2>1, <2>2 DEF Emits
<1>5. CASE s # Null
  <2>1. v = ApplySample(w, s) /\ s \in T
    BY <1>1, <1>5 DEF Emitted
  <2> HIDE DEF w, T, q, m, s
  <2>2. Fits(T, v) /\ Linked(v.mem)
    BY <1>1, <1>2, <2>1, SampleDoes
  <2>3. Grown(q, v.rows, m.id, s)
    <3>1. Grown(w.rows, v.rows, w.mem.id, s)
      BY <1>1, <1>2, <2>1, SampleFrame
    <3> QED BY <1>2, <3>1
  <2>4. Runs(w, s, v)
    BY <1>1, <1>2, <2>1, SampleRuns
  <2>5. m.id # Null /\ q[m.id].status = "closed" => Spent(m, s, q[m.id])
    BY DEF Unclosed, m, q, s
  <2>6. ASSUME m.id # Null
        PROVE  /\ v.rows[m.id].status = "closed" => Spent(m, s, v.rows[m.id])
               /\ q[m.id].status = "closed" => v.rows[m.id] = q[m.id]
    <3> DEFINE i == m.id
    <3>1. i = w.mem.id /\ i # Null /\ (w.rows[i].status = "closed" => Spent(w.mem, s, w.rows[i]))
      BY <1>2, <2>5, <2>6
    <3> HIDE DEF i
    <3>2. /\ v.rows[i].status = "closed" => Spent(w.mem, s, v.rows[i])
          /\ w.rows[i].status = "closed" => v.rows[i] = w.rows[i]
      BY <1>1, <1>2, <2>1, <3>1, SampleSpends
    <3> QED BY <1>2, <3>2 DEF i
  <2>7. \A i \in DOMAIN q : q[i].status = "closed" => v.rows[i] = q[i]
    <3>1. Null \notin DOMAIN q
      <4>1. \A i \in DOMAIN q : i \in Nat
        BY <1>1, RowTyped
      <4> QED BY <4>1, SessionsAssumption
    <3> QED BY <2>3, <2>6, <3>1 DEF Grown
  <2>8. v.mem.id # Null => v.rows[v.mem.id].status # "closed"
    <3> SUFFICES ASSUME v.mem.id # Null, v.rows[v.mem.id].status = "closed" PROVE FALSE
      OBVIOUS
    <3>1. /\ v.mem.id = m.id /\ q[m.id].status = "closed"
          /\ SaysNothing(m.seg, s) \/ SaysPoint(m.seg, s)
      BY <1>2, <2>4 DEF Runs
    <3>2. Spent(m, s, q[m.id])
      BY <2>5, <3>1
    <3> QED BY <3>1, <3>2, EventsApart DEF Spent
  <2>9. v.mem # Null /\ v.rows \in Seq(RowsOf(T)) /\ Holds(T, v.rows, v.mem)
    BY <1>3, <2>2
  <2>10. DOMAIN q \subseteq DOMAIN v.rows
    BY <2>3 DEF Grown
  <2> QED BY <1>5, <2>2, <2>6, <2>7, <2>8, <2>9, <2>10 DEF Emits, T, q, m, s
<1> QED BY <1>4, <1>5

LEMMA ReplayFits ==
  ASSUME Typed, NEW p, p = Replay
  PROVE  Fits(tape, p) /\ Linked(p.mem) /\ p.mem \in MemoryOf(tape)
<1> DEFINE T == tape
           w == [rows |-> <<>>, mem |-> Blank, ok |-> TRUE]
<1>1. T \in SUBSET Sample /\ clock \in Nat
  BY DEF Typed
<1>2. Blank \in MemoryOf(T) /\ Linked(Blank) /\ Blank.id = Null
  BY DEF Blank, MemoryOf, TracksOf, NoSegment, Linked
<1>3. Fits(T, w) /\ Linked(w.mem)
  BY <1>2 DEF Fits, WorksOf
<1>4. p = Upto(w, T, clock)
  BY ApplyAllIs DEF Replay
<1> HIDE DEF w, T
<1>5. Fits(T, p) /\ Linked(p.mem)
  BY <1>1, <1>3, <1>4, UptoFits
<1> QED BY <1>5, FitsParts DEF T

\* What a message leaves behind, whatever becomes of its transaction.
Landed(m) ==
  /\ tape' \in {tape, tape \cup {m}} /\ owed' \subseteq owed \cup {m}
  /\ samples' \subseteq tape' /\ rows' \in Seq(RowsOf(tape'))
  /\ pending' \in tape' \cup {Null} /\ ahead' \in BOOLEAN
  /\ mem' # Null /\ Holds(tape', rows', mem')
  /\ mem'.id # Null /\ rows'[mem'.id].status = "closed" =>
       pending' # Null /\ Spent(mem', pending', rows'[mem'.id])
  /\ \A i \in DOMAIN rows : rows[i].status = "closed" => rows'[i] = rows[i]

LEMMA Stays ==
  ASSUME Typed, Unclosed, mem # Null, NEW U, tape \subseteq U
  PROVE  /\ samples \subseteq U /\ rows \in Seq(RowsOf(U)) /\ pending \in U \cup {Null}
         /\ ahead \in BOOLEAN /\ Holds(U, rows, mem)
<1> DEFINE T == tape
           q == rows
           m == mem
<1>1. T \subseteq U /\ q \in Seq(RowsOf(T)) /\ Holds(T, q, m) /\ samples \subseteq T
      /\ pending \in T \cup {Null} /\ ahead \in BOOLEAN
  BY DEF Typed
<1> HIDE DEF T, q, m
<1>2. q \in Seq(RowsOf(U)) /\ Holds(U, q, m)
  BY <1>1, MoreSamples
<1> QED BY <1>1, <1>2 DEF q, m

LEMMA EmitsMore ==
  ASSUME NEW T, NEW U, T \subseteq U, NEW v, v.rows \in Seq(RowsOf(T)), Holds(T, v.rows, v.mem)
  PROVE  v.rows \in Seq(RowsOf(U)) /\ Holds(U, v.rows, v.mem)
<1> DEFINE q == v.rows
           m == v.mem
<1>1. q \in Seq(RowsOf(T)) /\ Holds(T, q, m)
  OBVIOUS
<1> HIDE DEF q, m
<1>2. q \in Seq(RowsOf(U)) /\ Holds(U, q, m)
  BY <1>1, MoreSamples
<1> QED BY <1>2 DEF q, m

LEMMA HandleDoes ==
  ASSUME Typed, Unclosed, mem # Null, NEW m \in Sample, NEW was \in owed \cup {m},
         Handle(m, was)
  PROVE  Landed(m)
<1> DEFINE v == Emitted
           T == tape
           U == tape \cup {m}
<1>1. Emits(v)
  BY EmittedDoes
<1>2. EmittedSample \subseteq T /\ samples \subseteq T
  BY DEF EmittedSample, Typed
<1>3. v.mem # Null /\ v.rows \in Seq(RowsOf(T)) /\ Holds(T, v.rows, v.mem)
      /\ DOMAIN rows \subseteq DOMAIN v.rows
      /\ (\A i \in DOMAIN rows : rows[i].status = "closed" => v.rows[i] = rows[i])
      /\ (v.mem.id # Null => v.rows[v.mem.id].status # "closed")
      /\ (mem.id # Null /\ v.rows[mem.id].status = "closed" =>
            pending # Null /\ Spent(mem, pending, v.rows[mem.id]))
  BY <1>1 DEF Emits
<1> HIDE DEF v
<1>4. v.rows \in Seq(RowsOf(U)) /\ Holds(U, v.rows, v.mem)
  <2> HIDE DEF T, U
  <2>1. T \subseteq U
    BY DEF T, U
  <2> QED BY <1>3, <2>1, EmitsMore
<1>5. /\ samples \subseteq U /\ rows \in Seq(RowsOf(U)) /\ pending \in U \cup {Null}
      /\ ahead \in BOOLEAN /\ Holds(U, rows, mem)
  <2>1. tape \subseteq U
    OBVIOUS
  <2> HIDE DEF U
  <2> QED BY <2>1, Stays
<1>6. /\ samples \subseteq T /\ rows \in Seq(RowsOf(T)) /\ pending \in T \cup {Null}
      /\ ahead \in BOOLEAN /\ Holds(T, rows, mem)
  <2>1. tape \subseteq T
    OBVIOUS
  <2> HIDE DEF T
  <2> QED BY <2>1, Stays
<1>7. ASSUME HandleCommits(m, was), owed' \subseteq owed \cup {m} PROVE Landed(m)
  <2>1. CASE Known(m)
    <3>1. tape' = U /\ UNCHANGED <<samples, rows, mem, pending, ahead>>
      BY <1>7, <2>1 DEF HandleCommits
    <3> QED BY <1>5, <1>7, <3>1 DEF Landed, Unclosed
  <2>2. CASE ~Known(m)
    <3>1. /\ tape' = U /\ samples' = samples \cup EmittedSample
          /\ rows' = v.rows /\ mem' = v.mem /\ pending' = m /\ ahead' = FALSE
      BY <1>7, <2>2 DEF HandleCommits, v
    <3> QED BY <1>2, <1>3, <1>4, <1>7, <3>1 DEF Landed
  <2> QED BY <2>1, <2>2
<1>8. CASE HandleFails(m, was)
  <2>1. tape' = T /\ owed' \subseteq owed \cup {m} /\ UNCHANGED <<samples, rows, mem, pending, ahead>>
    BY <1>8 DEF HandleFails, database
  <2> QED BY <1>6, <2>1 DEF Landed, Unclosed
<1>9. CASE HandleUnanswered(m, was)
  <2>1. /\ tape' = U /\ owed' \subseteq owed \cup {m} /\ samples' = samples \cup EmittedSample
        /\ rows' = v.rows /\ mem' = mem /\ pending' = pending /\ ahead' = TRUE
    BY <1>9 DEF HandleUnanswered, v
  <2>2. Holds(U, v.rows, mem)
    BY <1>3, <1>5 DEF Holds
  <2> QED BY <1>2, <1>3, <1>4, <1>5, <2>1, <2>2 DEF Landed
<1>10. Handled(m, was) => owed' \subseteq owed \cup {m}
  BY DEF Handled
<1> QED BY <1>7, <1>8, <1>9, <1>10 DEF Handle, Handled

\* Closed rows stay, and the next state is as it should be.
Sane == Typed' /\ Unclosed'
Stay == \A i \in DOMAIN rows : rows[i].status = "closed" => rows'[i] = rows[i]

LEMMA LandsSanely ==
  ASSUME Typed, NEW m \in Sample, Landed(m), scenario' \in Scenarios,
         clock' \in Nat, odo' \in Nat, StampsApart(tape \cup owed \cup {m}, clock')
  PROVE  Sane /\ Stay
<1>1. tape' \in SUBSET Sample /\ owed' \in SUBSET Sample
  BY DEF Typed, Landed
<1>2. tape' \cup owed' \subseteq tape \cup owed \cup {m}
  BY DEF Landed
<1>3. StampsApart(tape' \cup owed', clock')
  BY <1>2 DEF StampsApart
<1>4. Typed'
  BY <1>1, <1>3 DEF Typed, Landed
<1>5. Unclosed' /\ Stay
  BY DEF Unclosed, Landed, Stay
<1> QED BY <1>4, <1>5 DEF Sane

LEMMA ScenarioIs ==
  ASSUME Typed
  PROVE  /\ scenario.readings \subseteq Reading
         /\ \A d \in scenario.steps : d \in Nat /\ d >= 1
BY SessionsAssumption DEF Typed

LEMMA StampedIs ==
  ASSUME Typed, NEW reading \in Reading, NEW n \in Nat
  PROVE  Stamped(reading, n) \in Sample /\ Stamped(reading, n).ts = n
BY DEF Typed, Stamped, Sample, Reading

LEMMA MessageSane ==
  ASSUME Typed, Unclosed, NEW reading \in scenario.readings, NEW d \in scenario.steps,
         Message(reading, d)
  PROVE  Sane /\ Stay
<1> DEFINE m == Stamped(reading, clock + d)
<1>1. clock \in Nat /\ d \in Nat /\ d >= 1 /\ clock + d \in Nat /\ reading \in Reading /\ odo \in Nat
  <2>1. clock \in Nat /\ odo \in Nat
    BY DEF Typed
  <2>2. d \in Nat /\ d >= 1 /\ reading \in Reading
    BY ScenarioIs
  <2> QED BY <2>1, <2>2
<1>2. m \in Sample /\ m.ts = clock + d
  BY <1>1, StampedIs
<1>3. mem # Null /\ Handle(m, m) /\ clock' = clock + d /\ scenario' = scenario /\ odo' \in Nat
  BY <1>1 DEF Message
<1>4. \A s \in tape \cup owed : s.ts \in Nat /\ s.ts <= clock
  BY SampleFields DEF Typed, StampsApart
<1> HIDE DEF m
<1>5. StampsApart(tape \cup owed \cup {m}, clock + d)
  <2>1. \A s \in tape \cup owed : s.ts < m.ts
    BY <1>1, <1>2, <1>4
  <2>2. \A s \in tape \cup owed \cup {m} : s.ts <= clock + d /\ clock + d >= 1
    BY <1>1, <1>2, <1>4
  <2>3. \A a, b \in tape \cup owed : a.ts = b.ts => a = b
    BY DEF Typed, StampsApart
  <2>4. \A s \in tape \cup owed : s.ts # m.ts
    BY <1>1, <1>2, <1>4, <2>1
  <2> QED BY <2>2, <2>3, <2>4 DEF StampsApart
<1>6. Landed(m)
  BY <1>2, <1>3, HandleDoes
<1>7. scenario' \in Scenarios
  BY <1>3 DEF Typed
<1> QED BY <1>1, <1>2, <1>3, <1>5, <1>6, <1>7, LandsSanely

LEMMA RedeliverSane ==
  ASSUME Typed, Unclosed, NEW m \in owed, Redeliver(m)
  PROVE  Sane /\ Stay
<1>1. m \in Sample /\ tape \cup owed \cup {m} = tape \cup owed
  BY DEF Typed
<1>2. mem # Null /\ Handle(m, m) /\ clock' = clock /\ scenario' = scenario /\ odo' = odo
  BY DEF Redeliver, world
<1>3. Landed(m)
  BY <1>1, <1>2, HandleDoes
<1>4. scenario' \in Scenarios /\ clock' \in Nat /\ odo' \in Nat
      /\ StampsApart(tape \cup owed \cup {m}, clock')
  BY <1>1, <1>2 DEF Typed
<1> QED BY <1>1, <1>3, <1>4, LandsSanely

\* A message that arrives after all there was.
LEMMA RestampedIs ==
  ASSUME Typed, NEW o \in owed, NEW d \in scenario.steps, NEW m, m = [o EXCEPT !.ts = clock + d]
  PROVE  /\ m \in Sample /\ m \notin tape /\ clock + d \in Nat /\ clock <= clock + d
         /\ StampsApart(tape \cup owed \cup {m}, clock + d)
<1>1. clock \in Nat /\ o \in Sample
  BY DEF Typed
<1>2. d \in Nat /\ d >= 1
  BY ScenarioIs
<1>3. clock + d \in Nat /\ clock < clock + d /\ clock + d >= 1
  BY <1>1, <1>2
<1>4. m \in Sample /\ m.ts = clock + d
  BY <1>1, <1>3 DEF Sample
<1>5. \A s \in tape \cup owed : s.ts \in Nat /\ s.ts <= clock
  BY SampleFields DEF Typed, StampsApart
<1> HIDE DEF Sample
<1>6. \A s \in tape \cup owed : s.ts # m.ts
  BY <1>1, <1>3, <1>4, <1>5
<1>7. \A s \in tape \cup owed \cup {m} : s.ts <= clock + d
  <2> TAKE s \in tape \cup owed \cup {m}
  <2>1. CASE s = m
    BY ONLY <1>3, <1>4, <2>1
  <2>2. CASE s \in tape \cup owed
    BY ONLY <1>1, <1>3, <1>5, <2>2
  <2> QED BY <2>1, <2>2
<1>8. \A a, b \in tape \cup owed : a.ts = b.ts => a = b
  BY DEF Typed, StampsApart
<1>9. StampsApart(tape \cup owed \cup {m}, clock + d)
  BY <1>3, <1>6, <1>7, <1>8 DEF StampsApart
<1>10. m \notin tape
  BY ONLY <1>6
<1>11. clock <= clock + d
  BY ONLY <1>1, <1>3
<1> QED BY <1>3, <1>4, <1>9, <1>10, <1>11

LEMMA RedeliverRestampedSane ==
  ASSUME Typed, Unclosed, NEW o \in owed, NEW d \in scenario.steps, RedeliverRestamped(o, d)
  PROVE  Sane /\ Stay
<1> DEFINE m == [o EXCEPT !.ts = clock + d]
<1>1. mem # Null /\ Handle(m, o) /\ clock' = clock + d /\ scenario' = scenario /\ odo' = odo
  BY DEF RedeliverRestamped
<1> HIDE DEF m
<1>2. m \in Sample /\ clock + d \in Nat /\ StampsApart(tape \cup owed \cup {m}, clock + d)
  BY RestampedIs DEF m
<1>3. Landed(m)
  BY <1>1, <1>2, HandleDoes
<1>4. scenario' \in Scenarios /\ odo' \in Nat
  BY <1>1 DEF Typed
<1> QED BY <1>1, <1>2, <1>3, <1>4, LandsSanely

LEMMA ClockStepsBackSane ==
  ASSUME Typed, Unclosed, NEW reading \in scenario.readings, ClockStepsBack(reading)
  PROVE  Sane /\ Stay
<1> DEFINE m == Stamped(reading, clock - 1)
           U == tape \cup {m}
<1>1. clock \in Nat /\ clock - 1 \in Nat
  <2>1. PICK s \in samples : TRUE
    BY DEF ClockStepsBack
  <2>2. s \in tape
    BY <2>1 DEF Typed
  <2> QED BY <2>2 DEF Typed, StampsApart
<1>2. m \in Sample /\ m.ts = clock - 1
  BY <1>1, ScenarioIs, StampedIs
<1>3. /\ mem # Null /\ pending = Null /\ tape' = U /\ pending' = m
      /\ \A s \in tape \cup owed : s.ts # m.ts
      /\ UNCHANGED <<scenario, clock, odo, owed, samples, rows, mem, ahead>>
  BY DEF ClockStepsBack, world
<1>4. StampsApart(U \cup owed, clock)
  <2> HIDE DEF m
  <2>1. clock - 1 <= clock /\ clock >= 1
    BY <1>1
  <2> QED BY <1>1, <1>2, <1>3, <2>1 DEF Typed, StampsApart
<1>5. /\ samples \subseteq U /\ rows \in Seq(RowsOf(U)) /\ ahead \in BOOLEAN /\ Holds(U, rows, mem)
  <2>1. tape \subseteq U /\ mem # Null
    BY <1>3
  <2> HIDE DEF U
  <2> QED BY <2>1, Stays
<1>6. U \in SUBSET Sample
  BY <1>2 DEF Typed
<1> HIDE DEF m
<1>7. Typed'
  BY <1>3, <1>4, <1>5, <1>6 DEF Typed
<1>8. Unclosed' /\ Stay
  BY <1>3 DEF Unclosed, Stay
<1> QED BY <1>7, <1>8 DEF Sane

LEMMA FlushSane ==
  ASSUME Typed, Unclosed, Flush
  PROVE  Sane /\ Stay
<1> DEFINE v == Emitted
<1>1. mem # Null /\ Emits(v)
  BY EmittedDoes DEF Flush
<1>2. EmittedSample \subseteq tape
  BY DEF EmittedSample, Typed
<1>3. /\ samples' = samples \cup EmittedSample /\ rows' = v.rows
      /\ UNCHANGED <<scenario, clock, odo, owed, tape>>
      /\ \/ mem' = v.mem /\ pending' = Null /\ ahead' = FALSE
         \/ ahead' = TRUE /\ mem' = mem /\ pending' = pending
  BY DEF Flush, world
<1> HIDE DEF v
<1>4. Holds(tape, v.rows, mem)
  BY <1>1 DEF Emits, Holds, Typed
<1>5. Typed'
  BY <1>1, <1>2, <1>3, <1>4 DEF Typed, Emits
<1>6. Unclosed' /\ Stay
  BY <1>1, <1>3 DEF Unclosed, Stay, Emits
<1> QED BY <1>5, <1>6 DEF Sane

LEMMA DiesSane ==
  ASSUME Typed, Unclosed, Dies
  PROVE  Sane /\ Stay
BY DEF Typed, Unclosed, Dies, Sane, Stay, world, database

\* The rows that the restart leaves.
LEMMA RestartDoes ==
  ASSUME Typed, NEW p, p = Replay, NEW w, w = Reconciled(p)
  PROVE  /\ Reconciles(tape, p, w)
         /\ Holds(tape, w.rows, [p.mem EXCEPT !.id = w.id]) /\ [p.mem EXCEPT !.id = w.id] # Null
         /\ [p.mem EXCEPT !.id = w.id].id = w.id
<1> DEFINE T == tape
           m == p.mem
           x == [m EXCEPT !.id = w.id]
<1>1. T \in SUBSET Sample /\ rows \in Seq(RowsOf(T)) /\ clock \in Nat
  BY DEF Typed
<1>2. \A n \in StampsOf(T) : n <= clock
  BY DEF Typed, StampsApart, StampsOf
<1>3. Fits(T, p) /\ Linked(m) /\ m \in MemoryOf(T)
  BY ReplayFits
<1> HIDE DEF T
<1>4. Reconciles(T, p, w)
  BY <1>1, <1>2, <1>3, ReconciledDoes
<1>5. w.id \in Nat \cup {Null} /\ w.id \in DOMAIN w.rows \cup {Null}
  BY <1>4 DEF Reconciles
<1> HIDE DEF m
<1>6. x \in MemoryOf(T) /\ x.id = w.id /\ x.seg = m.seg
  BY <1>3, <1>5 DEF MemoryOf
<1>7. Linked(x)
  BY <1>3, <1>4, <1>6 DEF Linked, Reconciles, m
<1>8. x # Null
  BY <1>1, <1>6, MemoryIsThere
<1> QED BY <1>4, <1>5, <1>6, <1>7, <1>8 DEF Holds, T, m

LEMMA FlushedIn == Flushed \subseteq tape
BY DEF Flushed

LEMMA ResumeWarmSane ==
  ASSUME Typed, Unclosed, ResumeWarm
  PROVE  Sane /\ Stay
<1> DEFINE p == Replay
           w == Reconciled(p)
           x == [p.mem EXCEPT !.id = w.id]
<1>1. /\ rows' = w.rows /\ mem' = x /\ samples' = samples \cup Flushed
      /\ mem = Null /\ UNCHANGED <<scenario, clock, odo, owed, tape, pending, ahead>>
  BY DEF ResumeWarm, world
<1>2. Reconciles(tape, p, w) /\ Holds(tape, w.rows, x) /\ x # Null /\ x.id = w.id
  BY RestartDoes
<1> HIDE DEF p, w, x
<1>3. Typed'
  BY <1>1, <1>2, FlushedIn DEF Typed, Reconciles
<1>4. Unclosed' /\ Stay
  BY <1>1, <1>2 DEF Unclosed, Stay, Reconciles
<1> QED BY <1>3, <1>4 DEF Sane

LEMMA StartColdSane ==
  ASSUME Typed, Unclosed, StartCold
  PROVE  Sane /\ Stay
<1> DEFINE p == Replay
           w == Reconciled(p)
<1>1. /\ \/ rows' = w.rows /\ samples' = samples \cup Flushed
         \/ rows' = rows /\ samples' = samples
      /\ mem' = Blank /\ UNCHANGED <<scenario, clock, odo, owed, tape, pending, ahead>>
  BY DEF StartCold, world
<1>2. Reconciles(tape, p, w)
  BY RestartDoes
<1>3. Blank \in MemoryOf(tape) /\ Linked(Blank) /\ Blank.id = Null
  BY DEF Blank, MemoryOf, TracksOf, NoSegment, Linked
<1>4. Blank # Null
  BY <1>3, MemoryIsThere DEF Typed
<1> HIDE DEF p, w
<1>5. rows' \in Seq(RowsOf(tape)) /\ Stay
  BY <1>1, <1>2 DEF Typed, Reconciles, Stay
<1>6. Typed'
  BY <1>1, <1>3, <1>4, <1>5, FlushedIn DEF Typed, Holds
<1>7. Unclosed'
  BY <1>1, <1>3 DEF Unclosed
<1> QED BY <1>5, <1>6, <1>7 DEF Sane

\* A rebuilt window: the rows outside it stay, and those in it are gone.
LEMMA WithoutIs ==
  ASSUME NEW T \in SUBSET Sample, rows \in Seq(RowsOf(T)), NEW from, NEW to,
         MayRebuild(from, to), NEW q, q = Without(from, to)
  PROVE  /\ q \in Seq(RowsOf(T)) /\ DOMAIN q = DOMAIN rows
         /\ \A i \in DOMAIN rows : /\ q[i].status # "open"
                                   /\ q[i] = rows[i] \/ q[i].status = "gone"
                                   /\ rows[i].start \notin from..to - 1 => q[i] = rows[i]
                                   /\ rows[i].start \in from..to - 1 => q[i].status = "gone"
                                   /\ q[i].start = rows[i].start
<1> DEFINE R == RowsOf(T)
           x(i) == IF rows[i].start \in from..to - 1 THEN [rows[i] EXCEPT !.status = "gone"] ELSE rows[i]
<1>1. q = [i \in DOMAIN rows |-> x(i)] /\ DOMAIN rows = 1..Len(rows) /\ Len(rows) \in Nat
  BY DEF Without
<1>2. ASSUME NEW i \in DOMAIN rows
      PROVE  /\ x(i) \in R /\ x(i).status # "open" /\ (x(i) = rows[i] \/ x(i).status = "gone")
             /\ rows[i].start \notin from..to - 1 => x(i) = rows[i]
             /\ rows[i].start \in from..to - 1 => x(i).status = "gone"
             /\ x(i).start = rows[i].start
  <2>1. rows[i] \in R
    BY RowTyped
  <2>2. CASE rows[i].start \in from..to - 1
    <3>1. x(i) = [rows[i] EXCEPT !.status = "gone"]
      BY <2>2
    <3>2. x(i) \in R /\ x(i).status = "gone" /\ x(i).start = rows[i].start
      BY <2>1, <3>1 DEF RowsOf
    <3> QED BY <2>2, <3>2
  <2>3. CASE rows[i].start \notin from..to - 1
    <3>1. rows[i].status # "open"
      BY <2>3 DEF MayRebuild, Open
    <3> QED BY <2>1, <2>3, <3>1
  <2> QED BY <2>2, <2>3
<1> HIDE DEF x, R
<1>3. \A i \in DOMAIN rows : q[i] = x(i)
  BY <1>1
<1>4. q \in [1..Len(rows) -> R]
  BY <1>1, <1>2
<1>5. q \in Seq(R) /\ DOMAIN q = DOMAIN rows
  BY <1>1, <1>4
<1> QED BY <1>2, <1>3, <1>5 DEF R

LEMMA ReprocessDoes ==
  ASSUME Typed, NEW from, NEW to, Reprocess(from, to)
  PROVE  /\ rows' \in Seq(RowsOf(tape)) /\ samples' \subseteq tape
         /\ DOMAIN rows \subseteq DOMAIN rows'
         /\ \A i \in DOMAIN rows : rows'[i] = rows[i] \/ rows'[i].status = "gone"
<1> DEFINE T == tape
           S == {s \in tape : s.ts \in from..to - 1}
           q == Without(from, to)
           w == [rows |-> q, mem |-> Blank, ok |-> TRUE]
           x == Upto(w, S, clock)
<1>1. rows' = x.rows /\ samples' = {s \in samples : s.ts \notin from..to - 1} \cup S
      /\ MayRebuild(from, to)
  BY ApplyAllIs DEF Reprocess
<1>2. T \in SUBSET Sample /\ rows \in Seq(RowsOf(T)) /\ S \in SUBSET T /\ clock \in Nat
      /\ samples \subseteq T
  BY DEF Typed
<1>3. /\ q \in Seq(RowsOf(T)) /\ DOMAIN q = DOMAIN rows
      /\ \A i \in DOMAIN rows : q[i].status # "open" /\ (q[i] = rows[i] \/ q[i].status = "gone")
  <2> HIDE DEF q, T
  <2> QED BY <1>1, <1>2, WithoutIs DEF q
<1>4. Blank \in MemoryOf(T) /\ Linked(Blank) /\ Blank.id = Null
  BY DEF Blank, MemoryOf, TracksOf, NoSegment, Linked
<1> HIDE DEF q, T, S
<1>5. Fits(T, w) /\ Linked(w.mem) /\ w.mem.id = Null /\ w.rows = q
  BY <1>3, <1>4 DEF Fits, WorksOf
<1> HIDE DEF w
<1>6. Fits(T, x) /\ Besides(w, x)
  <2>1. \A i \in DOMAIN w.rows : w.rows[i].status # "open"
    BY <1>3, <1>5
  <2> QED BY <1>2, <1>5, <2>1, UptoFits, UptoBesides
<1>7. x.rows \in Seq(RowsOf(T))
  BY <1>6, FitsParts
<1> HIDE DEF x
<1>8. DOMAIN rows \subseteq DOMAIN x.rows /\ \A i \in DOMAIN rows : x.rows[i] = q[i]
  BY <1>3, <1>5, <1>6 DEF Besides
<1>9. samples' \subseteq T
  BY <1>1, <1>2
<1> QED BY <1>1, <1>3, <1>7, <1>8, <1>9 DEF T

LEMMA ReprocessSane ==
  ASSUME Typed, Unclosed, NEW from, NEW to, Reprocess(from, to)
  PROVE  Sane
<1>1. /\ rows' \in Seq(RowsOf(tape)) /\ samples' \subseteq tape
      /\ DOMAIN rows \subseteq DOMAIN rows'
      /\ \A i \in DOMAIN rows : rows'[i] = rows[i] \/ rows'[i].status = "gone"
  BY ReprocessDoes
<1>2. UNCHANGED <<scenario, clock, odo, owed, tape, mem, pending, ahead>>
  BY DEF Reprocess, world
<1>3. mem # Null => Holds(tape, rows', mem)
  BY <1>1 DEF Typed, Holds
<1>4. Typed'
  BY <1>1, <1>2, <1>3 DEF Typed
<1>5. Unclosed'
  <2> SUFFICES ASSUME mem # Null, mem.id # Null, rows'[mem.id].status = "closed"
               PROVE  pending # Null /\ Spent(mem, pending, rows'[mem.id])
    BY <1>2 DEF Unclosed
  <2>1. mem.id \in DOMAIN rows
    BY DEF Typed, Holds
  <2>2. rows'[mem.id] = rows[mem.id]
    BY <1>1, <2>1
  <2> QED BY <2>2 DEF Unclosed
<1> QED BY <1>4, <1>5 DEF Sane

LEMMA InitSane == Init => Typed /\ Unclosed
<1> SUFFICES ASSUME Init PROVE Typed /\ Unclosed
  OBVIOUS
<1>1. Blank \in MemoryOf(tape) /\ Linked(Blank) /\ Blank.id = Null
  BY DEF Blank, MemoryOf, TracksOf, NoSegment, Linked
<1>2. Blank # Null
  <2>1. tape \in SUBSET Sample
    BY DEF Init
  <2> QED BY <1>1, <2>1, MemoryIsThere
<1>3. rows \in Seq(RowsOf(tape))
  BY DEF Init
<1>4. StampsApart(tape \cup owed, clock)
  BY DEF Init, StampsApart
<1> QED BY <1>1, <1>2, <1>3, <1>4 DEF Init, Typed, Unclosed, Holds

LEMMA NextSane ==
  ASSUME Typed, Unclosed, [Next]_vars
  PROVE  /\ Typed' /\ Unclosed'
         /\ Stay \/ Rebuilds
<1>1. CASE \E r \in scenario.readings, d \in scenario.steps : Message(r, d)
  BY <1>1, MessageSane DEF Sane
<1>2. CASE \E r \in scenario.readings : ClockStepsBack(r)
  BY <1>2, ClockStepsBackSane DEF Sane
<1>3. CASE \E m \in owed : Redeliver(m)
  BY <1>3, RedeliverSane DEF Sane
<1>10. CASE \E o \in owed, d \in scenario.steps : RedeliverRestamped(o, d)
  BY <1>10, RedeliverRestampedSane DEF Sane
<1>4. CASE Flush
  BY <1>4, FlushSane DEF Sane
<1>5. CASE Dies
  BY <1>5, DiesSane DEF Sane
<1>6. CASE ResumeWarm
  BY <1>6, ResumeWarmSane DEF Sane
<1>7. CASE StartCold
  BY <1>7, StartColdSane DEF Sane
<1>8. CASE Rebuilds
  BY <1>8, ReprocessSane DEF Sane, Rebuilds
<1>9. CASE UNCHANGED vars
  BY <1>9 DEF vars, Typed, Unclosed, Stay
<1> QED BY <1>1, <1>2, <1>3, <1>4, <1>5, <1>6, <1>7, <1>8, <1>9, <1>10 DEF Next

LEMMA AlwaysSane == Spec => [](Typed /\ Unclosed)
<1>1. Typed /\ Unclosed /\ [Next]_vars => (Typed /\ Unclosed)'
  BY NextSane
<1> QED BY InitSane, <1>1, PTL DEF Spec

\* Whatever the samples say, whatever fails and restarts (pipeline.ts, store.ts, reprocess.ts):
\* the points of a row are stamps of the tape, what is written as a sample was taped first, and
\* the row that the memory works on is there.
THEOREM TypesHold == Spec => []TypeOK
<1>1. Typed => TypeOK
  <2> SUFFICES ASSUME Typed PROVE TypeOK
    OBVIOUS
  <2> DEFINE T == tape
             q == rows
  <2>1. q \in Seq(RowsOf(T))
    BY DEF Typed
  <2> HIDE DEF T, q
  <2>2. DOMAIN q = 1..Len(q) /\ \A i \in DOMAIN q : q[i] \in RowsOf(T)
    BY <2>1, RowTyped
  <2>3. \A i \in DOMAIN q : /\ q[i].kind \in {"drive", "charge"}
                            /\ q[i].status \in {"open", "closed", "abandoned", "gone"}
                            /\ q[i].points \subseteq {s.ts : s \in T}
    BY <2>2 DEF RowsOf, StampsOf
  <2> QED BY <2>2, <2>3 DEF Typed, TypeOK, Holds, T, q
<1> QED BY <1>1, AlwaysSane, PTL

\* sessions.ts, pipeline.ts, reprocess.ts: a row that is closed is not written again, neither by
\* the sample that is applied a second time after a COMMIT without an answer, nor by a worker
\* that restarts and reconciles; only a rebuild replaces it.
THEOREM ClosedRowsStay == Spec => ClosedStay
<1>1. Typed /\ Unclosed /\ [Next]_vars =>
        \/ \A i \in Closed : rows'[i] = rows[i]
        \/ Rebuilds
  BY NextSane DEF Stay, Closed, Kept
<1>2. Typed /\ Unclosed /\ [Next]_vars =>
        [\/ \A i \in Closed : rows'[i] = rows[i]
         \/ Rebuilds]_vars
  BY <1>1
<1> QED BY <1>2, AlwaysSane, PTL DEF Spec, ClosedStay

-----------------------------------------------------------------------------
(* The open row is the session in memory, and a sample twice is a sample.  *)

\* One row is open while a segment is, of its kind and start and with the points in memory.
Sound(q, m) ==
  /\ Open(q) = {m.id} \ {Null}
  /\ m.id # Null => /\ q[m.id].kind = m.seg.open.kind /\ q[m.id].start = m.seg.open.start
                    /\ q[m.id].points = Stamps(m.points)

LEMMA StartsApart ==
  ASSUME NEW st, NEW s, NEW e, NEW k, NEW l
  PROVE  /\ SaysStart(st, s, k) /\ SaysStart(st, s, l) => k = l
         /\ ~(SaysStart(st, s, k) /\ SaysNothing(st, s))
         /\ ~(SaysStart(st, s, k) /\ SaysPoint(st, s))
         /\ ~(SaysStart(st, s, k) /\ SaysEnd(st, s, e))
         /\ ~(SaysStart(st, s, k) /\ SaysTurn(st, s, e, l))
         /\ ~(SaysNothing(st, s) /\ SaysPoint(st, s))
<1> DEFINE a == <<Start(k, s), Point(s)>>
           b == <<Start(l, s), Point(s)>>
           p == <<Point(s)>>
<1>1. /\ Len(a) = 2 /\ a[1] = Start(k, s) /\ Len(b) = 2 /\ b[1] = Start(l, s)
      /\ Len(p) = 1 /\ Len(<<>>) = 0
  OBVIOUS
<1>2. Start(k, s).kind = k /\ Start(l, s).kind = l
  BY DEF Start
<1>3. /\ SaysStart(st, s, k) => Step(st, s).events = a /\ st.open = Null
      /\ SaysStart(st, s, l) => Step(st, s).events = b
      /\ SaysPoint(st, s) => Step(st, s).events = p /\ st.open # Null
      /\ SaysEnd(st, s, e) => st.open # Null
      /\ SaysTurn(st, s, e, l) => st.open # Null
      /\ SaysNothing(st, s) => Step(st, s).events = <<>>
  BY DEF SaysEnd, SaysTurn, SaysPoint, SaysNothing, SaysStart
<1> HIDE DEF a, b, p
<1> QED BY <1>1, <1>2, <1>3

\* The points in memory after a sample, by what it says and what they were.
PointsNext(st, points, s, p) ==
  \/ SaysNothing(st, s) /\ p = points
  \/ SaysPoint(st, s) /\ p = Append(points, s)
  \/ (\E e : SaysEnd(st, s, e)) /\ p = <<>>
  \/ (\E k : SaysStart(st, s, k)) /\ p = <<s>>
  \/ (\E e, k : SaysTurn(st, s, e, k)) /\ p = <<s>>

LEMMA SampleTrack ==
  ASSUME NEW T \in SUBSET Sample, NEW w, Fits(T, w), Linked(w.mem), NEW s \in T,
         NEW v, v = ApplySample(w, s)
  PROVE  Fits(T, v) /\ Linked(v.mem) /\ v.mem.seg = Step(w.mem.seg, s).state
BY SampleDoes

LEMMA PointsAfter ==
  ASSUME NEW T \in SUBSET Sample, NEW w, Fits(T, w), Linked(w.mem), NEW s \in T,
         NEW v, v = ApplySample(w, s)
  PROVE  PointsNext(w.mem.seg, w.mem.points, s, v.mem.points)
<1>1. \/ Silent(w, s, v) \/ Continues(w, s, v) \/ (\E e \in T : Ends(w, s, v, e))
      \/ (\E k \in {"drive", "charge"} : Starts(w, s, v, k))
      \/ (\E e \in T, k \in {"drive", "charge"}, p \in Seq(RowsOf(T)) :
            Turns(w, s, v, e, k, p))
  BY SampleDoes
<1> QED BY <1>1 DEF Silent, Continues, Ends, Starts, Turns, PointsNext

\* The segment and the points depend on the rows in nothing.
LEMMA SameTrack ==
  ASSUME NEW T \in SUBSET Sample, NEW w, Fits(T, w), Linked(w.mem),
         NEW U \in SUBSET Sample, NEW x, Fits(U, x), Linked(x.mem), NEW s \in T, s \in U,
         w.mem.seg = x.mem.seg, w.mem.points = x.mem.points,
         NEW v, v = ApplySample(w, s), NEW y, y = ApplySample(x, s)
  PROVE  v.mem.seg = y.mem.seg /\ v.mem.points = y.mem.points
<1> DEFINE st == w.mem.seg
           pts == w.mem.points
           a == v.mem.points
           b == y.mem.points
<1>1. v.mem.seg = Step(st, s).state /\ y.mem.seg = Step(st, s).state
  <2>1. v.mem.seg = Step(w.mem.seg, s).state
    BY SampleTrack, ZenonT(40)
  <2>2. y.mem.seg = Step(x.mem.seg, s).state
    BY SampleTrack
  <2> QED BY <2>1, <2>2
<1>2. PointsNext(st, pts, s, a)
  BY PointsAfter
<1>3. PointsNext(st, pts, s, b)
  <2>1. PointsNext(x.mem.seg, x.mem.points, s, y.mem.points)
    BY PointsAfter
  <2> QED BY <2>1
<1> HIDE DEF st, pts, a, b
<1>4. a = b
  BY <1>2, <1>3, EventsApart, StartsApart DEF PointsNext
<1> QED BY <1>1, <1>4 DEF a, b

LEMMA StampsOne == ASSUME NEW T, NEW s \in T PROVE Stamps(<<s>>) = {s.ts}
BY DEF Stamps, ToSet

LEMMA StampsMore ==
  ASSUME NEW T, NEW points \in Seq(T), NEW s \in T
  PROVE  Stamps(Append(points, s)) = Stamps(points) \cup {s.ts}
<1> DEFINE q == Append(points, s)
           n == Len(points)
<1>1. /\ DOMAIN points = 1..n /\ n \in Nat /\ q \in Seq(T) /\ Len(q) = n + 1 /\ DOMAIN q = 1..n + 1
      /\ q[n + 1] = s /\ \A i \in 1..n : q[i] = points[i]
  OBVIOUS
<1> HIDE DEF q, n
<1>2. 1..n + 1 = 1..n \cup {n + 1}
  BY <1>1
<1>3. {q[i] : i \in 1..n + 1} = {points[i] : i \in 1..n} \cup {s}
  BY <1>1, <1>2
<1>4. ToSet(q) = ToSet(points) \cup {s}
  BY <1>1, <1>3 DEF ToSet
<1> QED BY <1>4 DEF Stamps, q

\* A session that begins while no row is open.
LEMMA BeginsSound ==
  ASSUME NEW T \in SUBSET Sample, NEW q \in Seq(RowsOf(T)), NEW k \in {"drive", "charge"},
         NEW s \in T, NEW r \in Seq(RowsOf(T)), NEW m, Begins(q, r, m.id, k, s),
         Open(q) = {}, m.seg.open = Opened(k, s), m.points = <<s>>, m.id # Null
  PROVE  Sound(r, m)
<1> DEFINE j == m.id
<1>1. Begun(q, r, j, k, s)
  <2>1. Begins(q, r, j, k, s)
    OBVIOUS
  <2> HIDE DEF j
  <2> QED BY <2>1, BeginsFacts
<1>2. j \notin DOMAIN q
  BY <1>1 DEF Begun
<1>3. r[j] = [kind |-> k, start |-> s.ts, points |-> {s.ts}, status |-> "open"]
  BY <1>1, <1>2 DEF Begun
<1>4. Open(r) = {j}
  <2>1. \A i \in DOMAIN q : r[i].status # "open"
    BY <1>1 DEF Begun, Open
  <2> QED BY <1>1, <2>1 DEF Begun, Open
<1>5. Stamps(<<s>>) = {s.ts}
  BY StampsOne
<1>6. Opened(k, s).kind = k /\ Opened(k, s).start = s.ts
  BY DEF Opened
<1> QED BY <1>3, <1>4, <1>5, <1>6 DEF Sound

\* No row stays open behind the end of the one that was.
LEMMA EndsLast ==
  ASSUME NEW T \in SUBSET Sample, NEW q \in Seq(RowsOf(T)), NEW i, Open(q) = {i}, NEW x,
         NEW r \in Seq(RowsOf(T)), Ended(q, r, i, x)
  PROVE  Open(r) = {}
BY DEF Ended, Open

LEMMA SampleSound ==
  ASSUME NEW T \in SUBSET Sample, NEW w, Fits(T, w), Linked(w.mem), Sound(w.rows, w.mem),
         NEW s \in T, NEW v, v = ApplySample(w, s)
  PROVE  Sound(v.rows, v.mem)
<1> DEFINE q == w.rows
           r == v.rows
           i == w.mem.id
           m == v.mem
<1>0. \/ Silent(w, s, v) \/ Continues(w, s, v) \/ (\E e \in T : Ends(w, s, v, e))
      \/ (\E k \in {"drive", "charge"} : Starts(w, s, v, k))
      \/ (\E e \in T, k \in {"drive", "charge"}, p \in Seq(RowsOf(T)) :
            Turns(w, s, v, e, k, p))
  BY SampleDoes
<1>1. Fits(T, v) /\ Linked(m) /\ m.seg = Step(w.mem.seg, s).state
  BY SampleTrack
<1>2. q \in Seq(RowsOf(T)) /\ r \in Seq(RowsOf(T)) /\ w.mem.points \in Seq(T)
      /\ (i # Null => i \in DOMAIN q)
  BY <1>1, FitsParts
<1>3. CASE Silent(w, s, v)
  <2>1. i # Null => w.mem.seg.open # Null
    BY DEF Linked
  <2> QED BY <1>1, <1>3, <2>1 DEF Silent, SaysNothing, Sound
<1>4. CASE Continues(w, s, v)
  <2>1. /\ OnlyRow(q, r, i, [q[i] EXCEPT !.points = @ \cup {s.ts}]) /\ SaysPoint(w.mem.seg, s)
        /\ m.id = i /\ m.points = Append(w.mem.points, s) /\ i # Null
    BY <1>4 DEF Continues, SaysPoint, Linked
  <2>2. Pointed(q, r, i, s)
    <3> HIDE DEF q, r, i
    <3> QED BY <1>2, <2>1, PointsOnlyRow
  <2>3. Stamps(m.points) = Stamps(w.mem.points) \cup {s.ts}
    BY <1>2, <2>1, StampsMore
  <2>4. Open(r) = Open(q)
    BY <2>2 DEF Pointed, Open
  <2>5. r[i].points = q[i].points \cup {s.ts} /\ Follows(r[i], q[i])
    BY <1>2, <2>1, <2>2 DEF Pointed
  <2> QED BY <1>1, <2>1, <2>3, <2>4, <2>5 DEF Sound, SaysPoint, Follows
<1>5. ASSUME NEW e \in T, NEW p \in Seq(RowsOf(T)), i # Null,
             OnlyRow(q, p, i, EndedRow(w.mem.points, w.mem.seg.open.kind, e, q[i]))
      PROVE  Open(p) = {}
  <2> DEFINE kind == w.mem.seg.open.kind
             points == w.mem.points
             x == EndedRow(points, kind, e, q[i])
  <2>1. Open(q) = {i}
    BY <1>5 DEF Sound
  <2>2. Ended(q, p, i, x)
    <3> HIDE DEF q, i, points, kind
    <3> QED BY <1>2, <1>5, EndsOnlyRow DEF points, kind
  <2> HIDE DEF q, i, x
  <2> QED BY <1>2, <2>1, <2>2, EndsLast
<1>6. ASSUME NEW e \in T, Ends(w, s, v, e) PROVE Sound(r, m)
  <2>1. i # Null /\ OnlyRow(q, r, i, EndedRow(w.mem.points, w.mem.seg.open.kind, e, q[i])) /\ m.id = Null
    BY <1>6 DEF Ends, SaysEnd, Linked
  <2>2. Open(r) = {}
    BY <1>2, <1>5, <2>1
  <2> QED BY <2>1, <2>2 DEF Sound
<1>7. ASSUME NEW p \in Seq(RowsOf(T)), NEW k \in {"drive", "charge"}, Begins(p, r, m.id, k, s),
             Open(p) = {}, m.seg.open = Opened(k, s), m.points = <<s>>
      PROVE  Sound(r, m)
  <2>1. m.id # Null
    <3>1. Opened(k, s) # Null
      BY OpenedTyped, SegmentsNotNull
    <3> QED BY <1>1, <1>7, <3>1 DEF Linked
  <2> HIDE DEF r, m
  <2> QED BY <1>2, <1>7, <2>1, BeginsSound
<1>8. ASSUME NEW k \in {"drive", "charge"}, Starts(w, s, v, k) PROVE Sound(r, m)
  <2>1. i = Null
    BY <1>8 DEF Starts, SaysStart, Linked
  <2>2. Open(q) = {}
    BY <2>1 DEF Sound
  <2> QED BY <1>1, <1>2, <1>7, <1>8, <2>2 DEF Starts, SaysStart
<1>9. ASSUME NEW e \in T, NEW k \in {"drive", "charge"}, NEW p \in Seq(RowsOf(T)),
             Turns(w, s, v, e, k, p)
      PROVE  Sound(r, m)
  <2>1. i # Null
    BY <1>9 DEF Turns, SaysTurn, Linked
  <2>2. Open(p) = {}
    BY <1>5, <1>9, <2>1 DEF Turns
  <2> QED BY <1>1, <1>7, <1>9, <2>2 DEF Turns, SaysTurn
<1> QED BY <1>0, <1>3, <1>4, <1>6, <1>8, <1>9

LEMMA RowsSame ==
  ASSUME NEW T, NEW q \in Seq(RowsOf(T)), NEW r \in Seq(RowsOf(T)), NEW i \in DOMAIN q,
         OnlyRow(q, r, i, q[i])
  PROVE  r = q
<1> DEFINE R == RowsOf(T)
<1>1. q \in Seq(R) /\ r \in Seq(R) /\ Len(r) = Len(q)
  BY DEF OnlyRow
<1>2. DOMAIN q = 1..Len(q)
  OBVIOUS
<1>3. \A j \in 1..Len(q) : r[j] = q[j]
  BY <1>2 DEF OnlyRow
<1> HIDE DEF R
<1> QED BY <1>1, <1>3, SeqEqual

\* A session begins a second time: its row is open, and has the point.
LEMMA BeginsTwice ==
  ASSUME NEW T \in SUBSET Sample, NEW q \in Seq(RowsOf(T)), NEW k \in {"drive", "charge"},
         NEW s \in T, NEW r \in Seq(RowsOf(T)), NEW j, Open(q) = {j}, q[j].kind = k,
         s.ts \in q[j].points, NEW i, Begins(q, r, i, k, s)
  PROVE  r = q /\ i = j
<1>1. j \in DOMAIN q
  BY DEF Open
<1>2. i = j /\ OnlyRow(q, r, j, [q[j] EXCEPT !.points = @ \cup {s.ts}])
  BY DEF Begins
<1>3. q[j] \in RowsOf(T)
  BY <1>1, RowTyped
<1>4. q[j].points \cup {s.ts} = q[j].points
  OBVIOUS
<1>5. [q[j] EXCEPT !.points = @ \cup {s.ts}] = q[j]
  <2> DEFINE x == q[j]
             pts == x.points \cup {s.ts}
  <2>1. [x EXCEPT !.points = pts] = x
    <3>1. pts = x.points /\ x \in RowsOf(T)
      BY <1>3, <1>4
    <3> HIDE DEF x, pts
    <3> QED BY <3>1 DEF RowsOf
  <2> QED BY <2>1
<1>6. r = q
  BY <1>1, <1>2, <1>5, RowsSame
<1> QED BY <1>2, <1>6

\* pipeline.ts, sessions.ts: a sample whose COMMIT got no answer is applied again, by the memory of
\* before, to the rows it has already written: the rows stay and the memory comes out the same.
THEOREM SampleTwice ==
  ASSUME NEW T \in SUBSET Sample, NEW w, Fits(T, w), Linked(w.mem), Sound(w.rows, w.mem),
         NEW s \in T, NEW u, u = ApplySample(w, s),
         NEW x, Fits(T, x), x.rows = u.rows, x.mem = w.mem, NEW v, v = ApplySample(x, s)
  PROVE  v.rows = u.rows /\ v.mem = u.mem
<1> DEFINE q == w.rows
           p == u.rows
           r == v.rows
           m == w.mem
           st == m.seg
           kind == st.open.kind
           pts == m.points
           i == m.id
           a == u.mem.id
           b == v.mem.id
           Same == r = p /\ b = a
<1>1. \/ Silent(w, s, u) \/ Continues(w, s, u) \/ (\E e \in T : Ends(w, s, u, e))
      \/ (\E k \in {"drive", "charge"} : Starts(w, s, u, k))
      \/ (\E e \in T, k \in {"drive", "charge"}, g \in Seq(RowsOf(T)) :
            Turns(w, s, u, e, k, g))
  BY SampleDoes
<1>2. Linked(x.mem)
  OBVIOUS
<1>3. \/ Silent(x, s, v) \/ Continues(x, s, v) \/ (\E e \in T : Ends(x, s, v, e))
      \/ (\E k \in {"drive", "charge"} : Starts(x, s, v, k))
      \/ (\E e \in T, k \in {"drive", "charge"}, g \in Seq(RowsOf(T)) :
            Turns(x, s, v, e, k, g))
  BY <1>2, SampleDoes
<1>4. Fits(T, u) /\ Linked(u.mem) /\ u.mem.seg = Step(st, s).state
  BY SampleTrack
<1>5. Fits(T, v) /\ Linked(v.mem)
  BY <1>2, SampleTrack
<1>6. q \in Seq(RowsOf(T)) /\ p \in Seq(RowsOf(T)) /\ r \in Seq(RowsOf(T))
      /\ (i # Null => i \in DOMAIN q) /\ (i # Null => i \in DOMAIN p)
  <2>1. q \in Seq(RowsOf(T)) /\ (i # Null => i \in DOMAIN q)
    BY FitsParts
  <2>2. p \in Seq(RowsOf(T))
    BY <1>4, FitsParts
  <2>3. r \in Seq(RowsOf(T))
    BY <1>5, FitsParts
  <2>4. i # Null => i \in DOMAIN p
    <3>1. x.mem.id # Null => x.mem.id \in DOMAIN x.rows
      BY FitsParts
    <3> QED BY <3>1
  <2> QED BY <2>1, <2>2, <2>3, <2>4
<1>7. i = Null <=> st.open = Null
  BY DEF Linked
<1>8. /\ \A e, d, k, l :
           /\ SaysEnd(st, s, e) /\ SaysEnd(st, s, d) => e = d
           /\ SaysTurn(st, s, e, k) /\ SaysTurn(st, s, d, l) => e = d /\ k = l
           /\ ~(SaysEnd(st, s, e) /\ SaysTurn(st, s, d, l))
           /\ ~(SaysEnd(st, s, e) /\ SaysPoint(st, s)) /\ ~(SaysTurn(st, s, e, k) /\ SaysPoint(st, s))
           /\ ~(SaysEnd(st, s, e) /\ SaysNothing(st, s)) /\ ~(SaysTurn(st, s, e, k) /\ SaysNothing(st, s))
      /\ \A e, k, l :
           /\ SaysStart(st, s, k) /\ SaysStart(st, s, l) => k = l
           /\ ~(SaysStart(st, s, k) /\ SaysNothing(st, s)) /\ ~(SaysStart(st, s, k) /\ SaysPoint(st, s))
           /\ ~(SaysStart(st, s, k) /\ SaysEnd(st, s, e)) /\ ~(SaysStart(st, s, k) /\ SaysTurn(st, s, e, l))
      /\ ~(SaysNothing(st, s) /\ SaysPoint(st, s))
  BY EventsApart, StartsApart
<1>9. ASSUME Silent(w, s, u) PROVE Same
  <2>1. SaysNothing(st, s) /\ a = i
    BY <1>9 DEF Silent
  <2>2. Silent(x, s, v)
    <3> HIDE DEF st
    <3> QED BY <1>3, <1>8, <2>1 DEF Continues, Ends, Starts, Turns, st
  <2> QED BY <2>1, <2>2 DEF Silent
<1>10. ASSUME Continues(w, s, u) PROVE Same
  <2>1. /\ SaysPoint(st, s) /\ a = i
        /\ OnlyRow(q, p, i, [q[i] EXCEPT !.points = @ \cup {s.ts}])
    BY <1>10 DEF Continues
  <2>2. Continues(x, s, v)
    BY <1>3, <1>8, <2>1 DEF Silent, Ends, Starts, Turns
  <2>3. OnlyRow(p, r, i, [p[i] EXCEPT !.points = @ \cup {s.ts}]) /\ b = i
    BY <2>2 DEF Continues
  <2>4. i # Null
    BY <1>7, <2>1 DEF SaysPoint
  <2>5. p[i] \in RowsOf(T) /\ s.ts \in p[i].points
    <3>1. i \in DOMAIN q /\ i \in DOMAIN p
      BY <1>6, <2>4
    <3>2. OnlyRow(q, p, i, [q[i] EXCEPT !.points = @ \cup {s.ts}])
      BY <2>1
    <3> HIDE DEF p, q, i
    <3>3. Pointed(q, p, i, s)
      BY <1>6, <3>1, <3>2, PointsOnlyRow
    <3> QED BY <1>6, <3>1, <3>3, RowTyped DEF Pointed
  <2>6. [p[i] EXCEPT !.points = @ \cup {s.ts}] = p[i]
    <3> DEFINE z == p[i]
               y == z.points \cup {s.ts}
    <3>1. y = z.points /\ z \in RowsOf(T)
      BY <2>5
    <3>2. [z EXCEPT !.points = y] = z
      <4> HIDE DEF y, z
      <4> QED BY <3>1 DEF RowsOf
    <3> QED BY <3>2
  <2>7. r = p
    <3>1. OnlyRow(p, r, i, p[i])
      BY <2>3, <2>6
    <3>2. i \in DOMAIN p
      BY <1>6, <2>4
    <3> HIDE DEF p, r, i
    <3> QED BY <1>6, <3>1, <3>2, RowsSame
  <2> QED BY <2>1, <2>3, <2>7
\* Of a row that has ended at e.
<1>11. ASSUME NEW e \in T, NEW f \in Seq(RowsOf(T)), NEW g \in Seq(RowsOf(T)), i # Null,
              OnlyRow(q, f, i, EndedRow(pts, kind, e, q[i])), p[i] = f[i],
              OnlyRow(p, g, i, EndedRow(pts, kind, e, p[i]))
       PROVE  g = p
  <2>1. q[i] \in RowsOf(T) /\ f[i] = EndedRow(pts, kind, e, q[i]) /\ i \in DOMAIN p
    <3>1. i \in DOMAIN q /\ i \in DOMAIN p
      BY <1>6, <1>11
    <3> QED BY <1>6, <1>11, <3>1, RowTyped DEF OnlyRow
  <2> DEFINE y == q[i]
  <2>2. EndedRow(pts, kind, e, p[i]) = p[i]
    <3>1. p[i] = EndedRow(pts, kind, e, y) /\ y \in RowsOf(T)
      BY <1>11, <2>1
    <3> HIDE DEF pts, kind, y, p, i
    <3> QED BY <3>1, EndedTwice
  <2>3. OnlyRow(p, g, i, p[i])
    BY <1>11, <2>2
  <2> HIDE DEF p, i, y
  <2> QED BY <1>6, <2>1, <2>3, RowsSame
<1>12. ASSUME NEW e \in T, Ends(w, s, u, e) PROVE Same
  <2>1. SaysEnd(st, s, e) /\ OnlyRow(q, p, i, EndedRow(pts, kind, e, q[i])) /\ a = Null
    BY <1>12 DEF Ends
  <2>2. Ends(x, s, v, e)
    <3>1. ~Silent(x, s, v) /\ ~Continues(x, s, v) /\ (\A k \in {"drive", "charge"} : ~Starts(x, s, v, k))
      BY <1>8, <2>1 DEF Silent, Continues, Starts
    <3>2. \A d \in T, k \in {"drive", "charge"}, g \in Seq(RowsOf(T)) : ~Turns(x, s, v, d, k, g)
      BY <1>8, <2>1 DEF Turns
    <3>3. PICK d \in T : Ends(x, s, v, d)
      BY <1>3, <3>1, <3>2
    <3>4. SaysEnd(st, s, d)
      BY <3>3 DEF Ends
    <3> QED BY <1>8, <2>1, <3>3, <3>4
  <2>3. OnlyRow(p, r, i, EndedRow(pts, kind, e, p[i])) /\ b = Null
    BY <2>2 DEF Ends
  <2>4. i # Null
    BY <1>7, <2>1 DEF SaysEnd
  <2>5. p[i] = p[i]
    OBVIOUS
  <2>6. r = p
    BY <1>6, <1>11, <2>1, <2>3, <2>4, <2>5
  <2> QED BY <2>1, <2>3, <2>6
\* Of a session that has begun.
<1>13. ASSUME NEW f \in Seq(RowsOf(T)), NEW k \in {"drive", "charge"}, Begins(f, p, a, k, s),
              Open(p) = {a}, Begins(p, r, b, k, s)
       PROVE  Same
  <2>1. Begun(f, p, a, k, s)
    <3>1. Begins(f, p, a, k, s)
      BY <1>13
    <3> HIDE DEF p, a
    <3> QED BY <1>6, <3>1, BeginsFacts
  <2>2. p[a].kind = k
    BY <2>1 DEF Begun
  <2>3. s.ts \in p[a].points
    <3>1. \/ OnlyRow(f, p, a, [f[a] EXCEPT !.points = @ \cup {s.ts}]) /\ a \in DOMAIN f
          \/ a \notin DOMAIN f
      BY <1>13 DEF Begins, Open
    <3>2. CASE a \notin DOMAIN f
      BY <2>1, <3>2 DEF Begun
    <3>3. CASE OnlyRow(f, p, a, [f[a] EXCEPT !.points = @ \cup {s.ts}]) /\ a \in DOMAIN f
      <4>1. OnlyRow(f, p, a, [f[a] EXCEPT !.points = @ \cup {s.ts}]) /\ a \in DOMAIN f
        BY <3>3
      <4> HIDE DEF p, a
      <4>2. Pointed(f, p, a, s)
        BY <1>6, <4>1, PointsOnlyRow
      <4> QED BY <4>2 DEF Pointed
    <3> QED BY <3>1, <3>2, <3>3
  <2>4. Open(p) = {a} /\ Begins(p, r, b, k, s)
    BY <1>13
  <2>5. Same
    <3> HIDE DEF p, r, a, b
    <3> QED BY <1>6, <2>2, <2>3, <2>4, BeginsTwice
  <2> QED BY <2>5
<1>14. ASSUME a # Null PROVE Open(p) = {a}
  <2>1. Sound(u.rows, u.mem)
    BY SampleSound
  <2> QED BY <1>14, <2>1 DEF Sound
<1>15. ASSUME NEW k \in {"drive", "charge"}, Starts(w, s, u, k) PROVE Same
  <2>1. SaysStart(st, s, k) /\ Begins(q, p, a, k, s)
    BY <1>15 DEF Starts
  <2>2. Starts(x, s, v, k)
    <3>1. ~Silent(x, s, v) /\ ~Continues(x, s, v) /\ (\A d \in T : ~Ends(x, s, v, d))
      BY <1>8, <2>1 DEF Silent, Continues, Ends
    <3>2. \A d \in T, l \in {"drive", "charge"}, g \in Seq(RowsOf(T)) : ~Turns(x, s, v, d, l, g)
      BY <1>8, <2>1 DEF Turns
    <3>3. PICK l \in {"drive", "charge"} : Starts(x, s, v, l)
      BY <1>3, <3>1, <3>2
    <3>4. SaysStart(st, s, l)
      BY <3>3 DEF Starts
    <3> QED BY <1>8, <2>1, <3>3, <3>4
  <2>3. Begins(p, r, b, k, s)
    BY <2>2 DEF Starts
  <2>4. a # Null
    <3>1. Opened(k, s) # Null
      BY OpenedTyped, SegmentsNotNull
    <3> QED BY <1>4, <2>1, <3>1 DEF Linked, SaysStart
  <2> HIDE DEF Same
  <2> QED BY <1>6, <1>13, <1>14, <2>1, <2>3, <2>4
<1>16. ASSUME NEW e \in T, NEW k \in {"drive", "charge"}, NEW f \in Seq(RowsOf(T)),
              Turns(w, s, u, e, k, f)
       PROVE  Same
  <2>1. SaysTurn(st, s, e, k) /\ Begins(f, p, a, k, s) /\ OnlyRow(q, f, i, EndedRow(pts, kind, e, q[i]))
    BY <1>16 DEF Turns
  <2>2. PICK g \in Seq(RowsOf(T)) : Turns(x, s, v, e, k, g)
    <3>1. ~Silent(x, s, v) /\ ~Continues(x, s, v) /\ (\A d \in T : ~Ends(x, s, v, d))
      BY <1>8, <2>1 DEF Silent, Continues, Ends
    <3>2. \A l \in {"drive", "charge"} : ~Starts(x, s, v, l)
      BY <1>8, <2>1 DEF Starts
    <3>3. PICK d \in T, l \in {"drive", "charge"}, g \in Seq(RowsOf(T)) : Turns(x, s, v, d, l, g)
      BY <1>3, <3>1, <3>2
    <3>4. SaysTurn(st, s, d, l)
      BY <3>3 DEF Turns
    <3>5. d = e /\ l = k
      BY <1>8, <2>1, <3>4
    <3> QED BY <3>3, <3>5
  <2>3. OnlyRow(p, g, i, EndedRow(pts, kind, e, p[i])) /\ Begins(g, r, b, k, s)
    BY <2>2 DEF Turns
  <2>4. i # Null
    BY <1>7, <2>1 DEF SaysTurn
  <2>5. p[i] = f[i]
    <3>1. OnlyRow(q, f, i, EndedRow(pts, kind, e, q[i])) /\ Begins(f, p, a, k, s) /\ i \in DOMAIN q
      BY <1>6, <2>1, <2>4
    <3> HIDE DEF q, p, i, a, pts, kind
    <3>2. Ended(q, f, i, EndedRow(pts, kind, e, q[i]))
      BY <1>6, <3>1, EndsOnlyRow
    <3>3. Begun(f, p, a, k, s)
      BY <1>6, <3>1, BeginsFacts
    <3> QED BY <3>1, <3>2, <3>3 DEF Ended, Begun, Open
  <2>6. g = p
    BY <1>11, <2>1, <2>3, <2>4, <2>5
  <2>7. a # Null
    <3>1. Opened(k, s) # Null
      BY OpenedTyped, SegmentsNotNull
    <3> QED BY <1>4, <2>1, <3>1 DEF Linked, SaysTurn
  <2> HIDE DEF Same
  <2> QED BY <1>6, <1>13, <1>14, <2>1, <2>3, <2>6, <2>7
<1>17. Same
  <2> HIDE DEF Same
  <2> QED BY <1>1, <1>9, <1>10, <1>12, <1>15, <1>16
<1>18. v.mem.seg = u.mem.seg /\ v.mem.points = u.mem.points
  BY <1>2, SameTrack
<1>19. v.mem = u.mem
  <2>1. v.mem = [seg |-> v.mem.seg, id |-> v.mem.id, points |-> v.mem.points]
    BY <1>5, FitsParts
  <2>2. u.mem = [seg |-> u.mem.seg, id |-> u.mem.id, points |-> u.mem.points]
    BY <1>4, FitsParts
  <2>3. v.mem.id = u.mem.id
    BY <1>17
  <2> QED BY <1>18, <2>1, <2>2, <2>3
<1> QED BY <1>17, <1>19

-----------------------------------------------------------------------------
(* The replay of a tape over no rows.                                      *)

Fresh == [rows |-> <<>>, mem |-> Blank, ok |-> TRUE]
Dry(T, t) == Upto(Fresh, T, t)

\* Of a replay x of what T has up to t: a row of its own for each session, with the sample it
\* starts at, and the stamp of the newest sample.
DryOk(T, t, x) ==
  /\ Fits(T, x) /\ Linked(x.mem) /\ Sound(x.rows, x.mem)
  /\ \A i \in DOMAIN x.rows :
       /\ x.rows[i].status # "abandoned" /\ x.rows[i].start <= t
       /\ x.rows[i].start \in x.rows[i].points
  /\ \A i, j \in DOMAIN x.rows : x.rows[i].start = x.rows[j].start => i = j
  /\ x.mem.seg.lastTs = Null => x = Fresh /\ \A s \in T : t < s.ts
  /\ x.mem.seg.lastTs # Null =>
       /\ x.mem.seg.lastTs \in Nat /\ x.mem.seg.lastTs <= t
       /\ \A s \in T : s.ts <= x.mem.seg.lastTs \/ t < s.ts

LEMMA BlankIs == ASSUME NEW T PROVE Blank \in MemoryOf(T) /\ Linked(Blank) /\ Blank.id = Null
BY DEF Blank, MemoryOf, TracksOf, NoSegment, Linked

LEMMA FreshOk == ASSUME NEW T \in SUBSET Sample PROVE DryOk(T, -1, Fresh)
<1>1. Fits(T, Fresh) /\ Linked(Fresh.mem) /\ Fresh.rows = <<>> /\ Fresh.mem = Blank
  BY BlankIs DEF Fresh, Fits, WorksOf
<1>2. Open(<<>>) = {} /\ Blank.id = Null /\ Blank.seg.lastTs = Null
  BY DEF Open, Blank, NoSegment
<1>3. \A s \in T : -1 < s.ts
  BY SampleFields
<1>4. DOMAIN <<>> = {}
  OBVIOUS
<1> HIDE DEF Fresh
<1> QED BY <1>1, <1>2, <1>3, <1>4 DEF DryOk, Sound

LEMMA DryStep ==
  ASSUME NEW T \in SUBSET Sample, \A a, b \in T : a.ts = b.ts => a = b,
         NEW t \in Int, t >= -1, NEW x, DryOk(T, t, x)
  PROVE  DryOk(T, t + 1, At(x, T, t + 1))
<1>0. Fits(T, x) /\ Linked(x.mem) /\ Sound(x.rows, x.mem) /\ x.rows \in Seq(RowsOf(T))
      /\ x.mem.seg \in TracksOf(T)
  BY FitsParts DEF DryOk
<1>1. CASE Due(T, t + 1) = {}
  <2>1. At(x, T, t + 1) = x
    BY <1>1 DEF At
  <2>2. \A s \in T : s.ts \in Nat /\ s.ts # t + 1
    BY <1>1, SampleFields DEF Due
  <2>3. \A i \in DOMAIN x.rows : x.rows[i].start \in Nat
    <3> TAKE i \in DOMAIN x.rows
    <3>1. x.rows[i] \in RowsOf(T)
      BY <1>0, RowTyped
    <3> QED BY <3>1, RowStart
  <2>4. DryOk(T, t + 1, x)
    BY <2>2, <2>3 DEF DryOk
  <2> QED BY <2>1, <2>4
<1>2. CASE Due(T, t + 1) # {}
  <2> DEFINE s == CHOOSE s \in Due(T, t + 1) : TRUE
             v == ApplySample(x, s)
             q == x.rows
             r == v.rows
             n == x.mem.seg.lastTs
  <2>1. s \in T /\ s.ts = t + 1
    BY <1>2 DEF Due
  <2>2. At(x, T, t + 1) = v
    BY <1>2 DEF At
  <2> HIDE DEF s
  <2>3. Fits(T, v) /\ Linked(v.mem) /\ v.mem.seg = Step(x.mem.seg, s).state
    BY <1>0, <2>1, SampleTrack
  <2>4. Sound(r, v.mem)
    BY <1>0, <2>1, SampleSound
  <2>5. Grown(q, r, x.mem.id, s)
    BY <1>0, <2>1, SampleFrame
  <2>6. v.mem.seg.lastTs = t + 1
    <3>1. ~(n # Null /\ s.ts < n)
      BY <2>1 DEF DryOk
    <3> DEFINE st == x.mem.seg
    <3>2. st \in TracksOf(T) /\ ~(st.lastTs # Null /\ s.ts < st.lastTs)
      BY <1>0, <3>1
    <3> HIDE DEF st
    <3>3. Step(st, s).state.lastTs = s.ts
      BY <2>1, <3>2, NewerSays
    <3> QED BY <2>1, <2>3, <3>3 DEF st
  <2> HIDE DEF v
  <2>7. r \in Seq(RowsOf(T)) /\ \A i \in DOMAIN q : q[i].start \in Nat
    <3>1. \A i \in DOMAIN q : q[i] \in RowsOf(T)
      BY <1>0, RowTyped
    <3> QED BY <2>3, <3>1, FitsParts, RowStart
  <2>8. \A i \in DOMAIN q : /\ r[i].start = q[i].start /\ r[i].start <= t
                            /\ r[i].start \in r[i].points /\ r[i].status # "abandoned"
    BY <2>5 DEF Grown, Follows, DryOk
  <2>9. \A i \in DOMAIN r \ DOMAIN q : /\ r[i].start = t + 1 /\ i = Len(q) + 1
                                       /\ r[i].start \in r[i].points /\ r[i].status # "abandoned"
    BY <2>1, <2>5 DEF Grown
  <2>10. \A i \in DOMAIN r : /\ r[i].status # "abandoned" /\ r[i].start <= t + 1
                             /\ r[i].start \in r[i].points
    <3> TAKE i \in DOMAIN r
    <3>1. CASE i \in DOMAIN q
      <4>1. r[i].start \in Nat /\ r[i].start <= t
        BY <2>7, <2>8, <3>1
      <4> QED BY <2>8, <3>1, <4>1
    <3>2. CASE i \notin DOMAIN q
      BY <2>9, <3>2
    <3> QED BY <3>1, <3>2
  <2>11. ASSUME NEW i \in DOMAIN r, NEW j \in DOMAIN r, r[i].start = r[j].start PROVE i = j
    <3>1. CASE i \in DOMAIN q /\ j \in DOMAIN q
      BY <2>8, <2>11, <3>1 DEF DryOk
    <3>2. CASE i \notin DOMAIN q /\ j \notin DOMAIN q
      BY <2>9, <3>2
    <3>3. CASE i \in DOMAIN q /\ j \notin DOMAIN q
      BY <2>7, <2>8, <2>9, <2>11, <3>3
    <3>4. CASE i \notin DOMAIN q /\ j \in DOMAIN q
      BY <2>7, <2>8, <2>9, <2>11, <3>4
    <3> QED BY <3>1, <3>2, <3>3, <3>4
  <2>12. t + 1 \in Nat /\ t + 1 # Null /\ \A d \in T : d.ts <= t + 1 \/ t + 1 < d.ts
    <3>1. t + 1 \in Nat /\ \A d \in T : d.ts \in Nat
      BY SampleFields
    <3> QED BY <3>1, SessionsAssumption
  <2>13. DryOk(T, t + 1, v)
    BY <2>3, <2>4, <2>6, <2>10, <2>11, <2>12 DEF DryOk
  <2> QED BY <2>2, <2>13
<1> QED BY <1>1, <1>2

LEMMA DryIsOk ==
  ASSUME NEW T \in SUBSET Sample, \A a, b \in T : a.ts = b.ts => a = b, NEW n \in Nat
  PROVE  DryOk(T, n, Dry(T, n))
<1> DEFINE K == {t \in Nat : DryOk(T, t, Dry(T, t))}
<1>1. 0 \in K
  <2>1. DryOk(T, -1 + 1, At(Fresh, T, -1 + 1))
    <3>1. -1 \in Int /\ -1 >= -1 /\ DryOk(T, -1, Fresh)
      BY FreshOk
    <3> DEFINE a == -1
    <3>2. a \in Int /\ a >= -1 /\ DryOk(T, a, Fresh)
      BY <3>1
    <3> HIDE DEF a
    <3>3. DryOk(T, a + 1, At(Fresh, T, a + 1))
      BY <3>2, DryStep
    <3> QED BY <3>3 DEF a
  <2>2. -1 + 1 = 0
    OBVIOUS
  <2>3. Dry(T, 0) = At(Fresh, T, 0)
    BY UptoSteps DEF Dry
  <2>4. DryOk(T, 0, At(Fresh, T, 0))
    BY <2>1, <2>2
  <2> QED BY <2>3, <2>4
<1>2. ASSUME NEW t \in Nat, t \in K PROVE t + 1 \in K
  <2> DEFINE x == Dry(T, t)
  <2>1. DryOk(T, t, x) /\ t \in Int /\ t >= -1 /\ t + 1 \in Nat
    BY <1>2
  <2>2. Dry(T, t + 1) = At(x, T, t + 1)
    BY UptoSteps DEF Dry
  <2> HIDE DEF x
  <2>3. DryOk(T, t + 1, At(x, T, t + 1))
    BY <2>1, DryStep
  <2> QED BY <2>1, <2>2, <2>3
<1>3. \A t \in Nat : t \in K
  BY <1>1, <1>2, NatSetInduction
<1> QED BY <1>3

\* A session of the replay stays one, whatever follows.
LEMMA DryStays ==
  ASSUME NEW T \in SUBSET Sample, \A a, b \in T : a.ts = b.ts => a = b,
         NEW n \in Nat, NEW m \in Nat, n <= m, NEW i \in DOMAIN Dry(T, n).rows
  PROVE  /\ i \in DOMAIN Dry(T, m).rows
         /\ Dry(T, m).rows[i].kind = Dry(T, n).rows[i].kind
         /\ Dry(T, m).rows[i].start = Dry(T, n).rows[i].start
         /\ Dry(T, n).rows[i].points \subseteq Dry(T, m).rows[i].points
<1> DEFINE row == Dry(T, n).rows[i]
           Has(x) == /\ i \in DOMAIN x.rows /\ x.rows[i].kind = row.kind
                     /\ x.rows[i].start = row.start /\ row.points \subseteq x.rows[i].points
           K == {t \in Nat : n <= t => Has(Dry(T, t))}
<1>0. Has(Dry(T, n))
  OBVIOUS
<1> HIDE DEF row
<1>1. 0 \in K
  <2> SUFFICES ASSUME n <= 0 PROVE Has(Dry(T, 0))
    OBVIOUS
  <2>1. n = 0
    OBVIOUS
  <2> HIDE DEF Has
  <2> QED BY <1>0, <2>1
<1>2. ASSUME NEW t \in Nat, t \in K PROVE t + 1 \in K
  <2> SUFFICES ASSUME n <= t + 1 PROVE Has(Dry(T, t + 1))
    OBVIOUS
  <2>1. CASE n = t + 1
    <3> HIDE DEF Has
    <3> QED BY <1>0, <2>1
  <2>2. CASE n # t + 1
    <3> DEFINE x == Dry(T, t)
    <3>1. Has(x)
      BY <1>2, <2>2
    <3>2. Dry(T, t + 1) = At(x, T, t + 1)
      BY UptoSteps DEF Dry
    <3>3. DryOk(T, t, x)
      BY DryIsOk
    <3> HIDE DEF x
    <3>4. Has(At(x, T, t + 1))
      <4>1. CASE Due(T, t + 1) = {}
        <5>1. At(x, T, t + 1) = x
          BY <4>1 DEF At
        <5> QED BY <3>1, <5>1
      <4>2. CASE Due(T, t + 1) # {}
        <5> DEFINE s == CHOOSE s \in Due(T, t + 1) : TRUE
                   v == ApplySample(x, s)
        <5>1. s \in T
          BY <4>2 DEF Due
        <5>2. At(x, T, t + 1) = v
          BY <4>2 DEF At
        <5> HIDE DEF s
        <5>3. Fits(T, x) /\ Linked(x.mem)
          BY <3>3 DEF DryOk
        <5>4. Grown(x.rows, v.rows, x.mem.id, s)
          BY <5>1, <5>3, SampleFrame
        <5> HIDE DEF v
        <5> QED BY <3>1, <5>2, <5>4 DEF Grown, Follows
      <4> QED BY <4>1, <4>2
    <3> QED BY <3>2, <3>4
  <2> QED BY <2>1, <2>2
<1>3. \A t \in Nat : t \in K
  BY <1>1, <1>2, NatSetInduction
<1>4. Has(Dry(T, m))
  BY <1>3
<1> QED BY <1>4 DEF row

-----------------------------------------------------------------------------
(* The memory follows the replay.                                          *)

Newer(s, n) == n = Null \/ s.ts > n

\* The replay of T up to its sample at n, or before the first.
DryAt(T, n) == IF n = Null THEN Fresh ELSE Dry(T, n)

\* Memory m is where the replay of T is after m's newest sample.
Tracks(T, m) ==
  LET x == DryAt(T, m.seg.lastTs) IN m.seg = x.mem.seg /\ m.points = x.mem.points

\* The samples of T that are newer than n: the pending one s, and after it what is owed.
Ordered(T, O, n, s) ==
  /\ s # Null => s \in T /\ Newer(s, n)
  /\ \A d \in T : Newer(d, n) => d = s \/ (d \in O /\ (s # Null => s.ts < d.ts))

LEMMA DryNext ==
  ASSUME NEW T \in SUBSET Sample, \A a, b \in T : a.ts = b.ts => a = b,
         NEW n \in Nat \cup {Null}, NEW s \in T, Newer(s, n),
         \A d \in T : Newer(d, n) => d = s \/ s.ts < d.ts
  PROVE  Dry(T, s.ts) = ApplySample(DryAt(T, n), s)
<1>1. s.ts \in Nat /\ \A d \in T : d.ts \in Nat /\ (d.ts < s.ts => ~Newer(d, n))
  BY SampleFields
<1>2. Due(T, s.ts) = {s}
  BY DEF Due
<1>3. \A x : At(x, T, s.ts) = ApplySample(x, s)
  BY <1>2 DEF At
<1>4. CASE s.ts = 0
  <2>1. n = Null
    BY <1>4 DEF Newer
  <2>2. Dry(T, 0) = At(Fresh, T, 0)
    BY UptoSteps DEF Dry
  <2> QED BY <1>3, <1>4, <2>1, <2>2 DEF DryAt
<1>5. CASE s.ts # 0
  <2> DEFINE k == s.ts - 1
  <2>1. k \in Nat /\ k + 1 = s.ts
    BY <1>1, <1>5
  <2> HIDE DEF k
  <2>2. Dry(T, k + 1) = At(Dry(T, k), T, k + 1)
    BY <2>1, UptoSteps DEF Dry
  <2>3. Dry(T, s.ts) = ApplySample(Dry(T, k), s)
    BY <1>3, <2>1, <2>2
  <2>4. Dry(T, k) = DryAt(T, n)
    <3>1. CASE n = Null
      <4>1. \A d \in T : ~(d.ts < s.ts)
        BY <1>1, <3>1 DEF Newer
      <4>2. Due(T, 0) = {}
        BY <1>1, <1>5, <4>1 DEF Due
      <4>3. Dry(T, 0) = Fresh
        <5>1. Dry(T, 0) = At(Fresh, T, 0)
          BY UptoSteps DEF Dry
        <5> QED BY <4>2, <5>1 DEF At
      <4>4. \A d \in T : ~(0 < d.ts /\ d.ts <= k)
        BY <1>1, <2>1, <4>1
      <4>5. Dry(T, k) = Dry(T, 0)
        BY <2>1, <4>4, UptoQuiet DEF Dry
      <4> QED BY <3>1, <4>3, <4>5 DEF DryAt
    <3>2. CASE n # Null
      <4>1. n \in Nat /\ n < s.ts /\ n <= k
        BY <1>1, <2>1, <3>2 DEF Newer
      <4>2. \A d \in T : ~(n < d.ts /\ d.ts <= k)
        BY <1>1, <2>1, <4>1 DEF Newer
      <4>3. Dry(T, k) = Dry(T, n)
        BY <2>1, <4>1, <4>2, UptoQuiet DEF Dry
      <4> QED BY <3>2, <4>3 DEF DryAt
    <3> QED BY <3>1, <3>2
  <2> QED BY <2>3, <2>4
<1> QED BY <1>4, <1>5

\* What comes later changes nothing of what was replayed.
LEMMA TracksMore ==
  ASSUME NEW T \in SUBSET Sample, NEW U \in SUBSET Sample, T \subseteq U, NEW m,
         m.seg.lastTs \in Nat \cup {Null}, \A d \in U \ T : Newer(d, m.seg.lastTs), Tracks(T, m)
  PROVE  Tracks(U, m)
<1> DEFINE n == m.seg.lastTs
<1>1. DryAt(U, n) = DryAt(T, n)
  <2>1. CASE n = Null
    BY <2>1 DEF DryAt
  <2>2. CASE n # Null
    <3>1. n \in Nat /\ \A d \in U : d.ts \in Nat
      BY <2>2, SampleFields
    <3>2. \A t \in 0..n : Due(U, t) = Due(T, t)
      BY <2>2, <3>1 DEF Due, Newer
    <3> HIDE DEF n
    <3>3. Dry(U, n) = Dry(T, n)
      BY <3>1, <3>2, UptoAgree DEF Dry
    <3> QED BY <2>2, <3>3 DEF DryAt
  <2> QED BY <2>1, <2>2
<1> QED BY <1>1 DEF Tracks

\* A replay of no sample yet, or up to one.
LEMMA DryAtOk ==
  ASSUME NEW T \in SUBSET Sample, \A a, b \in T : a.ts = b.ts => a = b, NEW n \in Nat \cup {Null},
         NEW x, x = DryAt(T, n)
  PROVE  Fits(T, x) /\ Linked(x.mem) /\ Sound(x.rows, x.mem)
<1>1. CASE n = Null
  <2>1. DryOk(T, -1, Fresh)
    BY FreshOk
  <2> QED BY <1>1, <2>1 DEF DryAt, DryOk
<1>2. CASE n # Null
  <2>1. DryOk(T, n, Dry(T, n))
    BY <1>2, DryIsOk
  <2> QED BY <1>2, <2>1 DEF DryAt, DryOk
<1> QED BY <1>1, <1>2

\* The sample that is due, of memory m over rows q: m goes on with the replay.
LEMMA TracksNext ==
  ASSUME NEW T \in SUBSET Sample, \A a, b \in T : a.ts = b.ts => a = b,
         NEW w, Fits(T, w), Linked(w.mem), Tracks(T, w.mem), NEW s \in T,
         Newer(s, w.mem.seg.lastTs), \A d \in T : Newer(d, w.mem.seg.lastTs) => d = s \/ s.ts < d.ts,
         NEW v, v = ApplySample(w, s)
  PROVE  Fits(T, v) /\ Linked(v.mem) /\ Tracks(T, v.mem) /\ v.mem.seg.lastTs = s.ts
<1> DEFINE st == w.mem.seg
           n == st.lastTs
           x == DryAt(T, n)
           y == ApplySample(x, s)
<1>1. st \in TracksOf(T) /\ n \in Nat \cup {Null}
  <2>1. st \in TracksOf(T)
    BY FitsParts
  <2> HIDE DEF st
  <2> QED BY <2>1, SampleFields DEF TracksOf, StampsOf
<1>2. Fits(T, v) /\ Linked(v.mem) /\ v.mem.seg = Step(st, s).state
  BY SampleTrack
<1>3. v.mem.seg.lastTs = s.ts
  <2>1. ~(n # Null /\ s.ts < n)
    BY <1>1, SampleFields DEF Newer
  <2> HIDE DEF st
  <2>2. Step(st, s).state.lastTs = s.ts
    BY <1>1, <2>1, NewerSays
  <2> QED BY <1>2, <2>2
<1>4. Dry(T, s.ts) = y
  <2>1. Newer(s, n) /\ \A d \in T : Newer(d, n) => d = s \/ s.ts < d.ts
    OBVIOUS
  <2> HIDE DEF n
  <2> QED BY <1>1, <2>1, DryNext
<1>5. w.mem.seg = x.mem.seg /\ w.mem.points = x.mem.points
  BY DEF Tracks
<1> HIDE DEF st, n
<1>6. Fits(T, x) /\ Linked(x.mem)
  BY <1>1, DryAtOk
<1> HIDE DEF x
<1>7. v.mem.seg = y.mem.seg /\ v.mem.points = y.mem.points
  BY <1>5, <1>6, SameTrack
<1>8. DryAt(T, v.mem.seg.lastTs) = y
  <2>1. s.ts # Null
    BY SampleFields
  <2> QED BY <1>3, <1>4, <2>1 DEF DryAt
<1>9. Tracks(T, v.mem)
  BY <1>7, <1>8 DEF Tracks
<1> QED BY <1>2, <1>3, <1>9

\* The rows are those of a COMMIT that was not answered: sample s has been applied to rows that
\* memory m was right about.
Redone(T, q, m, s) ==
  \E p \in Seq(RowsOf(T)) :
    /\ m.id \in DOMAIN p \cup {Null} /\ Sound(p, m)
    /\ q = ApplySample([rows |-> p, mem |-> m, ok |-> TRUE], s).rows

Right(T, q, m, s) == Sound(q, m) \/ (s # Null /\ Redone(T, q, m, s))

\* Tape T, what is owed O, rows q, memory m and the pending sample s belong together.
Agreed(T, O, q, m, s, c) ==
  /\ Tracks(T, m) /\ Ordered(T, O, m.seg.lastTs, s) /\ Right(T, q, m, s)
  /\ m.seg.lastTs # Null => m.seg.lastTs <= c

Kepts(q) == \A i \in DOMAIN q : q[i].status # "abandoned"

\* What is written when the pending sample is due.
Writes(q, m, s) ==
  IF s = Null THEN [rows |-> q, mem |-> m, ok |-> TRUE]
  ELSE ApplySample([rows |-> q, mem |-> m, ok |-> TRUE], s)

LEMMA AgreedFits ==
  ASSUME NEW T \in SUBSET Sample, NEW q \in Seq(RowsOf(T)), NEW m, m \in MemoryOf(T), Linked(m),
         m.id \in DOMAIN q \cup {Null}, NEW w, w = [rows |-> q, mem |-> m, ok |-> TRUE]
  PROVE  Fits(T, w) /\ Linked(w.mem) /\ w.rows = q /\ w.mem = m
BY DEF Fits, WorksOf

LEMMA NewestIs ==
  ASSUME NEW T \in SUBSET Sample, NEW m, m \in MemoryOf(T)
  PROVE  m.seg.lastTs \in Nat \cup {Null}
BY DEF MemoryOf, TracksOf

LEMMA WritesRight ==
  ASSUME NEW T \in SUBSET Sample, NEW q \in Seq(RowsOf(T)), NEW m, Holds(T, q, m), NEW s \in T,
         Right(T, q, m, s), NEW v, v = Writes(q, m, s)
  PROVE  Sound(v.rows, v.mem) /\ Redone(T, v.rows, m, s) /\ (Sound(q, m) \/ v.rows = q)
<1> DEFINE w == [rows |-> q, mem |-> m, ok |-> TRUE]
<1>1. m \in MemoryOf(T) /\ Linked(m) /\ m.id \in DOMAIN q \cup {Null}
  BY DEF Holds
<1>2. Fits(T, w) /\ Linked(w.mem) /\ w.rows = q /\ w.mem = m
  BY <1>1, AgreedFits
<1>3. v = ApplySample(w, s)
  BY SampleFields DEF Writes
<1>4. CASE Sound(q, m)
  <2>1. Redone(T, v.rows, m, s)
    BY <1>1, <1>3, <1>4 DEF Redone
  <2> HIDE DEF w
  <2>2. Sound(v.rows, v.mem)
    BY <1>2, <1>3, <1>4, SampleSound
  <2> QED BY <1>4, <2>1, <2>2
<1>5. CASE ~Sound(q, m)
  <2>1. PICK p \in Seq(RowsOf(T)) :
          /\ m.id \in DOMAIN p \cup {Null} /\ Sound(p, m)
          /\ q = ApplySample([rows |-> p, mem |-> m, ok |-> TRUE], s).rows
    BY <1>5 DEF Right, Redone
  <2> DEFINE x == [rows |-> p, mem |-> m, ok |-> TRUE]
             u == ApplySample(x, s)
  <2>2. Fits(T, x) /\ Linked(x.mem) /\ x.rows = p /\ x.mem = m
    BY <1>1, <2>1, AgreedFits
  <2>3. q = u.rows
    BY <2>1
  <2> HIDE DEF w, x
  <2>4. v.rows = u.rows /\ v.mem = u.mem
    <3>1. w.rows = u.rows /\ w.mem = x.mem /\ Sound(x.rows, x.mem)
      BY <1>2, <2>1, <2>2, <2>3
    <3> HIDE DEF u
    <3> QED BY <1>2, <1>3, <2>2, <3>1, SampleTwice DEF u
  <2>5. Sound(u.rows, u.mem)
    BY <2>1, <2>2, SampleSound
  <2> HIDE DEF u
  <2>6. Redone(T, v.rows, m, s)
    <3>1. v.rows = q
      BY <2>3, <2>4
    <3> QED BY <1>5, <3>1 DEF Right
  <2> QED BY <2>3, <2>4, <2>5, <2>6
<1> QED BY <1>4, <1>5

\* What is written belongs together again, with the sample out of memory; and with the memory
\* as it was, if the COMMIT is not answered.
Written(T, O, q, m, s, c, v) ==
  /\ Fits(T, v) /\ Linked(v.mem) /\ v.mem.seg.lastTs \in Nat \cup {Null}
  /\ Sound(v.rows, v.mem) /\ Tracks(T, v.mem) /\ Kepts(v.rows)
  /\ v.mem.seg.lastTs = IF s = Null THEN m.seg.lastTs ELSE s.ts
  /\ v.mem.seg.lastTs # Null => v.mem.seg.lastTs <= c
  /\ \A d \in T : Newer(d, v.mem.seg.lastTs) => d \in O
  /\ v.rows \in Seq(RowsOf(T)) /\ Right(T, v.rows, m, s) /\ (Sound(q, m) \/ v.rows = q)

LEMMA AgreedWrites ==
  ASSUME NEW T \in SUBSET Sample, \A a, b \in T : a.ts = b.ts => a = b,
         NEW c \in Nat, \A d \in T : d.ts <= c, NEW O,
         NEW q \in Seq(RowsOf(T)), Kepts(q), NEW m, Holds(T, q, m), NEW s \in T \cup {Null},
         Agreed(T, O, q, m, s, c), NEW v, v = Writes(q, m, s)
  PROVE  Written(T, O, q, m, s, c, v)
<1> DEFINE w == [rows |-> q, mem |-> m, ok |-> TRUE]
           n == m.seg.lastTs
<1>1. m \in MemoryOf(T) /\ Linked(m) /\ m.id \in DOMAIN q \cup {Null}
  BY DEF Holds
<1>2. Fits(T, w) /\ Linked(w.mem) /\ w.rows = q /\ w.mem = m
  BY <1>1, AgreedFits
<1>3. n \in Nat \cup {Null}
  BY <1>1, NewestIs
<1>4. CASE s = Null
  <2>1. v = w
    BY <1>4 DEF Writes
  <2>2. Sound(q, m)
    BY <1>4 DEF Agreed, Right
  <2>3. \A d \in T : Newer(d, n) => d \in O
    BY <1>4, SampleFields DEF Agreed, Ordered
  <2> HIDE DEF w
  <2> QED BY <1>2, <1>3, <1>4, <2>1, <2>2, <2>3 DEF Written, Agreed, Right
<1>5. CASE s # Null
  <2>1. v = ApplySample(w, s) /\ s \in T
    BY <1>5 DEF Writes
  <2>2. Newer(s, n) /\ \A d \in T : Newer(d, n) => d = s \/ s.ts < d.ts
    BY <1>5 DEF Agreed, Ordered
  <2>3. Tracks(T, m)
    BY DEF Agreed
  <2> HIDE DEF w
  <2>4. Fits(T, v) /\ Linked(v.mem) /\ Tracks(T, v.mem) /\ v.mem.seg.lastTs = s.ts
    <3>1. Newer(s, w.mem.seg.lastTs) /\ (\A d \in T : Newer(d, w.mem.seg.lastTs) => d = s \/ s.ts < d.ts)
          /\ Tracks(T, w.mem)
      BY <1>2, <2>2, <2>3
    <3> QED BY <1>2, <2>1, <3>1, TracksNext
  <2>5. Sound(v.rows, v.mem) /\ Redone(T, v.rows, m, s) /\ (Sound(q, m) \/ v.rows = q)
    <3>1. Right(T, q, m, s)
      BY DEF Agreed
    <3> QED BY <2>1, <3>1, WritesRight
  <2>6. Kepts(v.rows)
    <3>1. Grown(q, v.rows, m.id, s)
      <4>1. Grown(w.rows, v.rows, w.mem.id, s)
        BY <1>2, <2>1, SampleFrame
      <4> QED BY <1>2, <4>1
    <3> QED BY <3>1 DEF Kepts, Grown, Follows
  <2>7. s.ts \in Nat /\ s.ts # Null /\ s.ts <= c
    BY <2>1, SampleFields
  <2>8. \A d \in T : d.ts > s.ts => Newer(d, n) /\ d # s
    BY <1>3, <2>2, <2>7, SampleFields DEF Newer
  <2>9. \A d \in T : Newer(d, s.ts) => d \in O
    BY <2>7, <2>8 DEF Newer, Agreed, Ordered
  <2>10. v.rows \in Seq(RowsOf(T))
    BY <2>4, FitsParts
  <2> QED BY <1>5, <2>4, <2>5, <2>6, <2>7, <2>9, <2>10 DEF Written, Right
<1> QED BY <1>4, <1>5

\* While no worker runs: at most one row is open, and the replay has its session.
Waiting(T, q, c) ==
  /\ \A i, j \in Open(q) : i = j
  /\ \A i \in Open(q) : \E j \in DOMAIN Dry(T, c).rows :
       /\ Dry(T, c).rows[j].kind = q[i].kind /\ Dry(T, c).rows[j].start = q[i].start
       /\ q[i].points \subseteq Dry(T, c).rows[j].points

LEMMA RightWaits ==
  ASSUME NEW T \in SUBSET Sample, \A a, b \in T : a.ts = b.ts => a = b, NEW c \in Nat,
         NEW q, NEW m, Linked(m), m.seg.lastTs \in Nat \cup {Null},
         m.seg.lastTs # Null => m.seg.lastTs <= c, Sound(q, m), Tracks(T, m)
  PROVE  Waiting(T, q, c)
<1> DEFINE n == m.seg.lastTs
           x == DryAt(T, n)
<1>1. \A i, j \in Open(q) : i = j
  BY DEF Sound
<1>2. ASSUME NEW i \in Open(q)
      PROVE  \E j \in DOMAIN Dry(T, c).rows :
               /\ Dry(T, c).rows[j].kind = q[i].kind /\ Dry(T, c).rows[j].start = q[i].start
               /\ q[i].points \subseteq Dry(T, c).rows[j].points
  <2>1. i = m.id /\ i # Null /\ q[i].kind = m.seg.open.kind /\ q[i].start = m.seg.open.start
        /\ q[i].points = Stamps(m.points)
    BY <1>2 DEF Sound
  <2>2. m.seg.open # Null /\ m.seg = x.mem.seg /\ m.points = x.mem.points
    BY <2>1 DEF Linked, Tracks
  <2>3. n # Null
    BY <2>2 DEF DryAt, Fresh, Blank, NoSegment
  <2>4. x = Dry(T, n) /\ n \in Nat /\ n <= c
    BY <2>3 DEF DryAt
  <2>5. Linked(x.mem) /\ Sound(x.rows, x.mem)
    <3> HIDE DEF x, n
    <3>1. DryOk(T, n, x)
      BY <2>4, DryIsOk
    <3> QED BY <3>1 DEF DryOk
  <2> DEFINE j == x.mem.id
  <2>6. /\ j # Null /\ j \in DOMAIN x.rows
        /\ x.rows[j].kind = q[i].kind /\ x.rows[j].start = q[i].start
        /\ q[i].points = x.rows[j].points
    <3> HIDE DEF x
    <3> QED BY <2>1, <2>2, <2>5 DEF Linked, Sound, Open
  <2> HIDE DEF n
  <2>7. j \in DOMAIN Dry(T, n).rows
    BY <2>4, <2>6
  <2> HIDE DEF j
  <2>8. /\ j \in DOMAIN Dry(T, c).rows
        /\ Dry(T, c).rows[j].kind = Dry(T, n).rows[j].kind
        /\ Dry(T, c).rows[j].start = Dry(T, n).rows[j].start
        /\ Dry(T, n).rows[j].points \subseteq Dry(T, c).rows[j].points
    BY <2>4, <2>7, DryStays
  <2> QED BY <2>4, <2>6, <2>8
<1> QED BY <1>1, <1>2 DEF Waiting

\* The replay's session with the start of a row is the one that the row stands for.
LEMMA MatchIsIt ==
  ASSUME NEW T \in SUBSET Sample, NEW c \in Nat, NEW x, DryOk(T, c, x),
         \A n \in StampsOf(T) : n <= c,
         NEW row \in RowsOf(T), NEW j \in DOMAIN x.rows,
         x.rows[j].kind = row.kind, x.rows[j].start = row.start
  PROVE  MatchFor(x.rows, row) = j
<1> DEFINE q == x.rows
           m == MatchFor(q, row)
           y == q[j]
<1>1. q \in Seq(RowsOf(T))
  BY FitsParts DEF DryOk
<1>2. \A i \in DOMAIN q : q[i] \in RowsOf(T) /\ q[i].start \in Nat
  <2> TAKE i \in DOMAIN q
  <2>1. q[i] \in RowsOf(T)
    BY <1>1, RowTyped
  <2> HIDE DEF q
  <2> QED BY <2>1, RowStart
<1>3. y.start \in y.points /\ y.points \subseteq StampsOf(T) /\ y.points \subseteq Nat /\ y \in RowsOf(T)
  <2>1. y \in RowsOf(T) /\ y.start \in y.points
    BY <1>2 DEF DryOk
  <2> HIDE DEF y
  <2> QED BY <2>1, RowStart DEF RowsOf
<1>4. row.start <= EndedAt(y)
  <2> DEFINE P == y.points
             g == [n \in P |-> n]
  <2>1. y.start \in P /\ y.start = row.start /\ P \subseteq Nat /\ \A n \in P : n <= c
    BY <1>3
  <2> HIDE DEF P, y
  <2>2. \A n \in P : g[n] \in Nat /\ g[n] <= c
    BY <2>1
  <2>3. P # {}
    BY <2>1
  <2> HIDE DEF g
  <2>4. PICK k \in P : \A n \in P : g[n] <= g[k]
    BY <2>2, <2>3, LastExists
  <2>5. \A n \in P : k >= n
    BY <2>1, <2>4 DEF g
  <2>6. \A n \in P : Max(P) >= n
    BY <2>5 DEF Max
  <2>7. EndedAt(y) = Max(P)
    BY <2>3 DEF EndedAt, P
  <2>8. Max(P) \in P
    BY <2>5 DEF Max
  <2> QED BY <2>1, <2>6, <2>7, <2>8
<1>5. j \in Fit(q, row)
  <2>1. y.start - Slack <= row.start
    <3>1. row.start \in Nat /\ y.start = row.start /\ Slack \in Nat
      BY RowStart, SessionsAssumption
    <3> HIDE DEF y
    <3> QED BY <3>1
  <2> QED BY <1>4, <2>1 DEF Fit
<1> HIDE DEF q, m, y
<1>6. m \in DOMAIN q /\ Distance(q[m].start, row.start) <= Distance(q[j].start, row.start)
  BY <1>1, <1>5, MatchIs DEF m
<1>7. row.start \in Nat
  BY RowStart
<1>8. q[j].start = row.start /\ q[j].start \in Nat /\ q[m].start \in Nat
  BY <1>2, <1>6 DEF q
<1>9. q[m].start = row.start
  <2>1. Distance(q[j].start, row.start) = 0
    BY <1>7, <1>8, DistanceIs
  <2>2. Distance(q[m].start, row.start) \in Nat
    BY <1>7, <1>8, DistanceIs
  <2>3. Distance(q[m].start, row.start) = 0
    BY <1>6, <2>1, <2>2
  <2> QED BY <1>7, <1>8, <2>3, DistanceIs
<1> QED BY <1>6, <1>8, <1>9 DEF DryOk, q, m

\* While no worker runs: at most one row is open, and the session of the replay that it stands for
\* has begun no later and has its points.
Meets(T, q, c) ==
  /\ \A i, j \in Open(q) : i = j
  /\ \A i \in Open(q) : \E j \in DOMAIN Dry(T, c).rows :
       /\ MatchFor(Dry(T, c).rows, q[i]) = j
       /\ Dry(T, c).rows[j].kind = q[i].kind /\ Dry(T, c).rows[j].start <= q[i].start
       /\ q[i].points \subseteq Dry(T, c).rows[j].points

LEMMA WaitingMeets ==
  ASSUME NEW T \in SUBSET Sample, \A a, b \in T : a.ts = b.ts => a = b, NEW c \in Nat,
         \A n \in StampsOf(T) : n <= c, NEW q \in Seq(RowsOf(T)), Waiting(T, q, c)
  PROVE  Meets(T, q, c)
<1> DEFINE p == Dry(T, c)
<1>1. DryOk(T, c, p)
  BY DryIsOk
<1>2. ASSUME NEW i \in Open(q)
      PROVE  \E j \in DOMAIN p.rows :
               /\ MatchFor(p.rows, q[i]) = j
               /\ p.rows[j].kind = q[i].kind /\ p.rows[j].start <= q[i].start
               /\ q[i].points \subseteq p.rows[j].points
  <2>1. PICK j \in DOMAIN p.rows : /\ p.rows[j].kind = q[i].kind
                                   /\ p.rows[j].start = q[i].start
                                   /\ q[i].points \subseteq p.rows[j].points
    BY DEF Waiting
  <2>2. i \in DOMAIN q
    BY DEF Open
  <2>3. q[i] \in RowsOf(T)
    BY <2>2, RowTyped
  <2> HIDE DEF p
  <2>4. MatchFor(p.rows, q[i]) = j
    BY <1>1, <2>1, <2>3, MatchIsIt
  <2>5. q[i].start \in Nat
    BY <2>3, RowStart
  <2>6. p.rows[j].start <= q[i].start
    BY <2>1, <2>5
  <2> QED BY <2>1, <2>4, <2>6
<1> QED BY <1>2 DEF Waiting, Meets

\* The restart of a worker whose rows waited: the row that is open is carried on or closed.
LEMMA ReconciledSound ==
  ASSUME NEW T \in SUBSET Sample, \A a, b \in T : a.ts = b.ts => a = b, NEW c \in Nat,
         \A n \in StampsOf(T) : n <= c, rows \in Seq(RowsOf(T)), Kepts(rows), Meets(T, rows, c),
         NEW p, p = Dry(T, c), NEW w, w = Reconciled(p), NEW m, m = [p.mem EXCEPT !.id = w.id]
  PROVE  Sound(w.rows, m) /\ Kepts(w.rows)
<1> DEFINE d == CarriedOn(p)
           q == Settled(p)
           u == [rows |-> q, id |-> d]
           l == p.mem.id
<1>0. DryOk(T, c, p) /\ Fits(T, p) /\ Linked(p.mem) /\ Sound(p.rows, p.mem)
  BY DryIsOk DEF DryOk
<1>1. /\ q \in Seq(RowsOf(T)) /\ DOMAIN q = DOMAIN rows
      /\ \A i \in DOMAIN rows : rows[i].status # "open" => q[i] = rows[i]
      /\ \A i \in DOMAIN rows : q[i].kind = rows[i].kind
      /\ \A i \in Open(rows) : Goes(p, i, q[i])
  BY <1>0, SettledDoes
<1>2. \/ /\ d = Null
         /\ l = Null \/ \A i \in Open(rows) : MatchFor(p.rows, rows[i]) # l
      \/ d \in Open(rows) /\ l # Null /\ MatchFor(p.rows, rows[d]) = l
  BY CarriedOnIs
<1>3. w = Carried(p, u)
  BY DEF Reconciled
<1>4. m.id = w.id /\ m.seg = p.mem.seg /\ m.points = p.mem.points
  <2>1. p.mem = [seg |-> p.mem.seg, id |-> p.mem.id, points |-> p.mem.points]
    BY <1>0, FitsParts
  <2> QED BY <2>1
<1> HIDE DEF d, q
<1>5. u.rows = q /\ u.id = d /\ u = [rows |-> u.rows, id |-> u.id]
  OBVIOUS
<1> HIDE DEF u
<1>6. ASSUME NEW i \in Open(rows)
      PROVE  \E j \in DOMAIN p.rows : /\ MatchFor(p.rows, rows[i]) = j
                                      /\ p.rows[j].kind = rows[i].kind
  BY <1>6 DEF Meets
<1>7. \A j \in DOMAIN p.rows : j # Null /\ (p.rows[j].status = "open" <=> j = l)
  <2>1. p.rows \in Seq(RowsOf(T))
    BY <1>0, FitsParts
  <2>2. \A j \in DOMAIN p.rows : j \in Nat
    BY <2>1, RowTyped
  <2> QED BY <1>0, <2>2, SessionsAssumption DEF Sound, Open
<1>8. l # Null => /\ p.rows[l].kind = m.seg.open.kind /\ p.rows[l].start = m.seg.open.start
                  /\ Stamps(p.mem.points) = Stamps(m.points)
  BY <1>0, <1>4 DEF Sound
\* No row is carried on: none stays open.
<1>9. CASE d = Null
  <2>1. \A i \in DOMAIN rows : q[i].status \notin {"open", "abandoned"}
    <3> TAKE i \in DOMAIN rows
    <3>1. CASE i \notin Open(rows)
      BY <1>1, <3>1 DEF Open, Kepts
    <3>2. CASE i \in Open(rows)
      <4>1. PICK j \in DOMAIN p.rows : MatchFor(p.rows, rows[i]) = j
        BY <1>6, <3>2
      <4>2. j # Null /\ j # l
        <5>1. Null \notin Open(rows)
          <6>1. \A k \in DOMAIN rows : k \in Nat
            BY RowTyped
          <6> QED BY <6>1, SessionsAssumption DEF Open
        <5>2. l = Null \/ MatchFor(p.rows, rows[i]) # l
          BY <1>2, <1>9, <3>2, <5>1
        <5> QED BY <1>7, <4>1, <5>2
      <4>3. p.rows[j].status # "open"
        BY <1>7, <4>2
      <4> QED BY <1>1, <3>2, <4>1, <4>2, <4>3 DEF Goes
    <3> QED BY <3>1, <3>2
  <2>2. Open(q) = {}
    BY <1>1, <2>1 DEF Open
  <2>3. CASE l = Null
    <3>1. w = u
      BY <1>3, <2>3 DEF Carried
    <3> QED BY <1>1, <1>4, <1>5, <1>9, <2>1, <2>2, <3>1 DEF Sound, Kepts
  <2>4. CASE l # Null
    <3>1. Carries(T, p, u, w)
      BY <1>0, <1>1, <1>3, <1>5, <1>9, <2>4, CarriedDoes
    <3>2. w.id # Null /\ w.id \notin DOMAIN q /\ DOMAIN w.rows = DOMAIN q \cup {w.id}
          /\ w.rows[w.id].status = "open" /\ \A i \in DOMAIN q : w.rows[i] = q[i]
      BY <1>5, <1>9, <2>2, <3>1 DEF Carries
    <3>3. Open(w.rows) = {w.id} /\ Kepts(w.rows)
      BY <1>1, <2>1, <3>2 DEF Open, Kepts
    <3>4. /\ w.rows[w.id].kind = p.rows[l].kind /\ w.rows[w.id].start = p.rows[l].start
          /\ w.rows[w.id].points = Stamps(p.mem.points)
      BY <1>5, <1>9, <3>1 DEF Carries
    <3> QED BY <1>4, <1>8, <2>4, <3>2, <3>3, <3>4 DEF Sound
  <2> QED BY <2>3, <2>4
\* The one row that is open is carried on.
<1>10. CASE d # Null
  <2>1. d \in Open(rows) /\ l # Null /\ MatchFor(p.rows, rows[d]) = l
    BY <1>2, <1>10
  <2>2. \A i \in DOMAIN rows : i # d => rows[i].status \notin {"open", "abandoned"} /\ q[i] = rows[i]
    BY <1>1, <2>1 DEF Meets, Open, Kepts
  <2>3. q[d] = rows[d]
    <3>1. Goes(p, d, q[d])
      BY <1>1, <2>1
    <3> QED BY <2>1, <3>1 DEF Goes
  <2>4. d \in Open(q) /\ rows[d].kind = p.rows[l].kind
    <3>1. PICK j \in DOMAIN p.rows : /\ MatchFor(p.rows, rows[d]) = j
                                     /\ p.rows[j].kind = rows[d].kind
      BY <1>6, <2>1
    <3> QED BY <1>1, <2>1, <2>3, <3>1 DEF Open
  <2>5. Carries(T, p, u, w)
    BY <1>0, <1>1, <1>3, <1>5, <2>1, <2>4, CarriedDoes
  <2>6. /\ w.id = d /\ DOMAIN w.rows = DOMAIN q /\ \A i \in DOMAIN q : i # d => w.rows[i] = q[i]
        /\ w.rows[d].status = "open" /\ w.rows[d].kind = q[d].kind
        /\ w.rows[d].start = p.rows[l].start /\ w.rows[d].points = Stamps(p.mem.points)
    BY <1>1, <1>5, <1>10, <2>4, <2>5 DEF Carries, Open
  <2>7. Open(w.rows) = {d} /\ Kepts(w.rows)
    BY <1>1, <2>1, <2>2, <2>6 DEF Open, Kepts
  <2> QED BY <1>4, <1>8, <1>10, <2>1, <2>3, <2>4, <2>6, <2>7 DEF Sound
<1> QED BY <1>9, <1>10

-----------------------------------------------------------------------------
(* Samples in the order of their stamps.                                   *)

LEMMA SamplesFinite ==
  ASSUME NEW S \in SUBSET Sample, \A a, b \in S : a.ts = b.ts => a = b,
         NEW c \in Nat, \A d \in S : d.ts <= c
  PROVE  IsFiniteSet(S)
<1> DEFINE f == [s \in S |-> s.ts]
<1>1. \A s \in S : s.ts \in 0..c
  BY SampleFields
<1>2. f \in Injection(S, 0..c)
  BY <1>1 DEF Injection, IsInjective
<1>3. IsFiniteSet(0..c)
  BY FS_Interval
<1> HIDE DEF f
<1> QED BY <1>2, <1>3, FS_Injection

\* q is the samples of S in order.
InOrder(q, S) ==
  /\ q \in Seq(S)
  /\ \A i, j \in DOMAIN q : i < j => q[i].ts < q[j].ts
  /\ \A s \in S : \E i \in DOMAIN q : q[i] = s

\* q begins with p.
Heads(p, q) == Len(p) <= Len(q) /\ \A i \in 1..Len(p) : p[i] = q[i]

LEMMA InOrderIs ==
  ASSUME NEW S \in SUBSET Sample, NEW q, InOrder(q, S)
  PROVE  /\ Len(q) \in Nat /\ DOMAIN q = 1..Len(q)
         /\ \A i \in DOMAIN q : q[i] \in S /\ q[i].ts \in Nat
         /\ \A i, j \in DOMAIN q : i < j <=> q[i].ts < q[j].ts
         /\ \A i, j \in DOMAIN q : q[i].ts = q[j].ts => i = j
<1>1. Len(q) \in Nat /\ DOMAIN q = 1..Len(q) /\ \A i \in DOMAIN q : q[i] \in S
  BY DEF InOrder
<1>2. \A i \in DOMAIN q : q[i].ts \in Nat
  BY <1>1, SampleFields
<1>3. \A i, j \in DOMAIN q : i < j => q[i].ts < q[j].ts
  BY DEF InOrder
<1>4. \A i, j \in DOMAIN q : i < j \/ j < i \/ i = j
  BY <1>1
<1>5. \A i, j \in DOMAIN q : q[i].ts < q[j].ts => i < j
  <2> TAKE i, j \in DOMAIN q
  <2>1. q[i].ts \in Nat /\ q[j].ts \in Nat /\ (j < i => q[j].ts < q[i].ts)
    BY <1>2, <1>3
  <2> QED BY <1>4, <2>1
<1>6. \A i, j \in DOMAIN q : q[i].ts = q[j].ts => i = j
  <2> TAKE i, j \in DOMAIN q
  <2>1. q[i].ts \in Nat /\ q[j].ts \in Nat /\ (j < i => q[j].ts < q[i].ts)
        /\ (i < j => q[i].ts < q[j].ts)
    BY <1>2, <1>3
  <2> QED BY <1>4, <2>1
<1> QED BY <1>1, <1>2, <1>3, <1>5, <1>6

\* More samples, all of them later, follow.
LEMMA OrderHeads ==
  ASSUME NEW U \in SUBSET Sample, NEW S \in SUBSET U,
         \A s \in S, u \in U \ S : s.ts < u.ts,
         NEW p, InOrder(p, S), NEW q, InOrder(q, U)
  PROVE  Heads(p, q)
<1> DEFINE K == {n \in Nat : \A i \in 1..Len(p) : i <= n => i \in DOMAIN q /\ p[i] = q[i]}
<1>0. S \in SUBSET Sample
  OBVIOUS
<1>1. /\ Len(p) \in Nat /\ DOMAIN p = 1..Len(p)
      /\ \A i \in DOMAIN p : p[i] \in S /\ p[i].ts \in Nat
      /\ \A i, j \in DOMAIN p : i < j <=> p[i].ts < p[j].ts
      /\ \A s \in S : \E i \in DOMAIN p : p[i] = s
  BY <1>0, InOrderIs DEF InOrder
<1>2. /\ Len(q) \in Nat /\ DOMAIN q = 1..Len(q)
      /\ \A i \in DOMAIN q : q[i] \in U /\ q[i].ts \in Nat
      /\ \A i, j \in DOMAIN q : i < j <=> q[i].ts < q[j].ts
      /\ \A s \in U : \E i \in DOMAIN q : q[i] = s
  BY InOrderIs DEF InOrder
<1>3. 0 \in K
  BY <1>1
<1>4. ASSUME NEW n \in Nat, n \in K PROVE n + 1 \in K
  <2> DEFINE i == n + 1
  <2>1. SUFFICES ASSUME i \in 1..Len(p) PROVE i \in DOMAIN q /\ p[i] = q[i]
    <3>1. n + 1 \in Nat /\ \A k \in 1..Len(p) : k <= n + 1 => k <= n \/ k = n + 1
      BY <1>1
    <3> QED BY <1>4, <3>1
  <2>2. \A k \in 1..Len(p) : k < i => k \in DOMAIN q /\ p[k] = q[k]
    BY <1>1, <1>4
  <2>3. p[i] \in S /\ p[i].ts \in Nat
    BY <1>1, <2>1
  <2>4. PICK j \in DOMAIN q : q[j] = p[i]
    BY <1>2, <2>3
  <2>5. i \in Nat /\ i >= 1 /\ j \in Nat /\ j >= 1 /\ j <= Len(q)
    BY <1>2
  <2> HIDE DEF i
  <2>6. ~(j < i)
    <3> SUFFICES ASSUME j < i PROVE FALSE
      OBVIOUS
    <3>1. j \in 1..Len(p)
      BY <1>1, <2>1, <2>5
    <3>2. p[j] = q[j] /\ p[j].ts < p[i].ts /\ p[j].ts \in Nat
      BY <1>1, <2>1, <2>2, <3>1
    <3> QED BY <2>3, <2>4, <3>2
  <2>7. i \in DOMAIN q
    BY <1>2, <2>5, <2>6
  <2>8. ~(i < j)
    <3> SUFFICES ASSUME i < j PROVE FALSE
      OBVIOUS
    <3>1. q[i] \in U /\ q[i].ts \in Nat /\ q[i].ts < p[i].ts
      BY <1>2, <2>4, <2>7
    <3>2. q[i] \in S
      BY <2>3, <3>1
    <3>3. PICK k \in DOMAIN p : p[k] = q[i]
      BY <1>1, <3>2
    <3>4. k < i /\ k \in 1..Len(p)
      BY <1>1, <2>1, <3>1, <3>3
    <3>5. k \in DOMAIN q /\ q[k] = q[i]
      BY <2>2, <3>3, <3>4
    <3>6. q[k].ts < q[i].ts
      BY <1>2, <2>7, <3>4, <3>5
    <3> QED BY <3>1, <3>5, <3>6
  <2>9. i = j
    BY <2>5, <2>6, <2>8
  <2> QED BY <2>4, <2>7, <2>9
<1>5. \A n \in Nat : n \in K
  BY <1>3, <1>4, NatSetInduction
<1>6. \A i \in 1..Len(p) : i \in DOMAIN q /\ p[i] = q[i]
  BY <1>1, <1>5
<1>7. Len(p) <= Len(q)
  BY <1>1, <1>2, <1>6
<1> QED BY <1>6, <1>7 DEF Heads

LEMMA OrderIsOne ==
  ASSUME NEW S \in SUBSET Sample, NEW p, InOrder(p, S), NEW q, InOrder(q, S)
  PROVE  p = q
<1>1. Heads(p, q) /\ Heads(q, p)
  BY OrderHeads
<1>2. p \in Seq(S) /\ q \in Seq(S) /\ Len(p) \in Nat /\ Len(q) \in Nat
  BY DEF InOrder
<1>3. Len(p) = Len(q)
  BY <1>1, <1>2 DEF Heads
<1> QED BY <1>1, <1>2, <1>3, SeqEqual DEF Heads

\* The samples at some stamps.
LEMMA SamplesInOrder ==
  ASSUME tape \in SUBSET Sample, \A a, b \in tape : a.ts = b.ts => a = b,
         NEW c \in Nat, \A d \in tape : d.ts <= c, NEW X
  PROVE  InOrder(SamplesAt(X), {s \in tape : s.ts \in X})
<1> DEFINE S == {s \in tape : s.ts \in X}
           Before(x) == {r \in S : r.ts < x.ts}
           n == Cardinality(S)
           q == SamplesAt(X)
           g == [s \in S |-> Cardinality(Before(s)) + 1]
<1>1. IsFiniteSet(S)
  BY SamplesFinite
<1>2. \A x \in S : Before(x) \in SUBSET S /\ x.ts \in Nat
  BY SampleFields
<1>3. n \in Nat
  BY <1>1, FS_CardinalityType
<1>4. \A x \in S : Cardinality(Before(x)) \in Nat /\ Cardinality(Before(x)) < n
  <2> TAKE x \in S
  <2> DEFINE B == Before(x)
  <2>1. B \in SUBSET S /\ x \notin B
    BY <1>2
  <2> HIDE DEF S, B
  <2>2. IsFiniteSet(B) /\ Cardinality(B) <= n /\ (n = Cardinality(B) => S = B)
    BY <1>1, <2>1, FS_Subset
  <2>3. Cardinality(B) \in Nat
    BY <2>2, FS_CardinalityType
  <2> HIDE DEF n
  <2> QED BY <1>3, <2>1, <2>2, <2>3 DEF B
<1>5. ASSUME NEW x \in S, NEW y \in S, x.ts < y.ts
      PROVE  Cardinality(Before(x)) < Cardinality(Before(y))
  <2> DEFINE A == Before(x)
             B == Before(y)
  <2>1. A \in SUBSET B
    BY <1>2, <1>5
  <2>2. x \in B /\ x \notin A
    BY <1>2, <1>5
  <2>3. B \in SUBSET S
    BY <1>2
  <2> HIDE DEF A, B, S
  <2>4. IsFiniteSet(B)
    BY <1>1, <2>3, FS_Subset
  <2>5. Cardinality(A) <= Cardinality(B) /\ (Cardinality(B) = Cardinality(A) => B = A)
    BY <2>1, <2>4, FS_Subset
  <2>6. Cardinality(A) \in Nat /\ Cardinality(B) \in Nat
    BY <1>4 DEF A, B
  <2> QED BY <2>2, <2>5, <2>6 DEF A, B
<1> HIDE DEF Before, n
<1>6. \A x, y \in S : x = y \/ x.ts < y.ts \/ y.ts < x.ts
  BY <1>2
<1>7. g \in Injection(S, 1..n)
  <2>1. \A x \in S : g[x] = Cardinality(Before(x)) + 1
    OBVIOUS
  <2>2. \A x \in S : g[x] \in 1..n
    BY <1>3, <1>4, <2>1
  <2>3. \A x, y \in S : x.ts < y.ts => g[x] # g[y]
    <3> TAKE x, y \in S
    <3>1. x.ts < y.ts => Cardinality(Before(x)) < Cardinality(Before(y))
      BY <1>5
    <3>2. Cardinality(Before(x)) \in Nat /\ Cardinality(Before(y)) \in Nat
      BY <1>4
    <3> QED BY <2>1, <3>1, <3>2
  <2>4. g \in [S -> 1..n]
    BY <2>2
  <2> HIDE DEF g, S
  <2>5. \A x, y \in S : g[x] = g[y] => x = y
    BY <1>6, <2>3
  <2> QED BY <2>4, <2>5 DEF Injection, IsInjective
<1>8. g \in Surjection(S, 1..n)
  <2>1. IsFiniteSet(1..n) /\ Cardinality(1..n) = n
    <3>1. IsFiniteSet(1..n) /\ Cardinality(1..n) = IF 1 > n THEN 0 ELSE n - 1 + 1
      BY <1>3, FS_Interval
    <3> QED BY <1>3, <3>1
  <2> HIDE DEF g, S
  <2> QED BY <1>7, <2>1, FS_Injection DEF n
<1>9. ASSUME NEW i \in 1..n PROVE \E s \in S : Cardinality(Before(s)) = i - 1
  <2>1. PICK s \in S : g[s] = i
    BY <1>8 DEF Surjection
  <2>2. Cardinality(Before(s)) + 1 = i /\ Cardinality(Before(s)) \in Nat
    BY <1>4, <2>1
  <2> QED BY <2>2
<1>10. q = [i \in 1..n |-> CHOOSE s \in S : Cardinality(Before(s)) = i - 1]
  BY DEF SamplesAt, Before, n
<1> HIDE DEF S, q
<1>11. \A i \in 1..n : q[i] \in S /\ Cardinality(Before(q[i])) = i - 1
  BY <1>9, <1>10
<1>12. q \in Seq(S) /\ DOMAIN q = 1..n
  <2>1. q \in [1..n -> S]
    BY <1>10, <1>11
  <2>2. q \in Seq(S)
    BY <1>3, <2>1, SeqDef
  <2> QED BY <1>10, <2>2
<1>13. \A i, j \in 1..n : i < j => q[i].ts < q[j].ts
  <2> TAKE i, j \in 1..n
  <2>1. q[i] \in S /\ q[j] \in S /\ Cardinality(Before(q[i])) = i - 1 /\ Cardinality(Before(q[j])) = j - 1
    BY <1>11
  <2>2. q[j].ts < q[i].ts => j - 1 < i - 1
    <3>1. q[j].ts < q[i].ts => Cardinality(Before(q[j])) < Cardinality(Before(q[i]))
      BY <1>5, <2>1
    <3> QED BY <2>1, <3>1
  <2>3. q[i] = q[j] => i - 1 = j - 1
    BY <2>1
  <2>4. i < j => ~(j - 1 < i - 1) /\ i - 1 # j - 1
    BY <1>3
  <2>5. q[i] = q[j] \/ q[i].ts < q[j].ts \/ q[j].ts < q[i].ts
    BY <1>6, <2>1
  <2> QED BY <2>2, <2>3, <2>4, <2>5
<1>14. \A s \in S : \E i \in 1..n : q[i] = s
  <2> TAKE s \in S
  <2> DEFINE i == Cardinality(Before(s)) + 1
  <2>1. i \in 1..n /\ i - 1 = Cardinality(Before(s))
    BY <1>3, <1>4
  <2> HIDE DEF i
  <2>2. q[i] \in S /\ Cardinality(Before(q[i])) = Cardinality(Before(s))
    BY <1>11, <2>1
  <2>3. ~(q[i].ts < s.ts) /\ ~(s.ts < q[i].ts)
    <3>1. Cardinality(Before(s)) \in Nat /\ Cardinality(Before(q[i])) \in Nat
      BY <1>4, <2>2
    <3>2. q[i].ts < s.ts => Cardinality(Before(q[i])) < Cardinality(Before(s))
      BY <1>5, <2>2
    <3>3. s.ts < q[i].ts => Cardinality(Before(s)) < Cardinality(Before(q[i]))
      BY <1>5, <2>2
    <3> QED BY <2>2, <3>1, <3>2, <3>3
  <2>4. q[i] = s
    BY <1>6, <2>2, <2>3
  <2> QED BY <2>1, <2>4
<1> QED BY <1>12, <1>13, <1>14 DEF InOrder, S, q

-----------------------------------------------------------------------------
(* Why a segment goes on, ends or begins.                                  *)

Wide(st, s) == Since(s, st.lastTs) > Gap
Parked(o, s) == o.still # Null /\ s.ts - o.still >= DriveEnd
TooLong(o, s) == o.paused # Null /\ s.ts - o.paused.ts >= Resume

\* A segment of kind k begins at sample s.
Begin(k, s) ==
  \/ k = "charge" /\ Charging(s)
  \/ k = "drive" /\ ~Charging(s) /\ Motion(s, Null) # "stationary"

\* Segment o is n after sample s: a drive goes on, a charge goes on, a charge pauses.
DriveOn(o, s, n) ==
  /\ o.kind = "drive" /\ ~Charging(s) /\ ~Parked(o, s) /\ n.last = s
  /\ n.still = (IF Motion(s, o.last) = "moving" \/ InGear(s) THEN Null
                ELSE IF Motion(s, o.last) = "stationary" /\ o.still = Null THEN s.ts ELSE o.still)
ChargeOn(o, s, n) ==
  /\ o.kind = "charge" /\ Charging(s) /\ ~TooLong(o, s)
  /\ n.last = s /\ n.paused = Null
ChargePauses(o, s, n) ==
  /\ o.kind = "charge" /\ ~Charging(s) /\ s.charge # "over" /\ ~TooLong(o, s)
  /\ n.last = o.last /\ n.paused = (IF o.paused = Null THEN s ELSE o.paused)

\* Sample s ends the segment of st, at sample e.
Cause(st, s, e) ==
  LET o == st.open IN
  \/ /\ Wide(st, s)
     /\ e = (IF o.kind = "charge" /\ o.paused # Null THEN o.paused ELSE o.last)
  \/ ~Wide(st, s) /\ o.kind = "drive" /\ Charging(s) /\ e = s
  \/ ~Wide(st, s) /\ o.kind = "drive" /\ ~Charging(s) /\ Parked(o, s) /\ e = o.last
  \/ ~Wide(st, s) /\ o.kind = "charge" /\ TooLong(o, s) /\ e = o.paused
  \/ /\ ~Wide(st, s) /\ o.kind = "charge" /\ ~Charging(s)
     /\ s.charge = "over" \/ Motion(s, o.last) = "moving"
     /\ e = (IF o.paused = Null THEN s ELSE o.paused)

\* A charge that is open.
LEMMA ChargeWhy ==
  ASSUME NEW T \in SUBSET Sample, NEW st \in TracksOf(T), NEW o \in SegmentsOf(T), o = st.open,
         o.kind = "charge", NEW s \in T, ~Wide(st, s), NEW w, w = InCharge(o, s)
  PROVE  \/ w.open # Null /\ w.events = <<Point(s)>> /\ ChargeOn(o, s, w.open)
         \/ w.open # Null /\ w.events = <<>> /\ ChargePauses(o, s, w.open)
         \/ w.open = Null /\ \E e \in T : w.events = <<End(o.kind, e)>> /\ Cause(st, s, e)
<1> DEFINE stopped == IF o.paused = Null THEN s ELSE o.paused
           paused == [o EXCEPT !.paused = stopped]
           on == [o EXCEPT !.last = s, !.paused = Null]
<1>1. stopped \in T /\ stopped # Null
  BY SampleFields DEF SegmentsOf
<1>2. /\ paused \in SegmentsOf(T) /\ paused.kind = o.kind /\ paused.last = o.last
      /\ paused.paused = stopped
  BY <1>1 DEF SegmentsOf
<1>3. on \in SegmentsOf(T) /\ on.last = s /\ on.paused = Null
  BY DEF SegmentsOf
<1>4. EndOf(paused) = End(o.kind, stopped)
  BY <1>1, <1>2 DEF EndOf
<1>5. TooLong(o, s) => EndOf(o) = End(o.kind, o.paused) /\ o.paused \in T
  BY DEF EndOf, TooLong, SegmentsOf
<1>6. Null \notin SegmentsOf(T)
  BY SegmentsNotNull
<1>7. CASE Charging(s) /\ TooLong(o, s)
  <2>1. w = [open |-> Null, events |-> <<EndOf(o)>>]
    BY <1>7 DEF InCharge, TooLong
  <2>2. Cause(st, s, o.paused)
    BY <1>7 DEF Cause
  <2> QED BY <1>5, <1>7, <2>1, <2>2
<1>8. CASE Charging(s) /\ ~TooLong(o, s)
  <2>1. w = [open |-> on, events |-> <<Point(s)>>]
    BY <1>8 DEF InCharge, TooLong
  <2> HIDE DEF on
  <2> QED BY <1>3, <1>6, <1>8, <2>1 DEF ChargeOn
<1>9. CASE ~Charging(s) /\ (s.charge = "over" \/ TooLong(o, s) \/ Motion(s, o.last) = "moving")
  <2>1. w = [open |-> Null, events |-> <<EndOf(paused)>>]
    BY <1>9 DEF InCharge, TooLong
  <2>2. Cause(st, s, stopped)
    <3>1. CASE TooLong(o, s)
      BY <3>1 DEF Cause, TooLong
    <3>2. CASE ~TooLong(o, s)
      BY <1>9, <3>2 DEF Cause
    <3> QED BY <3>1, <3>2
  <2> HIDE DEF paused, stopped
  <2> QED BY <1>1, <1>4, <2>1, <2>2
<1>10. CASE ~Charging(s) /\ ~(s.charge = "over" \/ TooLong(o, s) \/ Motion(s, o.last) = "moving")
  <2>1. w = [open |-> paused, events |-> <<>>]
    BY <1>10 DEF InCharge, TooLong
  <2>2. ChargePauses(o, s, paused)
    <3> HIDE DEF paused
    <3> QED BY <1>2, <1>10 DEF ChargePauses
  <2> HIDE DEF paused
  <2> QED BY <1>2, <1>6, <2>1, <2>2
<1> QED BY <1>7, <1>8, <1>9, <1>10

\* A drive that is open.
LEMMA DriveWhy ==
  ASSUME NEW T \in SUBSET Sample, NEW st \in TracksOf(T), NEW o \in SegmentsOf(T), o = st.open,
         o.kind = "drive", NEW s \in T, ~Wide(st, s), NEW w, w = InDrive(o, s)
  PROVE  \/ w.open # Null /\ w.events = <<Point(s)>> /\ DriveOn(o, s, w.open)
         \/ w.open = Null /\ \E e \in T : w.events = <<End(o.kind, e)>> /\ Cause(st, s, e)
<1> DEFINE m == Motion(s, o.last)
           still == IF m = "moving" \/ InGear(s) THEN Null
                    ELSE IF m = "stationary" /\ o.still = Null THEN s.ts ELSE o.still
           on == [o EXCEPT !.last = s, !.still = still]
<1>1. still \in Nat \cup {Null} /\ o.last \in T
  BY SampleFields DEF SegmentsOf
<1>2. CASE Charging(s)
  <2>1. w = [open |-> Null, events |-> <<End("drive", s)>>]
    BY <1>2 DEF InDrive
  <2>2. Cause(st, s, s)
    BY <1>2 DEF Cause
  <2> QED BY <2>1, <2>2
<1>3. CASE ~Charging(s) /\ Parked(o, s)
  <2>1. w = [open |-> Null, events |-> <<EndOf(o)>>]
    BY <1>3 DEF InDrive, Parked
  <2>2. EndOf(o) = End(o.kind, o.last)
    BY DEF EndOf
  <2>3. Cause(st, s, o.last)
    BY <1>3 DEF Cause
  <2> QED BY <1>1, <2>1, <2>2, <2>3
<1>4. CASE ~Charging(s) /\ ~Parked(o, s)
  <2>1. w = [open |-> on, events |-> <<Point(s)>>]
    BY <1>4 DEF InDrive, Parked
  <2>2. on \in SegmentsOf(T) /\ on.last = s /\ on.still = still
    <3> HIDE DEF still
    <3> QED BY <1>1 DEF SegmentsOf
  <2> HIDE DEF on
  <2>3. DriveOn(o, s, on)
    BY <1>4, <2>2 DEF DriveOn
  <2> QED BY <2>1, <2>2, <2>3, SegmentsNotNull
<1> QED BY <1>2, <1>3, <1>4

LEMMA EmptySays ==
  ASSUME NEW st, NEW s, NEW e, NEW k, Step(st, s).events = <<>>
  PROVE  /\ ~SaysPoint(st, s) /\ ~SaysEnd(st, s, e) /\ ~SaysStart(st, s, k)
         /\ ~SaysTurn(st, s, e, k)
<1> DEFINE a == <<End(st.open.kind, e)>>
           b == <<Start(k, s), Point(s)>>
           f == <<End(st.open.kind, e), Start(k, s), Point(s)>>
           p == <<Point(s)>>
<1>1. Len(a) = 1 /\ Len(b) = 2 /\ Len(f) = 3 /\ Len(p) = 1 /\ Len(<<>>) = 0
  OBVIOUS
<1>2. /\ SaysPoint(st, s) => Step(st, s).events = p
      /\ SaysEnd(st, s, e) => Step(st, s).events = a
      /\ SaysStart(st, s, k) => Step(st, s).events = b
      /\ SaysTurn(st, s, e, k) => Step(st, s).events = f
  BY DEF SaysPoint, SaysEnd, SaysStart, SaysTurn
<1> HIDE DEF a, b, f, p
<1> QED BY <1>1, <1>2

\* What a step says, and why.
Reasoned(st, s) ==
  LET o == st.open
      n == Step(st, s).state.open
  IN /\ SaysNothing(st, s) /\ o # Null => ~Wide(st, s) /\ ChargePauses(o, s, n)
     /\ SaysPoint(st, s) => ~Wide(st, s) /\ (DriveOn(o, s, n) \/ ChargeOn(o, s, n))
     /\ \A e : SaysEnd(st, s, e) => Cause(st, s, e)
     /\ \A e, k : SaysTurn(st, s, e, k) => Cause(st, s, e) /\ Begin(k, s)
     /\ \A k : SaysStart(st, s, k) => Begin(k, s)

LEMMA StepWhy ==
  ASSUME NEW T \in SUBSET Sample, NEW st \in TracksOf(T), NEW s \in T,
         ~(st.lastTs # Null /\ s.ts < st.lastTs)
  PROVE  Reasoned(st, s)
<1> DEFINE o == st.open
           hole == o # Null /\ Wide(st, s)
           kept == IF hole THEN Null ELSE o
           went == IF kept = Null
                     THEN [open |-> Null, events |-> IF hole THEN <<EndOf(o)>> ELSE <<>>]
                   ELSE IF kept.kind = "charge" THEN InCharge(kept, s) ELSE InDrive(kept, s)
           kind == IF Charging(s) THEN "charge"
                   ELSE IF Motion(s, IF kept = Null THEN Null ELSE kept.last) = "moving"
                          THEN "drive" ELSE Null
           opens == went.open = Null /\ kind # Null
           n == Step(st, s).state.open
           says == Step(st, s).events
<1>1. /\ Step(st, s).state = [open |-> IF opens THEN Opened(kind, s) ELSE went.open, lastTs |-> s.ts]
      /\ says = went.events \o (IF opens THEN <<Start(kind, s), Point(s)>> ELSE <<>>)
  BY DEF Step, Wide
<1>2. kind # Null => Begin(kind, s)
  BY DEF Begin, Motion
<1>3. o = Null \/ o \in SegmentsOf(T)
  BY DEF TracksOf
<1>4. Null \notin SegmentsOf(T)
  BY SegmentsNotNull
<1>5. \/ o = Null /\ went.open = Null /\ went.events = <<>>
      \/ /\ o # Null /\ went.open = Null
         /\ \E e \in T : went.events = <<End(o.kind, e)>> /\ Cause(st, s, e)
      \/ /\ o # Null /\ went.open # Null /\ went.events = <<Point(s)>> /\ ~Wide(st, s)
         /\ DriveOn(o, s, went.open) \/ ChargeOn(o, s, went.open)
      \/ /\ o # Null /\ went.open # Null /\ went.events = <<>> /\ ~Wide(st, s)
         /\ ChargePauses(o, s, went.open)
  <2>1. CASE o = Null
    BY <2>1
  <2>2. CASE hole
    <3> DEFINE e == IF o.kind = "charge" /\ o.paused # Null THEN o.paused ELSE o.last
    <3>1. went.open = Null /\ went.events = <<EndOf(o)>> /\ o \in SegmentsOf(T)
      BY <1>3, <2>2
    <3>2. EndOf(o) = End(o.kind, e) /\ e \in T
      BY <3>1 DEF EndOf, SegmentsOf
    <3>3. Cause(st, s, e)
      BY <2>2 DEF Cause
    <3> QED BY <2>2, <3>1, <3>2, <3>3
  <2>3. CASE o # Null /\ ~hole
    <3>1. kept = o /\ o \in SegmentsOf(T) /\ ~Wide(st, s)
      BY <1>3, <2>3
    <3>2. CASE o.kind = "charge"
      <4>1. went = InCharge(o, s)
        BY <2>3, <3>1, <3>2
      <4> HIDE DEF went, kind, opens
      <4>2. \/ /\ went.open # Null /\ went.events = <<Point(s)>>
               /\ ChargeOn(o, s, went.open)
            \/ /\ went.open # Null /\ went.events = <<>>
               /\ ChargePauses(o, s, went.open)
            \/ /\ went.open = Null
               /\ \E e \in T : went.events = <<End(o.kind, e)>> /\ Cause(st, s, e)
        BY <3>1, <3>2, <4>1, ChargeWhy
      <4> HIDE DEF o
      <4> QED BY <2>3, <3>1, <4>2
    <3>3. CASE o.kind # "charge"
      <4>1. went = InDrive(o, s) /\ o.kind = "drive"
        BY <2>3, <3>1, <3>3 DEF SegmentsOf
      <4> HIDE DEF went, kind, opens
      <4> QED BY <2>3, <3>1, <4>1, DriveWhy
    <3> QED BY <3>2, <3>3
  <2> QED BY <2>1, <2>2, <2>3
<1>6. opens => went.open = Null /\ kind # Null /\ n = Opened(kind, s)
  <2>1. opens => went.open = Null /\ kind # Null
    OBVIOUS
  <2> HIDE DEF went, kind, opens
  <2> QED BY <1>1, <2>1
<1>8. opens => says = went.events \o <<Start(kind, s), Point(s)>>
  BY <1>1
<1> HIDE DEF hole, kept, went, kind, opens
<1>7. ~opens => n = went.open /\ says = went.events \o <<>>
  BY <1>1
<1>9. \/ SaysNothing(st, s) /\ o = Null
      \/ SaysNothing(st, s) /\ o # Null /\ ~Wide(st, s) /\ ChargePauses(o, s, n)
      \/ SaysPoint(st, s) /\ ~Wide(st, s) /\ (DriveOn(o, s, n) \/ ChargeOn(o, s, n))
      \/ \E e : SaysEnd(st, s, e) /\ Cause(st, s, e)
      \/ \E e, k : SaysTurn(st, s, e, k) /\ Cause(st, s, e) /\ Begin(k, s)
      \/ \E k : SaysStart(st, s, k) /\ Begin(k, s)
  <2>0. /\ SaysNothing(st, s) \/ SaysPoint(st, s) \/ (\E e \in T : SaysEnd(st, s, e))
           \/ (\E k \in {"drive", "charge"} : SaysStart(st, s, k))
           \/ (\E e \in T, k \in {"drive", "charge"} : SaysTurn(st, s, e, k))
    BY NewerSays
  <2>1. CASE opens
    <3>1. CASE o = Null
      <4>1. says = <<Start(kind, s), Point(s)>>
        BY <1>4, <1>5, <1>6, <1>8, <2>1, <3>1
      <4>2. SaysStart(st, s, kind)
        BY <1>6, <2>1, <3>1, <4>1 DEF SaysStart
      <4> QED BY <1>2, <1>6, <2>1, <4>2
    <3>2. CASE o # Null
      <4>1. PICK e \in T : went.events = <<End(o.kind, e)>> /\ Cause(st, s, e)
        BY <1>4, <1>5, <1>6, <2>1, <3>2
      <4>2. says = <<End(o.kind, e), Start(kind, s), Point(s)>>
        BY <1>8, <2>1, <4>1, OneAndTwo
      <4>3. SaysTurn(st, s, e, kind)
        BY <1>6, <2>1, <3>2, <4>2 DEF SaysTurn
      <4> QED BY <1>2, <1>6, <2>1, <4>1, <4>3
    <3> QED BY <3>1, <3>2
  <2>2. CASE ~opens
    <3>0. /\ went.events = <<>> => says = <<>>
          /\ went.events = <<Point(s)>> => says = <<Point(s)>>
          /\ \A e : went.events = <<End(o.kind, e)>> => says = <<End(o.kind, e)>>
      <4>1. <<>> \o <<>> = <<>> /\ <<Point(s)>> \o <<>> = <<Point(s)>>
        OBVIOUS
      <4>2. \A e : <<End(o.kind, e)>> \o <<>> = <<End(o.kind, e)>>
        OBVIOUS
      <4> QED BY <1>7, <2>2, <4>1, <4>2
    <3>1. CASE o = Null
      <4>1. says = <<>>
        BY <1>5, <2>2, <3>0, <3>1
      <4>3. SaysNothing(st, s)
        BY <2>0, <4>1, EmptySays
      <4> QED BY <3>1, <4>3
    <3>2. CASE o # Null /\ went.open = Null
      <4>1. PICK e \in T : went.events = <<End(o.kind, e)>> /\ Cause(st, s, e)
        BY <1>5, <3>2
      <4>2. SaysEnd(st, s, e)
        BY <1>7, <2>2, <3>0, <3>2, <4>1 DEF SaysEnd
      <4> QED BY <4>1, <4>2
    <3>3. CASE o # Null /\ went.open # Null /\ went.events = <<Point(s)>>
      <4>1. says = <<Point(s)>> /\ Len(says) = 1 /\ Len(<<>>) = 0
        BY <3>0, <3>3
      <4>2. says[1] = Point(s) /\ \A e : <<End(o.kind, e)>>[1] = End(o.kind, e)
        BY <4>1
      <4>3. \A e : End(o.kind, e) # Point(s)
        <5>1. \A e : End(o.kind, e).type = "end" /\ Point(s).type = "point"
          BY DEF End, Point
        <5> QED BY <5>1
      <4>4. \A x, y, e, k : Len(<<x, y>>) = 2 /\ Len(<<x, y, e>>) = 3
        OBVIOUS
      <4>5. SaysPoint(st, s)
        BY <2>0, <4>1, <4>2, <4>3, <4>4 DEF SaysNothing, SaysEnd, SaysStart, SaysTurn
      <4>6. ~Wide(st, s) /\ (DriveOn(o, s, n) \/ ChargeOn(o, s, n))
        <5>1. <<Point(s)>> # <<>>
          OBVIOUS
        <5> QED BY <1>5, <1>7, <2>2, <3>3, <5>1
      <4> QED BY <4>5, <4>6
    <3>4. CASE o # Null /\ went.open # Null /\ went.events = <<>>
      <4>1. says = <<>> /\ n = went.open
        BY <1>7, <2>2, <3>0, <3>4
      <4>3. SaysNothing(st, s)
        BY <2>0, <4>1, EmptySays
      <4>4. ~Wide(st, s) /\ ChargePauses(o, s, n)
        <5>1. <<Point(s)>> # <<>>
          OBVIOUS
        <5> QED BY <1>5, <3>4, <4>1, <5>1
      <4> QED BY <3>4, <4>3, <4>4
    <3> QED BY <1>5, <3>1, <3>2, <3>3, <3>4
  <2> QED BY <2>1, <2>2
<1> HIDE DEF o, n, says
<1>10. CASE SaysNothing(st, s) /\ o = Null
  BY <1>10, EventsApart, StartsApart DEF Reasoned, o, n
<1>11. CASE SaysNothing(st, s) /\ o # Null /\ ~Wide(st, s) /\ ChargePauses(o, s, n)
  BY <1>11, EventsApart, StartsApart DEF Reasoned, o, n
<1>12. CASE SaysPoint(st, s) /\ ~Wide(st, s) /\ (DriveOn(o, s, n) \/ ChargeOn(o, s, n))
  BY <1>12, EventsApart, StartsApart DEF Reasoned, o, n
<1>13. CASE \E e : SaysEnd(st, s, e) /\ Cause(st, s, e)
  BY <1>13, EventsApart, StartsApart DEF Reasoned, o, n
<1>14. CASE \E e, k : SaysTurn(st, s, e, k) /\ Cause(st, s, e) /\ Begin(k, s)
  BY <1>14, EventsApart, StartsApart DEF Reasoned, o, n
<1>15. CASE \E k : SaysStart(st, s, k) /\ Begin(k, s)
  BY <1>15, EventsApart, StartsApart DEF Reasoned, o, n
<1> QED BY <1>9, <1>10, <1>11, <1>12, <1>13, <1>14, <1>15

-----------------------------------------------------------------------------
(* What is so of the samples of a session while it runs, and at its end.   *)

\* Samples of rising stamps.
Rising(q) == q \in Seq(Sample) /\ \A i, j \in DOMAIN q : i < j => q[i].ts < q[j].ts

\* From sample a on the car stands, as far as q goes.
Quiet(q, a) ==
  /\ Motion(q[a], IF a = 1 THEN Null ELSE q[a - 1]) = "stationary"
  /\ \A k \in a..Len(q) : ~Moves(q, k) /\ ~InGear(q[k])

\* Of a drive o with samples q so far, and of a charge.
DrivesSoFar(o, q) ==
  /\ o.last = q[Len(q)]
  /\ \A k \in DOMAIN q : ~Charging(q[k])
  /\ \A a, b \in DOMAIN q : ~Stood(q, a, b)
  /\ \A a \in DOMAIN q : Quiet(q, a) => o.still # Null /\ o.still <= q[a].ts
  /\ o.still # Null => \E a \in DOMAIN q : Quiet(q, a) /\ q[a].ts = o.still
ChargesSoFar(o, q) ==
  /\ \A k \in DOMAIN q : q[k].charge # "over"
  /\ \A a, b \in DOMAIN q : ~Paused(q, a, b)
  /\ \E j \in DOMAIN q :
       /\ o.last = q[j] /\ Charging(q[j])
       /\ \A k \in DOMAIN q : k > j => ~Charging(q[k])
       /\ o.paused = IF j = Len(q) THEN Null ELSE q[j + 1]

SoFar(o, q) ==
  /\ Len(q) >= 1 /\ ~Hole(q)
  /\ o.kind = "drive" => DrivesSoFar(o, q)
  /\ o.kind = "charge" => ChargesSoFar(o, q)

\* Of the samples of a session that has ended: it runs through nothing that would have ended it.
Whole(kind, q) ==
  LET inside == 1..Len(q) - 1 IN
  /\ ~Hole(q)
  /\ kind = "drive" =>
       /\ \A k \in inside : ~Charging(q[k])
       /\ \A a, b \in inside : ~Stood(q, a, b)
       /\ \A a \in inside : Stood(q, a, Len(q)) => Charging(q[Len(q)])
  /\ kind = "charge" =>
       /\ \A k \in inside : q[k].charge # "over"
       /\ \A a, b \in DOMAIN q : ~Paused(q, a, b)

\* Of the samples from its start to that of another: there is a reason.
Reason(kind, q) ==
  \/ Hole(q)
  \/ kind = "drive" /\ \E k \in DOMAIN q : Charging(q[k])
  \/ kind = "drive" /\ \E a, b \in DOMAIN q : Stood(q, a, b)
  \/ kind = "charge" /\ \E a, b \in DOMAIN q : Paused(q, a, b)
  \/ kind = "charge" /\ \E h, k \in DOMAIN q :
                          /\ h <= k /\ ~Charging(q[k])
                          /\ q[k].charge = "over" \/ Motion(q[k], q[h]) = "moving"

\* What is so of the samples that q begins with.
LEMMA HeadSame ==
  ASSUME NEW p, NEW q, Len(p) \in Nat, Len(q) \in Nat, Heads(p, q)
  PROVE  /\ Hole(p) => Hole(q)
         /\ \A k \in 1..Len(p) : Moves(p, k) <=> Moves(q, k)
         /\ \A a, b \in 1..Len(p) : Stood(p, a, b) <=> Stood(q, a, b)
         /\ \A a, b \in 1..Len(p) : Paused(p, a, b) <=> Paused(q, a, b)
<1>1. \A k \in 1..Len(p) : p[k] = q[k] /\ k \in 1..Len(q) /\ (k # 1 => k - 1 \in 1..Len(p))
  BY DEF Heads
<1>2. \A k \in 1..Len(p) : (IF k = 1 THEN Null ELSE p[k - 1]) = (IF k = 1 THEN Null ELSE q[k - 1])
  BY <1>1
<1>3. \A k \in 1..Len(p) : Moves(p, k) <=> Moves(q, k)
  BY <1>1, <1>2 DEF Moves
<1>4. \A a, b \in 1..Len(p) : \A k \in a..b - 1 : k \in 1..Len(p)
  OBVIOUS
<1>5. \A a, b \in 1..Len(p) : Stood(p, a, b) <=> Stood(q, a, b)
  <2> TAKE a, b \in 1..Len(p)
  <2>1. p[a] = q[a] /\ p[b] = q[b]
        /\ (IF a = 1 THEN Null ELSE p[a - 1]) = (IF a = 1 THEN Null ELSE q[a - 1])
    BY <1>1, <1>2
  <2>2. \A k \in a..b - 1 : p[k] = q[k] /\ (Moves(p, k) <=> Moves(q, k))
    BY <1>1, <1>3, <1>4
  <2> QED BY <2>1, <2>2 DEF Stood
<1>6. \A a, b \in 1..Len(p) : Paused(p, a, b) <=> Paused(q, a, b)
  <2> TAKE a, b \in 1..Len(p)
  <2>1. p[a] = q[a] /\ p[b] = q[b] /\ \A k \in a..b - 1 : p[k] = q[k]
    BY <1>1, <1>4
  <2> QED BY <2>1 DEF Paused
<1>7. Hole(p) => Hole(q)
  <2> SUFFICES ASSUME NEW k \in 2..Len(p), p[k].ts - p[k - 1].ts > Gap PROVE Hole(q)
    BY DEF Hole
  <2>1. k \in 1..Len(p) /\ k - 1 \in 1..Len(p) /\ k \in 2..Len(q)
    BY DEF Heads
  <2>2. p[k] = q[k] /\ p[k - 1] = q[k - 1]
    BY <1>1, <2>1
  <2> QED BY <2>1, <2>2 DEF Hole
<1> QED BY <1>3, <1>5, <1>6, <1>7

LEMMA ReasonStays ==
  ASSUME NEW kind, NEW p \in Seq(Sample), NEW q \in Seq(Sample), Heads(p, q), Reason(kind, p)
  PROVE  Reason(kind, q)
<1>1. Len(p) \in Nat /\ Len(q) \in Nat /\ DOMAIN p = 1..Len(p) /\ DOMAIN q = 1..Len(q)
  OBVIOUS
<1>2. \A k \in DOMAIN p : k \in DOMAIN q /\ p[k] = q[k]
  BY <1>1 DEF Heads
<1>3. /\ Hole(p) => Hole(q)
      /\ \A a, b \in DOMAIN p : Stood(p, a, b) => Stood(q, a, b)
      /\ \A a, b \in DOMAIN p : Paused(p, a, b) => Paused(q, a, b)
  BY <1>1, HeadSame
<1> QED BY <1>2, <1>3 DEF Reason

\* The next sample.
OneMore(q, s, r) ==
  /\ Rising(r) /\ Len(q) \in Nat /\ Len(r) = Len(q) + 1 /\ Heads(q, r)
  /\ DOMAIN q = 1..Len(q) /\ DOMAIN r = 1..Len(q) + 1
  /\ r[Len(q) + 1] = s /\ \A k \in 1..Len(q) : r[k] = q[k]
  /\ \A k \in DOMAIN r : r[k] \in Sample /\ r[k].ts \in Nat

LEMMA NextSample ==
  ASSUME NEW q, Rising(q), NEW s \in Sample, Len(q) >= 1, q[Len(q)].ts < s.ts,
         NEW r, r = Append(q, s)
  PROVE  OneMore(q, s, r)
<1>1. /\ q \in Seq(Sample) /\ Len(q) \in Nat /\ DOMAIN q = 1..Len(q)
      /\ \A i, j \in DOMAIN q : i < j => q[i].ts < q[j].ts
  BY DEF Rising
<1>2. /\ r \in Seq(Sample) /\ Len(r) = Len(q) + 1 /\ DOMAIN r = 1..Len(q) + 1
      /\ r[Len(q) + 1] = s /\ \A k \in 1..Len(q) : r[k] = q[k]
  BY <1>1
<1>3. \A k \in DOMAIN r : r[k] \in Sample /\ r[k].ts \in Nat
  BY <1>2, SampleFields
<1>4. ASSUME NEW i \in DOMAIN r, NEW j \in DOMAIN r, i < j PROVE r[i].ts < r[j].ts
  <2>1. CASE j # Len(q) + 1
    <3>1. i \in 1..Len(q) /\ j \in 1..Len(q)
      BY <1>1, <1>2, <1>4, <2>1
    <3> QED BY <1>1, <1>2, <1>4, <3>1
  <2>2. CASE j = Len(q) + 1
    <3>1. i \in 1..Len(q) /\ r[j] = s /\ r[i] = q[i]
      BY <1>1, <1>2, <1>4, <2>2
    <3>2. q[i].ts \in Nat /\ q[Len(q)].ts \in Nat /\ s.ts \in Nat /\ Len(q) \in DOMAIN q
      BY <1>1, <3>1, SampleFields
    <3>3. i = Len(q) \/ q[i].ts < q[Len(q)].ts
      BY <1>1, <3>1, <3>2
    <3> QED BY <3>1, <3>2, <3>3
  <2> QED BY <2>1, <2>2
<1>5. Heads(q, r)
  BY <1>1, <1>2 DEF Heads
<1> QED BY <1>1, <1>2, <1>3, <1>4, <1>5 DEF Rising, OneMore

LEMMA SoFarBegins ==
  ASSUME NEW s \in Sample, NEW k, Begin(k, s)
  PROVE  SoFar(Opened(k, s), <<s>>)
<1> DEFINE q == <<s>>
           o == Opened(k, s)
<1>1. Len(q) = 1 /\ DOMAIN q = {1} /\ q[1] = s /\ q[Len(q)] = s
  OBVIOUS
<1>2. o.kind = k /\ o.last = s /\ o.still = Null /\ o.paused = Null
  BY DEF Opened
<1> HIDE DEF q, o
<1>3. ~Hole(q)
  BY <1>1 DEF Hole
<1>4. k = "drive" => DrivesSoFar(o, q)
  BY <1>1, <1>2 DEF DrivesSoFar, Stood, Quiet, Begin
<1>5. k = "charge" => ChargesSoFar(o, q)
  BY <1>1, <1>2 DEF ChargesSoFar, Paused, Begin, Charging
<1> QED BY <1>1, <1>2, <1>3, <1>4, <1>5 DEF SoFar, q, o

\* The time to the next sample.
LEMMA NextHole ==
  ASSUME NEW q, Rising(q), Len(q) >= 1, ~Hole(q), NEW st, st.lastTs = q[Len(q)].ts,
         NEW s \in Sample, q[Len(q)].ts < s.ts, NEW r, r = Append(q, s)
  PROVE  Hole(r) <=> Wide(st, s)
<1> DEFINE L == Len(q)
<1>1. /\ Len(r) = L + 1 /\ r[L + 1] = s /\ (\A k \in 1..L : r[k] = q[k]) /\ L \in Nat
      /\ \A k \in 1..L + 1 : r[k].ts \in Nat
  BY NextSample DEF OneMore
<1> HIDE DEF L
<1>2. r[L] = q[L] /\ q[L].ts \in Nat /\ q[L].ts # Null /\ L >= 1
  <2>1. L >= 1 /\ L \in 1..L /\ L \in 1..L + 1
    BY <1>1 DEF L
  <2> QED BY <1>1, <2>1, SessionsAssumption
<1>3. Wide(st, s) <=> s.ts - q[L].ts > Gap
  BY <1>2 DEF Wide, Since, L
<1>4. ASSUME Wide(st, s) PROVE Hole(r)
  <2>1. L + 1 \in 2..Len(r) /\ r[L + 1].ts - r[(L + 1) - 1].ts > Gap
    <3>1. L + 1 - 1 = L /\ L + 1 \in 2..L + 1
      BY <1>1, <1>2
    <3> QED BY <1>1, <1>2, <1>3, <1>4, <3>1
  <2> DEFINE k == L + 1
  <2>2. k \in 2..Len(r) /\ r[k].ts - r[k - 1].ts > Gap
    <3> HIDE DEF L
    <3> QED BY <2>1
  <2> HIDE DEF L, k
  <2> QED BY <2>2 DEF Hole
<1>5. ASSUME ~Wide(st, s), NEW k \in 2..L + 1 PROVE ~(r[k].ts - r[k - 1].ts > Gap)
  <2>1. CASE k = L + 1
    <3>1. k - 1 = L
      BY <1>1, <2>1
    <3> QED BY <1>1, <1>2, <1>3, <1>5, <2>1, <3>1
  <2>2. CASE k # L + 1
    <3>1. k \in 2..L /\ k \in 1..L /\ k - 1 \in 1..L
      BY <1>1, <1>5, <2>2
    <3>2. ~(q[k].ts - q[k - 1].ts > Gap)
      BY <3>1 DEF Hole, L
    <3> QED BY <1>1, <3>1, <3>2
  <2> QED BY <2>1, <2>2
<1> QED BY <1>1, <1>4, <1>5 DEF Hole

LEMMA QuietNext ==
  ASSUME NEW q, Rising(q), Len(q) >= 1, NEW s \in Sample, q[Len(q)].ts < s.ts,
         NEW r, r = Append(q, s), NEW a \in 1..Len(q)
  PROVE  /\ Quiet(r, a) <=> Quiet(q, a) /\ ~(Motion(s, q[Len(q)]) = "moving") /\ ~InGear(s)
         /\ Stood(r, a, Len(q) + 1) <=> Quiet(q, a) /\ s.ts - q[a].ts >= DriveEnd
<1> DEFINE L == Len(q)
<1>0. OneMore(q, s, r)
  BY NextSample
<1>1. /\ Len(r) = L + 1 /\ r[L + 1] = s /\ (\A k \in 1..L : r[k] = q[k]) /\ L \in Nat
      /\ Heads(q, r)
  BY <1>0 DEF OneMore
<1>2. (IF a = 1 THEN Null ELSE r[a - 1]) = (IF a = 1 THEN Null ELSE q[a - 1])
      /\ r[a] = q[a]
  <2>1. a # 1 => a - 1 \in 1..L
    BY <1>1
  <2> QED BY <1>1, <2>1
<1>3. \A k \in 1..L : Moves(q, k) <=> Moves(r, k)
  BY <1>1, HeadSame
<1>4. Moves(r, L + 1) <=> Motion(s, q[L]) = "moving"
  <2>1. L + 1 # 1 /\ L + 1 - 1 = L /\ L \in 1..L
    BY <1>1
  <2>2. (IF L + 1 = 1 THEN Null ELSE r[L + 1 - 1]) = q[L]
    BY <1>1, <2>1
  <2> QED BY <1>1, <2>2 DEF Moves
<1>5. a..Len(r) = (a..L) \cup {L + 1} /\ a..(L + 1) - 1 = a..L /\ a < L + 1
      /\ \A k \in a..L : k \in 1..L
  BY <1>1
<1> HIDE DEF L
<1>6. Quiet(r, a) <=> Quiet(q, a) /\ ~(Motion(s, q[L]) = "moving") /\ ~InGear(s)
  <2>1. (\A k \in a..Len(r) : ~Moves(r, k) /\ ~InGear(r[k]))
          <=> (\A k \in a..L : ~Moves(q, k) /\ ~InGear(q[k]))
              /\ ~(Motion(s, q[L]) = "moving") /\ ~InGear(s)
    BY <1>1, <1>3, <1>4, <1>5
  <2> QED BY <1>2, <2>1 DEF Quiet, L
<1>7. Stood(r, a, L + 1) <=> Quiet(q, a) /\ s.ts - q[a].ts >= DriveEnd
  <2>1. (\A k \in a..(L + 1) - 1 : ~Moves(r, k) /\ ~InGear(r[k]))
          <=> (\A k \in a..L : ~Moves(q, k) /\ ~InGear(q[k]))
    BY <1>1, <1>3, <1>5
  <2> QED BY <1>1, <1>2, <1>5, <2>1 DEF Quiet, Stood, L
<1> QED BY <1>6, <1>7 DEF L

\* A stop or a pause that is long enough shows in what the segmenter keeps.
LEMMA StopShows ==
  ASSUME NEW o, o.still \in Nat \cup {Null}, NEW q, Rising(q), SoFar(o, q), o.kind = "drive",
         NEW s \in Sample, q[Len(q)].ts < s.ts, NEW r, r = Append(q, s)
  PROVE  (\E a \in 1..Len(q) : Stood(r, a, Len(q) + 1)) <=> Parked(o, s)
<1>1. Len(q) >= 1 /\ DrivesSoFar(o, q) /\ DOMAIN q = 1..Len(q) /\ s.ts \in Nat
  BY SampleFields DEF SoFar, Rising
<1>2. \A a \in 1..Len(q) : q[a].ts \in Nat
  BY <1>1, SampleFields DEF Rising
<1>3. \A a \in 1..Len(q) : Stood(r, a, Len(q) + 1) <=> Quiet(q, a) /\ s.ts - q[a].ts >= DriveEnd
  BY <1>1, QuietNext
<1>4. ASSUME NEW a \in 1..Len(q), Stood(r, a, Len(q) + 1) PROVE Parked(o, s)
  <2>1. Quiet(q, a) /\ s.ts - q[a].ts >= DriveEnd
    BY <1>3, <1>4
  <2>2. o.still # Null /\ o.still <= q[a].ts
    BY <1>1, <2>1 DEF DrivesSoFar
  <2>3. o.still \in Nat /\ DriveEnd \in Nat
    BY <2>2, TimesAssumption
  <2> QED BY <1>1, <1>2, <2>1, <2>2, <2>3 DEF Parked
<1>5. ASSUME Parked(o, s) PROVE \E a \in 1..Len(q) : Stood(r, a, Len(q) + 1)
  <2>1. PICK a \in DOMAIN q : Quiet(q, a) /\ q[a].ts = o.still
    BY <1>1, <1>5 DEF DrivesSoFar, Parked
  <2> QED BY <1>1, <1>3, <1>5, <2>1 DEF Parked
<1> QED BY <1>4, <1>5

LEMMA PauseShows ==
  ASSUME NEW o, NEW q, Rising(q), SoFar(o, q), o.kind = "charge",
         NEW s \in Sample, q[Len(q)].ts < s.ts, NEW r, r = Append(q, s)
  PROVE  (\E a \in 1..Len(q) : Paused(r, a, Len(q) + 1)) <=> TooLong(o, s)
<1> DEFINE L == Len(q)
<1>1. L >= 1 /\ ChargesSoFar(o, q) /\ DOMAIN q = 1..L /\ s.ts \in Nat /\ L \in Nat
  BY SampleFields DEF SoFar, Rising
<1>2. \A a \in 1..L : q[a] \in Sample /\ q[a].ts \in Nat /\ q[a] # Null
  BY <1>1, SampleFields DEF Rising
<1>3. Len(r) = L + 1 /\ r[L + 1] = s /\ \A k \in 1..L : r[k] = q[k]
  BY <1>1, NextSample DEF OneMore
<1>4. \A a \in 1..L : a < L + 1 /\ a..(L + 1) - 1 = a..L /\ \A k \in a..L : k \in 1..L
  BY <1>1
<1> HIDE DEF L
<1>5. \A a \in 1..L : Paused(r, a, L + 1) <=>
                        s.ts - q[a].ts >= Resume /\ \A k \in a..L : ~Charging(q[k])
  BY <1>3, <1>4 DEF Paused
<1>6. PICK j \in 1..L : /\ Charging(q[j]) /\ \A k \in 1..L : k > j => ~Charging(q[k])
                        /\ o.paused = IF j = L THEN Null ELSE q[j + 1]
  BY <1>1 DEF ChargesSoFar, L
<1>7. ASSUME NEW a \in 1..L, Paused(r, a, L + 1) PROVE TooLong(o, s)
  <2>1. s.ts - q[a].ts >= Resume /\ \A k \in a..L : ~Charging(q[k])
    BY <1>5, <1>7
  <2>2. j < a
    BY <1>6, <2>1
  <2>3. j # L /\ j + 1 \in 1..L /\ (j + 1 = a \/ j + 1 < a)
    BY <1>1, <2>2
  <2>4. o.paused = q[j + 1] /\ q[j + 1] # Null /\ q[j + 1].ts \in Nat /\ q[a].ts \in Nat
    BY <1>2, <1>6, <2>3
  <2>5. q[j + 1].ts <= q[a].ts
    BY SMTT(30), <1>1, <2>3, <2>4 DEF Rising
  <2>6. s.ts - q[j + 1].ts >= Resume
    BY <1>1, <2>1, <2>4, <2>5, TimesAssumption
  <2> QED BY <2>4, <2>6 DEF TooLong
<1>8. ASSUME TooLong(o, s) PROVE \E a \in 1..L : Paused(r, a, L + 1)
  <2>1. j # L /\ o.paused = q[j + 1]
    BY <1>6, <1>8 DEF TooLong
  <2>2. j + 1 \in 1..L /\ \A k \in j + 1..L : k \in 1..L /\ k > j
    BY <1>1, <2>1
  <2>3. s.ts - q[j + 1].ts >= Resume
    BY <1>8, <2>1 DEF TooLong
  <2>4. Paused(r, j + 1, L + 1)
    BY <1>5, <1>6, <2>2, <2>3
  <2> QED BY <2>2, <2>4
<1> QED BY <1>7, <1>8 DEF L

\* A segment goes on.
LEMMA SoFarOn ==
  ASSUME NEW st, NEW o, o = st.open, o.still \in Nat \cup {Null},
         NEW q, Rising(q), SoFar(o, q), st.lastTs = q[Len(q)].ts,
         NEW s \in Sample, q[Len(q)].ts < s.ts, ~Wide(st, s), NEW n, n.kind = o.kind,
         DriveOn(o, s, n) \/ ChargeOn(o, s, n) \/ ChargePauses(o, s, n),
         NEW r, r = Append(q, s)
  PROVE  SoFar(n, r)
<1> DEFINE L == Len(q)
<1>0. Len(q) >= 1
  BY DEF SoFar
<1>7. OneMore(q, s, r)
  BY <1>0, NextSample
<1>1. /\ Rising(r) /\ L \in Nat /\ Len(r) = L + 1 /\ Heads(q, r)
      /\ DOMAIN q = 1..L /\ DOMAIN r = 1..L + 1
      /\ r[L + 1] = s /\ (\A k \in 1..L : r[k] = q[k])
      /\ \A k \in DOMAIN r : r[k] \in Sample /\ r[k].ts \in Nat
  BY <1>7 DEF OneMore
<1>2. L >= 1 /\ ~Hole(q) /\ ~Hole(r)
  BY NextHole DEF SoFar
<1>3. /\ \A a, b \in 1..L : Stood(q, a, b) <=> Stood(r, a, b)
      /\ \A a, b \in 1..L : Paused(q, a, b) <=> Paused(r, a, b)
  BY <1>1, HeadSame
<1>4. \A a \in DOMAIN r : a \in 1..L \/ a = L + 1
  BY <1>1
<1>5. CASE DriveOn(o, s, n)
  <2>0. /\ o.kind = "drive" /\ ~Charging(s) /\ ~Parked(o, s) /\ n.last = s
        /\ DrivesSoFar(o, q)
    BY <1>5 DEF DriveOn, SoFar
  <2> DEFINE m == Motion(s, q[L])
  <2>1. n.still = (IF m = "moving" \/ InGear(s) THEN Null
                   ELSE IF m = "stationary" /\ o.still = Null THEN s.ts ELSE o.still)
    BY <1>5, <2>0 DEF DriveOn, DrivesSoFar
  <2>2. \A a \in 1..L : Quiet(r, a) <=> Quiet(q, a) /\ ~(m = "moving") /\ ~InGear(s)
    BY <1>2, QuietNext
  <2>3. Quiet(r, L + 1) <=> m = "stationary" /\ ~InGear(s)
    <3>1. L + 1 # 1 /\ L + 1 - 1 = L /\ L \in 1..L /\ (L + 1)..Len(r) = {L + 1}
      BY <1>1, <1>2
    <3>2. (IF L + 1 = 1 THEN Null ELSE r[L + 1 - 1]) = q[L]
      BY <1>1, <3>1
    <3>3. "stationary" # "moving"
      OBVIOUS
    <3> HIDE DEF L
    <3> QED BY <1>1, <3>1, <3>2, <3>3 DEF Quiet, Moves, L
  <2>4. \A a \in 1..L : ~Stood(r, a, L + 1)
    BY <2>0, StopShows
  <2>5. \A a, b \in DOMAIN r : ~Stood(r, a, b)
    <3> TAKE a, b \in DOMAIN r
    <3>1. CASE a \in 1..L /\ b \in 1..L
      BY <1>1, <1>3, <2>0, <3>1 DEF DrivesSoFar
    <3>2. CASE a \in 1..L /\ b = L + 1
      BY <2>4, <3>2
    <3>3. CASE a = L + 1
      <4>1. ~(a < b)
        BY <1>1, <3>3
      <4> QED BY <4>1 DEF Stood
    <3> QED BY <1>4, <3>1, <3>2, <3>3
  <2> HIDE DEF m, L
  <2>6. o.still # Null => o.still <= s.ts
    <3> SUFFICES ASSUME o.still # Null PROVE o.still <= s.ts
      OBVIOUS
    <3>1. PICK a \in 1..L : q[a].ts = o.still
      BY <1>1, <2>0 DEF DrivesSoFar
    <3>2. a < L + 1 /\ a \in DOMAIN r /\ L + 1 \in DOMAIN r
      BY <1>1
    <3>3. r[a].ts < r[L + 1].ts
      BY <1>1, <3>2 DEF Rising
    <3> QED BY <1>1, <3>1, <3>2, <3>3
  <2>7. \A a \in DOMAIN r : Quiet(r, a) => n.still # Null /\ n.still <= r[a].ts
    <3> SUFFICES ASSUME NEW a \in DOMAIN r, Quiet(r, a) PROVE n.still # Null /\ n.still <= r[a].ts
      OBVIOUS
    <3>1. CASE a \in 1..L
      <4>1. Quiet(q, a) /\ ~(m = "moving") /\ ~InGear(s)
        BY <2>2, <3>1
      <4>2. o.still # Null /\ o.still <= q[a].ts
        BY <1>1, <2>0, <3>1, <4>1 DEF DrivesSoFar
      <4> QED BY <1>1, <2>1, <3>1, <4>1, <4>2
    <3>2. CASE a = L + 1
      <4>1. m = "stationary" /\ ~InGear(s)
        BY <2>3, <3>2
      <4>2. n.still = IF o.still = Null THEN s.ts ELSE o.still
        BY <2>1, <4>1
      <4>3. s.ts # Null /\ s.ts <= s.ts
        BY SampleFields
      <4> QED BY <1>1, <2>6, <3>2, <4>2, <4>3
    <3> QED BY <1>4, <3>1, <3>2
  <2>8. n.still # Null => \E a \in DOMAIN r : Quiet(r, a) /\ r[a].ts = n.still
    <3> SUFFICES ASSUME n.still # Null PROVE \E a \in DOMAIN r : Quiet(r, a) /\ r[a].ts = n.still
      OBVIOUS
    <3>1. ~(m = "moving") /\ ~InGear(s)
      BY <2>1
    <3>2. CASE m = "stationary" /\ o.still = Null
      <4>1. n.still = s.ts /\ L + 1 \in DOMAIN r
        BY <1>1, <2>1, <3>1, <3>2
      <4> QED BY <1>1, <2>3, <3>1, <3>2, <4>1
    <3>3. CASE ~(m = "stationary" /\ o.still = Null)
      <4>1. n.still = o.still
        BY <2>1, <3>1, <3>3
      <4>2. PICK a \in 1..L : Quiet(q, a) /\ q[a].ts = o.still
        BY <1>1, <2>0, <4>1 DEF DrivesSoFar
      <4>3. a \in DOMAIN r /\ r[a] = q[a]
        BY <1>1
      <4> QED BY <2>2, <3>1, <4>1, <4>2, <4>3
    <3> QED BY <3>2, <3>3
  <2>9. \A k \in DOMAIN r : ~Charging(r[k])
    BY <1>1, <1>4, <2>0 DEF DrivesSoFar
  <2>10. DrivesSoFar(n, r)
    BY <1>1, <2>0, <2>5, <2>7, <2>8, <2>9 DEF DrivesSoFar
  <2>11. Len(r) >= 1
    BY <1>1
  <2> QED BY <1>2, <2>0, <2>10, <2>11 DEF SoFar
<1>6. CASE ChargeOn(o, s, n) \/ ChargePauses(o, s, n)
  <2>0. o.kind = "charge" /\ ~TooLong(o, s) /\ ChargesSoFar(o, q) /\ s.charge # "over"
    BY <1>6 DEF ChargeOn, ChargePauses, SoFar, Charging
  <2>1. \A a \in 1..L : ~Paused(r, a, L + 1)
    BY <2>0, PauseShows
  <2>2. \A a, b \in DOMAIN r : ~Paused(r, a, b)
    <3> TAKE a, b \in DOMAIN r
    <3>1. CASE a \in 1..L /\ b \in 1..L
      BY <1>1, <1>3, <2>0, <3>1 DEF ChargesSoFar
    <3>2. CASE a \in 1..L /\ b = L + 1
      BY <2>1, <3>2
    <3>3. CASE a = L + 1
      <4>1. ~(a < b)
        BY <1>1, <3>3
      <4> QED BY <4>1 DEF Paused
    <3> QED BY <1>4, <3>1, <3>2, <3>3
  <2> HIDE DEF L
  <2>3. \A k \in DOMAIN r : r[k].charge # "over"
    BY <1>1, <1>4, <2>0 DEF ChargesSoFar
  <2>4. \E j \in DOMAIN r :
          /\ n.last = r[j] /\ Charging(r[j])
          /\ \A k \in DOMAIN r : k > j => ~Charging(r[k])
          /\ n.paused = IF j = Len(r) THEN Null ELSE r[j + 1]
    <3>1. CASE ChargeOn(o, s, n)
      <4>1. L + 1 \in DOMAIN r /\ \A k \in DOMAIN r : ~(k > L + 1)
        BY <1>1
      <4> QED BY <1>1, <3>1, <4>1 DEF ChargeOn
    <3>2. CASE ChargePauses(o, s, n)
      <4>1. PICK j \in 1..L : /\ o.last = q[j] /\ Charging(q[j])
                              /\ \A k \in 1..L : k > j => ~Charging(q[k])
                              /\ o.paused = IF j = L THEN Null ELSE q[j + 1]
        BY <1>1, <2>0 DEF ChargesSoFar, L
      <4>2. j \in DOMAIN r /\ j # L + 1 /\ (j # L => j + 1 \in 1..L)
        BY <1>1
      <4>3. n.paused = r[j + 1]
        <5>1. CASE j = L
          BY <1>1, <3>2, <4>1, <5>1 DEF ChargePauses
        <5>2. CASE j # L
          <6>1. q[j + 1] = r[j + 1] /\ r[j + 1] \in Sample
            BY <1>1, <4>2, <5>2
          <6>2. q[j + 1] # Null
            BY <6>1, SampleFields
          <6> QED BY <3>2, <4>1, <5>2, <6>1, <6>2 DEF ChargePauses
        <5> QED BY <5>1, <5>2
      <4>4. \A k \in DOMAIN r : k > j => ~Charging(r[k])
        BY <1>1, <1>4, <3>2, <4>1 DEF ChargePauses
      <4>5. n.last = r[j] /\ Charging(r[j])
        BY <1>1, <3>2, <4>1 DEF ChargePauses
      <4> QED BY <1>1, <4>2, <4>3, <4>4, <4>5
    <3> QED BY <1>6, <3>1, <3>2
  <2>5. ChargesSoFar(n, r)
    BY <2>2, <2>3, <2>4 DEF ChargesSoFar
  <2>6. Len(r) >= 1
    BY <1>1
  <2> QED BY <1>2, <2>0, <2>5, <2>6 DEF SoFar
<1> QED BY <1>5, <1>6

\* Where a segment ends, in the samples up to the one that ends it.
EndsAt(st, q, s, i) ==
  \/ i \in 1..Len(q)
  \/ /\ i = Len(q) + 1 /\ ~Wide(st, s)
     /\ st.open.kind = "drive" => Charging(s)
     /\ st.open.kind = "charge" => ~TooLong(st.open, s)

LEMMA EndIsAt ==
  ASSUME NEW st, NEW o, o = st.open, o.kind \in {"drive", "charge"},
         NEW q, Rising(q), SoFar(o, q), NEW s \in Sample, q[Len(q)].ts < s.ts,
         NEW e, Cause(st, s, e), NEW r, r = Append(q, s)
  PROVE  \E i \in DOMAIN r : r[i] = e /\ EndsAt(st, q, s, i)
<1> DEFINE L == Len(q)
<1>0. Len(q) >= 1
  BY DEF SoFar
<1>1. OneMore(q, s, r)
  BY <1>0, NextSample
<1>2. /\ L \in Nat /\ DOMAIN q = 1..L /\ DOMAIN r = 1..L + 1
      /\ r[L + 1] = s /\ \A k \in 1..L : r[k] = q[k]
  BY <1>1 DEF OneMore
<1>3. L \in 1..L /\ L \in DOMAIN r /\ L + 1 \in DOMAIN r /\ \A k \in 1..L : k \in DOMAIN r
  BY <1>0, <1>2
<1>4. (\E i \in 1..L : q[i] = e) => \E i \in DOMAIN r : r[i] = e /\ EndsAt(st, q, s, i)
  BY <1>2, <1>3 DEF EndsAt
<1>5. CASE o.kind = "drive"
  <2>1. o.last = q[L]
    BY <1>5 DEF SoFar, DrivesSoFar
  <2>2. e = o.last \/ (~Wide(st, s) /\ Charging(s) /\ e = s)
    BY <1>5 DEF Cause
  <2>3. CASE e = o.last
    BY <1>3, <1>4, <2>1, <2>3
  <2>4. CASE ~Wide(st, s) /\ Charging(s) /\ e = s
    <3>1. EndsAt(st, q, s, L + 1)
      BY <1>5, <2>4 DEF EndsAt
    <3> QED BY <1>2, <1>3, <2>4, <3>1
  <2> QED BY <2>2, <2>3, <2>4
<1>6. CASE o.kind = "charge"
  <2>1. PICK j \in 1..L : /\ o.last = q[j]
                          /\ o.paused = IF j = L THEN Null ELSE q[j + 1]
    BY <1>2, <1>6 DEF SoFar, ChargesSoFar
  <2>2. j # L => j + 1 \in 1..L
    BY <1>2
  <2>3. (e = o.paused /\ o.paused # Null) => \E i \in 1..L : q[i] = e
    BY <2>1, <2>2
  <2>4. TooLong(o, s) => o.paused # Null
    BY DEF TooLong
  <2>5. \/ e = o.last \/ (e = o.paused /\ o.paused # Null)
        \/ ~Wide(st, s) /\ o.paused = Null /\ e = s
    BY <1>6, <2>4 DEF Cause
  <2>6. CASE ~Wide(st, s) /\ o.paused = Null /\ e = s
    <3>1. EndsAt(st, q, s, L + 1)
      BY <1>6, <2>4, <2>6 DEF EndsAt
    <3> QED BY <1>2, <1>3, <2>6, <3>1
  <2> QED BY <1>4, <2>1, <2>3, <2>5, <2>6
<1> QED BY <1>5, <1>6

LEMMA EndReason ==
  ASSUME NEW st, NEW o, o = st.open, o.still \in Nat \cup {Null}, o.kind \in {"drive", "charge"},
         NEW q, Rising(q), SoFar(o, q), st.lastTs = q[Len(q)].ts,
         NEW s \in Sample, q[Len(q)].ts < s.ts, NEW e, Cause(st, s, e), NEW r, r = Append(q, s)
  PROVE  Reason(o.kind, r)
<1> DEFINE L == Len(q)
<1>0. Len(q) >= 1 /\ ~Hole(q)
  BY DEF SoFar
<1>1. OneMore(q, s, r)
  BY <1>0, NextSample
<1>2. /\ L \in Nat /\ DOMAIN q = 1..L /\ DOMAIN r = 1..L + 1
      /\ r[L + 1] = s /\ \A k \in 1..L : r[k] = q[k]
  BY <1>1 DEF OneMore
<1>3. L + 1 \in DOMAIN r /\ \A k \in 1..L : k \in DOMAIN r /\ k <= L + 1
  BY <1>2
<1>4. CASE Wide(st, s)
  BY <1>0, <1>4, NextHole DEF Reason
<1>5. CASE ~Wide(st, s) /\ o.kind = "drive"
  <2>1. CASE Charging(s)
    BY <1>2, <1>3, <1>5, <2>1 DEF Reason
  <2>2. CASE ~Charging(s)
    <3>1. Parked(o, s)
      BY <1>5, <2>2 DEF Cause
    <3>2. \E a \in 1..L : Stood(r, a, L + 1)
      BY <1>5, <3>1, StopShows
    <3> QED BY <1>3, <1>5, <3>2 DEF Reason
  <2> QED BY <2>1, <2>2
<1>6. CASE ~Wide(st, s) /\ o.kind = "charge"
  <2>1. CASE TooLong(o, s)
    <3>1. \E a \in 1..L : Paused(r, a, L + 1)
      BY <1>6, <2>1, PauseShows
    <3> QED BY <1>3, <1>6, <3>1 DEF Reason
  <2>2. CASE ~TooLong(o, s)
    <3>1. ~Charging(s) /\ (s.charge = "over" \/ Motion(s, o.last) = "moving")
      BY <1>6, <2>2 DEF Cause
    <3>2. PICK j \in 1..L : o.last = q[j]
      BY <1>2, <1>6 DEF SoFar, ChargesSoFar
    <3>3. j \in DOMAIN r /\ j <= L + 1 /\ r[j] = o.last
      BY <1>2, <1>3, <3>2
    <3> QED BY <1>2, <1>3, <1>6, <3>1, <3>3 DEF Reason
  <2> QED BY <2>1, <2>2
<1> QED BY <1>4, <1>5, <1>6

LEMMA EndWhole ==
  ASSUME NEW st, NEW o, o = st.open, o.still \in Nat \cup {Null}, o.kind \in {"drive", "charge"},
         NEW q, Rising(q), SoFar(o, q), st.lastTs = q[Len(q)].ts,
         NEW s \in Sample, q[Len(q)].ts < s.ts, NEW r, r = Append(q, s),
         NEW i, EndsAt(st, q, s, i), NEW p, Rising(p), Heads(p, r), Len(p) = i
  PROVE  Whole(o.kind, p)
<1> DEFINE L == Len(q)
<1>0. Len(q) >= 1 /\ ~Hole(q)
  BY DEF SoFar
<1>1. OneMore(q, s, r)
  BY <1>0, NextSample
<1>2. /\ L \in Nat /\ DOMAIN q = 1..L /\ Len(r) = L + 1 /\ Heads(q, r) /\ Rising(r)
      /\ r[L + 1] = s /\ \A k \in 1..L : r[k] = q[k]
  BY <1>1 DEF OneMore
<1>3. i \in Nat /\ DOMAIN p = 1..i /\ Len(r) \in Nat
  BY <1>2 DEF Rising
<1>4. /\ \A k \in 1..i : p[k] = r[k]
      /\ \A a, b \in 1..i : Stood(p, a, b) <=> Stood(r, a, b)
      /\ \A a, b \in 1..i : Paused(p, a, b) <=> Paused(r, a, b)
      /\ Hole(p) => Hole(r)
  BY <1>3, HeadSame DEF Heads
<1>5. /\ \A a, b \in 1..L : Stood(q, a, b) <=> Stood(r, a, b)
      /\ \A a, b \in 1..L : Paused(q, a, b) <=> Paused(r, a, b)
  BY <1>2, <1>3, HeadSame
<1>6. /\ o.kind = "drive" => /\ \A k \in 1..L : ~Charging(q[k])
                             /\ \A a, b \in 1..L : ~Stood(q, a, b)
      /\ o.kind = "charge" => /\ \A k \in 1..L : q[k].charge # "over"
                              /\ \A a, b \in 1..L : ~Paused(q, a, b)
  BY <1>2 DEF SoFar, DrivesSoFar, ChargesSoFar
<1>7. CASE i \in 1..L
  <2>1. \A k \in 1..i : k \in 1..L
    BY <1>2, <1>7
  <2>2. Heads(p, q)
    BY <1>2, <1>3, <1>4, <1>7, <2>1 DEF Heads
  <2>3. ~Hole(p)
    BY <1>0, <1>2, <1>3, <2>2, HeadSame
  <2>4. /\ \A k \in 1..i - 1 : k \in 1..i
        /\ i \in 1..i
    BY <1>2, <1>7
  <2>5. \A k \in 1..i : p[k] = q[k]
    BY <1>2, <1>4, <2>1
  <2>6. /\ o.kind = "drive" => /\ \A k \in 1..i : ~Charging(p[k])
                               /\ \A a, b \in 1..i : ~Stood(p, a, b)
        /\ o.kind = "charge" => /\ \A k \in 1..i : p[k].charge # "over"
                                /\ \A a, b \in 1..i : ~Paused(p, a, b)
    BY <1>4, <1>5, <1>6, <2>1, <2>5
  <2> HIDE DEF L
  <2> QED BY <1>3, <2>3, <2>4, <2>6 DEF Whole
<1>8. CASE ~(i \in 1..L)
  <2>1. /\ i = L + 1 /\ ~Wide(st, s)
        /\ o.kind = "drive" => Charging(s)
        /\ o.kind = "charge" => ~TooLong(o, s)
    BY <1>8 DEF EndsAt
  <2>2. ~Hole(p)
    BY <1>0, <1>4, <2>1, NextHole
  <2>3. \A k \in 1..i : k \in 1..L \/ k = L + 1
    BY <1>2, <2>1
  <2>4. i - 1 = L /\ L + 1 \in 1..i /\ \A k \in 1..L : k \in 1..i
    BY <1>2, <2>1
  <2>5. p[L + 1] = s /\ \A k \in 1..L : p[k] = q[k]
    BY <1>2, <1>4, <2>4
  <2>6. CASE o.kind = "drive"
    <3>1. Charging(p[i]) /\ \A k \in 1..i - 1 : ~Charging(p[k])
      BY <1>6, <2>1, <2>4, <2>5, <2>6
    <3>2. \A a, b \in 1..i - 1 : ~Stood(p, a, b)
      BY <1>4, <1>5, <1>6, <2>4, <2>6
    <3> QED BY <1>3, <2>2, <2>6, <3>1, <3>2 DEF Whole
  <2>7. CASE o.kind = "charge"
    <3>1. \A k \in 1..i - 1 : p[k].charge # "over"
      BY <1>6, <2>4, <2>5, <2>7
    <3>2. \A a \in 1..L : ~Paused(r, a, L + 1)
      BY <2>1, <2>7, PauseShows
    <3>3. \A b : ~Paused(r, L + 1, b) \/ L + 1 < b
      BY DEF Paused
    <3>4. \A b \in 1..i : ~(L + 1 < b)
      BY <1>2, <2>1
    <3>5. \A a, b \in 1..i : ~Paused(p, a, b)
      <4> HIDE DEF L
      <4> QED BY <1>4, <1>5, <1>6, <2>3, <2>7, <3>2, <3>3, <3>4
    <3> QED BY <1>3, <2>2, <2>7, <3>1, <3>5 DEF Whole
  <2> QED BY <2>6, <2>7
<1> QED BY <1>7, <1>8

-----------------------------------------------------------------------------
(* The samples between two stamps.                                         *)

Taped(c) ==
  /\ c \in Nat /\ tape \in SUBSET Sample
  /\ \A a, b \in tape : a.ts = b.ts => a = b
  /\ \A d \in tape : d.ts <= c

LEMMA BetweenIs ==
  ASSUME NEW c, Taped(c), NEW a, NEW b
  PROVE  InOrder(Between(a, b), {s \in tape : s.ts \in a..b}) /\ Rising(Between(a, b))
<1> DEFINE S == {s \in tape : s.ts \in a..b}
           q == Between(a, b)
<1>1. InOrder(q, S)
  BY SamplesInOrder DEF Between, Taped
<1>2. S \in SUBSET Sample
  BY DEF Taped
<1> HIDE DEF S, q
<1>3. q \in Seq(S) /\ \A i, j \in DOMAIN q : i < j => q[i].ts < q[j].ts
  BY <1>1 DEF InOrder
<1>4. q \in Seq(Sample)
  BY <1>2, <1>3
<1> QED BY <1>1, <1>3, <1>4 DEF Rising, S, q

LEMMA BetweenHeads ==
  ASSUME NEW c, Taped(c), NEW a \in Nat, NEW b \in Nat, NEW n \in Nat, b <= n
  PROVE  Heads(Between(a, b), Between(a, n))
<1> DEFINE S == {s \in tape : s.ts \in a..b}
           U == {s \in tape : s.ts \in a..n}
<1>0. tape \in SUBSET Sample
  BY DEF Taped
<1>1. \A s \in tape : s.ts \in Nat
  BY <1>0, SampleFields
<1>2. U \in SUBSET Sample /\ S \in SUBSET U
  BY <1>0, <1>1
<1>3. \A s \in S, u \in U \ S : s.ts < u.ts
  BY <1>1
<1>4. InOrder(Between(a, b), S) /\ InOrder(Between(a, n), U)
  BY BetweenIs
<1> HIDE DEF S, U
<1> QED BY <1>2, <1>3, <1>4, OrderHeads

LEMMA BetweenNext ==
  ASSUME NEW c, Taped(c), NEW a \in Nat, NEW n \in Nat, a <= n, NEW s \in tape, n < s.ts,
         \A d \in tape : d.ts <= n \/ s.ts <= d.ts
  PROVE  Between(a, s.ts) = Append(Between(a, n), s)
<1> DEFINE S == {d \in tape : d.ts \in a..n}
           U == {d \in tape : d.ts \in a..s.ts}
           q == Between(a, n)
           r == Append(q, s)
<1>0. tape \in SUBSET Sample /\ \A d, e \in tape : d.ts = e.ts => d = e
  BY DEF Taped
<1>1. \A d \in tape : d.ts \in Nat
  BY <1>0, SampleFields
<1>2. U \in SUBSET Sample /\ s \in U
  BY <1>0, <1>1
<1>3. \A d \in U : d \in S \/ d = s
  BY <1>0, <1>1
<1>4. S \subseteq U /\ \A d \in S : d.ts < s.ts /\ d.ts \in Nat
  BY <1>1
<1>5. InOrder(q, S) /\ InOrder(Between(a, s.ts), U)
  BY BetweenIs
<1>6. InOrder(r, U)
  <2> HIDE DEF S, U, q
  <2>1. q \in Seq(S) /\ Len(q) \in Nat /\ DOMAIN q = 1..Len(q) /\ \A i \in DOMAIN q : q[i] \in S
    BY <1>5 DEF InOrder
  <2>2. q \in Seq(U)
    BY <1>4, <2>1
  <2>3. /\ r \in Seq(U) /\ DOMAIN r = 1..Len(q) + 1 /\ r[Len(q) + 1] = s
        /\ \A i \in 1..Len(q) : r[i] = q[i]
    BY <1>2, <2>1, <2>2
  <2> HIDE DEF r
  <2>4. \A i, j \in DOMAIN r : i < j => r[i].ts < r[j].ts
    <3> TAKE i, j \in DOMAIN r
    <3> SUFFICES ASSUME i < j PROVE r[i].ts < r[j].ts
      OBVIOUS
    <3>1. i \in 1..Len(q) /\ (j \in 1..Len(q) \/ j = Len(q) + 1)
      BY <2>1, <2>3
    <3>2. CASE j \in 1..Len(q)
      BY <1>5, <2>1, <2>3, <3>1, <3>2 DEF InOrder
    <3>3. CASE j = Len(q) + 1
      BY <1>4, <2>1, <2>3, <3>1, <3>3
    <3> QED BY <3>1, <3>2, <3>3
  <2>5. \A d \in U : \E i \in DOMAIN r : r[i] = d
    <3> TAKE d \in U
    <3>1. CASE d = s
      <4>1. Len(q) + 1 \in DOMAIN r
        BY <2>1, <2>3
      <4> QED BY <2>3, <3>1, <4>1
    <3>2. CASE d \in S
      <4>1. PICK i \in DOMAIN q : q[i] = d
        BY <1>5, <3>2 DEF InOrder
      <4>2. i \in 1..Len(q) /\ i \in DOMAIN r
        BY <2>1, <2>3
      <4> QED BY <2>3, <4>1, <4>2
    <3> QED BY <1>3, <3>1, <3>2
  <2> QED BY <2>3, <2>4, <2>5 DEF InOrder
<1> HIDE DEF S, U, q, r
<1>7. Between(a, s.ts) = r
  BY <1>2, <1>5, <1>6, OrderIsOne
<1> QED BY <1>7 DEF r, q

LEMMA BetweenOne ==
  ASSUME NEW c, Taped(c), NEW s \in tape
  PROVE  Between(s.ts, s.ts) = <<s>>
<1> DEFINE U == {d \in tape : d.ts \in s.ts..s.ts}
           r == <<s>>
<1>0. tape \in SUBSET Sample /\ \A d, e \in tape : d.ts = e.ts => d = e
  BY DEF Taped
<1>1. \A d \in tape : d.ts \in Nat
  BY <1>0, SampleFields
<1>2. U = {s} /\ U \in SUBSET Sample
  BY <1>0, <1>1
<1>3. InOrder(Between(s.ts, s.ts), U)
  BY BetweenIs
<1> HIDE DEF U
<1>4. r \in Seq({s}) /\ DOMAIN r = {1} /\ r[1] = s
  OBVIOUS
<1> HIDE DEF r
<1>5. InOrder(r, U)
  BY <1>2, <1>4 DEF InOrder
<1>6. Between(s.ts, s.ts) = r
  BY <1>2, <1>3, <1>5, OrderIsOne
<1> QED BY <1>6 DEF r

LEMMA BetweenLast ==
  ASSUME NEW c, Taped(c), NEW a \in Nat, NEW s \in tape, a <= s.ts, NEW q, q = Between(a, s.ts)
  PROVE  Len(q) \in Nat /\ Len(q) >= 1 /\ q[Len(q)] = s
<1> DEFINE U == {d \in tape : d.ts \in a..s.ts}
<1>0. tape \in SUBSET Sample
  BY DEF Taped
<1>1. \A d \in tape : d.ts \in Nat
  BY <1>0, SampleFields
<1>2. s \in U /\ U \in SUBSET Sample /\ \A d \in U : d.ts <= s.ts /\ d.ts \in Nat
  BY <1>0, <1>1
<1>3. InOrder(q, U)
  BY BetweenIs
<1> HIDE DEF U
<1>4. /\ Len(q) \in Nat /\ DOMAIN q = 1..Len(q)
      /\ \A i \in DOMAIN q : q[i] \in U /\ q[i].ts \in Nat
      /\ \A i, j \in DOMAIN q : i < j <=> q[i].ts < q[j].ts
  BY <1>2, <1>3, InOrderIs
<1>5. PICK i \in DOMAIN q : q[i] = s
  BY <1>2, <1>3 DEF InOrder
<1>6. Len(q) \in DOMAIN q /\ i <= Len(q) /\ Len(q) >= 1
  BY <1>4, <1>5
<1>7. ~(i < Len(q))
  BY <1>2, <1>4, <1>5, <1>6
<1>8. i = Len(q)
  BY <1>4, <1>6, <1>7
<1> QED BY <1>4, <1>5, <1>6, <1>8

-----------------------------------------------------------------------------
(* Every session of the replay is a whole one, and there is a reason for its end. *)

\* Row y has ended, for what stamp z shows.
Done(y, z) ==
  /\ z \in Nat /\ y.start <= z /\ \A n \in y.points : n <= z
  /\ Whole(y.kind, Between(y.start, EndedAt(y)))
  /\ Reason(y.kind, Between(y.start, z))

\* So has row i of q, before any that starts later, by time n.
Over(q, i, n) ==
  \E z \in Nat : /\ z <= n /\ Done(q[i], z)
                 /\ \A j \in DOMAIN q : q[i].start < q[j].start => z <= q[j].start

\* Row y is the one of the memory m.
UnderWay(m, y) ==
  LET o == m.seg.open IN
  /\ SoFar(o, Between(y.start, m.seg.lastTs))
  /\ m.points # <<>> /\ Last(m.points) = o.last /\ o.last.ts \in y.points
  /\ \A n \in y.points : n <= o.last.ts

\* Of the rows and the memory of a replay.
Cut(q, m) ==
  /\ m.id # Null => UnderWay(m, q[m.id]) /\ \A j \in DOMAIN q : q[j].start <= q[m.id].start
  /\ \A i \in DOMAIN q : i # m.id => Over(q, i, m.seg.lastTs)
  /\ m.seg.lastTs # Null => \E s \in tape : s.ts = m.seg.lastTs

LEMMA EndedAtIs ==
  ASSUME NEW y, y.points \subseteq Nat, NEW n \in y.points, \A k \in y.points : k <= n
  PROVE  EndedAt(y) = n
<1> DEFINE P == y.points
<1>1. P # {} /\ n \in P /\ (\A k \in P : n >= k) /\ P \subseteq Nat
  OBVIOUS
<1>2. EndedAt(y) = Max(P)
  BY <1>1 DEF EndedAt
<1> HIDE DEF P
<1>3. Max(P) \in P /\ \A k \in P : Max(P) >= k
  BY <1>1 DEF Max
<1>4. Max(P) \in Nat /\ n \in Nat /\ Max(P) >= n /\ n >= Max(P)
  BY <1>1, <1>3
<1>5. Max(P) = n
  BY <1>4
<1> QED BY <1>2, <1>5

LEMMA OverStays ==
  ASSUME NEW q, NEW r, NEW i, NEW n \in Nat, NEW m \in Nat, n <= m, Over(q, i, n), r[i] = q[i],
         \A j \in DOMAIN r : (j \in DOMAIN q /\ r[j].start = q[j].start) \/ (r[j].start \in Nat /\ n <= r[j].start)
  PROVE  Over(r, i, m)
<1>1. PICK z \in Nat : /\ z <= n /\ Done(q[i], z)
                       /\ \A j \in DOMAIN q : q[i].start < q[j].start => z <= q[j].start
  BY DEF Over
<1>2. z <= m
  BY <1>1
<1>3. ASSUME NEW j \in DOMAIN r, r[i].start < r[j].start PROVE z <= r[j].start
  <2>1. CASE j \in DOMAIN q /\ r[j].start = q[j].start
    BY <1>1, <1>3, <2>1
  <2>2. CASE (r[j].start \in Nat /\ n <= r[j].start)
    BY <1>1, <2>2
  <2> QED BY <2>1, <2>2
<1> QED BY <1>1, <1>2, <1>3 DEF Over

\* Of the cause of an end: it is at no sample before the last point.
LEMMA EndIsLate ==
  ASSUME NEW st, NEW o, o = st.open, o.kind \in {"drive", "charge"},
         NEW q, Rising(q), SoFar(o, q), NEW s \in Sample, q[Len(q)].ts < s.ts,
         NEW e, Cause(st, s, e)
  PROVE  /\ o.last \in Sample /\ e \in Sample /\ o.last.ts <= e.ts /\ e.ts <= s.ts
         /\ o.last.ts <= q[Len(q)].ts
<1> DEFINE L == Len(q)
<1>1. /\ L \in Nat /\ L >= 1 /\ DOMAIN q = 1..L /\ \A k \in 1..L : q[k] \in Sample
      /\ \A i, j \in 1..L : i < j => q[i].ts < q[j].ts
  BY DEF SoFar, Rising
<1>2. \A k \in 1..L : q[k].ts \in Nat
  BY <1>1, SampleFields
<1>3. L \in 1..L /\ \A k \in 1..L : k = L \/ k < L
  <2>1. L \in Nat /\ L >= 1
    BY <1>1
  <2> HIDE DEF L
  <2> QED BY <2>1
<1>4. s.ts \in Nat /\ q[L].ts <= s.ts
  BY <1>2, <1>3, SampleFields
<1>5. \A k \in 1..L : q[k].ts <= q[L].ts
  <2> TAKE k \in 1..L
  <2>1. k = L \/ q[k].ts < q[L].ts
    BY <1>1, <1>3
  <2> QED BY <1>2, <1>3, <2>1
<1>6. PICK j \in 1..L : /\ o.last = q[j]
                        /\ o.kind = "charge" => o.paused = IF j = L THEN Null ELSE q[j + 1]
  <2>1. CASE o.kind = "drive"
    BY <1>3, <2>1 DEF SoFar, DrivesSoFar
  <2>2. CASE o.kind = "charge"
    BY <1>1, <2>2 DEF SoFar, ChargesSoFar
  <2> QED BY <2>1, <2>2
<1>7. j # L => j + 1 \in 1..L /\ j < j + 1
  BY <1>1
<1>8. /\ e = o.last \/ e = s \/ (o.kind = "charge" /\ o.paused # Null /\ e = o.paused)
  <2>1. TooLong(o, s) => o.paused # Null
    BY DEF TooLong
  <2> QED BY <2>1 DEF Cause
<1> HIDE DEF L
<1>9. o.last \in Sample /\ o.last.ts \in Nat /\ o.last.ts <= q[L].ts
  BY <1>1, <1>2, <1>5, <1>6
<1>10. CASE e = o.last
  <2>1. o.last.ts <= s.ts
    BY <1>2, <1>3, <1>4, <1>9
  <2> QED BY <1>9, <1>10, <2>1 DEF L
<1>11. CASE e = s
  <2>1. o.last.ts <= s.ts
    BY <1>2, <1>3, <1>4, <1>9
  <2> QED BY <1>4, <1>9, <1>11, <2>1 DEF L
<1>12. CASE o.kind = "charge" /\ o.paused # Null /\ e = o.paused
  <2>1. j # L /\ e = q[j + 1]
    BY <1>6, <1>12
  <2>2. e \in Sample /\ q[j].ts < q[j + 1].ts /\ q[j + 1].ts <= q[L].ts
    BY <1>1, <1>5, <1>7, <2>1
  <2>3. q[j].ts \in Nat /\ q[j + 1].ts \in Nat /\ q[L].ts \in Nat
    BY <1>2, <1>3, <1>7, <2>1
  <2> QED BY <1>4, <1>6, <1>9, <2>1, <2>2, <2>3 DEF L
<1> QED BY <1>8, <1>10, <1>11, <1>12

\* Where sample s ends the session of a replay that has come to its sample at n, s being the next.
LEMMA EndDone ==
  ASSUME NEW c, Taped(c), NEW m, NEW n \in Nat, m.seg.lastTs = n, NEW o, o = m.seg.open,
         o.still \in Nat \cup {Null}, o.kind \in {"drive", "charge"},
         NEW y \in RowsOf(tape), y.kind = o.kind, y.start <= n, UnderWay(m, y),
         \E d \in tape : d.ts = n,
         NEW s \in tape, n < s.ts, \A d \in tape : d.ts <= n \/ s.ts <= d.ts,
         NEW e \in tape, Cause(m.seg, s, e), NEW x, x = EndedRow(m.points, o.kind, e, y)
  PROVE  Done(x, s.ts) /\ x.start = y.start
<1> DEFINE a == y.start
           q == Between(a, n)
           r == Between(a, s.ts)
           p == Between(a, e.ts)
           st == m.seg
<1>0. tape \in SUBSET Sample
  BY DEF Taped
<1>1. a \in Nat /\ s.ts \in Nat /\ e.ts \in Nat /\ s \in Sample /\ e \in Sample /\ y.points \subseteq Nat
  BY <1>0, SampleFields, RowStart
<1>2. x \in RowsOf(tape) /\ x.kind = y.kind /\ x.start = a
  BY <1>0, EndedTyped
<1>3. r = Append(q, s)
  BY <1>1, BetweenNext
<1>4. PICK d \in tape : d.ts = n
  OBVIOUS
<1>5. Len(q) \in Nat /\ Len(q) >= 1 /\ q[Len(q)] = d
  BY <1>1, <1>4, BetweenLast
<1>6. Rising(q) /\ Rising(r) /\ Rising(p)
  BY BetweenIs
<1>7. /\ SoFar(o, q) /\ m.points # <<>> /\ Last(m.points) = o.last /\ o.last.ts \in y.points
      /\ \A k \in y.points : k <= o.last.ts
  BY DEF UnderWay
<1> HIDE DEF q, r, p, st
<1>8. q[Len(q)].ts < s.ts /\ st.lastTs = q[Len(q)].ts /\ o = st.open /\ Cause(st, s, e)
  BY <1>4, <1>5 DEF st
<1>9. Reason(o.kind, r)
  BY <1>1, <1>3, <1>6, <1>7, <1>8, EndReason
<1>10. PICK i \in DOMAIN r : r[i] = e /\ EndsAt(st, q, s, i)
  BY <1>1, <1>3, <1>6, <1>7, <1>8, EndIsAt
<1>11. o.last \in Sample /\ o.last.ts <= e.ts /\ e.ts <= s.ts
  BY <1>1, <1>6, <1>7, <1>8, EndIsLate
<1>12. o.last.ts \in Nat
  BY <1>11, SampleFields
<1>13. a <= o.last.ts
  <2>1. q \in Seq(Sample) /\ InOrder(q, {u \in tape : u.ts \in a..n})
    BY <1>6, BetweenIs DEF Rising, q
  <2>2. \E j \in DOMAIN q : o.last = q[j]
    <3>1. Len(q) \in DOMAIN q
      BY <1>5, <2>1
    <3> QED BY <1>7, <3>1 DEF SoFar, DrivesSoFar, ChargesSoFar
  <2>3. o.last.ts \in a..n
    BY <2>1, <2>2 DEF InOrder
  <2> QED BY <1>1, <2>3
<1>14. a <= e.ts
  BY <1>1, <1>11, <1>12, <1>13
<1>15. Len(p) \in Nat /\ Len(p) >= 1 /\ p[Len(p)] = e
  BY <1>14, <1>1, BetweenLast DEF p
<1>16. Heads(p, r)
  BY <1>1, <1>11, BetweenHeads DEF p, r
<1>17. Len(p) = i
  <2>1. r \in Seq(Sample) /\ Len(r) \in Nat /\ DOMAIN r = 1..Len(r)
        /\ \A j, k \in DOMAIN r : j < k => r[j].ts < r[k].ts
    BY <1>6 DEF Rising
  <2> DEFINE l == Len(p)
  <2>2. l \in DOMAIN r /\ r[l] = e
    BY <1>15, <1>16, <2>1 DEF Heads
  <2>3. l \in Nat /\ i \in Nat
    BY <1>15, <2>1
  <2> HIDE DEF l
  <2>4. ~(l < i) /\ ~(i < l)
    BY <1>1, <1>10, <2>1, <2>2
  <2>5. l = i
    BY <2>3, <2>4
  <2> QED BY <2>5 DEF l
<1>18. Whole(o.kind, p)
  BY <1>1, <1>3, <1>6, <1>7, <1>8, <1>10, <1>16, <1>17, EndWhole
<1>19. x.points = y.points \cup {e.ts}
  <2>1. x.points = IF IsLater(m.points, e) THEN y.points \cup {e.ts} ELSE y.points
    BY DEF EndedRow, RowsOf
  <2>2. ~IsLater(m.points, e) => e.ts = o.last.ts
    BY <1>1, <1>7, <1>11, <1>12 DEF IsLater
  <2> QED BY <1>7, <2>1, <2>2
<1>20. x.points \subseteq Nat /\ e.ts \in x.points /\ \A k \in x.points : k <= e.ts
  <2>1. \A k \in y.points : k <= e.ts
    BY <1>1, <1>7, <1>11, <1>12
  <2> QED BY <1>1, <1>19, <2>1
<1>21. EndedAt(x) = e.ts
  BY <1>20, EndedAtIs
<1>22. \A k \in x.points : k <= s.ts
  BY <1>1, <1>11, <1>20
<1>23. x.start <= s.ts
  BY <1>1, <1>2
<1>24. Whole(x.kind, Between(x.start, EndedAt(x))) /\ Reason(x.kind, Between(x.start, s.ts))
  BY <1>2, <1>9, <1>18, <1>21 DEF p, r
<1> QED BY <1>1, <1>2, <1>22, <1>23, <1>24 DEF Done

\* The next sample of a replay.
Ready(c, t, x, s) ==
  /\ Taped(c) /\ t \in Int /\ t >= -1 /\ DryOk(tape, t, x) /\ Cut(x.rows, x.mem)
  /\ s \in tape /\ s.ts = t + 1

\* The session that runs, of kind and start as its row has them.
RunsAs(m, y, n) ==
  /\ m.seg.open \in SegmentsOf(tape) /\ m.seg.open # Null
  /\ m.seg.open.kind \in {"drive", "charge"} /\ m.seg.open.still \in Nat \cup {Null}
  /\ y \in RowsOf(tape) /\ y.kind = m.seg.open.kind
  /\ y.start \in Nat /\ y.start <= n

LEMMA ReadyGives ==
  ASSUME NEW c, NEW t, NEW x, NEW s, Ready(c, t, x, s), NEW n, n = x.mem.seg.lastTs
  PROVE  /\ tape \in SUBSET Sample /\ s \in Sample /\ s.ts \in Nat /\ s.ts # Null
         /\ Fits(tape, x) /\ Linked(x.mem) /\ Sound(x.rows, x.mem)
         /\ x.rows \in Seq(RowsOf(tape)) /\ x.mem.seg \in TracksOf(tape)
         /\ \A i \in DOMAIN x.rows : x.rows[i].start \in Nat /\ x.rows[i].start < s.ts
         /\ n = Null => DOMAIN x.rows = {} /\ x.mem.id = Null
         /\ n # Null => /\ n \in Nat /\ n < s.ts /\ \A d \in tape : d.ts <= n \/ s.ts <= d.ts
                        /\ \E d \in tape : d.ts = n
         /\ Reasoned(x.mem.seg, s) /\ Step(x.mem.seg, s).state.lastTs = s.ts
<1> DEFINE st == x.mem.seg
<1>1. tape \in SUBSET Sample /\ \A a, b \in tape : a.ts = b.ts => a = b
  BY DEF Ready, Taped
<1>2. DryOk(tape, t, x) /\ Cut(x.rows, x.mem) /\ s \in tape /\ s.ts = t + 1 /\ t \in Int
  BY DEF Ready
<1>3. s \in Sample /\ s.ts \in Nat /\ s.ts # Null /\ \A d \in tape : d.ts \in Nat
  BY <1>1, <1>2, SampleFields
<1>4. Fits(tape, x) /\ Linked(x.mem) /\ Sound(x.rows, x.mem)
  BY <1>2 DEF DryOk
<1>5. x.rows \in Seq(RowsOf(tape)) /\ st \in TracksOf(tape)
  BY <1>4, FitsParts
<1>6. \A i \in DOMAIN x.rows : x.rows[i].start \in Nat /\ x.rows[i].start < s.ts
  <2> TAKE i \in DOMAIN x.rows
  <2>1. x.rows[i] \in RowsOf(tape)
    BY <1>5, RowTyped
  <2>2. x.rows[i].start \in Nat
    BY <1>1, <2>1, RowStart
  <2>3. x.rows[i].start <= t
    BY <1>2 DEF DryOk
  <2> QED BY <1>2, <2>2, <2>3
<1>7. n = Null => DOMAIN x.rows = {} /\ x.mem.id = Null
  <2> SUFFICES ASSUME n = Null PROVE DOMAIN x.rows = {} /\ x.mem.id = Null
    OBVIOUS
  <2>1. x = Fresh
    BY <1>2 DEF DryOk
  <2>2. x.rows = <<>> /\ x.mem.id = Null
    BY <2>1 DEF Fresh, Blank
  <2> QED BY <2>2
<1>8. n # Null => /\ n \in Nat /\ n < s.ts /\ \A d \in tape : d.ts <= n \/ s.ts <= d.ts
                  /\ \E d \in tape : d.ts = n
  <2> SUFFICES ASSUME n # Null
               PROVE  /\ n \in Nat /\ n < s.ts /\ \A d \in tape : d.ts <= n \/ s.ts <= d.ts
                      /\ \E d \in tape : d.ts = n
    OBVIOUS
  <2>1. n \in Nat /\ n <= t /\ \A d \in tape : d.ts <= n \/ t < d.ts
    BY <1>2 DEF DryOk
  <2>2. \E d \in tape : d.ts = n
    BY <1>2 DEF Cut
  <2>3. \A d \in tape : d.ts <= n \/ s.ts <= d.ts
    BY <1>2, <1>3, <2>1
  <2> QED BY <1>2, <2>1, <2>2, <2>3
<1>9. ~(st.lastTs # Null /\ s.ts < st.lastTs)
  BY <1>3, <1>8
<1> HIDE DEF st
<1>10. Reasoned(st, s) /\ Step(st, s).state.lastTs = s.ts
  BY <1>1, <1>2, <1>5, <1>9, StepWhy, NewerSays
<1> QED BY <1>1, <1>3, <1>4, <1>5, <1>6, <1>7, <1>8, <1>10 DEF st

LEMMA RunningAs ==
  ASSUME NEW c, NEW t, NEW x, NEW s, Ready(c, t, x, s), x.mem.id # Null,
         NEW y, y = x.rows[x.mem.id], NEW n, n = x.mem.seg.lastTs
  PROVE  /\ x.mem.id \in DOMAIN x.rows /\ RunsAs(x.mem, y, n) /\ UnderWay(x.mem, y)
         /\ n \in Nat /\ \A j \in DOMAIN x.rows : x.rows[j].start <= y.start
<1> DEFINE o == x.mem.seg.open
           q == Between(y.start, n)
<1>1. /\ tape \in SUBSET Sample /\ Fits(tape, x) /\ Linked(x.mem) /\ Sound(x.rows, x.mem)
      /\ x.rows \in Seq(RowsOf(tape)) /\ x.mem.seg \in TracksOf(tape)
      /\ n # Null => n \in Nat
      /\ n # Null
  BY ReadyGives
<1>2. x.mem.id \in DOMAIN x.rows
  BY <1>1, FitsParts
<1>3. y \in RowsOf(tape)
  BY <1>1, <1>2, RowTyped
<1>4. y.start \in Nat
  BY <1>1, <1>3, RowStart
<1>5. o # Null /\ y.kind = o.kind
  BY <1>1 DEF Linked, Sound
<1>6. o \in SegmentsOf(tape)
  BY <1>1, <1>5 DEF TracksOf
<1>7. o.kind \in {"drive", "charge"} /\ o.still \in Nat \cup {Null}
  BY <1>6 DEF SegmentsOf
<1>8. UnderWay(x.mem, y) /\ \A j \in DOMAIN x.rows : x.rows[j].start <= y.start
  BY DEF Ready, Cut
<1>9. y.start <= n
  <2>1. Len(q) >= 1 /\ q \in Seq({u \in tape : u.ts \in y.start..n})
    BY <1>8, BetweenIs DEF UnderWay, SoFar, InOrder, Ready
  <2> HIDE DEF q
  <2>2. 1 \in DOMAIN q
    BY <2>1
  <2>3. q[1].ts \in y.start..n
    BY <2>1, <2>2
  <2> QED BY <1>1, <1>4, <2>3
<1> QED BY <1>1, <1>2, <1>3, <1>4, <1>5, <1>6, <1>7, <1>8, <1>9 DEF RunsAs

\* The rows that have ended stay so.
LEMMA OthersOver ==
  ASSUME NEW c, NEW t, NEW x, NEW s, Ready(c, t, x, s), NEW i \in DOMAIN x.rows, i # x.mem.id,
         NEW r, r[i] = x.rows[i], \A j \in DOMAIN r : j \in DOMAIN x.rows /\ r[j].start = x.rows[j].start
  PROVE  Over(r, i, s.ts)
<1> DEFINE n == x.mem.seg.lastTs
           q == x.rows
<1>1. s.ts \in Nat /\ n \in Nat /\ n < s.ts
  BY ReadyGives
<1>2. Over(q, i, n)
  BY DEF Ready, Cut
<1> HIDE DEF n, q
<1>3. n <= s.ts
  BY <1>1
<1>4. Over(r, i, s.ts)
  BY <1>1, <1>2, <1>3, OverStays DEF q
<1> QED BY <1>4

\* After the end of the session that ran, all have ended.
LEMMA EndCuts ==
  ASSUME NEW c, NEW t, NEW x, NEW s, Ready(c, t, x, s), x.mem.id # Null,
         NEW e \in tape, Cause(x.mem.seg, s, e),
         NEW y, y = EndedRow(x.mem.points, x.mem.seg.open.kind, e, x.rows[x.mem.id]),
         NEW r, Ended(x.rows, r, x.mem.id, y)
  PROVE  \A i \in DOMAIN r : Over(r, i, s.ts) /\ r[i].start \in Nat /\ r[i].start < s.ts
<1> DEFINE q == x.rows
           id == x.mem.id
           n == x.mem.seg.lastTs
<1>1. /\ s.ts \in Nat /\ n < s.ts /\ (\A d \in tape : d.ts <= n \/ s.ts <= d.ts)
      /\ \E d \in tape : d.ts = n
      /\ \A i \in DOMAIN q : q[i].start \in Nat /\ q[i].start < s.ts
  BY RunningAs, ReadyGives, SessionsAssumption
<1>2. /\ id \in DOMAIN q /\ RunsAs(x.mem, q[id], n) /\ UnderWay(x.mem, q[id]) /\ n \in Nat
      /\ \A j \in DOMAIN q : q[j].start <= q[id].start
  BY RunningAs
<1>3. Done(y, s.ts) /\ y.start = q[id].start
  <2> DEFINE z == q[id]
             o == x.mem.seg.open
  <2>1. /\ Taped(c) /\ s \in tape /\ o.still \in Nat \cup {Null} /\ o.kind \in {"drive", "charge"}
        /\ z \in RowsOf(tape) /\ z.kind = o.kind /\ z.start <= n /\ UnderWay(x.mem, z)
        /\ y = EndedRow(x.mem.points, o.kind, e, z)
    BY <1>2 DEF Ready, RunsAs
  <2>2. Done(y, s.ts) /\ y.start = z.start
    <3> DEFINE m == x.mem
    <3>1. m.seg.lastTs = n /\ o = m.seg.open /\ UnderWay(m, z) /\ Cause(m.seg, s, e)
          /\ y = EndedRow(m.points, o.kind, e, z)
      BY <2>1
    <3> HIDE DEF m, n, o, z
    <3> QED BY <1>1, <1>2, <2>1, <3>1, EndDone
  <2> QED BY <2>2
<1>4. /\ DOMAIN r = DOMAIN q /\ r[id] = y
      /\ \A j \in DOMAIN q : j # id => r[j] = q[j]
  BY DEF Ended
<1>5. \A j \in DOMAIN r : j \in DOMAIN q /\ r[j].start = q[j].start
  BY <1>3, <1>4
<1>6. ASSUME NEW i \in DOMAIN r, i # id PROVE Over(r, i, s.ts)
  <2>1. i \in DOMAIN q /\ r[i] = q[i]
    BY <1>4, <1>6
  <2> QED BY <1>5, <1>6, <2>1, OthersOver
<1>7. Over(r, id, s.ts)
  <2>1. \A j \in DOMAIN r : ~(r[id].start < r[j].start)
    <3> TAKE j \in DOMAIN r
    <3>1. /\ r[j].start = q[j].start /\ r[id].start = q[id].start /\ q[j].start <= q[id].start
          /\ q[j].start \in Nat /\ q[id].start \in Nat
      BY <1>1, <1>2, <1>4, <1>5
    <3> QED BY <3>1
  <2>2. s.ts <= s.ts /\ Done(r[id], s.ts)
    BY <1>1, <1>3, <1>4
  <2> QED BY <1>1, <2>1, <2>2 DEF Over
<1> QED BY <1>1, <1>5, <1>6, <1>7

\* A session that begins, after all the others have ended.
LEMMA BeginCuts ==
  ASSUME NEW c, Taped(c), NEW s \in tape, s.ts \in Nat, NEW q \in Seq(RowsOf(tape)), Open(q) = {},
         \A i \in DOMAIN q : Over(q, i, s.ts) /\ q[i].start \in Nat /\ q[i].start < s.ts,
         NEW k \in {"drive", "charge"}, Begin(k, s), NEW r \in Seq(RowsOf(tape)),
         NEW m, Begins(q, r, m.id, k, s), m.points = <<s>>, m.seg.open = Opened(k, s),
         m.seg.lastTs = s.ts
  PROVE  Cut(r, m)
<1> DEFINE j == m.id
<1>0. tape \in SUBSET Sample
  BY DEF Taped
<1>1. Begun(q, r, j, k, s)
  BY <1>0, BeginsFacts
<1>2. j \notin DOMAIN q
  BY <1>1 DEF Begun
<1>3. /\ r[j] = [kind |-> k, start |-> s.ts, points |-> {s.ts}, status |-> "open"]
      /\ DOMAIN r = DOMAIN q \cup {j} /\ \A i \in DOMAIN q : r[i] = q[i]
  BY <1>1, <1>2 DEF Begun
<1>4. r[j].start = s.ts /\ r[j].points = {s.ts}
  BY <1>3
<1> HIDE DEF j
<1>5. \A i \in DOMAIN r : (i \in DOMAIN q /\ r[i].start = q[i].start) \/ (r[i].start \in Nat /\ s.ts <= r[i].start)
  BY <1>3, <1>4
<1>6. ASSUME NEW i \in DOMAIN r, i # j PROVE Over(r, i, s.ts)
  <2>1. i \in DOMAIN q /\ r[i] = q[i] /\ Over(q, i, s.ts) /\ s.ts <= s.ts
    BY <1>3, <1>6
  <2> QED BY <1>5, <2>1, OverStays
<1>7. \A i \in DOMAIN r : r[i].start <= r[j].start
  BY <1>3, <1>4
<1>8. UnderWay(m, r[j])
  <2> DEFINE o == m.seg.open
  <2>1. s \in Sample
    BY <1>0
  <2>2. SoFar(o, <<s>>)
    BY <2>1, SoFarBegins
  <2>3. Between(s.ts, s.ts) = <<s>>
    BY BetweenOne
  <2>4. SoFar(o, Between(r[j].start, m.seg.lastTs))
    BY <1>4, <2>2, <2>3
  <2>5. o.last = s
    BY DEF Opened
  <2>6. m.points # <<>> /\ Last(m.points) = s
    BY DEF Last
  <2>7. \A n \in r[j].points : n <= s.ts
    BY <1>4
  <2> QED BY <1>4, <2>4, <2>5, <2>6, <2>7 DEF UnderWay
<1> QED BY <1>6, <1>7, <1>8 DEF Cut, j

\* The session goes on, with a point or silently.
LEMMA OnCuts ==
  ASSUME NEW c, NEW t, NEW x, NEW s, Ready(c, t, x, s), x.mem.id # Null, ~Wide(x.mem.seg, s),
         NEW v, v.mem.seg = Step(x.mem.seg, s).state, v.mem.id = x.mem.id,
         v.mem.seg.open.kind = x.mem.seg.open.kind,
         NEW y, y = v.rows[x.mem.id], y.start = x.rows[x.mem.id].start,
         DOMAIN v.rows = DOMAIN x.rows, \A j \in DOMAIN x.rows : j # x.mem.id => v.rows[j] = x.rows[j],
         \/ /\ ChargePauses(x.mem.seg.open, s, v.mem.seg.open)
            /\ y.points = x.rows[x.mem.id].points /\ v.mem.points = x.mem.points
         \/ /\ DriveOn(x.mem.seg.open, s, v.mem.seg.open) \/ ChargeOn(x.mem.seg.open, s, v.mem.seg.open)
            /\ y.points = x.rows[x.mem.id].points \cup {s.ts}
            /\ v.mem.points = Append(x.mem.points, s)
  PROVE  Cut(v.rows, v.mem)
<1> DEFINE st == x.mem.seg
           o == st.open
           no == v.mem.seg.open
           id == x.mem.id
           n == st.lastTs
           z == x.rows[id]
           q == Between(z.start, n)
           r == Between(z.start, s.ts)
<1>1. /\ tape \in SUBSET Sample /\ s \in Sample /\ s.ts \in Nat /\ s.ts # Null
      /\ Fits(tape, x) /\ v.mem.seg.lastTs = s.ts
  BY ReadyGives
<1>2. /\ id \in DOMAIN x.rows /\ RunsAs(x.mem, z, n) /\ UnderWay(x.mem, z) /\ n \in Nat
      /\ \A j \in DOMAIN x.rows : x.rows[j].start <= z.start
  BY RunningAs
<1>3. /\ n < s.ts /\ (\A d \in tape : d.ts <= n \/ s.ts <= d.ts) /\ \E d \in tape : d.ts = n
  <2>1. n # Null
    BY <1>2, SessionsAssumption
  <2> QED BY <2>1, ReadyGives
<1>4. Taped(c) /\ s \in tape
  BY DEF Ready
<1>5. /\ o.still \in Nat \cup {Null} /\ z.start \in Nat /\ z.start <= n
      /\ z \in RowsOf(tape)
  BY <1>2 DEF RunsAs
<1>6. r = Append(q, s)
  BY <1>2, <1>3, <1>4, <1>5, BetweenNext
<1>7. Len(q) >= 1 /\ q[Len(q)].ts = n
  <2>1. PICK d \in tape : d.ts = n
    BY <1>3
  <2>2. Len(q) >= 1 /\ q[Len(q)] = d
    BY <1>4, <1>5, <2>1, BetweenLast
  <2> QED BY <2>1, <2>2
<1>8. Rising(q)
  BY <1>4, BetweenIs
<1>9. /\ SoFar(o, q) /\ x.mem.points # <<>> /\ Last(x.mem.points) = o.last
      /\ o.last.ts \in z.points /\ \A k \in z.points : k <= o.last.ts
  BY <1>2 DEF UnderWay
<1>10. SoFar(no, r)
  <2>1. no.kind = o.kind /\ (DriveOn(o, s, no) \/ ChargeOn(o, s, no) \/ ChargePauses(o, s, no))
    OBVIOUS
  <2>2. o = st.open /\ st.lastTs = q[Len(q)].ts /\ q[Len(q)].ts < s.ts /\ ~Wide(st, s)
    BY <1>3, <1>7
  <2> HIDE DEF st, o, no, n, q, r
  <2>3. /\ o.still \in Nat \cup {Null} /\ Rising(q) /\ SoFar(o, q) /\ s \in Sample
        /\ r = Append(q, s)
    BY <1>1, <1>5, <1>6, <1>8, <1>9
  <2> QED BY <2>1, <2>2, <2>3, SoFarOn
<1>11. y.start = z.start /\ SoFar(no, Between(y.start, v.mem.seg.lastTs))
  BY <1>1, <1>10
<1>12. UnderWay(v.mem, y)
  <2>1. CASE ChargePauses(o, s, no) /\ y.points = z.points /\ v.mem.points = x.mem.points
    <3>1. no.last = o.last
      BY <2>1 DEF ChargePauses
    <3> QED BY <1>9, <1>11, <2>1, <3>1 DEF UnderWay
  <2>2. CASE /\ DriveOn(o, s, no) \/ ChargeOn(o, s, no)
             /\ y.points = z.points \cup {s.ts} /\ v.mem.points = Append(x.mem.points, s)
    <3>1. no.last = s
      BY <2>2 DEF DriveOn, ChargeOn
    <3>2. x.mem.points \in Seq(tape)
      BY <1>1, FitsParts
    <3>3. v.mem.points # <<>> /\ Last(v.mem.points) = s
      <4> DEFINE p == x.mem.points
                 u == Append(p, s)
      <4>1. p \in Seq(tape) /\ s \in tape
        BY <1>4, <3>2
      <4> HIDE DEF p
      <4>2. Len(u) = Len(p) + 1 /\ u[Len(p) + 1] = s /\ Len(p) \in Nat /\ Len(<<>>) = 0
        BY <4>1
      <4> HIDE DEF u
      <4>3. u # <<>> /\ Last(u) = s
        BY <4>2 DEF Last
      <4> QED BY <2>2, <4>3 DEF u, p
    <3>4. \A k \in z.points : k <= s.ts
      <4>1. z.points \subseteq Nat
        BY <1>1, <1>5, RowStart
      <4>2. o.last.ts \in Nat
        BY <1>9, <4>1
      <4>3. o.last.ts <= n
        <5>1. o.kind \in {"drive", "charge"}
          BY <1>2 DEF RunsAs
        <5>2. InOrder(q, {d \in tape : d.ts \in z.start..n})
          BY <1>4, BetweenIs
        <5> HIDE DEF q, o
        <5>3. Len(q) \in DOMAIN q
          BY <1>7, <1>8 DEF Rising
        <5>4. \E j \in DOMAIN q : o.last = q[j]
          BY <1>9, <5>1, <5>3 DEF SoFar, DrivesSoFar, ChargesSoFar
        <5>5. o.last \in {d \in tape : d.ts \in z.start..n}
          BY <5>2, <5>4 DEF InOrder
        <5> QED BY <1>2, <1>5, <5>5
      <4> TAKE k \in z.points
      <4>4. k \in Nat /\ k <= o.last.ts /\ s.ts \in Nat /\ n \in Nat /\ n < s.ts
        BY <1>1, <1>2, <1>3, <1>9, <4>1
      <4> HIDE DEF z, o, n
      <4> QED BY <4>2, <4>3, <4>4
    <3>5. s.ts \in y.points /\ \A k \in y.points : k <= s.ts
      <4>1. y.points = z.points \cup {s.ts} /\ s.ts <= s.ts
        BY <1>1, <2>2
      <4> HIDE DEF z
      <4> QED BY <3>4, <4>1
    <3> QED BY <1>11, <3>1, <3>3, <3>5 DEF UnderWay
  <2> QED BY <2>1, <2>2
<1>13. \A j \in DOMAIN v.rows : j \in DOMAIN x.rows /\ v.rows[j].start = x.rows[j].start
  BY <1>11
<1>14. \A j \in DOMAIN v.rows : v.rows[j].start <= y.start
  BY <1>2, <1>11, <1>13
<1>15. ASSUME NEW i \in DOMAIN v.rows, i # id PROVE Over(v.rows, i, s.ts)
  <2>1. i \in DOMAIN x.rows /\ v.rows[i] = x.rows[i]
    BY <1>15
  <2> DEFINE w == v.rows
  <2>2. w[i] = x.rows[i] /\ \A j \in DOMAIN w : j \in DOMAIN x.rows /\ w[j].start = x.rows[j].start
    BY <1>13, <2>1
  <2> HIDE DEF w
  <2>3. Over(w, i, s.ts)
    BY <1>15, <2>1, <2>2, OthersOver
  <2> QED BY <2>3 DEF w
<1> QED BY <1>1, <1>4, <1>12, <1>14, <1>15 DEF Cut

LEMMA CutStep ==
  ASSUME NEW c, NEW t, NEW x, NEW s, Ready(c, t, x, s), NEW v, v = ApplySample(x, s)
  PROVE  Cut(v.rows, v.mem)
<1> DEFINE st == x.mem.seg
           q == x.rows
           r == v.rows
           id == x.mem.id
           n == st.lastTs
           o == st.open
           no == v.mem.seg.open
<1>1. /\ tape \in SUBSET Sample /\ s \in Sample /\ s.ts \in Nat /\ s.ts # Null
      /\ Fits(tape, x) /\ Linked(x.mem) /\ Sound(q, x.mem) /\ q \in Seq(RowsOf(tape))
      /\ \A i \in DOMAIN q : q[i].start \in Nat /\ q[i].start < s.ts
      /\ Reasoned(st, s) /\ Step(st, s).state.lastTs = s.ts /\ st \in TracksOf(tape)
  BY ReadyGives
<1>2. Taped(c) /\ s \in tape
  BY DEF Ready
<1>3. /\ Fits(tape, v) /\ Linked(v.mem) /\ v.mem.seg = Step(st, s).state
      /\ \/ Silent(x, s, v) \/ Continues(x, s, v) \/ (\E e \in tape : Ends(x, s, v, e))
         \/ (\E k \in {"drive", "charge"} : Starts(x, s, v, k))
         \/ (\E e \in tape, k \in {"drive", "charge"}, p \in Seq(RowsOf(tape)) :
               Turns(x, s, v, e, k, p))
  BY <1>1, <1>2, SampleDoes
<1>4. r \in Seq(RowsOf(tape)) /\ v.mem.seg.lastTs = s.ts
  BY <1>1, <1>3, FitsParts
<1>5. (id = Null) <=> (o = Null)
  BY <1>1 DEF Linked
<1>6. id # Null => id \in DOMAIN q /\ Open(q) = {id}
  BY <1>1, FitsParts DEF Sound
<1>7. id = Null => Open(q) = {}
  BY <1>1 DEF Sound
<1> HIDE DEF q, r, st, id, n, o, no
<1>8. CASE Silent(x, s, v)
  <2>1. SaysNothing(st, s) /\ r = q /\ v.mem.id = id /\ v.mem.points = x.mem.points
    BY <1>8 DEF Silent, q, r, st, id
  <2>2. CASE id = Null
    <3>1. ASSUME NEW i \in DOMAIN r PROVE Over(r, i, s.ts)
      <4>1. i \in DOMAIN x.rows /\ i # x.mem.id /\ r[i] = x.rows[i] /\ r = x.rows
        <5>1. i \in Nat /\ i # Null
          BY <1>4, RowTyped, SessionsAssumption
        <5> QED BY <2>1, <2>2, <5>1 DEF q, id
      <4> QED BY <4>1, OthersOver
    <3>2. v.mem.id = Null /\ v.mem.seg.lastTs = s.ts
      BY <1>4, <2>1, <2>2
    <3> QED BY <1>1, <1>2, <3>1, <3>2 DEF Cut, r
  <2>3. CASE id # Null
    <3>1. ~Wide(st, s) /\ ChargePauses(o, s, no)
      BY <1>1, <1>3, <1>5, <2>1, <2>3 DEF Reasoned, o, no
    <3>2. no.kind = o.kind
      BY <1>3, <1>5, <2>1, <2>3 DEF SaysNothing, o, no
    <3> QED BY <1>3, <2>1, <2>3, <3>1, <3>2, OnCuts DEF q, r, st, id, o, no
  <2> QED BY <2>2, <2>3
<1>9. CASE Continues(x, s, v)
  <2>1. /\ SaysPoint(st, s) /\ v.mem.id = id /\ v.mem.points = Append(x.mem.points, s)
        /\ OnlyRow(q, r, id, [q[id] EXCEPT !.points = @ \cup {s.ts}])
    BY <1>9 DEF Continues, q, r, st, id
  <2>2. ~Wide(st, s) /\ (DriveOn(o, s, no) \/ ChargeOn(o, s, no))
    BY <1>1, <1>3, <2>1 DEF Reasoned, o, no
  <2>3. no.kind = o.kind /\ id # Null
    BY <1>3, <1>5, <2>1 DEF SaysPoint, o, no
  <2>4. Pointed(q, r, id, s)
    BY <1>1, <1>2, <1>4, <1>6, <2>1, <2>3, PointsOnlyRow
  <2>5. /\ DOMAIN r = DOMAIN q /\ r[id].points = q[id].points \cup {s.ts}
        /\ (\A j \in DOMAIN q : j # id => r[j] = q[j]) /\ r[id].start = q[id].start
    BY <1>6, <2>3, <2>4 DEF Pointed, Follows
  <2>6. /\ x.mem.id # Null /\ ~Wide(x.mem.seg, s) /\ v.mem.id = x.mem.id
        /\ v.mem.seg.open.kind = x.mem.seg.open.kind
        /\ DriveOn(x.mem.seg.open, s, v.mem.seg.open) \/ ChargeOn(x.mem.seg.open, s, v.mem.seg.open)
        /\ v.mem.points = Append(x.mem.points, s)
    BY <2>1, <2>2, <2>3 DEF st, id, o, no
  <2>7. /\ v.rows[x.mem.id].start = x.rows[x.mem.id].start
        /\ v.rows[x.mem.id].points = x.rows[x.mem.id].points \cup {s.ts}
        /\ DOMAIN v.rows = DOMAIN x.rows
        /\ \A j \in DOMAIN x.rows : j # x.mem.id => v.rows[j] = x.rows[j]
    BY <2>5 DEF q, r, id
  <2>8. v.mem.seg = Step(x.mem.seg, s).state
    BY <1>3 DEF st
  <2> QED BY <2>6, <2>7, <2>8, OnCuts
<1>10. CASE \E e \in tape : Ends(x, s, v, e)
  <2>1. PICK e \in tape : Ends(x, s, v, e)
    BY <1>10
  <2> DEFINE y == EndedRow(x.mem.points, o.kind, e, q[id])
  <2>2. SaysEnd(st, s, e) /\ v.mem.id = Null /\ OnlyRow(q, r, id, y)
    BY <2>1 DEF Ends, q, r, st, id, o
  <2>3. id # Null /\ Cause(st, s, e)
    BY <1>1, <1>5, <2>2 DEF SaysEnd, Reasoned, o
  <2>4. Ended(q, r, id, y)
    BY <1>1, <1>2, <1>4, <1>6, <2>2, <2>3, EndsOnlyRow
  <2>5. \A i \in DOMAIN r : Over(r, i, s.ts)
    <3>1. Ended(x.rows, r, x.mem.id, EndedRow(x.mem.points, x.mem.seg.open.kind, e, x.rows[x.mem.id]))
          /\ Cause(x.mem.seg, s, e) /\ x.mem.id # Null
      BY <2>3, <2>4 DEF q, id, st, o
    <3> HIDE DEF y
    <3> QED BY <3>1, EndCuts
  <2> QED BY <1>1, <1>2, <1>4, <2>2, <2>5 DEF Cut, r
<1>11. CASE \E k \in {"drive", "charge"} : Starts(x, s, v, k)
  <2>1. PICK k \in {"drive", "charge"} : Starts(x, s, v, k)
    BY <1>11
  <2>2. SaysStart(st, s, k) /\ Begins(q, r, v.mem.id, k, s) /\ v.mem.points = <<s>>
    BY <2>1 DEF Starts, q, r, st
  <2>3. id = Null /\ Begin(k, s) /\ no = Opened(k, s)
    BY <1>1, <1>3, <1>5, <2>2 DEF SaysStart, Reasoned, o, no
  <2>4. ASSUME NEW i \in DOMAIN q PROVE Over(q, i, s.ts)
    <3>1. i \in DOMAIN x.rows /\ i # x.mem.id /\ q[i] = x.rows[i] /\ q = x.rows
      <4>1. i \in Nat /\ i # Null
        BY <1>1, RowTyped, SessionsAssumption
      <4> QED BY <2>3, <4>1 DEF q, id
    <3> QED BY <3>1, OthersOver
  <2>5. Cut(r, v.mem)
    BY <1>1, <1>2, <1>4, <1>7, <2>2, <2>3, <2>4, BeginCuts DEF no
  <2> QED BY <2>5 DEF r
<1>12. CASE \E e \in tape, k \in {"drive", "charge"}, p \in Seq(RowsOf(tape)) :
              Turns(x, s, v, e, k, p)
  <2>1. PICK e \in tape, k \in {"drive", "charge"}, p \in Seq(RowsOf(tape)) :
          Turns(x, s, v, e, k, p)
    BY <1>12
  <2> DEFINE y == EndedRow(x.mem.points, o.kind, e, q[id])
  <2>2. /\ SaysTurn(st, s, e, k) /\ OnlyRow(q, p, id, y)
        /\ Begins(p, r, v.mem.id, k, s) /\ v.mem.points = <<s>>
    BY <2>1 DEF Turns, q, r, st, id, o
  <2>3. id # Null /\ Cause(st, s, e) /\ Begin(k, s) /\ no = Opened(k, s)
    BY <1>1, <1>3, <1>5, <2>2 DEF SaysTurn, Reasoned, o, no
  <2>4. Ended(q, p, id, y)
    BY <1>1, <1>2, <1>6, <2>2, <2>3, EndsOnlyRow
  <2>5. \A i \in DOMAIN p : Over(p, i, s.ts) /\ p[i].start \in Nat /\ p[i].start < s.ts
    <3>1. Ended(x.rows, p, x.mem.id, EndedRow(x.mem.points, x.mem.seg.open.kind, e, x.rows[x.mem.id]))
          /\ Cause(x.mem.seg, s, e) /\ x.mem.id # Null
      BY <2>3, <2>4 DEF q, id, st, o
    <3> HIDE DEF y
    <3> QED BY <3>1, EndCuts
  <2>6. Open(p) = {}
    BY <1>1, <1>6, <2>3, <2>4, EndsLast
  <2>7. Cut(r, v.mem)
    BY <1>1, <1>2, <1>4, <2>2, <2>3, <2>5, <2>6, BeginCuts DEF no
  <2> QED BY <2>7 DEF r
<1> QED BY <1>3, <1>8, <1>9, <1>10, <1>11, <1>12

\* So it is of every replay of the tape.
LEMMA CutHolds ==
  ASSUME NEW c, Taped(c), NEW n \in Nat, NEW x, x = Dry(tape, n)
  PROVE  Cut(x.rows, x.mem)
<1> DEFINE P(y) == Cut(y.rows, y.mem)
<1>0. tape \in SUBSET Sample /\ \A a, b \in tape : a.ts = b.ts => a = b
  BY DEF Taped
<1>1. ASSUME NEW t \in Int, t >= -1, NEW y, DryOk(tape, t, y), P(y)
      PROVE  P(At(y, tape, t + 1))
  <2>1. CASE Due(tape, t + 1) = {}
    BY <1>1, <2>1 DEF At
  <2>2. CASE Due(tape, t + 1) # {}
    <3> DEFINE s == CHOOSE s \in Due(tape, t + 1) : TRUE
               v == ApplySample(y, s)
    <3>1. s \in tape /\ s.ts = t + 1
      BY <2>2 DEF Due
    <3>2. At(y, tape, t + 1) = v
      BY <2>2 DEF At
    <3> HIDE DEF s
    <3>3. Ready(c, t, y, s)
      BY <1>1, <3>1 DEF Ready
    <3>4. P(v)
      BY <3>3, CutStep
    <3> QED BY <3>2, <3>4
  <2> QED BY <2>1, <2>2
<1>2. P(Fresh) /\ DryOk(tape, -1, Fresh)
  <2>1. Fresh.rows = <<>> /\ Fresh.mem.id = Null /\ Fresh.mem.seg.lastTs = Null
    BY DEF Fresh, Blank, NoSegment
  <2>2. DOMAIN <<>> = {}
    OBVIOUS
  <2> HIDE DEF Fresh
  <2> QED BY <1>0, <2>1, <2>2, FreshOk DEF Cut
<1> DEFINE K == {k \in Nat : P(Dry(tape, k))}
<1>3. 0 \in K
  <2>1. P(At(Fresh, tape, -1 + 1))
    BY <1>1, <1>2
  <2>2. -1 + 1 = 0
    OBVIOUS
  <2>3. Dry(tape, 0) = At(Fresh, tape, 0)
    BY UptoSteps DEF Dry
  <2> QED BY <2>1, <2>2, <2>3
<1>4. ASSUME NEW k \in Nat, k \in K PROVE k + 1 \in K
  <2>1. DryOk(tape, k, Dry(tape, k))
    BY <1>0, DryIsOk
  <2>2. P(At(Dry(tape, k), tape, k + 1))
    BY <1>1, <1>4, <2>1
  <2>3. Dry(tape, k + 1) = At(Dry(tape, k), tape, k + 1)
    BY UptoSteps DEF Dry
  <2> QED BY <2>2, <2>3
<1>5. \A k \in Nat : k \in K
  <2> HIDE DEF K
  <2> QED BY <1>3, <1>4, NatSetInduction
<1> QED BY <1>5
===============================================================================
