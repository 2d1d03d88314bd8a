------------------------- MODULE SubscriptionPlanProofs -------------------------
(***************************************************************************)
(* Theorems about SubscriptionPlan, for every catalogue, size of a group,  *)
(* and set of scenarios.                                                   *)
(***************************************************************************)
EXTENDS SubscriptionPlan, InductionFacts, FiniteSetTheorems

-----------------------------------------------------------------------------
(* The steps.                                                              *)

\* Next, with the subscription or the timer that each step is about.
LEMMA Steps ==
  Next =>
    \/ Break \/ Mend \/ Retire
    \/ \E l \in live : RetryOnly(l) \/ Verdict(l) \/ RefuseFixed(l) \/ Split(l) \/ Drop(l)
                         \/ Exhaust(l) \/ Frame(l) \/ Ended(l)
    \/ \E t \in timers : Fire(t)
    \/ RenewAll \/ WaveLapses \/ CanaryLapses \/ SearchLapses
    \/ \E n \in Names : Reprobe(n)
    \/ \E k \in Fixed : ReprobeFixed(k)
    \/ Discover \/ Open \/ SocketEnds \/ StartPlan \/ LoadSaved \/ WriteStatus \/ Halt \/ Crash
BY Zenon DEF Next, Answer, Fires

-----------------------------------------------------------------------------
(* The saved list.                                                         *)

\* Once the row has been read, what was recorded is in what the next write says.
Recorded ==
  /\ loaded => owed \subseteq Row
  /\ ~running => carried = {}
  /\ ListKept

\* A step that takes nothing from the list it does not take from what is owed.
LEMMA RecordedKept ==
  ASSUME Recorded, UNCHANGED <<running, loaded, kept, carried, saved>>, owed' \subseteq owed,
         owed' \cap dropped \subseteq dropped'
  PROVE  Recorded'
BY DEF Recorded, ListKept, Row

LEMMA RecordedStep == Recorded /\ Next => Recorded'
<1> SUFFICES ASSUME Recorded, Next PROVE Recorded'
  OBVIOUS
<1>1. CASE UNCHANGED <<lists, dropped, owed>>
  BY <1>1, RecordedKept DEF lists
<1>2. CASE Break \/ Mend \/ Retire \/ RenewAll \/ WaveLapses \/ CanaryLapses \/ SearchLapses
  BY <1>1, <1>2, Zenon
  DEF Break, Mend, Retire, RenewAll, WaveLapses, CanaryLapses, SearchLapses
<1>3. CASE \E l \in live : RetryOnly(l) \/ RefuseFixed(l) \/ Split(l) \/ Frame(l) \/ Ended(l)
  BY <1>1, <1>3, Zenon DEF RetryOnly, RefuseFixed, Split, Frame, Ended
<1>4. CASE \E t \in timers : Fire(t)
  BY <1>1, <1>4, Zenon DEF Fire
<1>5. CASE (\E k \in Fixed : ReprobeFixed(k)) \/ Open
  BY <1>1, <1>5, Zenon DEF ReprobeFixed, Open
<1>6. CASE \E l \in live : Verdict(l)
  <2>1. owed' = owed \ pending.dropped /\ dropped' = dropped \ pending.dropped /\ UNCHANGED lists
    BY <1>6 DEF Verdict
  <2> QED BY <2>1, RecordedKept DEF lists
<1>7. CASE \E l \in live : Drop(l)
  <2>1. owed' = owed /\ dropped \subseteq dropped' /\ UNCHANGED lists
    BY <1>7 DEF Drop
  <2> QED BY <2>1, RecordedKept DEF lists
<1>8. CASE \E l \in live : Exhaust(l)
  <2>1. PICK names : owed' = owed \ names /\ dropped' = dropped \ names /\ UNCHANGED lists
    BY <1>8 DEF Exhaust
  <2> QED BY <2>1, RecordedKept DEF lists
<1>9. CASE \E n \in Names : Reprobe(n)
  <2>1. PICK n : owed' = owed \ {n} /\ dropped' = dropped \ {n} /\ UNCHANGED lists
    BY <1>9 DEF Reprobe
  <2> QED BY <2>1, RecordedKept DEF lists
<1>10. CASE Discover \/ SocketEnds
  BY <1>10, RecordedKept DEF Discover, SocketEnds, lists
<1>11. CASE StartPlan
  BY <1>11 DEF StartPlan, Recorded, ListKept, Row
<1>12. CASE LoadSaved
  BY <1>12 DEF LoadSaved, Recorded, ListKept, Row, ReadLate
<1>13. CASE WriteStatus
  BY <1>13 DEF WriteStatus, Recorded, ListKept, Row
<1>14. CASE Halt
  BY <1>14 DEF Halt, Recorded, ListKept, Row
<1>15. CASE Crash
  BY <1>15 DEF Crash, Recorded, ListKept
<1> QED
  BY <1>2, <1>3, <1>4, <1>5, <1>6, <1>7, <1>8, <1>9, <1>10, <1>11, <1>12, <1>13, <1>14, <1>15,
     Steps, Zenon

\* connector.ts:1279-1285, 1324-1326: a dropped name that the status row has shown stays in the
\* row, though the list was never read, was read too late for the running plan, or the plan was
\* replaced or the process restarted, until the plan itself takes the name back.
THEOREM RowKeepsDropped == Spec => []ListKept
<1>1. Init => Recorded
  BY DEF Init, Recorded, ListKept
<1>2. Recorded /\ [Next]_vars => Recorded'
  <2>1. Recorded /\ UNCHANGED vars => Recorded'
    BY DEF Recorded, ListKept, Row, vars, lists
  <2> QED BY <2>1, RecordedStep
<1>3. Recorded => ListKept
  BY DEF Recorded
<1> QED BY <1>1, <1>2, <1>3, PTL DEF Spec

-----------------------------------------------------------------------------
(* Ranks, groups and free keys.                                            *)

\* A finite set of numbers has an element at every rank below its size.
LEMMA RankTaken ==
  ASSUME NEW S \in SUBSET Nat, IsFiniteSet(S)
  PROVE  \A n \in Nat : n < Cardinality(S) => \E k \in S : Rank(k, S) = n
<1> DEFINE Taken == {n \in Nat : n < Cardinality(S) => \E k \in S : Rank(k, S) = n}
<1>0. \A j \in S : j \in Nat
  OBVIOUS
<1>1. 0 \in Taken
  <2> SUFFICES ASSUME 0 < Cardinality(S) PROVE \E k \in S : Rank(k, S) = 0
    OBVIOUS
  <2>1. S # {}
    BY FS_EmptySet
  <2>2. PICK k \in S : \A j \in S : k <= j
    BY <2>1, MinExists
  <2>3. \A j \in S : ~ (j < k)
    BY <1>0, <2>2
  <2>4. {j \in S : j < k} = {}
    BY <2>3
  <2> QED BY <2>4, FS_EmptySet DEF Rank
<1>2. ASSUME NEW n \in Nat, n \in Taken PROVE n + 1 \in Taken
  <2> SUFFICES ASSUME n + 1 < Cardinality(S) PROVE \E k \in S : Rank(k, S) = n + 1
    OBVIOUS
  <2>1. Cardinality(S) \in Nat
    BY FS_CardinalityType
  <2>2. PICK k \in S : Rank(k, S) = n
    BY <1>2, <2>1
  <2> DEFINE Below == {j \in S : j < k}
             Rest == S \ (Below \cup {k})
  <2>3. IsFiniteSet(Below) /\ Cardinality(Below) = n
    BY <2>2, FS_Subset DEF Rank
  <2>4. Cardinality(Below \cup {k}) = n + 1
    <3>1. k \notin Below
      BY <1>0
    <3> HIDE DEF Below
    <3> QED BY <2>3, <3>1, FS_AddElement
  <2>5. Rest # {} /\ Rest \in SUBSET Nat
    <3>1. Below \cup {k} # S
      <4> SUFFICES ASSUME Below \cup {k} = S PROVE FALSE
        OBVIOUS
      <4> HIDE DEF Below
      <4>1. Cardinality(S) = n + 1
        BY <2>4, Zenon
      <4> QED BY <4>1, <2>1
    <3>2. Below \cup {k} \subseteq S
      OBVIOUS
    <3>3. Rest \subseteq S
      OBVIOUS
    <3> QED BY <3>1, <3>2, <3>3
  <2>6. PICK m \in Rest : \A j \in Rest : m <= j
    BY <2>5, MinExists
  <2>7. {j \in S : j < m} = Below \cup {k}
    <3>1. \A j \in S : j \in Nat /\ (j < m => j \notin Rest)
      BY <1>0, <2>6
    <3>2. \A j \in S : j < m => j \in Below \cup {k}
      BY <3>1
    <3>3. m \in Nat /\ k \in Nat /\ m \in S /\ ~ (m < k) /\ m # k
      BY <1>0, <2>6
    <3>4. \A j \in Below \cup {k} : j \in S /\ j < m
      BY <1>0, <3>3
    <3> QED BY <3>2, <3>4
  <2> QED BY <2>4, <2>6, <2>7 DEF Rank
<1> HIDE DEF Taken
<1>3. \A n \in Nat : n \in Taken
  BY <1>1, <1>2, NatSetInduction
<1> QED BY <1>3 DEF Taken

\* A rank is below the size.
LEMMA RankBound ==
  ASSUME NEW S \in SUBSET Nat, IsFiniteSet(S), NEW k \in S
  PROVE  Rank(k, S) \in Nat /\ Rank(k, S) < Cardinality(S)
<1> DEFINE Below == {j \in S : j < k}
<1>1. IsFiniteSet(Below) /\ Cardinality(Below) <= Cardinality(S)
  BY FS_Subset
<1>2. Below # S
  OBVIOUS
<1>3. Cardinality(S) # Cardinality(Below)
  BY <1>2, FS_Subset
<1>4. Cardinality(S) \in Nat /\ Cardinality(Below) \in Nat
  BY <1>1, FS_CardinalityType
<1> QED BY <1>1, <1>3, <1>4 DEF Rank

\* Both halves of a group of two or more have a property.
LEMMA Halves ==
  ASSUME NEW S \in SUBSET Nat, IsFiniteSet(S), Cardinality(S) > 1
  PROVE  FirstHalf(S) # {} /\ S \ FirstHalf(S) # {} /\ FirstHalf(S) \subseteq S
<1>1. Cardinality(S) \in Nat
  BY FS_CardinalityType
<1>2. PICK k \in S : Rank(k, S) = 0
  BY <1>1, RankTaken
<1>3. PICK m \in S : Rank(m, S) = Cardinality(S) - 1
  BY <1>1, RankTaken
<1>4. k \in FirstHalf(S)
  BY <1>1, <1>2 DEF FirstHalf
<1>5. ~ (2 * Rank(m, S) < Cardinality(S))
  BY <1>1, <1>3
<1>6. m \notin FirstHalf(S)
  BY <1>5 DEF FirstHalf
<1> QED BY <1>4, <1>6 DEF FirstHalf

LEMMA Quotient ==
  ASSUME NEW r \in Nat, NEW d \in Nat \ {0}
  PROVE  r \div d \in Nat /\ r \div d <= r
OBVIOUS

\* Every property is in a group, and a group is of a number that its properties have the
\* quotient of.
LEMMA GroupsCover ==
  ASSUME NEW S \in SUBSET Nat, IsFiniteSet(S)
  PROVE  /\ \A n \in S : \E g \in Groups(S) : n \in g
         /\ \A g \in Groups(S) : g # {} /\ g \subseteq S
<1> DEFINE q(n) == Rank(n, S) \div GroupSize
           group(i) == {n \in S : q(n) = i}
<1>1. Groups(S) = {group(i) : i \in {q(n) : n \in S}}
  BY Zenon DEF Groups
<1> HIDE DEF q
<1>2. \A n \in S : group(q(n)) \in Groups(S) /\ n \in group(q(n))
  BY <1>1
<1>3. ASSUME NEW g \in Groups(S) PROVE g # {} /\ g \subseteq S
  <2>1. PICK n \in S : g = group(q(n))
    BY <1>1
  <2> QED BY <2>1
<1> QED BY <1>2, <1>3

LEMMA GroupNumber ==
  ASSUME NEW S \in SUBSET Nat, IsFiniteSet(S), NEW g \in Groups(S)
  PROVE  LET i == Rank(CHOOSE n \in g : TRUE, S) \div GroupSize
         IN  i \in Nat /\ i < Cardinality(S)
<1> DEFINE n == CHOOSE k \in g : TRUE
<1>1. n \in S
  BY GroupsCover
<1>2. Rank(n, S) \in Nat /\ Rank(n, S) < Cardinality(S)
  BY <1>1, RankBound
<1>3. GroupSize \in Nat \ {0} /\ Cardinality(S) \in Nat
  BY ConstantsAssumption, FS_CardinalityType
<1>4. Rank(n, S) \div GroupSize \in Nat /\ Rank(n, S) \div GroupSize <= Rank(n, S)
  BY <1>2, <1>3, Quotient
<1> QED BY <1>2, <1>3, <1>4

\* A key that is given out is one that nothing remembers, while there are enough of them.
LEMMA FreeKey ==
  ASSUME NEW n \in Nat, KeysLeft(n + 1)
  PROVE  Free(n) \in Unused
<1>1. MaxKey \in Nat
  BY ConstantsAssumption
<1>2. IsFiniteSet(Keys)
  BY <1>1, FS_Interval DEF Keys
<1>3. IsFiniteSet(Unused) /\ Unused \in SUBSET Nat
  <2>1. Unused \subseteq Keys /\ Keys \subseteq Nat
    BY <1>1 DEF Unused, Keys
  <2> HIDE DEF Unused
  <2> QED BY <2>1, <1>2, FS_Subset
<1>4. Cardinality(Unused) \in Nat /\ Cardinality(Unused) >= n + 1
  BY <1>3, FS_CardinalityType DEF KeysLeft
<1> HIDE DEF Unused
<1>5. \E k \in Unused : Rank(k, Unused) = n
  BY <1>3, <1>4, RankTaken
<1> QED BY <1>5 DEF Free, Rank

-----------------------------------------------------------------------------
(* What each record is.                                                    *)

SubsOf(records) == {r.sub : r \in records}

LiveShape(among) == \A l \in among : DOMAIN l = {"sub", "id", "heard"}

TimerShape(among) == \A t \in among : DOMAIN t = {"sub", "id", "why", "held"}

WaveShape(w) == DOMAIN w = {"groups", "refused", "probes", "dropped"}

SearchShape(among) == \A s \in among : DOMAIN s = {"group", "keys", "rejected"}

Shapes ==
  LiveShape(live) /\ TimerShape(timers) /\ WaveShape(wave) /\ WaveShape(pending)
    /\ SearchShape(searches)

\* Which subscriptions are live or waited for, after each operation on the two sets.
LEMMA ActivateEffect ==
  ASSUME NEW subs, NEW among, LiveShape(among)
  PROVE  LiveShape(Activate(subs, among)) /\ SubsOf(Activate(subs, among)) = SubsOf(among) \cup subs
<1> DEFINE record(s) == [sub |-> s, id |-> Twin(s, among), heard |-> FALSE]
           new == {record(s) : s \in subs}
<1>1. Activate(subs, among) = among \cup new
  BY DEF Activate
<1>2. LiveShape(new) /\ SubsOf(new) = subs
  <2>1. \A s \in subs : DOMAIN record(s) = {"sub", "id", "heard"} /\ record(s).sub = s
    OBVIOUS
  <2> HIDE DEF record
  <2> QED BY <2>1 DEF LiveShape, SubsOf
<1> HIDE DEF new
<1> QED BY <1>1, <1>2 DEF LiveShape, SubsOf

LEMMA ForgetEffect ==
  ASSUME NEW keys, NEW among, TimerShape(among)
  PROVE  TimerShape(Forget(keys, among)) /\ SubsOf(Forget(keys, among)) = SubsOf(among)
<1> DEFINE after(t) == IF t.sub.key \in keys THEN [t EXCEPT !.held = FALSE] ELSE t
<1>1. Forget(keys, among) = {after(t) : t \in among}
  BY DEF Forget
<1>2. \A t \in among : after(t).sub = t.sub /\ DOMAIN after(t) = DOMAIN t
  BY DEF TimerShape
<1> HIDE DEF after
<1> QED BY <1>1, <1>2 DEF TimerShape, SubsOf

LEMMA LaterEffect ==
  ASSUME NEW subs, NEW why, NEW among, TimerShape(among)
  PROVE  TimerShape(Later(subs, why, among)) /\ SubsOf(Later(subs, why, among)) = SubsOf(among) \cup subs
<1> DEFINE record(s) == [sub |-> s, id |-> Twin(s, among), why |-> why, held |-> TRUE]
           new == {record(s) : s \in subs}
           old == Forget(KeysOf(subs), among)
<1>1. Later(subs, why, among) = old \cup new
  BY DEF Later
<1>2. TimerShape(new) /\ SubsOf(new) = subs
  <2>1. \A s \in subs : DOMAIN record(s) = {"sub", "id", "why", "held"} /\ record(s).sub = s
    OBVIOUS
  <2> HIDE DEF record
  <2> QED BY <2>1 DEF TimerShape, SubsOf
<1>3. TimerShape(old) /\ SubsOf(old) = SubsOf(among)
  BY ForgetEffect
<1> HIDE DEF new, old
<1> QED BY <1>1, <1>2, <1>3 DEF TimerShape, SubsOf

LEMMA CancelEffect ==
  ASSUME NEW keys, NEW among, TimerShape(among)
  PROVE  /\ TimerShape(Cancel(keys, among))
         /\ SubsOf(Cancel(keys, among)) \subseteq SubsOf(among)
         /\ \A s \in SubsOf(among) : s.key \in keys \/ s \in SubsOf(Cancel(keys, among))
BY DEF TimerShape, Cancel, SubsOf

\* The rejection is in the wave, which is still open or waits for the canary.
Joined(l, probes, names) ==
  /\ l.sub \in wave.groups
  /\ \E with : /\ with.groups = wave.groups
               /\ with.refused = wave.refused \cup {l.sub.key}
               /\ with.probes = wave.probes \cup probes
               /\ with.dropped = wave.dropped \cup names
               /\ \/ wave' = with /\ pending' = pending
                  \/ wave' = NoWave /\ pending' = with /\ with.refused = KeysOf(with.groups)

\* The last group of a wave asks for the canary, the others only enter the wave.
LEMMA InWaveEffect ==
  ASSUME Shapes, NEW l \in live, NEW probes, NEW names, InWave(l, probes, names)
  PROVE  /\ LiveShape(live') /\ WaveShape(wave') /\ WaveShape(pending')
         /\ \/ SubsOf(live') = SubsOf(live \ {l})
            \/ SubsOf(live') = SubsOf(live \ {l}) \cup {Sub(Canary, {CanaryProperty})}
         /\ UNCHANGED <<wave, pending>> \/ Joined(l, probes, names)
<1> DEFINE with == [wave EXCEPT !.refused = @ \cup {l.sub.key}, !.probes = @ \cup probes,
                                !.dropped = @ \cup names]
<1>1. /\ with.groups = wave.groups
      /\ with.refused = wave.refused \cup {l.sub.key}
      /\ with.probes = wave.probes \cup probes
      /\ with.dropped = wave.dropped \cup names
  BY DEF Shapes, WaveShape
<1>2. WaveShape(with) /\ WaveShape(NoWave) /\ WaveShape(wave) /\ WaveShape(pending)
  BY <1>1 DEF Shapes, WaveShape, NoWave
<1>3. LiveShape(live \ {l})
  BY DEF Shapes, LiveShape
<1> HIDE DEF with
<1>4. \/ live' = live \ {l} /\ UNCHANGED <<wave, pending>>
      \/ /\ l.sub \in wave.groups
         /\ \/ live' = live \ {l}
            \/ live' = Activate({Sub(Canary, {CanaryProperty})}, live \ {l})
         /\ \/ wave' = with /\ pending' = pending
            \/ wave' = NoWave /\ pending' = with /\ with.refused = KeysOf(wave.groups)
  BY Zenon DEF InWave, with
<1>5. /\ LiveShape(live')
      /\ \/ SubsOf(live') = SubsOf(live \ {l})
         \/ SubsOf(live') = SubsOf(live \ {l}) \cup {Sub(Canary, {CanaryProperty})}
  BY <1>3, <1>4, ActivateEffect
<1>6. WaveShape(wave') /\ WaveShape(pending')
  BY <1>2, <1>4
<1>7. UNCHANGED <<wave, pending>> \/ Joined(l, probes, names)
  BY <1>1, <1>4 DEF Joined
<1> QED BY <1>5, <1>6, <1>7

-----------------------------------------------------------------------------
(* The invariant.                                                          *)

\* The groups that a search or a wave is about, and every subscription that is spoken of.
Searching == {s.group : s \in searches} \cup wave.groups \cup pending.groups
Mentioned == Asked \cup Searching

Props(w) == UNION {g.props : g \in w.groups}

SubOK(s, names) ==
  /\ s.key \in AllKeys
  /\ s.props \subseteq names
  /\ (s.props = {} <=> s.key \in Fixed)

Lists ==
  /\ scenario \in Scenarios
  /\ socket => running
  /\ running => Catalogue \subseteq known
  /\ dropped \subseteq known /\ known \subseteq Names
  /\ kept \cup carried \cup saved \subseteq Names
  /\ unavailable \subseteq Fixed

Subs ==
  /\ \A s \in Mentioned : SubOK(s, known)
  /\ \A s \in Searching : s.key \in Keys

Idle ==
  ~socket => live = {} /\ timers = {} /\ wave = NoWave /\ pending = NoWave /\ searches = {}

Judged == faulted \subseteq Keys \cup {Canary} /\ exhausted \subseteq Keys

\* A probe asks for nothing that the groups of its wave, or the group of its search, do not:
\* to withdraw it and retry the group loses nothing.
WaveInv(w, subs) ==
  /\ w.refused \subseteq KeysOf(w.groups) /\ w.probes \subseteq Keys /\ w.dropped \subseteq Props(w)
  /\ \A s \in subs : s.key \in w.probes => s.props \subseteq Props(w)

SearchInv(r, subs) ==
  /\ r.keys \subseteq Keys /\ r.rejected \subseteq r.group.props
  /\ \A s \in subs : s.key \in r.keys => s.props \subseteq r.group.props

Waves == WaveInv(wave, Mentioned) /\ WaveInv(pending, Mentioned)

SearchesInv == \A r \in searches : SearchInv(r, Mentioned)

IInv ==
  Lists /\ Shapes /\ Subs /\ Idle /\ Judged /\ Waves /\ SearchesInv /\ NoneForgotten

LEMMA KeysApart == Canary \notin Keys /\ Canary \notin Fixed /\ Fixed \cap Keys = {}
BY ConstantsAssumption DEF Canary, Keys

\* A key that nothing remembers is the key of no subscription that is spoken of.
LEMMA UnusedFresh ==
  ASSUME NEW k \in Unused
  PROVE  /\ k \in Keys
         /\ \A s \in Mentioned : s.key # k
         /\ k \notin wave.probes /\ k \notin pending.probes
         /\ \A r \in searches : k \notin r.keys
<1>1. k \in Keys /\ k \notin Remembered
  BY DEF Unused
<1>2. ASSUME NEW s \in Mentioned PROVE s.key # k
  <2>1. CASE s \in {l.sub : l \in live}
    BY <1>1, <2>1 DEF Remembered, KeysOf
  <2>2. CASE s \in {t.sub : t \in timers}
    BY <1>1, <2>2 DEF Remembered, KeysOf
  <2>3. CASE s \in {r.group : r \in searches}
    BY <1>1, <2>3 DEF Remembered
  <2>4. CASE s \in wave.groups \cup pending.groups
    BY <1>1, <2>4 DEF Remembered, KeysOf
  <2> QED BY <2>1, <2>2, <2>3, <2>4 DEF Mentioned, Searching, Asked
<1>3. k \notin wave.probes /\ k \notin pending.probes
  BY <1>1 DEF Remembered
<1>4. \A r \in searches : k \notin r.keys
  BY <1>1 DEF Remembered
<1> QED BY <1>1, <1>2, <1>3, <1>4

LEMMA NothingInNoWave == \A subs : WaveInv(NoWave, subs)
BY DEF WaveInv, NoWave

\* A wave stays what it is when the subscriptions that are new have keys of their own.
LEMMA WaveKept ==
  ASSUME NEW w, NEW subs, WaveInv(w, subs), NEW after,
         \A s \in after : s \in subs \/ (s.key \in w.probes => s.props \subseteq Props(w))
  PROVE  WaveInv(w, after)
BY DEF WaveInv

\* The keys no probe has: those that are free, and those that are not keys of state groups.
NewKeys == Unused \cup {Canary} \cup Fixed

LEMMA NewKeysFresh ==
  ASSUME Waves, SearchesInv, NEW k \in NewKeys
  PROVE  /\ k \notin wave.probes /\ k \notin pending.probes
         /\ \A r \in searches : k \notin r.keys
<1>1. CASE k \in Unused
  BY <1>1, UnusedFresh
<1>2. CASE k \notin Keys
  BY <1>2 DEF Waves, WaveInv, SearchesInv, SearchInv
<1> QED BY <1>1, <1>2, KeysApart DEF NewKeys

\* A step whose new subscriptions have new keys disturbs no wave and no search.
NewAreNew == \A s \in Mentioned' : s \in Mentioned \/ s.key \in NewKeys

LEMMA WavesKept ==
  ASSUME Waves, SearchesInv, NewAreNew
  PROVE  /\ WaveInv(wave, Mentioned') /\ WaveInv(pending, Mentioned')
         /\ wave' \in {wave, NoWave} /\ pending' \in {pending, NoWave} => Waves'
<1>1. WaveInv(wave, Mentioned') /\ WaveInv(pending, Mentioned')
  BY WaveKept, NewKeysFresh DEF Waves, NewAreNew
<1> QED BY <1>1, NothingInNoWave DEF Waves

LEMMA SearchesKept ==
  ASSUME Waves, SearchesInv, NewAreNew,
         \A r \in searches' : \E q \in searches :
           r.group = q.group /\ r.keys \subseteq q.keys /\ r.rejected \subseteq q.group.props
  PROVE  SearchesInv'
<1> SUFFICES ASSUME NEW r \in searches' PROVE SearchInv(r, Mentioned')
  BY DEF SearchesInv
<1>1. PICK q \in searches :
        r.group = q.group /\ r.keys \subseteq q.keys /\ r.rejected \subseteq q.group.props
  OBVIOUS
<1>2. SearchInv(q, Mentioned)
  BY DEF SearchesInv
<1>3. \A s \in Mentioned' : s.key \in q.keys => s \in Mentioned
  BY NewKeysFresh DEF NewAreNew
<1> QED BY <1>1, <1>2, <1>3 DEF SearchInv

LEMMA SearchKept ==
  ASSUME Waves, SearchesInv, NewAreNew,
         wave' \in {wave, NoWave}, pending' \in {pending, NoWave}, searches' \subseteq searches
  PROVE  Waves' /\ SearchesInv'
<1>1. Waves'
  BY WavesKept
<1>2. \A r \in searches' : r \in searches /\ r.rejected \subseteq r.group.props
  BY DEF SearchesInv, SearchInv
<1>3. SearchesInv'
  BY <1>2, SearchesKept
<1> QED BY <1>1, <1>3

LEMMA SubsKept ==
  ASSUME Subs, known \subseteq known',
         \A s \in Mentioned' : s \in Mentioned \/ SubOK(s, known'),
         \A s \in Searching' : s \in Searching \/ s.key \in Keys
  PROVE  Subs'
BY DEF Subs, SubOK

-----------------------------------------------------------------------------
(* The steps that ask for the same as before.                              *)

Calm ==
  /\ Shapes' /\ Asked' = Asked
  /\ wave' \in {wave, NoWave} /\ pending' \in {pending, NoWave} /\ searches' \subseteq searches
  /\ faulted' \subseteq faulted
  /\ UNCHANGED <<exhausted, scenario, running, known, dropped, unavailable, kept, carried, saved,
                 socket>>

LEMMA SearchingLess ==
  ASSUME wave' \in {wave, NoWave}, pending' \in {pending, NoWave}, searches' \subseteq searches
  PROVE  Searching' \subseteq Searching
<1>1. NoWave.groups = {}
  BY DEF NoWave
<1> QED BY <1>1 DEF Searching

LEMMA CalmStep ==
  ASSUME IInv, Calm, Idle'
  PROVE  IInv'
<1>1. Searching' \subseteq Searching
  BY SearchingLess DEF Calm
<1>2. Mentioned' \subseteq Mentioned
  BY <1>1 DEF Mentioned, Calm
<1>3. Lists'
  BY DEF Calm, IInv, Lists, Catalogue
<1>4. Subs'
  <2>1. Subs /\ known \subseteq known'
    BY DEF Calm, IInv
  <2> QED BY <1>1, <1>2, <2>1, SubsKept
<1>5. Judged'
  BY DEF Calm, IInv, Judged
<1>6. Waves' /\ SearchesInv'
  <2>1. /\ Waves /\ SearchesInv
        /\ wave' \in {wave, NoWave} /\ pending' \in {pending, NoWave} /\ searches' \subseteq searches
    BY DEF Calm, IInv
  <2> QED BY <1>2, <2>1, SearchKept DEF NewAreNew
<1>7. NoneForgotten'
  BY DEF Calm, IInv, NoneForgotten
<1> QED BY <1>3, <1>4, <1>5, <1>6, <1>7 DEF IInv, Calm

LEMMA StillCalm ==
  ASSUME IInv, UNCHANGED <<live, search, lists, dropped, unavailable, socket, timers, scenario>>
  PROVE  Calm /\ Idle'
BY DEF Calm, IInv, Shapes, Idle, Asked, search, lists

\* The records of a set with one taken out and one put in.
LEMMA SubsMoved ==
  ASSUME NEW among, NEW r \in among
  PROVE  /\ SubsOf(among) = SubsOf(among \ {r}) \cup {r.sub}
         /\ LiveShape(among) => LiveShape(among \ {r})
         /\ TimerShape(among) => TimerShape(among \ {r})
BY DEF SubsOf, LiveShape, TimerShape

LEMMA AskedIs == Asked = SubsOf(live) \cup SubsOf(timers)
BY DEF Asked, SubsOf

LEMMA RetryCalm ==
  ASSUME IInv, NEW l \in live, RetryOnly(l) \/ Ended(l)
  PROVE  Calm /\ Idle'
<1>1. /\ live' = live \ {l} /\ timers' = Later({l.sub}, "backoff", timers)
      /\ wave' = wave /\ pending' \in {pending, NoWave} /\ searches' = searches
      /\ UNCHANGED <<faulted, exhausted, scenario, running, known, dropped, unavailable, kept,
                     carried, saved, socket>>
  BY DEF RetryOnly, Ended, search, lists, server
<1>2. LiveShape(live) /\ TimerShape(timers) /\ Idle
  BY DEF IInv, Shapes
<1>3. LiveShape(live') /\ SubsOf(live) = SubsOf(live') \cup {l.sub}
  BY <1>1, <1>2, SubsMoved
<1>4. TimerShape(timers') /\ SubsOf(timers') = SubsOf(timers) \cup {l.sub}
  BY <1>1, <1>2, LaterEffect
<1>5. Asked' = SubsOf(live') \cup SubsOf(timers')
  BY DEF Asked, SubsOf
<1>6. Asked' = Asked
  BY <1>3, <1>4, <1>5, AskedIs
<1>7. WaveShape(wave') /\ WaveShape(pending') /\ SearchShape(searches')
  BY <1>1 DEF IInv, Shapes, WaveShape, NoWave
<1>8. Idle'
  BY <1>1, <1>2 DEF Idle
<1> QED BY <1>1, <1>3, <1>4, <1>6, <1>7, <1>8 DEF Calm, Shapes

LEMMA FrameCalm ==
  ASSUME IInv, NEW l \in live, Frame(l)
  PROVE  Calm /\ Idle'
<1> DEFINE heard == [l EXCEPT !.heard = TRUE]
<1>1. /\ live' = (live \ {l}) \cup {heard}
      /\ wave' \in {wave, NoWave} /\ pending' \in {pending, NoWave} /\ faulted' \subseteq faulted
      /\ UNCHANGED <<timers, searches, exhausted, scenario, running, known, dropped, unavailable,
                     kept, carried, saved, socket>>
  BY DEF Frame, lists, server, Accepted
<1>2. LiveShape(live) /\ Idle
  BY DEF IInv, Shapes
<1>3. heard.sub = l.sub /\ DOMAIN heard = {"sub", "id", "heard"}
  BY <1>2 DEF LiveShape
<1> HIDE DEF heard
<1>4. LiveShape(live')
  BY <1>1, <1>2, <1>3 DEF LiveShape
<1>5. SubsOf(live') = SubsOf(live \ {l}) \cup {l.sub}
  BY <1>1, <1>3 DEF SubsOf
<1>6. Asked' = Asked
  <2>1. Asked' = SubsOf(live') \cup SubsOf(timers')
    BY DEF Asked, SubsOf
  <2> QED BY <1>1, <1>5, <2>1, AskedIs, SubsMoved
<1>7. WaveShape(wave') /\ WaveShape(pending') /\ SearchShape(searches') /\ TimerShape(timers')
  BY <1>1 DEF IInv, Shapes, WaveShape, NoWave
<1>8. Idle'
  BY <1>1, <1>2 DEF Idle
<1> QED BY <1>1, <1>4, <1>6, <1>7, <1>8 DEF Calm, Shapes

LEMMA RenewCalm ==
  ASSUME IInv, RenewAll
  PROVE  Calm /\ Idle'
<1> DEFINE renewed(l) == [l EXCEPT !.heard = FALSE]
<1>1. /\ live' = {renewed(l) : l \in live} /\ socket
      /\ UNCHANGED <<wave, pending, faulted, timers, searches, exhausted, scenario, running, known,
                     dropped, unavailable, kept, carried, saved, socket>>
  BY DEF RenewAll, search, lists
<1>2. LiveShape(live)
  BY DEF IInv, Shapes
<1>3. \A l \in live : renewed(l).sub = l.sub /\ DOMAIN renewed(l) = {"sub", "id", "heard"}
  BY <1>2 DEF LiveShape
<1> HIDE DEF renewed
<1>4. LiveShape(live')
  BY <1>1, <1>3 DEF LiveShape
<1>5. SubsOf(live') = SubsOf(live)
  BY <1>1, <1>3 DEF SubsOf
<1>6. Asked' = Asked
  <2>1. Asked' = SubsOf(live') \cup SubsOf(timers')
    BY DEF Asked, SubsOf
  <2> QED BY <1>1, <1>5, <2>1, AskedIs
<1>7. Shapes'
  BY <1>1, <1>4 DEF IInv, Shapes
<1>8. Idle'
  BY <1>1 DEF Idle
<1> QED BY <1>1, <1>6, <1>7, <1>8 DEF Calm

LEMMA FireCalm ==
  ASSUME IInv, NEW t \in timers, Fire(t)
  PROVE  Calm /\ Idle'
<1>1. /\ timers' = Forget({t.sub.key}, timers \ {t})
      /\ live' = Activate({t.sub}, live)
      /\ wave' \in {wave, NoWave} /\ pending' \in {pending, NoWave}
      /\ UNCHANGED <<searches, faulted, exhausted, scenario, running, known, dropped, unavailable,
                     kept, carried, saved, socket>>
  BY DEF Fire, lists, server
<1>2. LiveShape(live) /\ TimerShape(timers) /\ Idle
  BY DEF IInv, Shapes
<1>3. LiveShape(live') /\ SubsOf(live') = SubsOf(live) \cup {t.sub}
  BY <1>1, <1>2, ActivateEffect
<1>4. TimerShape(timers') /\ SubsOf(timers') = SubsOf(timers \ {t})
  BY <1>1, <1>2, SubsMoved, ForgetEffect
<1>5. Asked' = Asked
  <2>1. Asked' = SubsOf(live') \cup SubsOf(timers')
    BY DEF Asked, SubsOf
  <2>2. SubsOf(timers) = SubsOf(timers \ {t}) \cup {t.sub}
    BY SubsMoved
  <2> QED BY <1>3, <1>4, <2>1, <2>2, AskedIs
<1>6. WaveShape(wave') /\ WaveShape(pending') /\ SearchShape(searches')
  BY <1>1 DEF IInv, Shapes, WaveShape, NoWave
<1>7. Idle'
  BY <1>1, <1>2 DEF Idle
<1> QED BY <1>1, <1>3, <1>4, <1>5, <1>6, <1>7 DEF Calm, Shapes

LEMMA LapseCalm ==
  ASSUME IInv, WaveLapses \/ CanaryLapses \/ SearchLapses
  PROVE  Calm /\ Idle'
<1>1. /\ wave' \in {wave, NoWave} /\ pending' \in {pending, NoWave} /\ searches' \subseteq searches
      /\ UNCHANGED <<live, timers, faulted, exhausted, scenario, running, known, dropped,
                     unavailable, kept, carried, saved, socket>>
  BY DEF WaveLapses, CanaryLapses, SearchLapses, lists, server
<1>2. Asked' = Asked
  BY <1>1 DEF Asked
<1>3. Shapes'
  BY <1>1 DEF IInv, Shapes, WaveShape, NoWave, SearchShape
<1>4. Idle'
  BY <1>1 DEF IInv, Idle
<1> QED BY <1>1, <1>2, <1>3, <1>4 DEF Calm

-----------------------------------------------------------------------------
(* The steps that ask for something else.                                  *)

CanarySub == Sub(Canary, {CanaryProperty})

LEMMA CanaryOK ==
  ASSUME Lists, socket
  PROVE  SubOK(CanarySub, known) /\ CanarySub.key = Canary
<1>1. CanaryProperty \in known
  BY ConstantsAssumption DEF Lists, Catalogue
<1>2. CanarySub.key = Canary /\ CanarySub.props = {CanaryProperty}
  BY DEF CanarySub, Sub
<1>3. Canary \notin Fixed /\ Canary \in AllKeys
  BY KeysApart DEF AllKeys
<1> QED BY <1>1, <1>2, <1>3 DEF SubOK

\* #documentFault: what is withdrawn is asked for by the groups that are retried.
LEMMA VerdictStep ==
  ASSUME IInv, NEW l \in live, Verdict(l)
  PROVE  IInv'
<1>1. /\ live' = live \ {l} /\ l.sub.key = Canary
      /\ timers' = Later(pending.groups \cup {CanarySub}, "backoff", Cancel(pending.probes, timers))
      /\ wave' = wave /\ pending' = NoWave /\ socket
      /\ dropped' = dropped \ pending.dropped
      /\ faulted' = faulted \cup KeysOf(pending.groups) \cup {Canary} \cup pending.probes
      /\ UNCHANGED <<exhausted, scenario, running, known, unavailable, kept, carried, saved,
                     socket>>
  BY DEF Verdict, Withdrawn, Refused, CanarySub, lists, server
<1>2. /\ Lists /\ LiveShape(live) /\ TimerShape(timers) /\ Subs /\ Judged /\ Waves /\ SearchesInv
      /\ WaveInv(pending, Mentioned)
  BY DEF IInv, Shapes, Waves
<1>3. SearchShape(searches') /\ \A r \in searches' : \E q \in searches :
        r.group = q.group /\ r.keys \subseteq q.keys /\ r.rejected = q.rejected
  <2> DEFINE after(s) == [s EXCEPT !.keys = @ \ pending.probes]
  <2>1. \A r \in searches' : \E q \in searches : r = after(q)
    BY DEF Verdict
  <2>2. \A q \in searches : /\ after(q).group = q.group
                            /\ after(q).keys = q.keys \ pending.probes
                            /\ after(q).rejected = q.rejected
                            /\ DOMAIN after(q) = DOMAIN q
    BY DEF IInv, Shapes, SearchShape
  <2>3. SearchShape(searches)
    BY DEF IInv, Shapes
  <2> HIDE DEF after
  <2> QED BY <2>1, <2>2, <2>3 DEF SearchShape
<1>4. LiveShape(live') /\ SubsOf(live) = SubsOf(live') \cup {l.sub}
  BY <1>1, <1>2, SubsMoved
<1>5. /\ TimerShape(timers')
      /\ SubsOf(timers') = SubsOf(Cancel(pending.probes, timers)) \cup pending.groups \cup {CanarySub}
      /\ SubsOf(timers') \subseteq SubsOf(timers) \cup pending.groups \cup {CanarySub}
      /\ \A s \in SubsOf(timers) : s.key \in pending.probes \/ s \in SubsOf(timers')
  BY <1>1, <1>2, CancelEffect, LaterEffect
<1>6. Asked' = SubsOf(live') \cup SubsOf(timers')
  BY DEF Asked, SubsOf
<1>7. Searching' \subseteq Searching /\ Asked' \subseteq Asked \cup pending.groups \cup {CanarySub}
  <2>1. NoWave.groups = {}
    BY DEF NoWave
  <2>2. Searching' \subseteq Searching
    BY <1>1, <1>3, <2>1 DEF Searching
  <2> QED BY <1>4, <1>5, <1>6, <2>2, AskedIs
<1>8. \A s \in Mentioned' : s \in Mentioned \/ s = CanarySub
  BY <1>7 DEF Mentioned, Searching
<1>9. SubOK(CanarySub, known) /\ CanarySub.key = Canary
  BY <1>1, <1>2, CanaryOK
<1>10. Subs'
  BY <1>1, <1>2, <1>7, <1>8, <1>9, SubsKept
<1>11. NewAreNew
  BY <1>8, <1>9 DEF NewAreNew, NewKeys
<1>12. Waves'
  BY <1>1, <1>2, <1>11, WavesKept
<1>13. SearchesInv'
  <2>1. \A q \in searches : q.rejected \subseteq q.group.props
    BY <1>2 DEF SearchesInv, SearchInv
  <2>2. \A r \in searches' : \E q \in searches :
          r.group = q.group /\ r.keys \subseteq q.keys /\ r.rejected \subseteq q.group.props
    BY <1>3, <2>1
  <2> QED BY <1>2, <1>11, <2>2, SearchesKept
<1>14. Lists' /\ Idle'
  BY <1>1, <1>2 DEF Lists, Idle, Catalogue
<1>15. Judged'
  <2>1. \A s \in pending.groups : s.key \in Keys
    BY <1>2 DEF Subs, Searching
  <2>2. KeysOf(pending.groups) \subseteq Keys /\ pending.probes \subseteq Keys
    BY <1>2, <2>1 DEF KeysOf, WaveInv
  <2> QED BY <1>1, <1>2, <2>2 DEF Judged
<1>16. Shapes'
  BY <1>1, <1>3, <1>4, <1>5 DEF IInv, Shapes, WaveShape, NoWave
<1>17. NoneForgotten'
  <2> SUFFICES ASSUME NEW n \in known, n \notin dropped'
               PROVE  \E s \in Asked' : n \in s.props /\ s.key # Canary
    BY <1>1 DEF NoneForgotten
  <2>1. pending.groups \subseteq Asked' /\ \A s \in pending.groups : s.key # Canary
    BY <1>2, <1>5, <1>6, KeysApart DEF Subs, Searching
  <2>2. CASE n \in Props(pending)
    BY <2>1, <2>2 DEF Props
  <2>3. CASE n \notin Props(pending)
    <3>1. n \notin dropped
      BY <1>1, <1>2, <2>3 DEF WaveInv
    <3>2. PICK s \in Asked : n \in s.props /\ s.key # Canary
      BY <1>1, <3>1 DEF IInv, NoneForgotten
    <3>3. s.key \notin pending.probes
      BY <1>2, <2>3, <3>2 DEF WaveInv, Mentioned
    <3>4. s \in Asked'
      BY <1>1, <1>4, <1>5, <1>6, <3>2, <3>3, AskedIs
    <3> QED BY <3>2, <3>4
  <2> QED BY <2>2, <2>3
<1> QED BY <1>10, <1>12, <1>13, <1>14, <1>15, <1>16, <1>17 DEF IInv

\* One with nothing to bisect has no property to forget.
LEMMA RefuseFixedStep ==
  ASSUME IInv, NEW l \in live, RefuseFixed(l)
  PROVE  IInv'
<1>1. /\ live' = live \ {l} /\ l.sub.props = {} /\ unavailable' = unavailable \cup {l.sub.key}
      /\ UNCHANGED <<timers, wave, pending, searches, faulted, exhausted, scenario, running, known,
                     dropped, kept, carried, saved, socket>>
  BY DEF RefuseFixed, lists, server, search
<1>2. Lists /\ LiveShape(live) /\ Subs /\ Idle /\ Judged /\ Waves /\ SearchesInv
  BY DEF IInv, Shapes
<1>3. LiveShape(live') /\ SubsOf(live) = SubsOf(live') \cup {l.sub}
  BY <1>1, <1>2, SubsMoved
<1>4. Asked' = SubsOf(live') \cup SubsOf(timers)
  BY <1>1 DEF Asked, SubsOf
<1>5. Asked = Asked' \cup {l.sub}
  BY <1>3, <1>4, AskedIs
<1>6. Searching' = Searching /\ Mentioned' \subseteq Mentioned
  BY <1>1, <1>5 DEF Mentioned, Searching
<1>7. Subs'
  BY <1>1, <1>2, <1>6, SubsKept DEF Subs
<1>8. Waves' /\ SearchesInv'
  BY <1>1, <1>2, <1>6, SearchKept DEF NewAreNew
<1>9. l.sub.key \in Fixed
  BY <1>1, <1>2, <1>5 DEF Subs, SubOK, Mentioned
<1>10. Lists' /\ Idle' /\ Judged'
  BY <1>1, <1>2, <1>9 DEF Lists, Idle, Judged, Catalogue
<1>11. Shapes'
  BY <1>1, <1>3 DEF IInv, Shapes
<1>12. NoneForgotten'
  <2> SUFFICES ASSUME socket, NEW n \in known, n \notin dropped
               PROVE  \E s \in Asked' : n \in s.props /\ s.key # Canary
    BY <1>1 DEF NoneForgotten
  <2>1. PICK s \in Asked : n \in s.props /\ s.key # Canary
    BY DEF IInv, NoneForgotten
  <2>2. s \in Asked'
    BY <1>1, <1>5, <2>1
  <2> QED BY <2>1, <2>2
<1> QED BY <1>7, <1>8, <1>10, <1>11, <1>12 DEF IInv

\* A rejection enters the wave that its group is in: the probes it brings ask for nothing
\* that the group does not.
LEMMA JoinKept ==
  ASSUME IInv, NewAreNew, NEW l \in live, NEW probes \in SUBSET Keys, NEW names \in SUBSET l.sub.props,
         InWave(l, probes, names),
         \A s \in Mentioned' : s.key \in probes => s.props \subseteq l.sub.props
  PROVE  Waves' /\ wave'.groups \cup pending'.groups \subseteq wave.groups \cup pending.groups
<1>1. WaveInv(wave, Mentioned') /\ WaveInv(pending, Mentioned')
  BY WavesKept DEF IInv
<1>2. CASE UNCHANGED <<wave, pending>>
  BY <1>1, <1>2 DEF Waves
<1>3. CASE Joined(l, probes, names)
  <2>1. PICK with : /\ with.groups = wave.groups
                    /\ with.refused = wave.refused \cup {l.sub.key}
                    /\ with.probes = wave.probes \cup probes
                    /\ with.dropped = wave.dropped \cup names
                    /\ \/ wave' = with /\ pending' = pending
                       \/ wave' = NoWave /\ pending' = with
    BY <1>3 DEF Joined
  <2>2. l.sub.props \subseteq Props(wave) /\ Props(with) = Props(wave) /\ l.sub.key \in KeysOf(wave.groups)
    BY <1>3, <2>1 DEF Joined, Props, KeysOf
  <2>3. WaveInv(with, Mentioned')
    BY <1>1, <2>1, <2>2 DEF WaveInv
  <2>4. NoWave.groups = {}
    BY DEF NoWave
  <2> QED BY <1>1, <2>1, <2>3, <2>4, NothingInNoWave DEF Waves
<1>4. Shapes
  BY DEF IInv
<1>5. UNCHANGED <<wave, pending>> \/ Joined(l, probes, names)
  BY <1>4, InWaveEffect
<1> QED BY <1>2, <1>3, <1>5

LEMMA SearchJoined ==
  ASSUME IInv, NewAreNew, NEW l \in live, NEW probes \in SUBSET Keys,
         \A s \in Mentioned' : s.key \in probes => s.props \subseteq l.sub.props,
         \A r \in searches' :
           \/ r.group = l.sub /\ r.keys = probes /\ r.rejected = {}
           \/ \E q \in searches : /\ r.group = q.group /\ r.rejected \subseteq q.group.props
                                  /\ r.keys \subseteq q.keys \cup probes
                                  /\ r.keys \subseteq q.keys \/ l.sub.key \in q.keys
  PROVE  SearchesInv'
<1> SUFFICES ASSUME NEW r \in searches' PROVE SearchInv(r, Mentioned')
  BY DEF SearchesInv
<1>1. CASE r.group = l.sub /\ r.keys = probes /\ r.rejected = {}
  BY <1>1 DEF SearchInv
<1>2. ASSUME NEW q \in searches,
             r.group = q.group, r.rejected \subseteq q.group.props,
             r.keys \subseteq q.keys \cup probes,
             r.keys \subseteq q.keys \/ l.sub.key \in q.keys
      PROVE  SearchInv(r, Mentioned')
  <2>1. SearchInv(q, Mentioned) /\ l.sub \in Mentioned
    BY DEF IInv, SearchesInv, Mentioned, Asked
  <2>2. ASSUME NEW s \in Mentioned', s.key \in r.keys PROVE s.props \subseteq q.group.props
    <3>1. CASE s.key \in q.keys
      <4>1. s \in Mentioned
        BY <3>1, NewKeysFresh DEF NewAreNew, IInv
      <4> QED BY <2>1, <3>1, <4>1 DEF SearchInv
    <3>2. CASE s.key \notin q.keys
      <4>1. s.key \in probes /\ l.sub.key \in q.keys
        BY <1>2, <2>2, <3>2
      <4>2. l.sub.props \subseteq q.group.props
        BY <2>1, <4>1 DEF SearchInv
      <4> QED BY <4>1, <4>2
    <3> QED BY <3>1, <3>2
  <2>3. r.keys \subseteq Keys
    BY <1>2, <2>1 DEF SearchInv
  <2> QED BY <1>2, <2>2, <2>3 DEF SearchInv
<1> QED BY <1>1, <1>2

\* What is searched is a group of properties.
LEMMA SearchedGroup ==
  ASSUME IInv, NEW l \in live, Searched(l)
  PROVE  /\ socket /\ l.sub \in Asked /\ l.sub.key \in Keys
         /\ l.sub.props \in SUBSET known /\ l.sub.props \in SUBSET Nat /\ IsFiniteSet(l.sub.props)
<1>1. socket /\ l.sub.key # Canary /\ l.sub.props # {}
  BY DEF Searched, Refused, Refuses
<1>2. l.sub \in Asked /\ SubOK(l.sub, known) /\ known \subseteq Names
  BY DEF IInv, Subs, Lists, Mentioned, Asked
<1>3. l.sub.key \in Keys
  BY <1>1, <1>2 DEF SubOK, AllKeys
<1>4. l.sub.props \subseteq known /\ l.sub.props \subseteq Names
  BY <1>2 DEF SubOK
<1>5. Names \subseteq Nat /\ IsFiniteSet(Names)
  BY ConstantsAssumption
<1> QED BY <1>1, <1>2, <1>3, <1>4, <1>5, FS_Subset

\* #search, a group of several: its halves ask for what it asked for.
LEMMA SplitStep ==
  ASSUME IInv, NEW l \in live, Split(l)
  PROVE  IInv'
<1> DEFINE half == FirstHalf(l.sub.props)
           rest == l.sub.props \ half
           first == Sub(Free(0), half)
           second == Sub(Free(1), rest)
           probes == {first.key, second.key}
<1>1. /\ Searched(l) /\ Cardinality(l.sub.props) > 1 /\ KeysLeft(2)
      /\ searches' = IF SearchOf(l.sub.key) = {}
                     THEN searches \cup {[group |-> l.sub, keys |-> probes, rejected |-> {}]}
                     ELSE {IF l.sub.key \in s.keys THEN [s EXCEPT !.keys = @ \cup probes] ELSE s :
                             s \in searches}
      /\ timers' = Later({first, second}, "bisect", timers)
      /\ InWave(l, probes, {})
      /\ UNCHANGED <<dropped, unavailable, faulted, exhausted, scenario, running, known, kept,
                     carried, saved, socket>>
  BY Zenon DEF Split, lists, server
<1>2. /\ Lists /\ LiveShape(live) /\ TimerShape(timers) /\ SearchShape(searches) /\ Subs /\ Idle
      /\ Judged /\ Waves /\ SearchesInv /\ Shapes
  BY DEF IInv, Shapes
<1>3. /\ socket /\ l.sub \in Asked /\ l.sub.key \in Keys
      /\ l.sub.props \in SUBSET known /\ l.sub.props \in SUBSET Nat /\ IsFiniteSet(l.sub.props)
  BY <1>1, SearchedGroup
<1>4. half # {} /\ rest # {} /\ half \cup rest = l.sub.props
  BY <1>1, <1>3, Halves
<1>5. Free(0) \in Unused /\ Free(1) \in Unused
  <2>1. KeysLeft(1)
    <3>1. IsFiniteSet(Unused)
      <4>1. Unused \subseteq Keys /\ IsFiniteSet(Keys)
        BY ConstantsAssumption, FS_Interval DEF Unused, Keys
      <4> QED BY <4>1, FS_Subset
    <3>2. Cardinality(Unused) \in Nat
      BY <3>1, FS_CardinalityType
    <3> QED BY <1>1, <3>2 DEF KeysLeft
  <2> QED BY <1>1, <2>1, FreeKey
<1>6. /\ first.key \in Unused /\ second.key \in Unused
      /\ first.props = half /\ second.props = rest
  BY <1>5 DEF Sub
<1> HIDE DEF first, second, half, rest
<1>7. probes \in SUBSET Keys /\ probes \subseteq Unused
  BY <1>6, UnusedFresh
<1>8. /\ LiveShape(live') /\ WaveShape(wave') /\ WaveShape(pending')
      /\ SubsOf(live \ {l}) \subseteq SubsOf(live')
      /\ SubsOf(live') \subseteq SubsOf(live \ {l}) \cup {CanarySub}
      /\ SubsOf(live) = SubsOf(live \ {l}) \cup {l.sub}
      /\ UNCHANGED <<wave, pending>> \/ Joined(l, probes, {})
  <2>1. SubsOf(live) = SubsOf(live \ {l}) \cup {l.sub}
    BY SubsMoved
  <2>2. /\ LiveShape(live') /\ WaveShape(wave') /\ WaveShape(pending')
        /\ \/ SubsOf(live') = SubsOf(live \ {l})
           \/ SubsOf(live') = SubsOf(live \ {l}) \cup {CanarySub}
        /\ UNCHANGED <<wave, pending>> \/ Joined(l, probes, {})
    <3> HIDE DEF probes
    <3> QED BY <1>1, <1>2, InWaveEffect DEF CanarySub
  <2> QED BY <2>1, <2>2
<1>9. TimerShape(timers') /\ SubsOf(timers') = SubsOf(timers) \cup {first, second}
  BY <1>1, <1>2, LaterEffect
<1>10. Asked' = SubsOf(live') \cup SubsOf(timers')
  BY DEF Asked, SubsOf
<1>11. /\ Asked' \subseteq Asked \cup {first, second, CanarySub}
       /\ {first, second} \subseteq Asked'
       /\ \A s \in Asked : s \in Asked' \/ s = l.sub
  BY <1>8, <1>9, <1>10, AskedIs
<1>12. SearchShape(searches') /\ \A r \in searches' :
           \/ r.group = l.sub /\ r.keys = probes /\ r.rejected = {}
           \/ \E q \in searches : /\ r.group = q.group /\ r.rejected \subseteq q.group.props
                                  /\ r.keys \subseteq q.keys \cup probes
                                  /\ r.keys \subseteq q.keys \/ l.sub.key \in q.keys
  <2> DEFINE with(s) == [s EXCEPT !.keys = @ \cup probes]
             begun == [group |-> l.sub, keys |-> probes, rejected |-> {}]
  <2>1. \A q \in searches : q.rejected \subseteq q.group.props
    BY <1>2 DEF SearchesInv, SearchInv
  <2>2. \A q \in searches : /\ with(q).group = q.group
                            /\ with(q).keys = q.keys \cup probes
                            /\ with(q).rejected = q.rejected
                            /\ DOMAIN with(q) = DOMAIN q
    BY <1>2 DEF SearchShape
  <2>3. /\ begun.group = l.sub /\ begun.keys = probes /\ begun.rejected = {}
        /\ DOMAIN begun = {"group", "keys", "rejected"}
    OBVIOUS
  <2>4. \A r \in searches' : \/ r = begun
                             \/ r \in searches
                             \/ \E q \in searches : l.sub.key \in q.keys /\ r = with(q)
    <3> HIDE DEF probes
    <3> QED BY <1>1
  <2> HIDE DEF with, begun, probes
  <2> QED BY <1>2, <2>1, <2>2, <2>3, <2>4 DEF SearchShape
<1>13. Searching' \subseteq Searching \cup {l.sub}
       /\ \A s \in Mentioned' : s \in Mentioned \/ s \in {first, second, CanarySub}
  <2>1. wave'.groups \cup pending'.groups \subseteq wave.groups \cup pending.groups
    <3>1. NoWave.groups = {}
      BY DEF NoWave
    <3> QED BY <1>8, <3>1 DEF Joined
  <2>2. {r.group : r \in searches'} \subseteq {q.group : q \in searches} \cup {l.sub}
    BY <1>12
  <2>3. Searching' \subseteq Searching \cup {l.sub}
    BY <2>1, <2>2 DEF Searching
  <2> QED BY <1>3, <1>11, <2>3 DEF Mentioned
<1>14. SubOK(CanarySub, known) /\ CanarySub.key = Canary
  BY <1>2, <1>3, CanaryOK
<1>15. SubOK(first, known) /\ SubOK(second, known)
  <2>1. \A k \in Unused : k \in AllKeys /\ k \notin Fixed
    BY UnusedFresh, KeysApart DEF AllKeys
  <2> QED BY <1>3, <1>4, <1>6, <2>1 DEF SubOK
<1>16. Subs'
  BY <1>1, <1>2, <1>3, <1>13, <1>14, <1>15, SubsKept
<1>17. NewAreNew
  BY <1>6, <1>13, <1>14 DEF NewAreNew, NewKeys
<1>18. \A s \in Mentioned' : s.key \in probes => s.props \subseteq l.sub.props
  <2>1. \A s \in Mentioned : s.key \notin probes
    BY <1>6, UnusedFresh
  <2>2. CanarySub.key \notin probes
    BY <1>7, <1>14, KeysApart
  <2>3. first.props \subseteq l.sub.props /\ second.props \subseteq l.sub.props
    BY <1>4, <1>6
  <2> QED BY <1>13, <2>1, <2>2, <2>3
<1> HIDE DEF probes
<1>19. Waves'
  <2>1. {} \in SUBSET l.sub.props
    OBVIOUS
  <2> QED BY <1>1, <1>7, <1>17, <1>18, <2>1, JoinKept
<1>20. SearchesInv'
  BY <1>7, <1>12, <1>17, <1>18, SearchJoined
<1>21. Lists' /\ Idle' /\ Judged'
  BY <1>1, <1>2, <1>3 DEF Lists, Idle, Judged, Catalogue
<1>22. Shapes'
  BY <1>8, <1>9, <1>12 DEF Shapes
<1>23. NoneForgotten'
  <2> SUFFICES ASSUME NEW n \in known, n \notin dropped
               PROVE  \E s \in Asked' : n \in s.props /\ s.key # Canary
    BY <1>1 DEF NoneForgotten
  <2>1. PICK s \in Asked : n \in s.props /\ s.key # Canary
    BY <1>3 DEF IInv, NoneForgotten
  <2>2. CASE s = l.sub
    <3>1. n \in first.props \/ n \in second.props
      BY <1>4, <1>6, <2>1, <2>2
    <3>2. first.key # Canary /\ second.key # Canary
      BY <1>6, UnusedFresh, KeysApart
    <3> QED BY <1>11, <3>1, <3>2
  <2> QED BY <1>11, <2>1, <2>2
<1> QED BY <1>16, <1>19, <1>20, <1>21, <1>22, <1>23 DEF IInv

\* #search, a property refused alone: it is dropped instead.
LEMMA DropStep ==
  ASSUME IInv, NEW l \in live, Drop(l)
  PROVE  IInv'
<1>1. /\ Searched(l) /\ dropped' = dropped \cup l.sub.props
      /\ searches' = {IF l.sub.key \in s.keys THEN [s EXCEPT !.rejected = @ \cup l.sub.props] ELSE s :
                        s \in searches}
      /\ InWave(l, {}, l.sub.props)
      /\ UNCHANGED <<timers, unavailable, faulted, exhausted, scenario, running, known, kept,
                     carried, saved, socket>>
  BY Zenon DEF Drop, lists, server
<1>2. /\ Lists /\ LiveShape(live) /\ TimerShape(timers) /\ SearchShape(searches) /\ Subs /\ Idle
      /\ Judged /\ Waves /\ SearchesInv /\ Shapes
  BY DEF IInv, Shapes
<1>3. socket /\ l.sub \in Asked /\ l.sub.props \in SUBSET known
  BY <1>1, SearchedGroup
<1>4. /\ LiveShape(live') /\ WaveShape(wave') /\ WaveShape(pending')
      /\ SubsOf(live \ {l}) \subseteq SubsOf(live')
      /\ SubsOf(live') \subseteq SubsOf(live \ {l}) \cup {CanarySub}
      /\ SubsOf(live) = SubsOf(live \ {l}) \cup {l.sub}
  <2>1. SubsOf(live) = SubsOf(live \ {l}) \cup {l.sub}
    BY SubsMoved
  <2>2. /\ LiveShape(live') /\ WaveShape(wave') /\ WaveShape(pending')
        /\ \/ SubsOf(live') = SubsOf(live \ {l})
           \/ SubsOf(live') = SubsOf(live \ {l}) \cup {CanarySub}
    BY <1>1, <1>2, InWaveEffect DEF CanarySub
  <2> QED BY <2>1, <2>2
<1>5. Asked' = SubsOf(live') \cup SubsOf(timers)
  BY <1>1 DEF Asked, SubsOf
<1>6. Asked' \subseteq Asked \cup {CanarySub} /\ \A s \in Asked : s \in Asked' \/ s = l.sub
  BY <1>4, <1>5, AskedIs
<1>7. SearchShape(searches') /\ \A r \in searches' : \E q \in searches :
        r.group = q.group /\ r.keys \subseteq q.keys /\ r.rejected \subseteq q.group.props
  <2> DEFINE with(s) == [s EXCEPT !.rejected = @ \cup l.sub.props]
  <2>1. \A q \in searches : /\ q.rejected \subseteq q.group.props
                            /\ l.sub.key \in q.keys => l.sub.props \subseteq q.group.props
    BY <1>2, <1>3 DEF SearchesInv, SearchInv, Mentioned
  <2>2. \A q \in searches : /\ with(q).group = q.group
                            /\ with(q).keys = q.keys
                            /\ with(q).rejected = q.rejected \cup l.sub.props
                            /\ DOMAIN with(q) = DOMAIN q
    BY <1>2 DEF SearchShape
  <2>3. \A r \in searches' : \/ r \in searches
                             \/ \E q \in searches : l.sub.key \in q.keys /\ r = with(q)
    BY <1>1
  <2> HIDE DEF with
  <2> QED BY <1>2, <2>1, <2>2, <2>3 DEF SearchShape
<1>8. SubOK(CanarySub, known) /\ CanarySub.key = Canary
  BY <1>2, <1>3, CanaryOK
<1>9. /\ \A s \in Mentioned' : s \in Mentioned \/ s = CanarySub
      /\ Searching' \subseteq Searching
  <2>1. UNCHANGED <<wave, pending>> \/ Joined(l, {}, l.sub.props)
    BY <1>1, <1>2, InWaveEffect
  <2>2. NoWave.groups = {}
    BY DEF NoWave
  <2>3. wave'.groups \cup pending'.groups \subseteq wave.groups \cup pending.groups
    BY <2>1, <2>2 DEF Joined
  <2>4. Searching' \subseteq Searching
    BY <1>7, <2>3 DEF Searching
  <2> QED BY <1>6, <2>4 DEF Mentioned
<1>10. Subs'
  BY <1>1, <1>2, <1>8, <1>9, SubsKept DEF Subs
<1>11. NewAreNew
  BY <1>8, <1>9 DEF NewAreNew, NewKeys
<1>12. Waves'
  <2>1. {} \in SUBSET Keys /\ l.sub.props \in SUBSET l.sub.props
    OBVIOUS
  <2>2. \A s \in Mentioned' : s.key \in {} => s.props \subseteq l.sub.props
    OBVIOUS
  <2> QED BY <1>1, <1>11, <2>1, <2>2, JoinKept
<1>13. SearchesInv'
  BY <1>2, <1>7, <1>11, SearchesKept
<1>14. Lists' /\ Idle' /\ Judged'
  BY <1>1, <1>2, <1>3 DEF Lists, Idle, Judged, Catalogue
<1>15. Shapes'
  BY <1>1, <1>2, <1>4, <1>7 DEF Shapes
<1>16. NoneForgotten'
  BY <1>1, <1>3, <1>6 DEF IInv, NoneForgotten
<1> QED BY <1>10, <1>12, <1>13, <1>14, <1>15, <1>16 DEF IInv

\* #search, every property refused: the group asks for all of them again.
LEMMA ExhaustStep ==
  ASSUME IInv, NEW l \in live, Exhaust(l)
  PROVE  IInv'
<1>1. /\ Searched(l) /\ live' = live \ {l}
      /\ UNCHANGED <<wave, pending, unavailable, faulted, scenario, running, known, kept,
                     carried, saved, socket>>
  BY DEF Exhaust, lists, server
<1>2. PICK r \in searches :
        /\ l.sub.key \in r.keys
        /\ searches' = searches \ {r} /\ dropped' = dropped \ r.rejected
        /\ exhausted' = exhausted \cup {r.group.key}
        /\ timers' = Later({r.group}, "backoff", timers)
  BY DEF Exhaust, SearchOf
<1>3. /\ Lists /\ LiveShape(live) /\ TimerShape(timers) /\ SearchShape(searches) /\ Subs /\ Idle
      /\ Judged /\ Waves /\ SearchesInv /\ Shapes /\ SearchInv(r, Mentioned)
  BY DEF IInv, Shapes, SearchesInv
<1>4. socket /\ l.sub \in Asked /\ l.sub.props \in SUBSET known
  BY <1>1, SearchedGroup
<1>5. LiveShape(live') /\ SubsOf(live) = SubsOf(live') \cup {l.sub}
  BY <1>1, <1>3, SubsMoved
<1>6. TimerShape(timers') /\ SubsOf(timers') = SubsOf(timers) \cup {r.group}
  BY <1>2, <1>3, LaterEffect
<1>7. Asked' = SubsOf(live') \cup SubsOf(timers')
  BY DEF Asked, SubsOf
<1>8. /\ Asked' \subseteq Asked \cup {r.group} /\ r.group \in Asked'
      /\ \A s \in Asked : s \in Asked' \/ s = l.sub
  BY <1>5, <1>6, <1>7, AskedIs
<1>9. r.group \in Searching /\ r.group.key \in Keys /\ Searching' \subseteq Searching
  BY <1>1, <1>2, <1>3 DEF Searching, Subs
<1>10. Mentioned' \subseteq Mentioned
  BY <1>8, <1>9 DEF Mentioned
<1>11. Subs'
  BY <1>1, <1>3, <1>9, <1>10, SubsKept DEF Subs
<1>12. Waves' /\ SearchesInv'
  BY <1>1, <1>2, <1>3, <1>10, SearchKept DEF NewAreNew
<1>13. Lists' /\ Idle' /\ Judged'
  BY <1>1, <1>2, <1>3, <1>4, <1>9 DEF Lists, Idle, Judged, Catalogue
<1>14. Shapes'
  BY <1>1, <1>2, <1>3, <1>5, <1>6 DEF Shapes, SearchShape
<1>15. NoneForgotten'
  <2> SUFFICES ASSUME NEW n \in known, n \notin dropped'
               PROVE  \E s \in Asked' : n \in s.props /\ s.key # Canary
    BY <1>1 DEF NoneForgotten
  <2>1. CASE n \in r.group.props
    BY <1>8, <1>9, <2>1, KeysApart
  <2>2. CASE n \notin r.group.props
    <3>1. n \notin dropped
      BY <1>2, <1>3, <2>2 DEF SearchInv
    <3>2. PICK s \in Asked : n \in s.props /\ s.key # Canary
      BY <1>4, <3>1 DEF IInv, NoneForgotten
    <3>3. s # l.sub
      BY <1>2, <1>3, <1>4, <2>2, <3>2 DEF SearchInv, Mentioned
    <3> QED BY <1>8, <3>2, <3>3
  <2> QED BY <2>1, <2>2
<1> QED BY <1>11, <1>12, <1>13, <1>14, <1>15 DEF IInv

\* A step that only adds live subscriptions, under keys of their own.
LEMMA AddedStep ==
  ASSUME IInv, NEW new, live' = Activate(new, live), socket,
         UNCHANGED <<search, timers, socket>>, Lists',
         known \subseteq known',
         \A s \in new : s.key \in Unused \cup Fixed /\ SubOK(s, known'),
         \A n \in known' : \/ n \in known /\ (n \in dropped => n \in dropped')
                           \/ \E s \in new : n \in s.props
  PROVE  IInv'
<1>1. LiveShape(live) /\ Subs /\ Idle /\ Judged /\ Waves /\ SearchesInv
  BY DEF IInv, Shapes
<1>2. LiveShape(live') /\ SubsOf(live') = SubsOf(live) \cup new
  BY <1>1, ActivateEffect
<1>3. Asked' = SubsOf(live') \cup SubsOf(timers)
  BY DEF Asked, SubsOf
<1>4. Asked' = Asked \cup new
  BY <1>2, <1>3, AskedIs
<1>5. Searching' = Searching
  BY DEF Searching, search
<1>6. \A s \in Mentioned' : s \in Mentioned \/ s \in new
  BY <1>4, <1>5 DEF Mentioned
<1>7. Subs'
  BY <1>1, <1>5, <1>6, SubsKept
<1>8. NewAreNew
  BY <1>6 DEF NewAreNew, NewKeys
<1>9. Waves' /\ SearchesInv'
  BY <1>1, <1>8, SearchKept DEF search
<1>10. Idle' /\ Judged'
  BY <1>1 DEF Idle, Judged, search
<1>11. Shapes'
  BY <1>2 DEF IInv, Shapes, search
<1>12. NoneForgotten'
  <2> SUFFICES ASSUME NEW n \in known', n \notin dropped'
               PROVE  \E s \in Asked' : n \in s.props /\ s.key # Canary
    BY DEF NoneForgotten
  <2>1. CASE \E s \in new : n \in s.props
    <3>1. PICK s \in new : n \in s.props
      BY <2>1
    <3>2. s.key # Canary
      BY <3>1, UnusedFresh, KeysApart
    <3> QED BY <1>4, <3>1, <3>2
  <2>2. CASE n \in known /\ n \notin dropped
    <3>1. PICK s \in Asked : n \in s.props /\ s.key # Canary
      BY <2>2 DEF IInv, NoneForgotten
    <3> QED BY <1>4, <3>1
  <2> QED BY <2>1, <2>2
<1> QED BY <1>7, <1>9, <1>10, <1>11, <1>12 DEF IInv

LEMMA UnusedIsState ==
  ASSUME NEW k \in Unused
  PROVE  k \in AllKeys /\ k \notin Fixed /\ k \in Unused \cup Fixed
BY UnusedFresh, KeysApart DEF AllKeys

LEMMA ReprobeStep ==
  ASSUME IInv, NEW n \in Names, Reprobe(n)
  PROVE  IInv'
<1> DEFINE probe == Sub(Free(0), {n})
<1>1. /\ socket /\ n \in dropped /\ KeysLeft(1)
      /\ dropped' = dropped \ {n} /\ live' = Activate({probe}, live)
      /\ UNCHANGED <<search, timers, socket, scenario, running, known, unavailable, kept, carried,
                     saved>>
  BY DEF Reprobe, Due, server, lists
<1>2. Lists /\ Lists'
  BY <1>1 DEF IInv, Lists, Catalogue
<1>3. Free(0) \in Unused
  BY <1>1, FreeKey
<1>4. probe.key \in Unused /\ probe.props = {n}
  BY <1>3 DEF Sub
<1> HIDE DEF probe
<1>5. probe.key \in Unused \cup Fixed /\ SubOK(probe, known')
  BY <1>1, <1>2, <1>4, UnusedIsState DEF SubOK, Lists
<1>6. \A m \in known' : (m \in known /\ (m \in dropped => m \in dropped')) \/ m \in probe.props
  BY <1>1, <1>4
<1> QED BY <1>1, <1>2, <1>5, <1>6, AddedStep

LEMMA ReprobeFixedStep ==
  ASSUME IInv, NEW k \in Fixed, ReprobeFixed(k)
  PROVE  IInv'
<1> DEFINE sub == Sub(k, {})
<1>1. /\ socket /\ unavailable' = unavailable \ {k} /\ live' = Activate({sub}, live)
      /\ UNCHANGED <<search, timers, socket, scenario, running, known, dropped, kept, carried,
                     saved>>
  BY DEF ReprobeFixed, server, lists
<1>2. Lists'
  BY <1>1 DEF IInv, Lists, Catalogue
<1>3. sub.key = k /\ sub.props = {}
  BY DEF Sub
<1> HIDE DEF sub
<1>4. sub.key \in Unused \cup Fixed /\ SubOK(sub, known')
  BY <1>3 DEF SubOK, AllKeys
<1>5. \A m \in known' : m \in known /\ (m \in dropped => m \in dropped')
  BY <1>1
<1> QED BY <1>1, <1>2, <1>4, <1>5, AddedStep

\* The groups of some names, each under one of these keys.
Grouping(groups, names, keys) ==
  /\ \A s \in groups : s.key \in keys /\ s.props \in Groups(names)
  /\ \A g \in Groups(names) : \E s \in groups : s.props = g

Cover(groups, names, keys) ==
  /\ \A s \in groups : s.key \in keys /\ s.props \subseteq names /\ s.props # {}
  /\ \A n \in names : \E s \in groups : n \in s.props

\* They cover the names, whatever key each is given.
LEMMA Grouped ==
  ASSUME NEW names \in SUBSET Names, NEW groups, NEW keys, Grouping(groups, names, keys)
  PROVE  Cover(groups, names, keys)
<1>1. names \in SUBSET Nat /\ IsFiniteSet(names)
  BY ConstantsAssumption, FS_Subset
<1>2. /\ \A n \in names : \E g \in Groups(names) : n \in g
      /\ \A g \in Groups(names) : g # {} /\ g \subseteq names
  BY <1>1, GroupsCover
<1> QED BY <1>2 DEF Grouping, Cover

LEMMA NumberInRange ==
  ASSUME NEW names \in SUBSET Names, NEW g \in Groups(names)
  PROVE  LET i == Rank(CHOOSE n \in g : TRUE, names) \div GroupSize
         IN  i \in Nat /\ i < Cardinality(names)
<1>1. names \in SUBSET Nat /\ IsFiniteSet(names)
  BY ConstantsAssumption, FS_Subset
<1> QED BY <1>1, GroupNumber

\* With no socket there is nothing to forget.
LEMMA QuietStep ==
  ASSUME ~socket', live' = {}, timers' = {}, wave' = NoWave, pending' = NoWave, searches' = {},
         Lists', Judged'
  PROVE  IInv'
<1>1. Asked' = {} /\ Searching' = {} /\ Mentioned' = {}
  BY DEF Asked, Searching, Mentioned, NoWave
<1>2. Shapes'
  BY DEF Shapes, LiveShape, TimerShape, WaveShape, SearchShape, NoWave
<1>3. Waves' /\ SearchesInv'
  BY NothingInNoWave DEF Waves, SearchesInv
<1> QED BY <1>1, <1>2, <1>3 DEF IInv, Subs, Idle, NoneForgotten

LEMMA DiscoverStep ==
  ASSUME IInv, Discover
  PROVE  IInv'
<1> DEFINE names == Found \ known
           groups == {Sub(Free(Rank(CHOOSE n \in g : TRUE, names) \div GroupSize), g) :
                        g \in Groups(names)}
<1>1. /\ running /\ KeysLeft(Cardinality(names)) /\ known' = known \cup Found
      /\ live' = IF socket THEN Activate(groups, live) ELSE live
      /\ UNCHANGED <<search, timers, socket, scenario, running, dropped, unavailable, kept, carried,
                     saved>>
  BY Zenon DEF Discover, server, lists
<1>2. names \in SUBSET Names /\ known' = known \cup names
  BY <1>1 DEF Found
<1>3. Lists'
  BY <1>1, <1>2 DEF IInv, Lists, Catalogue
<1>4. CASE socket
  <2>1. Cardinality(names) \in Nat
    BY <1>2, ConstantsAssumption, FS_Subset, FS_CardinalityType
  <2>2. Cardinality(Unused) \in Nat /\ Unused \in SUBSET Keys
    <3>1. IsFiniteSet(Keys) /\ Unused \subseteq Keys
      BY ConstantsAssumption, FS_Interval DEF Unused, Keys
    <3> QED BY <3>1, FS_Subset, FS_CardinalityType
  <2>3. \A i \in Nat : i < Cardinality(names) => Free(i) \in Unused
    <3> SUFFICES ASSUME NEW i \in Nat, i < Cardinality(names) PROVE Free(i) \in Unused
      OBVIOUS
    <3>1. KeysLeft(i + 1)
      BY <1>1, <2>1, <2>2 DEF KeysLeft
    <3> QED BY <3>1, FreeKey
  <2>4. /\ \A s \in groups : s.key \in Unused /\ s.props \subseteq names /\ s.props # {}
        /\ \A n \in names : \E s \in groups : n \in s.props
    <3> DEFINE number(g) == Rank(CHOOSE n \in g : TRUE, names) \div GroupSize
    <3>1. groups = {Sub(Free(number(g)), g) : g \in Groups(names)}
      OBVIOUS
    <3> HIDE DEF groups, names
    <3>2. \A g \in Groups(names) : number(g) \in Nat /\ number(g) < Cardinality(names)
      BY <1>2, NumberInRange
    <3> HIDE DEF number
    <3>3. \A g \in Groups(names) : LET s == Sub(Free(number(g)), g)
                                   IN  s.key \in Unused /\ s.props = g
      BY <2>3, <3>2 DEF Sub
    <3>4. Grouping(groups, names, Unused)
      BY <3>1, <3>3 DEF Grouping
    <3>5. Cover(groups, names, Unused)
      BY <1>2, <3>4, Grouped
    <3> QED BY <3>5 DEF Cover
  <2> HIDE DEF names, groups
  <2>5. \A s \in groups : s.key \in Unused \cup Fixed /\ SubOK(s, known')
    BY <1>2, <2>4, UnusedIsState DEF SubOK
  <2>6. \A n \in known' : (n \in known /\ (n \in dropped => n \in dropped'))
                            \/ \E s \in groups : n \in s.props
    BY <1>1, <1>2, <2>4
  <2> QED BY <1>1, <1>2, <1>3, <1>4, <2>5, <2>6, AddedStep
<1>5. CASE ~socket
  <2>1. Judged'
    BY <1>1 DEF IInv, Judged, search
  <2> QED BY <1>1, <1>3, <1>5, <2>1, QuietStep DEF IInv, Idle, search
<1> QED BY <1>4, <1>5

\* initial(): every property that is not dropped is in a group.
LEMMA OpenStep ==
  ASSUME IInv, Open
  PROVE  IInv'
<1> DEFINE names == known \ dropped
           groups == {Sub(Rank(CHOOSE n \in g : TRUE, names) \div GroupSize, g) :
                        g \in Groups(names)}
           fixed == {Sub(k, {}) : k \in scenario.fixed \ unavailable}
<1>1. /\ running /\ ~socket /\ socket' = TRUE
      /\ live' = Activate(groups \cup fixed, {})
      /\ wave' = IF Cardinality(groups) >= 2 THEN [NoWave EXCEPT !.groups = groups] ELSE NoWave
      /\ pending' = NoWave /\ searches' = {} /\ faulted' = {} /\ exhausted' = {}
      /\ UNCHANGED <<timers, scenario, running, known, dropped, unavailable, kept, carried, saved>>
  BY Zenon DEF Open, server, lists
<1>2. timers = {} /\ Lists
  BY <1>1 DEF IInv, Idle
<1>3. names \in SUBSET Names /\ Cardinality(names) \in Nat /\ Cardinality(names) <= MaxKey
  <2>1. names \in SUBSET Names
    BY <1>2 DEF Lists
  <2> HIDE DEF names
  <2>2. IsFiniteSet(Names) /\ Cardinality(Names) <= MaxKey /\ MaxKey \in Nat
    BY ConstantsAssumption
  <2> QED BY <2>1, <2>2, FS_Subset, FS_CardinalityType
<1>4. \A i \in Nat : i < Cardinality(names) => i \in Keys
  BY <1>3, ConstantsAssumption DEF Keys
<1>5. /\ \A s \in groups : s.key \in Keys /\ s.props \subseteq names /\ s.props # {}
      /\ \A n \in names : \E s \in groups : n \in s.props
  <2> DEFINE number(g) == Rank(CHOOSE n \in g : TRUE, names) \div GroupSize
  <2>1. groups = {Sub(number(g), g) : g \in Groups(names)}
    OBVIOUS
  <2> HIDE DEF groups, names
  <2>2. \A g \in Groups(names) : number(g) \in Nat /\ number(g) < Cardinality(names)
    BY <1>3, NumberInRange
  <2> HIDE DEF number
  <2>3. \A g \in Groups(names) : LET s == Sub(number(g), g) IN s.key \in Keys /\ s.props = g
    BY <1>4, <2>2 DEF Sub
  <2>4. Grouping(groups, names, Keys)
    BY <2>1, <2>3 DEF Grouping
  <2>5. Cover(groups, names, Keys)
    BY <1>3, <2>4, Grouped
  <2> QED BY <2>5 DEF Cover
<1>6. \A s \in fixed : s.key \in Fixed /\ s.props = {}
  <2>1. scenario.fixed \subseteq Fixed
    BY <1>2, ConstantsAssumption DEF Lists
  <2> QED BY <2>1 DEF Sub
<1> HIDE DEF groups, fixed
<1>7. LiveShape(live') /\ SubsOf(live') = groups \cup fixed
  <2>1. LiveShape({}) /\ SubsOf({}) = {}
    BY DEF LiveShape, SubsOf
  <2> QED BY <1>1, <2>1, ActivateEffect
<1>8. Asked' = groups \cup fixed
  <2>1. Asked' = SubsOf(live') \cup SubsOf(timers')
    BY DEF Asked, SubsOf
  <2>2. SubsOf(timers') = {}
    BY <1>1, <1>2 DEF SubsOf
  <2> QED BY <1>7, <2>1, <2>2
<1>9. \/ wave' = NoWave
      \/ /\ wave'.groups = groups /\ wave'.refused = {} /\ wave'.probes = {} /\ wave'.dropped = {}
         /\ DOMAIN wave' = {"groups", "refused", "probes", "dropped"}
  BY <1>1 DEF NoWave
<1>10. NoWave.groups = {} /\ NoWave.refused = {} /\ NoWave.probes = {} /\ NoWave.dropped = {}
       /\ DOMAIN NoWave = {"groups", "refused", "probes", "dropped"}
  BY DEF NoWave
<1>11. Searching' \subseteq groups
  BY <1>1, <1>9, <1>10 DEF Searching
<1>12. Subs'
  <2>1. \A s \in groups : SubOK(s, known')
    BY <1>1, <1>5, KeysApart DEF SubOK, AllKeys
  <2>2. \A s \in fixed : SubOK(s, known')
    BY <1>6 DEF SubOK, AllKeys
  <2>3. Mentioned' \subseteq groups \cup fixed
    BY <1>8, <1>11 DEF Mentioned
  <2> QED BY <1>5, <1>11, <2>1, <2>2, <2>3 DEF Subs
<1>13. Waves' /\ SearchesInv'
  <2>1. WaveInv(wave', Mentioned') /\ WaveInv(pending', Mentioned')
    BY <1>1, <1>9, NothingInNoWave DEF WaveInv
  <2> QED BY <1>1, <2>1 DEF Waves, SearchesInv
<1>14. Lists' /\ Idle' /\ Judged'
  BY <1>1, <1>2 DEF Lists, Idle, Judged, Catalogue
<1>15. Shapes'
  BY <1>1, <1>2, <1>7, <1>9, <1>10 DEF Shapes, TimerShape, WaveShape, SearchShape
<1>16. NoneForgotten'
  <2>1. \A s \in groups : s.key # Canary
    BY <1>5, KeysApart
  <2> QED BY <1>1, <1>5, <1>8, <2>1 DEF NoneForgotten
<1> QED BY <1>12, <1>13, <1>14, <1>15, <1>16 DEF IInv

LEMMA EndsStep ==
  ASSUME IInv, SocketEnds \/ Halt \/ Crash
  PROVE  IInv'
<1>1. Disconnected
  BY DEF SocketEnds, Halt, Crash
<1>2. Lists'
  <2>1. Lists
    BY DEF IInv
  <2>2. CASE SocketEnds
    BY <2>1, <2>2 DEF SocketEnds, Disconnected, Lists, Catalogue, lists
  <2>3. CASE Halt
    BY <2>1, <2>3 DEF Halt, Disconnected, Lists, Catalogue, Row
  <2>4. CASE Crash
    BY <2>1, <2>4 DEF Crash, Disconnected, Lists, Catalogue
  <2> QED BY <2>2, <2>3, <2>4
<1>3. Judged'
  BY <1>1 DEF Disconnected, Judged
<1> QED BY <1>1, <1>2, <1>3, QuietStep DEF Disconnected

LEMMA StartStep ==
  ASSUME IInv, StartPlan
  PROVE  IInv'
<1>1. ~socket /\ UNCHANGED <<live, search, timers, socket>> /\ Lists /\ Judged /\ Idle
  BY DEF StartPlan, IInv, Lists
<1>2. Lists'
  <2>1. Catalogue \subseteq Names
    BY <1>1, ConstantsAssumption DEF Lists, Catalogue
  <2>2. /\ running' = TRUE /\ known' = Catalogue \cup known \cup kept /\ dropped' = kept
        /\ unavailable' = {} /\ carried' = {} /\ UNCHANGED <<kept, saved, scenario>>
    BY DEF StartPlan, Known, Spend
  <2> QED BY <1>1, <2>1, <2>2 DEF Lists, Catalogue
<1>3. Judged'
  BY <1>1 DEF Judged, search
<1> QED BY <1>1, <1>2, <1>3, QuietStep DEF Idle, search

\* Reading and writing the row touches only the lists.
LEMMA RowStep ==
  ASSUME IInv, LoadSaved \/ WriteStatus
  PROVE  IInv'
<1>1. UNCHANGED <<live, search, timers, socket, known, dropped>>
  BY DEF LoadSaved, WriteStatus
<1>2. Lists'
  <2>1. Lists
    BY DEF IInv
  <2>2. CASE LoadSaved
    BY <2>1, <2>2 DEF LoadSaved, Lists, Catalogue, ReadLate, server
  <2>3. CASE WriteStatus
    BY <2>1, <2>3 DEF WriteStatus, Lists, Catalogue, Row
  <2> QED BY <2>2, <2>3
<1>3. Asked' = Asked /\ Searching' = Searching /\ Mentioned' = Mentioned
  BY <1>1 DEF Asked, Searching, Mentioned, search
<1> QED
  BY <1>1, <1>2, <1>3
  DEF IInv, Shapes, Subs, Idle, Judged, Waves, SearchesInv, NoneForgotten, search

-----------------------------------------------------------------------------
(* The theorems.                                                           *)

LEMMA Inductive == IInv /\ [Next]_vars => IInv'
<1> SUFFICES ASSUME IInv, [Next]_vars PROVE IInv'
  OBVIOUS
<1>1. CASE UNCHANGED vars
  <2>1. UNCHANGED <<live, search, lists, dropped, unavailable, socket, timers, scenario>>
    BY <1>1 DEF vars, server, lists, search
  <2> QED BY <2>1, StillCalm, CalmStep
<1>2. CASE Break \/ Mend \/ Retire
  <2>1. UNCHANGED <<live, search, lists, dropped, unavailable, socket, timers, scenario>>
    BY <1>2, Zenon DEF Break, Mend, Retire
  <2> QED BY <2>1, StillCalm, CalmStep
<1>3. ASSUME NEW l \in live, RetryOnly(l) \/ Verdict(l) \/ RefuseFixed(l) \/ Split(l) \/ Drop(l)
                               \/ Exhaust(l) \/ Frame(l) \/ Ended(l)
      PROVE  IInv'
  BY <1>3, RetryCalm, FrameCalm, CalmStep, VerdictStep, RefuseFixedStep, SplitStep, DropStep,
     ExhaustStep
<1>4. ASSUME NEW t \in timers, Fire(t) PROVE IInv'
  BY <1>4, FireCalm, CalmStep
<1>5. CASE RenewAll \/ WaveLapses \/ CanaryLapses \/ SearchLapses
  BY <1>5, RenewCalm, LapseCalm, CalmStep
<1>6. CASE (\E n \in Names : Reprobe(n)) \/ \E k \in Fixed : ReprobeFixed(k)
  BY <1>6, ReprobeStep, ReprobeFixedStep
<1>7. CASE Discover \/ Open
  BY <1>7, DiscoverStep, OpenStep
<1>8. CASE SocketEnds \/ Halt \/ Crash \/ StartPlan \/ LoadSaved \/ WriteStatus
  BY <1>8, EndsStep, StartStep, RowStep
<1> QED BY <1>1, <1>2, <1>3, <1>4, <1>5, <1>6, <1>7, <1>8, Steps, Zenon

LEMMA Initially == Init => IInv
<1> SUFFICES ASSUME Init PROVE IInv
  OBVIOUS
<1>1. Asked = {} /\ Searching = {} /\ Mentioned = {}
  BY DEF Init, Asked, Searching, Mentioned, NoWave
<1>2. Shapes
  BY DEF Init, Shapes, LiveShape, TimerShape, WaveShape, SearchShape, NoWave
<1>3. Waves /\ SearchesInv
  BY NothingInNoWave DEF Init, Waves, SearchesInv
<1> QED BY <1>1, <1>2, <1>3 DEF IInv, Init, Lists, Subs, Idle, Judged, NoneForgotten, Catalogue

LEMMA Invariance == Spec => []IInv
BY Initially, Inductive, PTL DEF Spec

\* The sets of the plan, of the search and of the connector have the values the code gives them:
\* what is asked for is of known properties, a wave has refused only its own groups, and a search
\* rejected only properties of its group.
THEOREM TypesKept == Spec => []TypeOK
<1>1. IInv => TypeOK
  BY DEF IInv, TypeOK, Lists, Subs, SubOK, Mentioned, Judged, Waves, WaveInv, SearchesInv, SearchInv
<1> QED BY <1>1, Invariance, PTL

\* subscriptions.ts:523-571, connector.ts:979: while a socket is up every known property is
\* subscribed, waiting to be, or dropped with a day on which it is tried again, whatever was
\* refused, halved, withdrawn by a verdict, judged exhausted, ended or discovered meanwhile.
THEOREM NoFieldForgotten == Spec => []NoneForgotten
<1>1. IInv => NoneForgotten
  BY DEF IInv
<1> QED BY <1>1, Invariance, PTL
-----------------------------------------------------------------------------
(* No field twice.                                                         *)

\* Two subscriptions share no property, but for the canary.
Apart(subs) ==
  \A a, b \in subs : a # b /\ Canary \notin {a.key, b.key} => a.props \cap b.props = {}

\* A key tells the subscription.
KeyTells(subs) == \A a, b \in subs : a.key = b.key /\ a.key # Canary => a = b

\* A subscription is live once or waits once, under a timer that can be withdrawn.
Single(lives, waits) ==
  /\ \A a, b \in lives : a.sub = b.sub /\ a.sub.key # Canary => a = b
  /\ \A a, b \in waits : a.sub = b.sub /\ a.sub.key # Canary => a = b
  /\ \A a \in lives, b \in waits : a.sub = b.sub => a.sub.key = Canary
  /\ \A t \in waits : t.sub.key # Canary => t.held

Without(subs, names) == \A s \in subs : s.key # Canary => s.props \cap names = {}

\* While every probe of a wave is still spoken of, a group that was refused in it asks for
\* nothing but what its probes ask for and what the wave has dropped.
Covered(w, subs) ==
  (\A k \in w.probes : \E s \in subs : s.key = k) =>
    \A g \in w.groups : g.key \in w.refused =>
      \A n \in g.props : n \in w.dropped \/ \E s \in subs : n \in s.props /\ s.key \in w.probes

GroupsApart(w) == \A a, b \in w.groups : a # b => a.props \cap b.props = {}

\* What a wave or a search has dropped is dropped, by it alone.
Blamed ==
  /\ wave.dropped \cup pending.dropped \subseteq dropped /\ wave.dropped \cap pending.dropped = {}
  /\ \A r \in searches : /\ r.rejected \subseteq dropped
                         /\ r.rejected \cap (wave.dropped \cup pending.dropped) = {}
                         /\ r.keys \cap KeysOf(wave.groups) = {}
  /\ \A r, q \in searches : r # q => r.rejected \cap q.rejected = {} /\ r.keys \cap q.keys = {}

Once ==
  /\ Apart(Asked) /\ KeyTells(Mentioned) /\ Single(live, timers) /\ Without(Asked, dropped)
  /\ \A s \in Asked : s.key \notin unavailable
  /\ Covered(wave, Mentioned) /\ Covered(pending, Mentioned)
  /\ GroupsApart(wave) /\ GroupsApart(pending) /\ pending.refused = KeysOf(pending.groups)
  /\ Blamed

OnceInv == overtaken \/ Once

-----------------------------------------------------------------------------
(* What keeps each part.                                                   *)

\* Two numbers give out two keys.
LEMMA FreeApart ==
  ASSUME NEW i \in Nat, NEW j \in Nat, KeysLeft(i + 1), KeysLeft(j + 1), Free(i) = Free(j)
  PROVE  i = j
<1>1. MaxKey \in Nat
  BY ConstantsAssumption
<1>2. IsFiniteSet(Unused) /\ Unused \in SUBSET Nat
  <2>1. IsFiniteSet(Keys)
    BY <1>1, FS_Interval DEF Keys
  <2>2. Unused \subseteq Keys /\ Keys \subseteq Nat
    BY <1>1 DEF Unused, Keys
  <2> HIDE DEF Unused
  <2> QED BY <2>1, <2>2, FS_Subset
<1>3. Cardinality(Unused) \in Nat /\ Cardinality(Unused) >= i + 1 /\ Cardinality(Unused) >= j + 1
  BY <1>2, FS_CardinalityType DEF KeysLeft
<1> HIDE DEF Unused
<1>4. /\ \E k \in Unused : Rank(k, Unused) = i
      /\ \E k \in Unused : Rank(k, Unused) = j
  BY <1>2, <1>3, RankTaken
<1>5. Rank(Free(i), Unused) = i
  BY <1>4 DEF Free, Rank
<1>6. Rank(Free(j), Unused) = j
  BY <1>4 DEF Free, Rank
<1> QED BY <1>5, <1>6

\* Two groups share nothing, and are of different numbers.
GroupNo(g, names) == Rank(CHOOSE n \in g : TRUE, names) \div GroupSize

LEMMA GroupsDisjoint ==
  ASSUME NEW names \in SUBSET Names, NEW g \in Groups(names), NEW h \in Groups(names), g # h
  PROVE  g \cap h = {} /\ GroupNo(g, names) # GroupNo(h, names)
<1> DEFINE q(n) == Rank(n, names) \div GroupSize
           group(i) == {n \in names : q(n) = i}
<1>1. Groups(names) = {group(i) : i \in {q(n) : n \in names}}
  BY Zenon DEF Groups
<1>2. GroupNo(g, names) = q(CHOOSE n \in g : TRUE) /\ GroupNo(h, names) = q(CHOOSE n \in h : TRUE)
  BY DEF GroupNo
<1> HIDE DEF q
<1>3. PICK m \in names : g = group(q(m))
  BY <1>1
<1>4. PICK o \in names : h = group(q(o))
  BY <1>1
<1>5. m \in g /\ o \in h /\ q(m) # q(o)
  BY <1>3, <1>4
<1>6. (\A n \in g : q(n) = q(m)) /\ (\A n \in h : q(n) = q(o))
  BY <1>3, <1>4
<1>7. (CHOOSE n \in g : TRUE) \in g /\ (CHOOSE n \in h : TRUE) \in h
  BY <1>5
<1>8. q(CHOOSE n \in g : TRUE) = q(m) /\ q(CHOOSE n \in h : TRUE) = q(o)
  BY <1>6, <1>7
<1>9. g \cap h = {}
  BY <1>5, <1>6
<1> QED BY <1>2, <1>5, <1>8, <1>9

LEMMA SingleLess ==
  ASSUME NEW lives, NEW waits, Single(lives, waits), NEW ls \in SUBSET lives, NEW ws \in SUBSET waits
  PROVE  Single(ls, ws)
BY DEF Single

\* What is live after the same subscriptions, record by record.
LEMMA SingleMapped ==
  ASSUME NEW lives, NEW waits, Single(lives, waits), NEW ls,
         \A a \in ls : \E r \in lives : a.sub = r.sub,
         \A a, b \in ls, r \in lives : a.sub = r.sub /\ b.sub = r.sub /\ r.sub.key # Canary => a = b
  PROVE  Single(ls, waits)
<1>1. \A a, b \in ls : a.sub = b.sub /\ a.sub.key # Canary => a = b
  OBVIOUS
<1> QED BY <1>1 DEF Single

LEMMA SingleActivate ==
  ASSUME NEW lives, NEW waits, Single(lives, waits), NEW subs,
         \A s \in subs, r \in lives \cup waits : r.sub = s => s.key = Canary
  PROVE  Single(Activate(subs, lives), waits)
<1> DEFINE record(s) == [sub |-> s, id |-> Twin(s, lives), heard |-> FALSE]
           new == {record(s) : s \in subs}
<1>1. Activate(subs, lives) = lives \cup new
  BY DEF Activate
<1>2. \A a \in new : a.sub \in subs /\ a = record(a.sub)
  OBVIOUS
<1>3. \A a, b \in new : a.sub = b.sub => a = b
  BY <1>2
<1> HIDE DEF new, record
<1> QED BY <1>1, <1>2, <1>3 DEF Single

LEMMA SingleForget ==
  ASSUME NEW lives, NEW waits, Single(lives, waits), NEW keys, TimerShape(waits),
         \A t \in waits : t.sub.key \in keys => t.sub.key = Canary
  PROVE  Single(lives, Forget(keys, waits))
         /\ \A t \in Forget(keys, waits) : t \in waits \/ t.sub.key = Canary
<1> DEFINE after(t) == IF t.sub.key \in keys THEN [t EXCEPT !.held = FALSE] ELSE t
<1>1. Forget(keys, waits) = {after(t) : t \in waits}
  BY DEF Forget
<1>2. \A t \in waits : after(t).sub = t.sub /\ (t.sub.key # Canary => after(t) = t)
  BY DEF TimerShape
<1> HIDE DEF after
<1>3. \A t \in Forget(keys, waits) : t \in waits \/ t.sub.key = Canary
  BY <1>1, <1>2
<1>4. \A t \in Forget(keys, waits) : \E u \in waits : u.sub = t.sub /\ (t.sub.key # Canary => t = u)
  BY <1>1, <1>2
<1> HIDE DEF Forget
<1>5. \A a \in lives, b \in Forget(keys, waits) : a.sub = b.sub => a.sub.key = Canary
  BY <1>4 DEF Single
<1> QED BY <1>3, <1>5 DEF Single

LEMMA SingleLater ==
  ASSUME NEW lives, NEW waits, Single(lives, waits), NEW subs, NEW why, TimerShape(waits),
         \A s \in subs, a \in lives : a.sub = s => s.key = Canary,
         \A s \in subs, t \in waits : t.sub.key = s.key => s.key = Canary
  PROVE  Single(lives, Later(subs, why, waits))
<1> DEFINE record(s) == [sub |-> s, id |-> Twin(s, waits), why |-> why, held |-> TRUE]
           new == {record(s) : s \in subs}
           old == Forget(KeysOf(subs), waits)
<1>1. Later(subs, why, waits) = old \cup new
  BY DEF Later
<1>2. \A a \in new : a.sub \in subs /\ a = record(a.sub) /\ a.held
  OBVIOUS
<1>3. \A a, b \in new : a.sub = b.sub => a = b
  BY <1>2
<1>4. \A t \in waits : t.sub.key \in KeysOf(subs) => t.sub.key = Canary
  BY DEF KeysOf
<1>5. Single(lives, old) /\ \A t \in old : t \in waits \/ t.sub.key = Canary
  BY <1>4, SingleForget
<1> HIDE DEF new, record, old
<1>6. \A a \in old, b \in new : a.sub = b.sub => a.sub.key = Canary
  BY <1>2, <1>5
<1>7. \A a \in lives, b \in new : a.sub = b.sub => a.sub.key = Canary
  BY <1>2
<1> QED BY <1>1, <1>2, <1>3, <1>5, <1>6, <1>7 DEF Single

\* A wave stays covered when the subscriptions that are new have keys of their own.
LEMMA CoveredKept ==
  ASSUME NEW w, NEW subs, Covered(w, subs), KeyTells(subs), Canary \notin w.probes, NEW after,
         \A s \in after : s.key \in w.probes => s \in subs
  PROVE  Covered(w, after)
<1> SUFFICES ASSUME \A k \in w.probes : \E s \in after : s.key = k,
                    NEW g \in w.groups, g.key \in w.refused, NEW n \in g.props, n \notin w.dropped
             PROVE  \E s \in after : n \in s.props /\ s.key \in w.probes
  BY DEF Covered
<1>1. \A k \in w.probes : \E s \in subs : s.key = k
  OBVIOUS
<1>2. PICK s \in subs : n \in s.props /\ s.key \in w.probes
  BY <1>1 DEF Covered
<1>3. PICK a \in after : a.key = s.key
  BY <1>2
<1>4. a = s
  BY <1>2, <1>3 DEF KeyTells
<1> QED BY <1>2, <1>4

LEMMA NoWaveCovered == \A subs : Covered(NoWave, subs) /\ GroupsApart(NoWave)
BY DEF Covered, GroupsApart, NoWave

LEMMA NoWaveRefused == NoWave.refused = KeysOf(NoWave.groups)
BY DEF NoWave, KeysOf

-----------------------------------------------------------------------------
(* The steps.                                                              *)

LEMMA CanaryNoProbe ==
  ASSUME IInv
  PROVE  Canary \notin wave.probes /\ Canary \notin pending.probes
BY KeysApart DEF IInv, Waves, WaveInv

\* What a step that blames nothing keeps.
LEMMA BlamedKept ==
  ASSUME Blamed, wave' \in {wave, NoWave}, pending' \in {pending, NoWave},
         searches' \subseteq searches, dropped' = dropped
  PROVE  Blamed'
<1>1. NoWave.dropped = {} /\ KeysOf(NoWave.groups) = {}
  BY DEF NoWave, KeysOf
<1>2. /\ wave'.dropped \subseteq wave.dropped /\ pending'.dropped \subseteq pending.dropped
      /\ KeysOf(wave'.groups) \subseteq KeysOf(wave.groups)
  BY <1>1
<1>3. /\ wave'.dropped \cup pending'.dropped \subseteq dropped'
      /\ wave'.dropped \cap pending'.dropped = {}
  BY <1>2 DEF Blamed
<1>4. \A r \in searches' : /\ r.rejected \subseteq dropped'
                           /\ r.rejected \cap (wave'.dropped \cup pending'.dropped) = {}
                           /\ r.keys \cap KeysOf(wave'.groups) = {}
  BY <1>2 DEF Blamed
<1> QED BY <1>3, <1>4 DEF Blamed

LEMMA WavesCovered ==
  ASSUME IInv, Once, wave' \in {wave, NoWave}, pending' \in {pending, NoWave}, NewAreNew
  PROVE  /\ Covered(wave', Mentioned') /\ Covered(pending', Mentioned')
         /\ GroupsApart(wave') /\ GroupsApart(pending') /\ pending'.refused = KeysOf(pending'.groups)
<1>1. \A s \in Mentioned' : s.key \in wave.probes \cup pending.probes => s \in Mentioned
  BY NewKeysFresh DEF IInv, NewAreNew
<1>2. Covered(wave, Mentioned') /\ Covered(pending, Mentioned')
  BY <1>1, CoveredKept, CanaryNoProbe DEF Once
<1> QED BY <1>2, NoWaveCovered, NoWaveRefused DEF Once

LEMMA CalmOnce ==
  ASSUME IInv, Once, Calm, Single(live', timers')
  PROVE  Once'
<1>1. Asked' = Asked /\ dropped' = dropped /\ unavailable' = unavailable
  BY DEF Calm
<1>2. Searching' \subseteq Searching
  BY SearchingLess DEF Calm
<1>3. Mentioned' \subseteq Mentioned
  BY <1>1, <1>2 DEF Mentioned
<1>4. Apart(Asked') /\ Without(Asked', dropped') /\ KeyTells(Mentioned')
      /\ \A s \in Asked' : s.key \notin unavailable'
  BY <1>1, <1>3 DEF Once, KeyTells
<1>5. /\ Covered(wave', Mentioned') /\ Covered(pending', Mentioned')
      /\ GroupsApart(wave') /\ GroupsApart(pending') /\ pending'.refused = KeysOf(pending'.groups)
  BY <1>3, WavesCovered DEF Calm, NewAreNew
<1>6. Blamed'
  BY BlamedKept DEF Calm, Once
<1> QED BY <1>4, <1>5, <1>6 DEF Once

\* One that is live is not waiting, under its key or any other.
LEMMA LiveAlone ==
  ASSUME Once, NEW l \in live
  PROVE  /\ \A a \in live \ {l} : a.sub = l.sub => l.sub.key = Canary
         /\ \A t \in timers : t.sub.key = l.sub.key => l.sub.key = Canary
<1>1. \A t \in timers : l.sub \in Mentioned /\ t.sub \in Mentioned
  BY DEF Mentioned, Asked
<1> QED BY <1>1 DEF Once, Single, KeyTells

LEMMA RetryOnce ==
  ASSUME IInv, Once, NEW l \in live, RetryOnly(l) \/ Ended(l)
  PROVE  Once'
<1>1. live' = live \ {l} /\ timers' = Later({l.sub}, "backoff", timers)
  BY DEF RetryOnly, Ended
<1>2. Single(live \ {l}, timers) /\ TimerShape(timers)
  BY SingleLess DEF Once, IInv, Shapes
<1>3. Single(live', timers')
  BY <1>1, <1>2, LiveAlone, SingleLater
<1> QED BY <1>3, RetryCalm, CalmOnce

LEMMA FrameOnce ==
  ASSUME IInv, Once, NEW l \in live, Frame(l)
  PROVE  Once'
<1> DEFINE heard == [l EXCEPT !.heard = TRUE]
<1>1. live' = (live \ {l}) \cup {heard} /\ timers' = timers
  BY DEF Frame
<1>2. heard.sub = l.sub
  BY DEF IInv, Shapes, LiveShape
<1> HIDE DEF heard
<1>3. \A a \in live' : \E r \in live : a.sub = r.sub
  BY <1>1, <1>2
<1>4. ASSUME NEW a \in live', NEW b \in live', a.sub = b.sub, a.sub.key # Canary PROVE a = b
  BY <1>1, <1>2, <1>4, LiveAlone DEF Once, Single
<1>5. \A a, b \in live', r \in live : a.sub = r.sub /\ b.sub = r.sub /\ r.sub.key # Canary => a = b
  BY <1>4
<1>6. Single(live', timers')
  BY <1>1, <1>3, <1>5, SingleMapped DEF Once
<1> QED BY <1>6, FrameCalm, CalmOnce

LEMMA RenewOnce ==
  ASSUME IInv, Once, RenewAll
  PROVE  Once'
<1> DEFINE renewed(l) == [l EXCEPT !.heard = FALSE]
<1>1. live' = {renewed(l) : l \in live} /\ timers' = timers
  BY DEF RenewAll
<1>2. \A l \in live : renewed(l).sub = l.sub
  BY DEF IInv, Shapes, LiveShape
<1> HIDE DEF renewed
<1>3. \A a \in live' : \E r \in live : a.sub = r.sub /\ a = renewed(r)
  BY <1>1, <1>2
<1>4. \A a, b \in live', r \in live : a.sub = r.sub /\ b.sub = r.sub /\ r.sub.key # Canary => a = b
  BY <1>3 DEF Once, Single
<1>5. Single(live', timers')
  BY <1>1, <1>3, <1>4, SingleMapped DEF Once
<1> QED BY <1>5, RenewCalm, CalmOnce

LEMMA FireOnce ==
  ASSUME IInv, Once, NEW t \in timers, Fire(t)
  PROVE  Once'
<1>1. timers' = Forget({t.sub.key}, timers \ {t}) /\ live' = Activate({t.sub}, live)
  BY DEF Fire
<1>2. Single(live, timers \ {t}) /\ TimerShape(timers \ {t})
  BY SingleLess, SubsMoved DEF Once, IInv, Shapes
<1>3. \A u \in timers \ {t} : u.sub.key = t.sub.key => u.sub.key = Canary
  <2>1. \A u \in timers : u.sub \in Mentioned
    BY DEF Mentioned, Asked
  <2> QED BY <2>1 DEF Once, Single, KeyTells
<1>4. Single(live, timers') /\ \A u \in timers' : u \in timers \ {t} \/ u.sub.key = Canary
  BY <1>1, <1>2, <1>3, SingleForget
<1> DEFINE subs == {t.sub}
<1>5. \A s \in subs, r \in live \cup timers' : r.sub = s => s.key = Canary
  BY <1>3, <1>4 DEF Once, Single
<1>6. live' = Activate(subs, live)
  BY <1>1
<1> HIDE DEF subs
<1>7. Single(live', timers')
  BY <1>4, <1>5, <1>6, SingleActivate
<1> QED BY <1>7, FireCalm, CalmOnce

LEMMA LapseOnce ==
  ASSUME IInv, Once, WaveLapses \/ CanaryLapses \/ SearchLapses
  PROVE  Once'
<1>1. UNCHANGED <<live, timers>>
  BY DEF WaveLapses, CanaryLapses, SearchLapses
<1> QED BY <1>1, LapseCalm, CalmOnce DEF Once

\* #documentFault: what is withdrawn makes room for the groups that are retried, unless a probe
\* has been subscribed already.
LEMMA VerdictOnce ==
  ASSUME IInv, Once, NEW l \in live, Verdict(l)
  PROVE  OnceInv'
<1> SUFFICES ASSUME ~overtaken' PROVE Once'
  BY DEF OnceInv
<1> DEFINE left == Cancel(pending.probes, timers)
           again == pending.groups \cup {CanarySub}
           remain == SubsOf(live \ {l}) \cup SubsOf(left)
<1>1. /\ live' = live \ {l} /\ timers' = Later(again, "backoff", left)
      /\ wave' = wave /\ pending' = NoWave /\ socket
      /\ dropped' = dropped \ pending.dropped
      /\ searches' = {[s EXCEPT !.keys = @ \ pending.probes] :
                        s \in {r \in searches : ~ r.keys \subseteq pending.probes}}
      /\ UNCHANGED <<unavailable, known>>
      /\ overtaken' = (overtaken \/ \E k \in pending.probes : k \notin KeysOf({t.sub : t \in timers}))
  BY DEF Verdict, Withdrawn, Refused, CanarySub, lists, server
<1>2. /\ Lists /\ LiveShape(live) /\ TimerShape(timers) /\ Subs /\ Waves /\ SearchesInv
      /\ SearchShape(searches)
  BY DEF IInv, Shapes
<1>3. /\ Apart(Asked) /\ KeyTells(Mentioned) /\ Single(live, timers) /\ Without(Asked, dropped)
      /\ Covered(pending, Mentioned) /\ GroupsApart(pending) /\ pending.refused = KeysOf(pending.groups)
      /\ Blamed
  BY DEF Once
<1>4. /\ \A t \in timers : t.sub \in Asked /\ t.sub \in Mentioned
      /\ \A a \in live : a.sub \in Asked /\ a.sub \in Mentioned
      /\ pending.groups \subseteq Mentioned
  BY DEF Asked, Mentioned, Searching
<1>5. \A k \in pending.probes : \E t \in timers : t.sub.key = k
  BY <1>1 DEF KeysOf
<1>6. Canary \notin pending.probes
  BY CanaryNoProbe
<1>7. \A g \in pending.groups : g.key \in Keys /\ g.key # Canary /\ g.key \notin Fixed /\ g.props # {}
  BY <1>2, <1>4, KeysApart DEF Subs, Searching, SubOK
<1>8. ASSUME NEW g \in pending.groups, NEW n \in g.props, n \notin pending.dropped
      PROVE  \E t \in timers : n \in t.sub.props /\ t.sub.key \in pending.probes
  <2>1. g.key \in pending.refused
    BY <1>3 DEF KeysOf
  <2>2. \A k \in pending.probes : \E s \in Mentioned : s.key = k
    BY <1>4, <1>5
  <2>3. PICK s \in Mentioned : n \in s.props /\ s.key \in pending.probes
    BY <1>3, <1>8, <2>1, <2>2 DEF Covered
  <2>4. PICK t \in timers : t.sub.key = s.key
    BY <1>5, <2>3
  <2>5. t.sub = s
    BY <1>3, <1>4, <1>6, <2>3, <2>4 DEF KeyTells
  <2> QED BY <2>3, <2>4, <2>5
<1>9. /\ \A t \in left : t \in timers /\ (t.sub.key # Canary => t.sub.key \notin pending.probes)
      /\ TimerShape(left)
  BY <1>2, <1>3 DEF Cancel, Single, TimerShape
<1>10. \A a \in live : a.sub.key \notin pending.probes
  <2> SUFFICES ASSUME NEW a \in live, a.sub.key \in pending.probes PROVE FALSE
    OBVIOUS
  <2>1. PICK t \in timers : t.sub.key = a.sub.key
    BY <1>5
  <2>2. t.sub = a.sub /\ a.sub.key # Canary
    BY <1>3, <1>4, <1>6, <2>1 DEF KeyTells
  <2> QED BY <1>3, <2>2 DEF Single
<1> HIDE DEF left
<1>11. \A s \in remain : s \in Asked /\ s \in Mentioned /\ (s.key # Canary => s.key \notin pending.probes)
  BY <1>4, <1>9, <1>10 DEF SubsOf
<1> HIDE DEF remain
<1>12. ASSUME NEW s \in remain, s.key # Canary, NEW g \in pending.groups
       PROVE  s.props \cap g.props = {}
  <2> SUFFICES ASSUME NEW n \in s.props, n \in g.props PROVE FALSE
    OBVIOUS
  <2>1. CASE n \in pending.dropped
    BY <1>3, <1>11, <1>12, <2>1 DEF Blamed, Without
  <2>2. CASE n \notin pending.dropped
    <3>1. PICK t \in timers : n \in t.sub.props /\ t.sub.key \in pending.probes
      BY <1>8, <2>2
    <3>2. t.sub \in Asked /\ t.sub # s /\ t.sub.key # Canary /\ s \in Asked
      BY <1>4, <1>6, <1>11, <1>12, <3>1
    <3> QED BY <1>3, <1>12, <3>1, <3>2 DEF Apart
  <2> QED BY <2>1, <2>2
<1>13. \A s \in remain, g \in pending.groups : s.key # g.key
  <2> SUFFICES ASSUME NEW s \in remain, NEW g \in pending.groups, s.key = g.key PROVE FALSE
    OBVIOUS
  <2>1. s = g
    BY <1>3, <1>4, <1>7, <1>11 DEF KeyTells
  <2> QED BY <1>7, <1>12, <2>1
<1>14. CanarySub.key = Canary
  BY <1>1, <1>2, CanaryOK
<1>15. /\ TimerShape(timers') /\ SubsOf(timers') = SubsOf(left) \cup again
  BY <1>1, <1>9, LaterEffect
<1>16. Asked' = remain \cup again
  <2>1. Asked' = SubsOf(live') \cup SubsOf(timers')
    BY DEF Asked, SubsOf
  <2> QED BY <1>1, <1>15, <2>1 DEF remain
<1>17. \A s \in Asked' : s \in remain \/ s \in pending.groups \/ s.key = Canary
  BY <1>14, <1>16
<1>18. Apart(Asked')
  BY <1>3, <1>11, <1>12, <1>17 DEF Apart, GroupsApart
<1>19. Without(Asked', dropped')
  <2> SUFFICES ASSUME NEW s \in Asked', s.key # Canary, NEW n \in s.props, n \in dropped' PROVE FALSE
    BY DEF Without
  <2>1. n \in dropped /\ n \notin pending.dropped
    BY <1>1
  <2>2. CASE s \in remain
    BY <1>3, <1>11, <2>1, <2>2 DEF Without
  <2>3. CASE s \in pending.groups
    <3>1. PICK t \in timers : n \in t.sub.props /\ t.sub.key \in pending.probes
      BY <1>8, <2>1, <2>3
    <3> QED BY <1>3, <1>4, <1>6, <2>1, <3>1 DEF Without
  <2> QED BY <1>17, <2>2, <2>3
<1>20. Searching' \subseteq Searching
  <2> DEFINE after(s) == [s EXCEPT !.keys = @ \ pending.probes]
  <2>1. \A r \in searches' : \E q \in searches : r = after(q)
    BY <1>1
  <2>2. \A q \in searches : after(q).group = q.group
    BY <1>2 DEF SearchShape
  <2> HIDE DEF after
  <2>3. \A r \in searches' : \E q \in searches : r.group = q.group
    BY <2>1, <2>2
  <2>4. NoWave.groups = {}
    BY DEF NoWave
  <2> QED BY <1>1, <2>3, <2>4 DEF Searching
<1>21. \A s \in Mentioned' : s \in Mentioned \/ s.key = Canary
  BY <1>4, <1>11, <1>17, <1>20 DEF Mentioned
<1>22. KeyTells(Mentioned')
  BY <1>3, <1>21 DEF KeyTells
<1>23. \A s \in Asked' : s.key \notin unavailable'
  <2>1. unavailable' \subseteq Fixed
    BY <1>1, <1>2 DEF Lists
  <2>2. \A s \in remain : s.key \notin unavailable'
    BY <1>1, <1>11 DEF Once
  <2> QED BY <1>7, <1>17, <2>1, <2>2, KeysApart
<1>24. Single(live', timers')
  <2>1. Single(live \ {l}, left)
    <3>1. left \in SUBSET timers
      BY <1>9
    <3> QED BY <1>3, <3>1, SingleLess
  <2>2. \A s \in again, a \in live \ {l} : a.sub = s => s.key = Canary
    <3>1. \A a \in live \ {l} : a.sub \in remain
      BY DEF remain, SubsOf
    <3> QED BY <1>13, <1>14, <3>1
  <2>3. \A s \in again, t \in left : t.sub.key = s.key => s.key = Canary
    <3>1. \A t \in left : t.sub \in remain
      BY DEF remain, SubsOf
    <3> QED BY <1>13, <1>14, <3>1
  <2> HIDE DEF again
  <2> QED BY <1>1, <1>9, <2>1, <2>2, <2>3, SingleLater
<1>25. /\ Covered(wave', Mentioned') /\ Covered(pending', Mentioned')
       /\ GroupsApart(wave') /\ GroupsApart(pending') /\ pending'.refused = KeysOf(pending'.groups)
  BY <1>1, <1>21, WavesCovered DEF NewAreNew, NewKeys
<1>26. Blamed'
  <2> DEFINE after(s) == [s EXCEPT !.keys = @ \ pending.probes]
  <2>1. \A r \in searches' : \E q \in searches : r = after(q)
    BY <1>1
  <2>2. \A q \in searches : after(q).rejected = q.rejected /\ after(q).keys = q.keys \ pending.probes
    BY <1>2 DEF SearchShape
  <2> HIDE DEF after
  <2>3. \A r, q \in searches' : r # q => r.rejected \cap q.rejected = {} /\ r.keys \cap q.keys = {}
    <3> SUFFICES ASSUME NEW r \in searches', NEW q \in searches', r # q
                 PROVE  r.rejected \cap q.rejected = {} /\ r.keys \cap q.keys = {}
      OBVIOUS
    <3>1. PICK a \in searches : r = after(a)
      BY <2>1
    <3>2. PICK b \in searches : q = after(b)
      BY <2>1
    <3>3. a # b
      BY <3>1, <3>2
    <3>4. a.rejected \cap b.rejected = {} /\ a.keys \cap b.keys = {}
      BY <1>3, <3>3 DEF Blamed
    <3> QED BY <2>2, <3>1, <3>2, <3>4
  <2>4. NoWave.dropped = {}
    BY DEF NoWave
  <2>5. \A r \in searches' : \E q \in searches : r.rejected = q.rejected /\ r.keys \subseteq q.keys
    BY <2>1, <2>2
  <2> QED BY <1>1, <1>3, <2>3, <2>4, <2>5 DEF Blamed
<1> QED BY <1>18, <1>19, <1>22, <1>23, <1>24, <1>25, <1>26 DEF Once

\* What no longer is asked for, once one record of it is gone.
LEMMA GoneAlone ==
  ASSUME Once, NEW l \in live, l.sub.key # Canary
  PROVE  /\ \A s \in SubsOf(live \ {l}) : s \in Asked /\ s # l.sub /\ s.key # l.sub.key
         /\ \A s \in SubsOf(timers) : s \in Asked /\ s # l.sub /\ s.key # l.sub.key
<1>1. \A a \in live \ {l} : a.sub \in Asked /\ a.sub # l.sub
  BY LiveAlone DEF Asked
<1>2. \A t \in timers : t.sub \in Asked /\ t.sub # l.sub
  BY LiveAlone DEF Asked
<1>3. \A s \in Asked : s.key = l.sub.key => s = l.sub
  BY DEF Once, KeyTells, Mentioned, Asked
<1> QED BY <1>1, <1>2, <1>3 DEF SubsOf

LEMMA RefuseFixedOnce ==
  ASSUME IInv, Once, NEW l \in live, RefuseFixed(l)
  PROVE  Once'
<1>1. /\ live' = live \ {l} /\ l.sub.props = {} /\ unavailable' = unavailable \cup {l.sub.key}
      /\ UNCHANGED <<timers, wave, pending, searches, dropped>>
  BY DEF RefuseFixed, search
<1>2. l.sub.key \in Fixed /\ l.sub.key # Canary
  <2>1. l.sub \in Mentioned
    BY DEF Mentioned, Asked
  <2> QED BY <1>1, <2>1, KeysApart DEF IInv, Subs, SubOK
<1>3. \A s \in Asked' : s \in Asked /\ s.key # l.sub.key
  <2>1. Asked' = SubsOf(live \ {l}) \cup SubsOf(timers)
    BY <1>1 DEF Asked, SubsOf
  <2> QED BY <1>2, <2>1, GoneAlone
<1>4. Mentioned' \subseteq Mentioned
  BY <1>1, <1>3 DEF Mentioned, Searching
<1>5. Apart(Asked') /\ Without(Asked', dropped') /\ KeyTells(Mentioned')
      /\ \A s \in Asked' : s.key \notin unavailable'
  BY <1>1, <1>3, <1>4 DEF Once, Apart, Without, KeyTells
<1>6. Single(live', timers')
  BY <1>1, SingleLess DEF Once
<1>7. /\ Covered(wave', Mentioned') /\ Covered(pending', Mentioned')
      /\ GroupsApart(wave') /\ GroupsApart(pending') /\ pending'.refused = KeysOf(pending'.groups)
  BY <1>1, <1>4, WavesCovered DEF NewAreNew
<1>8. Blamed'
  BY <1>1, BlamedKept DEF Once
<1> QED BY <1>5, <1>6, <1>7, <1>8 DEF Once

\* A rejection enters its wave with the probes and the names that cover its group.
LEMMA JoinOnce ==
  ASSUME IInv, Once, NewAreNew, NEW l \in live, NEW probes \in SUBSET Keys, NEW names,
         InWave(l, probes, names),
         \A n \in l.sub.props : n \in names \/ \E s \in Mentioned' : n \in s.props /\ s.key \in probes
  PROVE  /\ Covered(wave', Mentioned') /\ Covered(pending', Mentioned')
         /\ GroupsApart(wave') /\ GroupsApart(pending') /\ pending'.refused = KeysOf(pending'.groups)
<1>1. Covered(wave, Mentioned') /\ Covered(pending, Mentioned')
  <2>1. \A s \in Mentioned' : s.key \in wave.probes \cup pending.probes => s \in Mentioned
    BY NewKeysFresh DEF IInv, NewAreNew
  <2> QED BY <2>1, CoveredKept, CanaryNoProbe DEF Once
<1>2. GroupsApart(wave) /\ GroupsApart(pending) /\ pending.refused = KeysOf(pending.groups)
  BY DEF Once
<1>3. CASE UNCHANGED <<wave, pending>>
  BY <1>1, <1>2, <1>3
<1>4. CASE Joined(l, probes, names)
  <2>1. PICK with : /\ with.groups = wave.groups
                    /\ with.refused = wave.refused \cup {l.sub.key}
                    /\ with.probes = wave.probes \cup probes
                    /\ with.dropped = wave.dropped \cup names
                    /\ \/ wave' = with /\ pending' = pending
                       \/ wave' = NoWave /\ pending' = with /\ with.refused = KeysOf(with.groups)
    BY <1>4 DEF Joined
  <2>2. GroupsApart(with)
    BY <1>2, <2>1 DEF GroupsApart
  <2>3. Covered(with, Mentioned')
    <3> SUFFICES ASSUME \A k \in with.probes : \E s \in Mentioned' : s.key = k,
                        NEW g \in wave.groups, g.key \in with.refused,
                        NEW n \in g.props, n \notin with.dropped
                 PROVE  \E s \in Mentioned' : n \in s.props /\ s.key \in with.probes
      BY <2>1 DEF Covered
    <3>1. CASE g.key \in wave.refused
      <4>1. \A k \in wave.probes : \E s \in Mentioned' : s.key = k
        BY <2>1
      <4>2. \E s \in Mentioned' : n \in s.props /\ s.key \in wave.probes
        BY <1>1, <2>1, <3>1, <4>1 DEF Covered
      <4> QED BY <2>1, <4>2
    <3>2. CASE g.key = l.sub.key
      <4>1. g \in Searching /\ g \in Mentioned /\ l.sub \in Mentioned
        BY DEF Mentioned, Searching, Asked
      <4>2. g.key # Canary
        BY <4>1, KeysApart DEF IInv, Subs
      <4>3. g = l.sub
        BY <3>2, <4>1, <4>2 DEF Once, KeyTells
      <4>4. \E s \in Mentioned' : n \in s.props /\ s.key \in probes
        BY <2>1, <4>3
      <4> QED BY <2>1, <4>4
    <3> QED BY <2>1, <3>1, <3>2
  <2> QED BY <1>1, <1>2, <2>1, <2>2, <2>3, NoWaveCovered
<1>5. UNCHANGED <<wave, pending>> \/ Joined(l, probes, names)
  BY InWaveEffect DEF IInv
<1> QED BY <1>3, <1>4, <1>5

\* The canary may be asked for as often as it is wanted.
LEMMA InWaveSingle ==
  ASSUME NEW l \in live, NEW probes, NEW names, InWave(l, probes, names),
         NEW waits, Single(live \ {l}, waits)
  PROVE  Single(live', waits)
<1> DEFINE subs == {CanarySub}
<1>1. live' = live \ {l} \/ live' = Activate(subs, live \ {l})
  BY Zenon DEF InWave, CanarySub
<1>2. \A s \in subs : s.key = Canary
  BY DEF CanarySub, Sub
<1> HIDE DEF subs
<1> QED BY <1>1, <1>2, SingleActivate

LEMMA TwoFree ==
  ASSUME KeysLeft(2)
  PROVE  Free(0) \in Unused /\ Free(1) \in Unused /\ Free(0) # Free(1)
<1>1. IsFiniteSet(Keys)
  BY ConstantsAssumption, FS_Interval DEF Keys
<1>2. Unused \subseteq Keys
  BY DEF Unused
<1>3. Cardinality(Unused) \in Nat
  BY <1>1, <1>2, FS_Subset, FS_CardinalityType
<1>4. KeysLeft(0 + 1) /\ KeysLeft(1 + 1)
  BY <1>3 DEF KeysLeft
<1> QED BY <1>4, FreeKey, FreeApart

\* The search a rejection belongs to has more keys, or has found one name more.
Widened(r, keys) == [r EXCEPT !.keys = @ \cup keys]
Blaming(r, names) == [r EXCEPT !.rejected = @ \cup names]

LEMMA WidenedIs ==
  ASSUME SearchShape(searches), NEW r \in searches, NEW keys
  PROVE  /\ Widened(r, keys).group = r.group /\ Widened(r, keys).rejected = r.rejected
         /\ Widened(r, keys).keys = r.keys \cup keys
         /\ Blaming(r, keys).group = r.group /\ Blaming(r, keys).keys = r.keys
         /\ Blaming(r, keys).rejected = r.rejected \cup keys
BY DEF SearchShape, Widened, Blaming

SplitSearches(k, sub, probes) ==
  IF SearchOf(k) = {}
  THEN searches \cup {[group |-> sub, keys |-> probes, rejected |-> {}]}
  ELSE {IF k \in s.keys THEN [s EXCEPT !.keys = @ \cup probes] ELSE s : s \in searches}

\* Probes under keys of their own keep the searches apart.
LEMMA SplitApart ==
  ASSUME IInv, Blamed, NEW k, NEW sub, NEW probes \in SUBSET Unused,
         searches' = SplitSearches(k, sub, probes)
  PROVE  /\ \A r, q \in searches' : r # q => r.rejected \cap q.rejected = {} /\ r.keys \cap q.keys = {}
         /\ \A r \in searches' :
              \/ r.group = sub /\ r.keys = probes /\ r.rejected = {}
              \/ \E q \in searches : r.group = q.group /\ r.rejected = q.rejected
                                       /\ r.keys \subseteq q.keys \cup probes
<1> DEFINE begun == [group |-> sub, keys |-> probes, rejected |-> {}]
<1>1. begun.group = sub /\ begun.keys = probes /\ begun.rejected = {}
  OBVIOUS
<1>2. \A r \in searches' : \/ r \in searches /\ k \notin r.keys
                           \/ r = begun /\ \A q \in searches : k \notin q.keys
                           \/ \E q \in searches : k \in q.keys /\ r = Widened(q, probes)
  <2>1. CASE SearchOf(k) = {}
    BY <2>1 DEF SearchOf, SplitSearches
  <2>2. CASE SearchOf(k) # {}
    BY <2>2 DEF Widened, SplitSearches
  <2> QED BY <2>1, <2>2
<1>3. SearchShape(searches)
  BY DEF IInv, Shapes
<1> HIDE DEF begun
<1>4. \A q \in searches : q.keys \cap probes = {}
  BY NewKeysFresh DEF IInv, NewKeys
<1>5. \A q \in searches : /\ Widened(q, probes).group = q.group
                          /\ Widened(q, probes).rejected = q.rejected
                          /\ Widened(q, probes).keys = q.keys \cup probes
  BY <1>3, WidenedIs
<1>6. \A r, q \in searches : r # q => r.rejected \cap q.rejected = {} /\ r.keys \cap q.keys = {}
  BY DEF Blamed
<1>7. ASSUME NEW r \in searches', NEW q \in searches', r # q
      PROVE  r.rejected \cap q.rejected = {} /\ r.keys \cap q.keys = {}
  <2>1. ASSUME NEW a \in searches, k \notin a.keys, NEW b \in searches, k \in b.keys
        PROVE  LET w == Widened(b, probes)
               IN  a.rejected \cap w.rejected = {} /\ a.keys \cap w.keys = {}
    <3>1. a # b
      BY <2>1
    <3> QED BY <1>4, <1>5, <1>6, <3>1
  <2>2. ASSUME NEW a \in searches, k \in a.keys, NEW b \in searches, k \in b.keys PROVE a = b
    BY <1>6, <2>2
  <2>3. CASE r \in searches /\ k \notin r.keys
    <3>1. CASE q \in searches /\ k \notin q.keys
      BY <1>6, <1>7, <2>3, <3>1
    <3>2. CASE q = begun
      BY <1>1, <1>4, <2>3, <3>2
    <3>3. CASE \E b \in searches : k \in b.keys /\ q = Widened(b, probes)
      BY <2>1, <2>3, <3>3
    <3> QED BY <1>2, <3>1, <3>2, <3>3
  <2>4. CASE r = begun /\ \A b \in searches : k \notin b.keys
    <3>1. q \in searches \/ q = begun
      BY <1>2, <2>4
    <3> QED BY <1>1, <1>4, <1>7, <2>4, <3>1
  <2>5. CASE \E a \in searches : k \in a.keys /\ r = Widened(a, probes)
    <3>1. CASE q \in searches /\ k \notin q.keys
      <4>1. PICK a \in searches : k \in a.keys /\ r = Widened(a, probes)
        BY <2>5
      <4>2. q.rejected \cap r.rejected = {} /\ q.keys \cap r.keys = {}
        BY <2>1, <3>1, <4>1
      <4> QED BY <4>2
    <3>2. CASE \E b \in searches : k \in b.keys /\ q = Widened(b, probes)
      BY <1>7, <2>2, <2>5, <3>2
    <3> QED BY <1>2, <2>5, <3>1, <3>2
  <2> QED BY <1>2, <2>3, <2>4, <2>5
<1>8. \A r \in searches' : \/ r.group = sub /\ r.keys = probes /\ r.rejected = {}
                           \/ \E q \in searches : r.group = q.group /\ r.rejected = q.rejected
                                                    /\ r.keys \subseteq q.keys \cup probes
  BY <1>1, <1>2, <1>5
<1> QED BY <1>7, <1>8

LEMMA SplitOnce ==
  ASSUME IInv, Once, NEW l \in live, Split(l)
  PROVE  Once'
<1> DEFINE half == FirstHalf(l.sub.props)
           rest == l.sub.props \ half
           first == Sub(Free(0), half)
           second == Sub(Free(1), rest)
           probes == {first.key, second.key}
           two == {first, second}
<1>1. /\ Searched(l) /\ KeysLeft(2)
      /\ searches' = SplitSearches(l.sub.key, l.sub, probes)
      /\ timers' = Later(two, "bisect", timers)
      /\ InWave(l, probes, {})
      /\ UNCHANGED <<dropped, unavailable>>
  BY Zenon DEF Split, SplitSearches
<1>2. /\ Shapes /\ Lists /\ Subs /\ TimerShape(timers) /\ SearchShape(searches) /\ Waves /\ SearchesInv
  BY DEF IInv, Shapes
<1>3. /\ Apart(Asked) /\ KeyTells(Mentioned) /\ Single(live, timers) /\ Without(Asked, dropped)
      /\ Blamed /\ \A s \in Asked : s.key \notin unavailable
  BY DEF Once
<1>4. socket /\ l.sub \in Asked /\ l.sub \in Mentioned /\ l.sub.key \in Keys /\ l.sub.key # Canary
  BY <1>1, SearchedGroup, KeysApart DEF Mentioned
<1>5. /\ first.key \in Unused /\ second.key \in Unused /\ first.key # second.key
      /\ first.props = half /\ second.props = rest
  BY <1>1, TwoFree DEF Sub
<1>6. half \subseteq l.sub.props /\ half \cup rest = l.sub.props /\ half \cap rest = {}
  BY DEF FirstHalf
<1> HIDE DEF first, second, half, rest
<1>7. /\ probes \in SUBSET Keys /\ probes \in SUBSET Unused
      /\ \A s \in Mentioned : s.key \notin probes
      /\ Canary \notin probes /\ probes \cap Fixed = {}
  BY <1>5, UnusedFresh, KeysApart
<1>8. \A s \in two : s.key \in probes /\ s.props \subseteq l.sub.props
  BY <1>5, <1>6
<1>9. \A s, t \in two : (s.key = t.key => s = t) /\ (s # t => s.props \cap t.props = {})
  BY <1>5, <1>6
<1>10. \A n \in l.sub.props : \E s \in two : n \in s.props
  BY <1>5, <1>6
<1> HIDE DEF probes, two
<1>11. CanarySub.key = Canary
  BY <1>2, <1>4, CanaryOK
<1>12. SubsOf(live') \subseteq SubsOf(live \ {l}) \cup {CanarySub}
  BY <1>1, <1>2, InWaveEffect DEF CanarySub
<1>13. SubsOf(timers') = SubsOf(timers) \cup two
  BY <1>1, <1>2, LaterEffect
<1>14. Asked' = SubsOf(live') \cup SubsOf(timers')
  BY DEF Asked, SubsOf
<1>15. /\ \A s \in Asked' : (s \in Asked /\ s # l.sub) \/ s \in two \/ s.key = Canary
       /\ two \subseteq Asked'
  BY <1>4, <1>11, <1>12, <1>13, <1>14, GoneAlone
<1>16. /\ \A r, q \in searches' : r # q => r.rejected \cap q.rejected = {} /\ r.keys \cap q.keys = {}
       /\ \A r \in searches' :
            \/ r.group = l.sub /\ r.keys = probes /\ r.rejected = {}
            \/ \E q \in searches : r.group = q.group /\ r.rejected = q.rejected
                                     /\ r.keys \subseteq q.keys \cup probes
  BY <1>1, <1>3, <1>7, SplitApart
<1>17. /\ wave'.groups \cup pending'.groups \subseteq wave.groups \cup pending.groups
       /\ wave'.groups \subseteq wave.groups
       /\ wave'.dropped \cup pending'.dropped \subseteq wave.dropped \cup pending.dropped
       /\ wave'.dropped \cap pending'.dropped = {}
  <2>1. UNCHANGED <<wave, pending>> \/ Joined(l, probes, {})
    BY <1>1, <1>2, InWaveEffect
  <2>2. NoWave.groups = {} /\ NoWave.dropped = {} /\ wave.dropped \cap pending.dropped = {}
    BY <1>3 DEF NoWave, Blamed
  <2> QED BY <2>1, <2>2 DEF Joined
<1>18. Searching' \subseteq Searching \cup {l.sub}
  <2>1. {r.group : r \in searches'} \subseteq {q.group : q \in searches} \cup {l.sub}
    BY <1>16
  <2> QED BY <1>17, <2>1 DEF Searching
<1>19. /\ \A s \in Mentioned' : s \in Mentioned \/ s \in two \/ s.key = Canary
       /\ two \subseteq Mentioned'
  BY <1>4, <1>15, <1>18 DEF Mentioned
<1>20. Apart(Asked')
  <2> SUFFICES ASSUME NEW a \in Asked', NEW b \in Asked', a # b, a.key # Canary, b.key # Canary
               PROVE  a.props \cap b.props = {}
    BY DEF Apart
  <2>1. \A s \in Asked : s # l.sub /\ s.key # Canary => s.props \cap l.sub.props = {}
    BY <1>3, <1>4 DEF Apart
  <2>2. CASE a \in two /\ b \in two
    BY <1>9, <2>2
  <2>3. CASE a \in two /\ b \notin two
    BY <1>8, <1>15, <2>1, <2>3
  <2>4. CASE a \notin two /\ b \in two
    BY <1>8, <1>15, <2>1, <2>4
  <2>5. CASE a \notin two /\ b \notin two
    BY <1>3, <1>15, <2>5 DEF Apart
  <2> QED BY <2>2, <2>3, <2>4, <2>5
<1>21. Without(Asked', dropped')
  BY <1>1, <1>3, <1>4, <1>8, <1>15 DEF Without
<1>22. KeyTells(Mentioned')
  BY <1>3, <1>7, <1>8, <1>9, <1>19 DEF KeyTells
<1>23. \A s \in Asked' : s.key \notin unavailable'
  <2>1. unavailable' = unavailable /\ unavailable \subseteq Fixed
    BY <1>1, <1>2 DEF Lists
  <2> QED BY <1>3, <1>7, <1>8, <1>15, <2>1, KeysApart
<1>24. Single(live', timers')
  <2>1. Single(live \ {l}, timers)
    BY <1>3, SingleLess
  <2>2. /\ \A s \in two, a \in live \ {l} : a.sub = s => s.key = Canary
        /\ \A s \in two, t \in timers : t.sub.key = s.key => s.key = Canary
    BY <1>7, <1>8 DEF Mentioned, Asked
  <2>3. Single(live \ {l}, timers')
    BY <1>1, <1>2, <2>1, <2>2, SingleLater
  <2> QED BY <1>1, <2>3, InWaveSingle
<1>25. /\ Covered(wave', Mentioned') /\ Covered(pending', Mentioned')
       /\ GroupsApart(wave') /\ GroupsApart(pending') /\ pending'.refused = KeysOf(pending'.groups)
  <2>1. NewAreNew
    BY <1>7, <1>8, <1>19 DEF NewAreNew, NewKeys
  <2>2. \A n \in l.sub.props : n \in {} \/ \E s \in Mentioned' : n \in s.props /\ s.key \in probes
    BY <1>8, <1>10, <1>19
  <2> QED BY <1>1, <1>7, <2>1, <2>2, JoinOnce
<1>26. Blamed'
  <2>1. \A g \in wave.groups : g.key \notin probes
    BY <1>7 DEF Mentioned, Searching
  <2>2. KeysOf(wave'.groups) \subseteq KeysOf(wave.groups) /\ KeysOf(wave'.groups) \cap probes = {}
    BY <1>17, <2>1 DEF KeysOf
  <2>3. \A r \in searches' : /\ r.rejected \subseteq dropped'
                             /\ r.rejected \cap (wave'.dropped \cup pending'.dropped) = {}
                             /\ r.keys \cap KeysOf(wave'.groups) = {}
    <3> SUFFICES ASSUME NEW r \in searches'
                 PROVE  /\ r.rejected \subseteq dropped'
                        /\ r.rejected \cap (wave'.dropped \cup pending'.dropped) = {}
                        /\ r.keys \cap KeysOf(wave'.groups) = {}
      OBVIOUS
    <3>1. CASE r.group = l.sub /\ r.keys = probes /\ r.rejected = {}
      BY <2>2, <3>1
    <3>2. ASSUME NEW q \in searches, r.rejected = q.rejected, r.keys \subseteq q.keys \cup probes
          PROVE  /\ r.rejected \subseteq dropped'
                 /\ r.rejected \cap (wave'.dropped \cup pending'.dropped) = {}
                 /\ r.keys \cap KeysOf(wave'.groups) = {}
      <4>1. /\ q.rejected \subseteq dropped
            /\ q.rejected \cap (wave.dropped \cup pending.dropped) = {}
            /\ q.keys \cap KeysOf(wave.groups) = {}
        BY <1>3 DEF Blamed
      <4> QED BY <1>1, <1>17, <2>2, <3>2, <4>1
    <3> QED BY <1>16, <3>1, <3>2
  <2>4. wave'.dropped \cup pending'.dropped \subseteq dropped'
    BY <1>1, <1>3, <1>17 DEF Blamed
  <2> QED BY <1>16, <1>17, <2>3, <2>4 DEF Blamed
<1> QED BY <1>20, <1>21, <1>22, <1>23, <1>24, <1>25, <1>26 DEF Once

\* A property refused alone is asked for no more, and blamed by one search or one wave.
LEMMA DropOnce ==
  ASSUME IInv, Once, NEW l \in live, Drop(l)
  PROVE  Once'
<1> DEFINE names == l.sub.props
           with(r) == Blaming(r, names)
<1>1. /\ Searched(l) /\ dropped' = dropped \cup names
      /\ searches' = {IF l.sub.key \in s.keys THEN with(s) ELSE s : s \in searches}
      /\ InWave(l, {}, names)
      /\ UNCHANGED <<timers, unavailable>>
  BY Zenon DEF Drop, Blaming
<1>2. Shapes /\ Lists /\ SearchShape(searches)
  BY DEF IInv, Shapes
<1>3. /\ Apart(Asked) /\ KeyTells(Mentioned) /\ Single(live, timers) /\ Without(Asked, dropped)
      /\ Blamed /\ \A s \in Asked : s.key \notin unavailable
  BY DEF Once
<1>4. socket /\ l.sub \in Asked /\ l.sub.key \in Keys /\ l.sub.key # Canary
  BY <1>1, SearchedGroup, KeysApart
<1>5. CanarySub.key = Canary
  BY <1>2, <1>4, CanaryOK
<1>6. SubsOf(live') \subseteq SubsOf(live \ {l}) \cup {CanarySub}
      /\ (UNCHANGED <<wave, pending>> \/ Joined(l, {}, names))
  BY <1>1, <1>2, InWaveEffect DEF CanarySub
<1>7. Asked' = SubsOf(live') \cup SubsOf(timers)
  BY <1>1 DEF Asked, SubsOf
<1>8. \A s \in Asked' : (s \in Asked /\ s # l.sub) \/ s.key = Canary
  BY <1>4, <1>5, <1>6, <1>7, GoneAlone
<1>9. names \cap dropped = {} /\ \A s \in Asked : s # l.sub /\ s.key # Canary => s.props \cap names = {}
  BY <1>3, <1>4 DEF Apart, Without
<1>10. \A q \in searches : /\ with(q).group = q.group /\ with(q).keys = q.keys
                           /\ with(q).rejected = q.rejected \cup names
  BY <1>2, WidenedIs
<1>11. \A r \in searches' : \/ r \in searches /\ l.sub.key \notin r.keys
                            \/ \E q \in searches : l.sub.key \in q.keys /\ r = with(q)
  BY <1>1
<1> HIDE DEF names, with
<1>12. /\ wave'.groups \cup pending'.groups \subseteq wave.groups \cup pending.groups
       /\ wave'.groups \subseteq wave.groups
       /\ wave'.dropped \cup pending'.dropped \subseteq wave.dropped \cup pending.dropped \cup names
       /\ wave'.dropped \cap pending'.dropped = {}
       /\ \/ wave'.dropped \cup pending'.dropped \subseteq wave.dropped \cup pending.dropped
          \/ l.sub \in wave.groups
  <2>1. NoWave.groups = {} /\ NoWave.dropped = {} /\ wave.dropped \cap pending.dropped = {}
        /\ pending.dropped \cap names = {}
    BY <1>3, <1>9 DEF NoWave, Blamed
  <2> QED BY <1>6, <2>1 DEF Joined
<1>13. Searching' \subseteq Searching
  <2>1. \A r \in searches' : \E q \in searches : r.group = q.group
    BY <1>10, <1>11
  <2> QED BY <1>12, <2>1 DEF Searching
<1>14. \A s \in Mentioned' : s \in Mentioned \/ s.key = Canary
  BY <1>8, <1>13 DEF Mentioned
<1>15. Apart(Asked') /\ Without(Asked', dropped') /\ KeyTells(Mentioned')
  <2>1. Apart(Asked')
    BY <1>3, <1>8 DEF Apart
  <2>2. Without(Asked', dropped')
    BY <1>1, <1>3, <1>8, <1>9 DEF Without
  <2>3. KeyTells(Mentioned')
    BY <1>3, <1>14 DEF KeyTells
  <2> QED BY <2>1, <2>2, <2>3
<1>16. \A s \in Asked' : s.key \notin unavailable'
  <2>1. unavailable' = unavailable /\ unavailable \subseteq Fixed
    BY <1>1, <1>2 DEF Lists
  <2> QED BY <1>3, <1>8, <2>1, KeysApart
<1>17. Single(live', timers')
  <2>1. Single(live \ {l}, timers)
    BY <1>3, SingleLess
  <2> QED BY <1>1, <2>1, InWaveSingle
<1>18. /\ Covered(wave', Mentioned') /\ Covered(pending', Mentioned')
       /\ GroupsApart(wave') /\ GroupsApart(pending') /\ pending'.refused = KeysOf(pending'.groups)
  <2>1. NewAreNew
    BY <1>14 DEF NewAreNew, NewKeys
  <2>2. {} \in SUBSET Keys
        /\ \A n \in l.sub.props : n \in names \/ \E s \in Mentioned' : n \in s.props /\ s.key \in {}
    BY DEF names
  <2> QED BY <1>1, <2>1, <2>2, JoinOnce
<1>19. Blamed'
  <2>1. wave'.dropped \cup pending'.dropped \subseteq dropped'
    BY <1>1, <1>3, <1>12 DEF Blamed
  <2>2. KeysOf(wave'.groups) \subseteq KeysOf(wave.groups)
    BY <1>12 DEF KeysOf
  <2>3. ASSUME NEW r \in searches
        PROVE  /\ r.rejected \subseteq dropped /\ r.rejected \cap names = {}
               /\ r.rejected \cap (wave.dropped \cup pending.dropped) = {}
               /\ r.keys \cap KeysOf(wave.groups) = {}
    BY <1>3, <1>9 DEF Blamed
  <2>4. ASSUME NEW r \in searches'
        PROVE  /\ r.rejected \subseteq dropped'
               /\ r.rejected \cap (wave'.dropped \cup pending'.dropped) = {}
               /\ r.keys \cap KeysOf(wave'.groups) = {}
    <3>1. CASE r \in searches
      BY <1>1, <1>12, <2>2, <2>3, <3>1
    <3>2. ASSUME NEW q \in searches, l.sub.key \in q.keys, r = with(q)
          PROVE  /\ r.rejected \subseteq dropped'
                 /\ r.rejected \cap (wave'.dropped \cup pending'.dropped) = {}
                 /\ r.keys \cap KeysOf(wave'.groups) = {}
      <4>1. l.sub.key \notin KeysOf(wave.groups)
        BY <2>3, <3>2
      <4>2. l.sub \notin wave.groups
        BY <4>1 DEF KeysOf
      <4>3. wave'.dropped \cup pending'.dropped \subseteq wave.dropped \cup pending.dropped
        BY <1>12, <4>2
      <4>4. names \cap (wave.dropped \cup pending.dropped) = {}
        BY <1>3, <1>9 DEF Blamed
      <4>5. r.keys = q.keys /\ r.rejected = q.rejected \cup names
        BY <1>10, <3>2
      <4> QED BY <1>1, <2>2, <2>3, <4>3, <4>4, <4>5
    <3> QED BY <1>11, <3>1, <3>2
  <2>5. \A r, q \in searches : r # q => r.rejected \cap q.rejected = {} /\ r.keys \cap q.keys = {}
    BY <1>3 DEF Blamed
  <2>6. ASSUME NEW r \in searches', NEW q \in searches', r # q
        PROVE  r.rejected \cap q.rejected = {} /\ r.keys \cap q.keys = {}
    <3>1. ASSUME NEW a \in searches, l.sub.key \notin a.keys, NEW b \in searches, l.sub.key \in b.keys
          PROVE  a.rejected \cap with(b).rejected = {} /\ a.keys \cap with(b).keys = {}
      <4>1. a # b
        BY <3>1
      <4> QED BY <1>10, <2>3, <2>5, <4>1
    <3>2. CASE r \in searches /\ l.sub.key \notin r.keys
      BY <1>11, <2>5, <2>6, <3>1, <3>2
    <3>3. CASE \E a \in searches : l.sub.key \in a.keys /\ r = with(a)
      <4>1. PICK a \in searches : l.sub.key \in a.keys /\ r = with(a)
        BY <3>3
      <4>2. CASE q \in searches /\ l.sub.key \notin q.keys
        <5>1. q.rejected \cap r.rejected = {} /\ q.keys \cap r.keys = {}
          BY <3>1, <4>1, <4>2
        <5> QED BY <5>1
      <4>3. ASSUME NEW b \in searches, l.sub.key \in b.keys, q = with(b) PROVE FALSE
        <5>1. a = b
          BY <2>5, <4>1, <4>3
        <5> QED BY <2>6, <4>1, <4>3, <5>1
      <4> QED BY <1>11, <4>2, <4>3
    <3> QED BY <1>11, <3>2, <3>3
  <2> QED BY <1>12, <2>1, <2>4, <2>6 DEF Blamed
<1> QED BY <1>15, <1>16, <1>17, <1>18, <1>19 DEF Once

\* Every property refused: nothing else asks for what the group asks for again.
LEMMA ExhaustOnce ==
  ASSUME IInv, Once, NEW l \in live, Exhaust(l)
  PROVE  Once'
<1>1. Searched(l) /\ live' = live \ {l} /\ UNCHANGED <<wave, pending, unavailable>>
  BY DEF Exhaust
<1>2. PICK r \in searches :
        /\ Completes(l, r)
        /\ searches' = searches \ {r} /\ dropped' = dropped \ r.rejected
        /\ timers' = Later({r.group}, "backoff", timers)
  BY DEF Exhaust, SearchOf
<1>3. Shapes /\ Lists /\ Subs /\ TimerShape(timers)
  BY DEF IInv, Shapes
<1>4. /\ Apart(Asked) /\ KeyTells(Mentioned) /\ Single(live, timers) /\ Without(Asked, dropped)
      /\ Blamed /\ \A s \in Asked : s.key \notin unavailable
  BY DEF Once
<1>5. l.sub \in Asked /\ l.sub.key # Canary
  BY <1>1, SearchedGroup, KeysApart
<1> DEFINE group == r.group
<1>6. group \in Mentioned /\ group.key \in Keys /\ group.key # Canary /\ group.key \notin Fixed
      /\ group.props # {}
  <2>1. group \in Searching /\ group \in Mentioned
    BY DEF Searching, Mentioned
  <2> QED BY <1>3, <2>1, KeysApart DEF Subs, SubOK
<1>7. group.props = r.rejected \cup l.sub.props /\ r.rejected \subseteq dropped
  BY <1>2, <1>4 DEF Completes, Blamed
<1> HIDE DEF group
<1> DEFINE remain == SubsOf(live \ {l}) \cup SubsOf(timers)
<1>8. \A s \in remain : s \in Asked /\ s \in Mentioned /\ s # l.sub
  BY <1>5, GoneAlone DEF Mentioned
<1>9. \A s \in remain : s.key # Canary => s.props \cap group.props = {}
  BY <1>4, <1>5, <1>7, <1>8 DEF Apart, Without
<1>10. \A s \in remain : s.key # group.key
  <2> SUFFICES ASSUME NEW s \in remain, s.key = group.key PROVE FALSE
    OBVIOUS
  <2>1. s = group
    BY <1>4, <1>6, <1>8 DEF KeyTells
  <2> QED BY <1>6, <1>9, <2>1
<1>11. Asked' = remain \cup {group}
  <2>1. SubsOf(timers') = SubsOf(timers) \cup {group}
    BY <1>2, <1>3, LaterEffect DEF group
  <2>2. Asked' = SubsOf(live') \cup SubsOf(timers')
    BY DEF Asked, SubsOf
  <2> QED BY <1>1, <2>1, <2>2
<1> HIDE DEF remain
<1>12. Apart(Asked')
  BY <1>4, <1>8, <1>9, <1>11 DEF Apart
<1>13. Without(Asked', dropped')
  <2>1. l.sub.props \cap dropped = {}
    BY <1>4, <1>5 DEF Without
  <2>2. group.props \cap dropped' = {}
    BY <1>2, <1>7, <2>1
  <2> QED BY <1>2, <1>4, <1>8, <1>11, <2>2 DEF Without
<1>14. Mentioned' \subseteq Mentioned
  <2>1. Searching' \subseteq Searching
    BY <1>1, <1>2 DEF Searching
  <2> QED BY <1>6, <1>8, <1>11, <2>1 DEF Mentioned
<1>15. KeyTells(Mentioned')
  BY <1>4, <1>14 DEF KeyTells
<1>16. \A s \in Asked' : s.key \notin unavailable'
  <2>1. unavailable' = unavailable /\ unavailable \subseteq Fixed
    BY <1>1, <1>3 DEF Lists
  <2> QED BY <1>4, <1>6, <1>8, <1>11, <2>1
<1>17. Single(live', timers')
  <2> DEFINE subs == {group}
  <2>1. Single(live \ {l}, timers)
    BY <1>4, SingleLess
  <2>2. \A s \in subs, a \in live \ {l} : a.sub = s => s.key = Canary
    BY <1>10 DEF remain, SubsOf
  <2>3. \A s \in subs, t \in timers : t.sub.key = s.key => s.key = Canary
    BY <1>10 DEF remain, SubsOf
  <2>4. timers' = Later(subs, "backoff", timers)
    BY <1>2 DEF group
  <2> HIDE DEF subs
  <2> QED BY <1>1, <1>3, <2>1, <2>2, <2>3, <2>4, SingleLater
<1>18. /\ Covered(wave', Mentioned') /\ Covered(pending', Mentioned')
       /\ GroupsApart(wave') /\ GroupsApart(pending') /\ pending'.refused = KeysOf(pending'.groups)
  BY <1>1, <1>14, WavesCovered DEF NewAreNew
<1>19. Blamed'
  <2>1. \A q \in searches' : q \in searches /\ q # r
    BY <1>2
  <2>2. r.rejected \cap (wave.dropped \cup pending.dropped) = {}
        /\ \A q \in searches' : q.rejected \cap r.rejected = {}
    BY <1>4, <2>1 DEF Blamed
  <2> QED BY <1>1, <1>2, <1>4, <2>1, <2>2 DEF Blamed
<1> QED BY <1>12, <1>13, <1>15, <1>16, <1>17, <1>18, <1>19 DEF Once

\* New subscriptions of fields that nothing asks for and nothing has dropped, under new keys.
LEMMA AddedOnce ==
  ASSUME IInv, Once, NEW new, live' = Activate(new, live), UNCHANGED <<search, timers>>,
         \A s \in new : s.key \in Unused \cup Fixed /\ s.key \notin unavailable',
         \A s \in new : \A t \in Mentioned : t.key # s.key,
         KeyTells(new), Apart(new),
         \A s \in new, t \in Asked : t.key # Canary => s.props \cap t.props = {},
         \A s \in new : s.props \cap dropped' = {},
         dropped' \subseteq dropped, unavailable' \subseteq unavailable,
         wave.dropped \cup pending.dropped \subseteq dropped',
         \A r \in searches : r.rejected \subseteq dropped'
  PROVE  Once'
<1>1. LiveShape(live) /\ UNCHANGED <<wave, pending, searches>>
  BY DEF IInv, Shapes, search
<1>2. SubsOf(live') = SubsOf(live) \cup new
  BY <1>1, ActivateEffect
<1>3. Asked' = Asked \cup new
  <2>1. Asked' = SubsOf(live') \cup SubsOf(timers)
    BY DEF Asked, SubsOf
  <2> QED BY <1>2, <2>1, AskedIs
<1>4. Mentioned' = Mentioned \cup new
  BY <1>1, <1>3 DEF Mentioned, Searching
<1>5. /\ Apart(Asked) /\ KeyTells(Mentioned) /\ Single(live, timers) /\ Without(Asked, dropped)
      /\ Blamed /\ \A s \in Asked : s.key \notin unavailable
  BY DEF Once
<1>6. Apart(Asked')
  <2> SUFFICES ASSUME NEW a \in Asked', NEW b \in Asked', a # b, a.key # Canary, b.key # Canary
               PROVE  a.props \cap b.props = {}
    BY DEF Apart
  <2>1. CASE a \in Asked /\ b \in Asked
    BY <1>5, <2>1 DEF Apart
  <2>2. CASE a \in new /\ b \in new
    BY <2>2 DEF Apart
  <2>3. CASE (a \in new /\ b \in Asked) \/ (a \in Asked /\ b \in new)
    BY <2>3
  <2> QED BY <1>3, <2>1, <2>2, <2>3
<1>7. Without(Asked', dropped')
  BY <1>3, <1>5 DEF Without
<1>8. KeyTells(Mentioned')
  BY <1>4, <1>5 DEF KeyTells
<1>9. \A s \in Asked' : s.key \notin unavailable'
  BY <1>3, <1>5
<1>10. Single(live', timers')
  <2>1. \A s \in new, r \in live \cup timers : r.sub = s => s.key = Canary
    BY DEF Mentioned, Asked
  <2> QED BY <1>5, <2>1, SingleActivate
<1>11. /\ Covered(wave', Mentioned') /\ Covered(pending', Mentioned')
       /\ GroupsApart(wave') /\ GroupsApart(pending') /\ pending'.refused = KeysOf(pending'.groups)
  BY <1>1, <1>4, WavesCovered DEF NewAreNew, NewKeys
<1>12. Blamed'
  BY <1>1, <1>5 DEF Blamed
<1> QED BY <1>6, <1>7, <1>8, <1>9, <1>10, <1>11, <1>12 DEF Once

LEMMA ReprobeOnce ==
  ASSUME IInv, Once, NEW n \in Names, Reprobe(n)
  PROVE  Once'
<1> DEFINE probe == Sub(Free(0), {n})
           new == {probe}
<1>1. /\ Due(n) /\ KeysLeft(0 + 1)
      /\ dropped' = dropped \ {n} /\ live' = Activate(new, live)
      /\ UNCHANGED <<search, timers, unavailable>>
  BY DEF Reprobe
<1>2. Free(0) \in Unused
  BY <1>1, FreeKey
<1>3. probe.key \in Unused /\ probe.props = {n} /\ probe.key \notin Fixed
  BY <1>2, UnusedIsState DEF Sub
<1> HIDE DEF probe
<1>4. \A s \in new : s.key \in Unused /\ s.key \notin Fixed /\ s.props = {n}
  BY <1>3
<1>5. KeyTells(new) /\ Apart(new)
  BY DEF KeyTells, Apart
<1> HIDE DEF new
<1>6. n \in dropped /\ n \notin wave.dropped \cup pending.dropped
      /\ \A s \in searches : n \notin s.rejected
  BY <1>1 DEF Due
<1>7. \A s \in new : \A t \in Mentioned : t.key # s.key
  BY <1>4, UnusedFresh
<1>8. unavailable' \subseteq Fixed
  BY <1>1 DEF IInv, Lists
<1>9. \A s \in new, t \in Asked : t.key # Canary => s.props \cap t.props = {}
  BY <1>4, <1>6 DEF Once, Without
<1>10. /\ wave.dropped \cup pending.dropped \subseteq dropped'
       /\ \A r \in searches : r.rejected \subseteq dropped'
  BY <1>1, <1>6 DEF Once, Blamed
<1>11. \A s \in new : /\ s.key \in Unused \cup Fixed /\ s.key \notin unavailable'
                      /\ s.props \cap dropped' = {}
  BY <1>1, <1>4, <1>8
<1> QED BY <1>1, <1>5, <1>7, <1>9, <1>10, <1>11, AddedOnce

LEMMA ReprobeFixedOnce ==
  ASSUME IInv, Once, NEW k \in Fixed, ReprobeFixed(k)
  PROVE  Once'
<1> DEFINE sub == Sub(k, {})
           new == {sub}
<1>1. /\ k \in unavailable /\ unavailable' = unavailable \ {k} /\ live' = Activate(new, live)
      /\ UNCHANGED <<search, timers, dropped>>
  BY DEF ReprobeFixed
<1>2. sub.key = k /\ sub.props = {}
  BY DEF Sub
<1> HIDE DEF sub
<1>3. \A s \in new : s.key = k /\ s.props = {}
  BY <1>2
<1>4. KeyTells(new) /\ Apart(new)
  BY DEF KeyTells, Apart
<1> HIDE DEF new
<1>5. \A t \in Mentioned : t.key # k
  <2>1. \A t \in Asked : t.key # k
    BY <1>1 DEF Once
  <2>2. \A t \in Searching : t.key # k
    BY KeysApart DEF IInv, Subs
  <2> QED BY <2>1, <2>2 DEF Mentioned
<1>6. /\ wave.dropped \cup pending.dropped \subseteq dropped'
      /\ \A r \in searches : r.rejected \subseteq dropped'
  BY <1>1 DEF Once, Blamed
<1>7. \A s \in new : /\ s.key \in Unused \cup Fixed /\ s.key \notin unavailable'
                     /\ s.props \cap dropped' = {}
  BY <1>1, <1>3
<1>8. /\ \A s \in new : \A t \in Mentioned : t.key # s.key
      /\ \A s \in new, t \in Asked : t.key # Canary => s.props \cap t.props = {}
      /\ dropped' \subseteq dropped /\ unavailable' \subseteq unavailable
  BY <1>1, <1>3, <1>5
<1> QED BY <1>1, <1>4, <1>6, <1>7, <1>8, AddedOnce

\* The groups of some names, each under a key of its own.
Numbered(groups, names, keys) ==
  /\ \A s \in groups : s.key \in keys /\ s.props \in Groups(names)
  /\ \A s, t \in groups : s # t => s.key # t.key /\ s.props # t.props

LEMMA NumberedApart ==
  ASSUME NEW names \in SUBSET Names, NEW groups, NEW keys, Numbered(groups, names, keys)
  PROVE  /\ KeyTells(groups) /\ Apart(groups)
         /\ \A s, t \in groups : s # t => s.props \cap t.props = {}
         /\ \A s \in groups : s.props \subseteq names
<1>1. names \in SUBSET Nat /\ IsFiniteSet(names)
  BY ConstantsAssumption, FS_Subset
<1>2. \A s \in groups : s.props \subseteq names
  BY <1>1, GroupsCover DEF Numbered
<1>3. \A s, t \in groups : s # t => s.props \cap t.props = {}
  BY GroupsDisjoint DEF Numbered
<1>4. KeyTells(groups)
  BY DEF Numbered, KeyTells
<1> QED BY <1>2, <1>3, <1>4 DEF Apart

\* Keys that differ where the numbers of the groups do.
LEMMA Numbering ==
  ASSUME NEW names \in SUBSET Names, NEW key, NEW keys, NEW groups,
         groups = {Sub(key[GroupNo(g, names)], g) : g \in Groups(names)},
         \A i \in Nat : i < Cardinality(names) => key[i] \in keys,
         \A i, j \in Nat : i < Cardinality(names) /\ j < Cardinality(names) /\ key[i] = key[j] => i = j
  PROVE  Numbered(groups, names, keys)
<1>1. \A g \in Groups(names) : GroupNo(g, names) \in Nat /\ GroupNo(g, names) < Cardinality(names)
  BY NumberInRange DEF GroupNo
<1>2. \A g, h \in Groups(names) : g # h => GroupNo(g, names) # GroupNo(h, names)
  BY GroupsDisjoint
<1>3. \A s \in groups : \E g \in Groups(names) : s.key = key[GroupNo(g, names)] /\ s.props = g
                                                  /\ s = Sub(key[GroupNo(g, names)], g)
  BY DEF Sub
<1>4. ASSUME NEW s \in groups, NEW t \in groups, s # t PROVE s.key # t.key /\ s.props # t.props
  <2>1. PICK g \in Groups(names) : s.key = key[GroupNo(g, names)] /\ s.props = g
                                     /\ s = Sub(key[GroupNo(g, names)], g)
    BY <1>3
  <2>2. PICK h \in Groups(names) : t.key = key[GroupNo(h, names)] /\ t.props = h
                                     /\ t = Sub(key[GroupNo(h, names)], h)
    BY <1>3
  <2>3. g # h
    BY <1>4, <2>1, <2>2
  <2> QED BY <1>1, <1>2, <2>1, <2>2, <2>3
<1> QED BY <1>1, <1>3, <1>4 DEF Numbered

LEMMA DiscoverOnce ==
  ASSUME IInv, Once, Discover
  PROVE  Once'
<1> DEFINE names == Found \ known
           groups == {Sub(Free(GroupNo(g, names)), g) : g \in Groups(names)}
<1>1. /\ KeysLeft(Cardinality(names)) /\ live' = IF socket THEN Activate(groups, live) ELSE live
      /\ UNCHANGED <<search, timers, dropped, unavailable>>
  BY Zenon DEF Discover, GroupNo
<1>2. names \in SUBSET Names
  BY DEF Found
<1>3. CASE socket
  <2>1. Cardinality(names) \in Nat
    BY <1>2, ConstantsAssumption, FS_Subset, FS_CardinalityType
  <2>2. Cardinality(Unused) \in Nat
    <3>1. IsFiniteSet(Keys)
      BY ConstantsAssumption, FS_Interval DEF Keys
    <3>2. Unused \subseteq Keys
      BY DEF Unused
    <3> QED BY <3>1, <3>2, FS_Subset, FS_CardinalityType
  <2>3. \A i \in Nat : i < Cardinality(names) => KeysLeft(i + 1)
    BY <1>1, <2>1, <2>2 DEF KeysLeft
  <2>4. \A i \in Nat : i < Cardinality(names) => Free(i) \in Unused
    BY <2>3, FreeKey
  <2>5. \A i, j \in Nat : i < Cardinality(names) /\ j < Cardinality(names) /\ Free(i) = Free(j) => i = j
    BY <2>3, FreeApart
  <2> DEFINE key == [i \in Nat |-> Free(i)]
  <2>6. \A i \in Nat : key[i] = Free(i)
    OBVIOUS
  <2>7. \A g \in Groups(names) : GroupNo(g, names) \in Nat
    BY <1>2, NumberInRange DEF GroupNo
  <2> HIDE DEF names, key
  <2>8. groups = {Sub(key[GroupNo(g, names)], g) : g \in Groups(names)}
    BY <2>6, <2>7
  <2> HIDE DEF groups
  <2>9. Numbered(groups, names, Unused)
    BY <1>2, <2>4, <2>5, <2>6, <2>8, Numbering
  <2>10. /\ KeyTells(groups) /\ Apart(groups)
         /\ \A s \in groups : s.props \subseteq names /\ s.key \in Unused
    BY <1>2, <2>9, NumberedApart DEF Numbered
  <2>11. dropped \subseteq known /\ unavailable \subseteq Fixed /\ \A t \in Asked : t.props \subseteq known
    BY DEF IInv, Lists, Subs, SubOK, Mentioned
  <2>12. names \cap known = {}
    BY DEF names
  <2>13. \A s \in groups : /\ s.key \in Unused \cup Fixed /\ s.key \notin unavailable'
                           /\ s.props \cap dropped' = {}
    BY <1>1, <2>10, <2>11, <2>12, UnusedIsState
  <2>14. /\ \A s \in groups : \A t \in Mentioned : t.key # s.key
         /\ \A s \in groups, t \in Asked : t.key # Canary => s.props \cap t.props = {}
    BY <2>10, <2>11, <2>12, UnusedFresh
  <2>15. /\ wave.dropped \cup pending.dropped \subseteq dropped'
         /\ \A r \in searches : r.rejected \subseteq dropped'
    BY <1>1 DEF Once, Blamed
  <2>16. live' = Activate(groups, live) /\ dropped' \subseteq dropped /\ unavailable' \subseteq unavailable
    BY <1>1, <1>3
  <2> QED BY <1>1, <2>10, <2>13, <2>14, <2>15, <2>16, AddedOnce
<1>4. CASE ~socket
  <2>1. UNCHANGED <<live, timers, wave, pending, searches, dropped, unavailable>>
    BY <1>1, <1>4 DEF search
  <2>2. Asked' = Asked /\ Mentioned' = Mentioned
    BY <2>1 DEF Asked, Mentioned, Searching
  <2> QED BY <2>1, <2>2 DEF Once, Blamed
<1> QED BY <1>3, <1>4

\* With nothing asked for there is nothing twice.
LEMMA QuietOnce ==
  ASSUME live' = {}, timers' = {}, wave' = NoWave, pending' = NoWave, searches' = {}
  PROVE  Once'
<1>1. Asked' = {} /\ Mentioned' = {}
  BY DEF Asked, Mentioned, Searching, NoWave
<1>2. NoWave.dropped = {}
  BY DEF NoWave
<1>3. Blamed'
  BY <1>2 DEF Blamed
<1>4. Single(live', timers')
  BY DEF Single
<1> QED BY <1>1, <1>3, <1>4, NoWaveCovered, NoWaveRefused DEF Once, Apart, KeyTells, Without

\* initial(): the groups of what is not dropped, and what is not left alone.
LEMMA OpenOnce ==
  ASSUME IInv, Open
  PROVE  Once'
<1> DEFINE names == known \ dropped
           groups == {Sub(GroupNo(g, names), g) : g \in Groups(names)}
           fixed == {Sub(k, {}) : k \in scenario.fixed \ unavailable}
           new == groups \cup fixed
<1>1. /\ ~socket /\ live' = Activate(new, {})
      /\ wave' = IF Cardinality(groups) >= 2 THEN [NoWave EXCEPT !.groups = groups] ELSE NoWave
      /\ pending' = NoWave /\ searches' = {}
      /\ UNCHANGED <<timers, dropped, unavailable>>
  BY Zenon DEF Open, GroupNo
<1>2. timers = {} /\ Lists
  BY <1>1 DEF IInv, Idle
<1>3. names \in SUBSET Names /\ Cardinality(names) \in Nat /\ Cardinality(names) <= MaxKey
  <2>1. names \in SUBSET Names
    BY <1>2 DEF Lists
  <2> HIDE DEF names
  <2>2. IsFiniteSet(Names) /\ Cardinality(Names) <= MaxKey /\ MaxKey \in Nat
    BY ConstantsAssumption
  <2> QED BY <2>1, <2>2, FS_Subset, FS_CardinalityType
<1>4. /\ KeyTells(groups) /\ Apart(groups)
      /\ \A s, t \in groups : s # t => s.props \cap t.props = {}
      /\ \A s \in groups : s.props \subseteq names /\ s.key \in Keys
  <2> DEFINE key == [i \in Nat |-> i]
  <2>1. \A i \in Nat : key[i] = i /\ (i < Cardinality(names) => i \in Keys)
    BY <1>3, ConstantsAssumption DEF Keys
  <2>2. \A g \in Groups(names) : GroupNo(g, names) \in Nat
    BY <1>3, NumberInRange DEF GroupNo
  <2> HIDE DEF names, key
  <2>3. groups = {Sub(key[GroupNo(g, names)], g) : g \in Groups(names)}
    BY <2>1, <2>2
  <2> HIDE DEF groups
  <2>4. Numbered(groups, names, Keys)
    BY <1>3, <2>1, <2>3, Numbering
  <2> QED BY <1>3, <2>4, NumberedApart DEF Numbered
<1>5. \A s \in fixed : s.key \in Fixed /\ s.key \notin unavailable /\ s.props = {} /\ s = Sub(s.key, {})
  <2>1. scenario.fixed \subseteq Fixed
    BY <1>2, ConstantsAssumption DEF Lists
  <2> QED BY <2>1 DEF Sub
<1> HIDE DEF fixed, groups
<1>6. KeyTells(fixed)
  BY <1>5 DEF KeyTells
<1>7. KeyTells(new) /\ Apart(new)
  <2>1. \A s \in groups, t \in fixed : s.key # t.key
    BY <1>4, <1>5, KeysApart
  <2>2. KeyTells(new)
    BY <1>4, <1>6, <2>1 DEF KeyTells
  <2>3. Apart(new)
    BY <1>4, <1>5 DEF Apart
  <2> QED BY <2>2, <2>3
<1>8. Without(new, dropped') /\ \A s \in new : s.key \notin unavailable'
  <2>1. names \cap dropped = {} /\ unavailable \subseteq Fixed
    BY <1>2 DEF Lists
  <2> QED BY <1>1, <1>4, <1>5, <2>1, KeysApart DEF Without
<1> HIDE DEF names, new
<1>9. Asked' = new
  <2>1. LiveShape({}) /\ SubsOf({}) = {}
    BY DEF LiveShape, SubsOf
  <2>2. SubsOf(live') = new
    BY <1>1, <2>1, ActivateEffect
  <2>3. Asked' = SubsOf(live') \cup SubsOf(timers')
    BY DEF Asked, SubsOf
  <2>4. SubsOf(timers') = {}
    BY <1>1, <1>2 DEF SubsOf
  <2> QED BY <2>2, <2>3, <2>4
<1>10. /\ wave'.groups \subseteq groups /\ wave'.refused = {} /\ wave'.dropped = {}
       /\ pending'.groups = {} /\ pending'.dropped = {}
  BY <1>1 DEF NoWave
<1>11. Mentioned' = new
  BY <1>1, <1>9, <1>10 DEF Mentioned, Searching, new
<1>12. Single(live', timers')
  <2>1. Single({}, timers)
    BY <1>2 DEF Single
  <2>2. \A s \in new, r \in {} \cup timers : r.sub = s => s.key = Canary
    BY <1>2
  <2> QED BY <1>1, <2>1, <2>2, SingleActivate
<1>13. Covered(wave', Mentioned') /\ GroupsApart(wave')
  BY <1>4, <1>10 DEF Covered, GroupsApart
<1>14. Blamed'
  BY <1>1, <1>10 DEF Blamed
<1> QED
  BY <1>1, <1>7, <1>8, <1>9, <1>11, <1>12, <1>13, <1>14, NoWaveCovered, NoWaveRefused DEF Once

LEMMA OnceStep == IInv /\ OnceInv /\ [Next]_vars => OnceInv'
<1> SUFFICES ASSUME IInv, OnceInv, [Next]_vars PROVE OnceInv'
  OBVIOUS
<1>1. CASE SocketEnds \/ Halt \/ Crash
  <2>1. Disconnected
    BY <1>1 DEF SocketEnds, Halt, Crash
  <2> QED BY <2>1, QuietOnce DEF Disconnected, OnceInv
<1>2. CASE Open
  BY <1>2, OpenOnce DEF OnceInv
<1>3. CASE overtaken
  <2>1. CASE overtaken'
    BY <2>1 DEF OnceInv
  <2>2. CASE UNCHANGED overtaken
    BY <1>3, <2>2 DEF OnceInv
  <2>3. CASE UNCHANGED vars
    BY <2>2, <2>3 DEF vars
  <2>4. CASE Break \/ Mend \/ Retire \/ RenewAll \/ WaveLapses \/ CanaryLapses \/ SearchLapses
    BY <2>2, <2>4, Zenon DEF Break, Mend, Retire, RenewAll, WaveLapses, CanaryLapses, SearchLapses
  <2>5. CASE \E l \in live : RetryOnly(l) \/ RefuseFixed(l) \/ Split(l) \/ Drop(l) \/ Exhaust(l)
                               \/ Frame(l) \/ Ended(l)
    BY <2>2, <2>5, Zenon DEF RetryOnly, RefuseFixed, Split, Drop, Exhaust, Frame, Ended
  <2>6. CASE \E l \in live : Verdict(l)
    BY <1>3, <2>1, <2>6 DEF Verdict
  <2>7. CASE (\E t \in timers : Fire(t)) \/ (\E n \in Names : Reprobe(n)) \/ \E k \in Fixed : ReprobeFixed(k)
    BY <2>2, <2>7, Zenon DEF Fire, Reprobe, ReprobeFixed
  <2>8. CASE Discover \/ StartPlan \/ LoadSaved \/ WriteStatus
    BY <2>2, <2>8, Zenon DEF Discover, StartPlan, LoadSaved, WriteStatus
  <2> QED BY <1>1, <1>2, <2>3, <2>4, <2>5, <2>6, <2>7, <2>8, OpenOnce, Steps, Zenon
<1>4. CASE Once
  <2>1. CASE UNCHANGED <<live, search, lists, dropped, unavailable, socket, timers, scenario>>
    BY <1>4, <2>1, StillCalm, CalmOnce DEF Once, OnceInv
  <2>2. CASE UNCHANGED vars
    <3>1. UNCHANGED <<live, search, lists, dropped, unavailable, socket, timers, scenario>>
      BY <2>2 DEF vars, server, lists, search
    <3> QED BY <2>1, <3>1
  <2>3. CASE Break \/ Mend \/ Retire
    <3>1. UNCHANGED <<live, search, lists, dropped, unavailable, socket, timers, scenario>>
      BY <2>3, Zenon DEF Break, Mend, Retire
    <3> QED BY <2>1, <3>1
  <2>4. ASSUME NEW l \in live, RetryOnly(l) \/ Verdict(l) \/ RefuseFixed(l) \/ Split(l) \/ Drop(l)
                                 \/ Exhaust(l) \/ Frame(l) \/ Ended(l)
        PROVE  OnceInv'
    BY <1>4, <2>4, RetryOnce, VerdictOnce, RefuseFixedOnce, SplitOnce, DropOnce, ExhaustOnce,
       FrameOnce DEF OnceInv
  <2>5. ASSUME NEW t \in timers, Fire(t) PROVE OnceInv'
    BY <1>4, <2>5, FireOnce DEF OnceInv
  <2>6. CASE RenewAll \/ WaveLapses \/ CanaryLapses \/ SearchLapses
    BY <1>4, <2>6, RenewOnce, LapseOnce DEF OnceInv
  <2>7. CASE (\E n \in Names : Reprobe(n)) \/ \E k \in Fixed : ReprobeFixed(k)
    BY <1>4, <2>7, ReprobeOnce, ReprobeFixedOnce DEF OnceInv
  <2>8. CASE Discover
    BY <1>4, <2>8, DiscoverOnce DEF OnceInv
  <2>9. CASE StartPlan
    <3>1. ~socket /\ UNCHANGED <<live, search, timers>>
      BY <2>9 DEF StartPlan, IInv, Lists
    <3> QED BY <3>1, QuietOnce DEF IInv, Idle, search, OnceInv
  <2>10. CASE LoadSaved \/ WriteStatus
    <3>1. UNCHANGED <<live, search, timers, dropped, unavailable>>
      BY <2>10 DEF LoadSaved, WriteStatus
    <3>2. Asked' = Asked /\ Mentioned' = Mentioned
      BY <3>1 DEF Asked, Mentioned, Searching, search
    <3> QED BY <1>4, <3>1, <3>2 DEF Once, Blamed, OnceInv, search
  <2> QED BY <1>1, <1>2, <2>2, <2>3, <2>4, <2>5, <2>6, <2>7, <2>8, <2>9, <2>10, Steps, Zenon
<1> QED BY <1>3, <1>4 DEF OnceInv

\* A subscription that is live once or waits once counts one.
LEMMA OnceCounts ==
  ASSUME NEW lives, NEW waits, Single(lives, waits), NEW s, s.key # Canary,
         s \in SubsOf(lives) \cup SubsOf(waits)
  PROVE  Cardinality({l \in lives : l.sub = s}) + Cardinality({t \in waits : t.sub = s}) = 1
<1>1. CASE s \in SubsOf(lives)
  <2>1. PICK l \in lives : l.sub = s
    BY <1>1 DEF SubsOf
  <2>2. {r \in lives : r.sub = s} = {l} /\ {t \in waits : t.sub = s} = {}
    BY <2>1 DEF Single
  <2>3. Cardinality({r \in lives : r.sub = s}) = 1 /\ Cardinality({t \in waits : t.sub = s}) = 0
    BY <2>2, FS_Singleton, FS_EmptySet
  <2> QED BY <2>3
<1>2. CASE s \in SubsOf(waits)
  <2>1. PICK u \in waits : u.sub = s
    BY <1>2 DEF SubsOf
  <2>2. {r \in lives : r.sub = s} = {} /\ {t \in waits : t.sub = s} = {u}
    BY <2>1 DEF Single
  <2>3. Cardinality({r \in lives : r.sub = s}) = 0 /\ Cardinality({t \in waits : t.sub = s}) = 1
    BY <2>2, FS_Singleton, FS_EmptySet
  <2> QED BY <2>3
<1> QED BY <1>1, <1>2

\* subscriptions.ts:534-535, connector.ts:979: no field is asked for by two subscriptions, none is
\* live twice or both live and waited for, and none that is dropped is asked for, through every
\* halving, withdrawal, retry and probe of a day later, unless a wave was judged after one of its
\* probes had been subscribed.
THEOREM NoFieldTwice == Spec => []NoneTwice
<1>1. Init => OnceInv
  <2>1. Init => Once
    <3> SUFFICES ASSUME Init PROVE Once
      OBVIOUS
    <3>1. Asked = {} /\ Mentioned = {}
      BY DEF Init, Asked, Mentioned, Searching, NoWave
    <3>2. NoWave.dropped = {}
      BY DEF NoWave
    <3>3. Blamed
      BY <3>2 DEF Init, Blamed
    <3>4. Single(live, timers)
      BY DEF Init, Single
    <3>5. wave = NoWave /\ pending = NoWave
      BY DEF Init
    <3> QED
      BY <3>1, <3>3, <3>4, <3>5, NoWaveCovered, NoWaveRefused DEF Once, Apart, KeyTells, Without
  <2> QED BY <2>1 DEF OnceInv
<1>2. IInv /\ OnceInv /\ [Next]_vars => OnceInv'
  BY OnceStep
<1>3. IInv /\ OnceInv => NoneTwice
  <2> SUFFICES ASSUME Once PROVE NoneTwice
    BY DEF NoneTwice, OnceInv
  <2>1. ASSUME NEW s \in Asked, s.key # Canary
        PROVE  /\ Cardinality({l \in live : l.sub = s}) + Cardinality({t \in timers : t.sub = s}) = 1
               /\ s.props \cap dropped = {}
    <3>1. s \in SubsOf(live) \cup SubsOf(timers)
      BY AskedIs
    <3> QED BY <2>1, <3>1, OnceCounts DEF Once, Without
  <2> QED BY <2>1 DEF Once, Apart, NoneTwice
<1> QED BY <1>1, <1>2, <1>3, Invariance, PTL DEF Spec
=============================================================================
