------------------------------ MODULE PartsProofs ------------------------------
(***************************************************************************)
(* Theorems about the parts that MCParts explores one at a time.  Each is  *)
(* of the part's own specification: the parts share no variable.           *)
(***************************************************************************)
EXTENDS LiveUpdates, SignIn, Consent, Pricing, History, Socket, InductionFacts,
        FiniteSetTheorems, SequenceTheorems

-----------------------------------------------------------------------------
(* LiveUpdates: the listener.                                              *)

\* A client is never ahead of the generation, and no other than those there were is heard.
ListenerInv ==
  /\ reconnects \in Nat /\ generation \in Nat /\ mine \in Nat /\ mine <= generation
  /\ link # "idle" => mine > 0
  /\ echoes \in Seq([of : Nat, left : Nat])
  /\ \A i \in DOMAIN echoes : echoes[i].of <= mine /\ echoes[i].of > 0
  /\ OneReconnect

LEMMA HeardIsTyped ==
  ASSUME NEW e \in Seq([of : Nat, left : Nat])
  PROVE  \A i \in DOMAIN e : e[i] \in [of : Nat, left : Nat] /\ e[i].of \in Nat
<1> DEFINE R == [of : Nat, left : Nat]
<1>1. e \in Seq(R)
  OBVIOUS
<1>2. \A r \in R : r.of \in Nat
  OBVIOUS
<1> HIDE DEF R
<1>3. \A i \in DOMAIN e : e[i] \in R
  BY <1>1
<1>4. \A i \in DOMAIN e : e[i].of \in Nat
  BY <1>2, <1>3
<1> QED BY <1>3, <1>4 DEF R

\* A failure puts a reconnect in the place of the client, whoever heard of it and however often.
LEMMA FailureKept ==
  ASSUME ListenerInv, NEW g \in Nat, 0 < g, g <= mine, Failure(g), mine' = mine
  PROVE  /\ reconnects' \in Nat /\ generation' \in Nat /\ mine' <= generation'
         /\ OneReconnect'
<1>1. CASE g = generation
  <2>1. generation' = generation + 1 /\ reconnects' = reconnects + 1
    BY <1>1 DEF Failure, Owns
  <2>2. mine = generation /\ generation \in Nat /\ reconnects \in Nat
    BY <1>1 DEF ListenerInv
  <2>3. reconnects = 0
    BY <1>1, <2>2 DEF ListenerInv, OneReconnect
  <2> QED BY <2>1, <2>2, <2>3 DEF OneReconnect
<1>2. CASE g # generation
  <2>1. UNCHANGED <<generation, reconnects>>
    BY <1>2 DEF Failure, Owns
  <2> QED BY <2>1 DEF ListenerInv, OneReconnect
<1> QED BY <1>1, <1>2

LEMMA ListenerStep == ListenerInv /\ [LiveNext]_liveVars => ListenerInv'
<1> SUFFICES ASSUME ListenerInv, [LiveNext]_liveVars PROVE ListenerInv'
  OBVIOUS
<1>1. CASE UNCHANGED listener
  BY <1>1 DEF ListenerInv, OneReconnect, listener
<1>2. CASE Connects
  <2>1. /\ reconnects > 0 /\ reconnects' = reconnects - 1 /\ generation' = generation + 1
        /\ mine' = generation + 1 /\ link' = "connecting" /\ echoes' = echoes
    BY <1>2 DEF Connects
  <2>2. reconnects = 1
    BY <2>1 DEF ListenerInv, OneReconnect
  <2>3. \A i \in DOMAIN echoes : echoes[i].of \in Nat
    BY HeardIsTyped DEF ListenerInv
  <2> QED BY <2>1, <2>2, <2>3 DEF ListenerInv, OneReconnect
<1>3. CASE Listens
  BY <1>3 DEF Listens, ListenerInv, OneReconnect
<1>4. CASE Drops
  <2>1. /\ link # "idle" /\ link' = "idle" /\ mine' = mine /\ Failure(mine)
        /\ echoes' = Append(echoes, [of |-> mine, left |-> 2])
    BY <1>4 DEF Drops
  <2>2. mine \in Nat /\ mine > 0 /\ echoes \in Seq([of : Nat, left : Nat])
    BY <2>1 DEF ListenerInv
  <2>3. [of |-> mine, left |-> 2] \in [of : Nat, left : Nat]
    BY <2>2
  <2>4. echoes' \in Seq([of : Nat, left : Nat])
    BY <2>1, <2>2, <2>3, AppendProperties
  <2>5. \A i \in DOMAIN echoes' : echoes'[i].of <= mine /\ echoes'[i].of > 0
    <3> SUFFICES ASSUME NEW i \in DOMAIN echoes' PROVE echoes'[i].of <= mine /\ echoes'[i].of > 0
      OBVIOUS
    <3>1. CASE i \in DOMAIN echoes
      <4>1. echoes'[i] = echoes[i]
        BY <2>1, <2>2, <2>3, <3>1, AppendProperties
      <4> QED BY <3>1, <4>1 DEF ListenerInv
    <3>2. CASE i = Len(echoes) + 1
      <4>1. echoes'[i] = [of |-> mine, left |-> 2]
        BY <2>1, <2>2, <2>3, <3>2, AppendProperties
      <4> QED BY <2>2, <4>1
    <3>3. DOMAIN echoes' = 1..(Len(echoes) + 1) /\ DOMAIN echoes = 1..Len(echoes)
      BY <2>1, <2>2, <2>3, AppendProperties
    <3>4. Len(echoes) \in Nat
      BY <2>2
    <3> QED BY <3>1, <3>2, <3>3, <3>4
  <2> QED BY <2>1, <2>2, <2>4, <2>5, FailureKept DEF ListenerInv
<1>5. CASE Echo
  <2>1. PICK i \in DOMAIN echoes :
          /\ echoes[i].left > 0
          /\ echoes' = [echoes EXCEPT ![i].left = @ - 1]
          /\ Failure(echoes[i].of)
    BY <1>5 DEF Echo
  <2>2. mine' = mine /\ link' = link
    BY <1>5 DEF Echo
  <2>3. echoes[i] \in [of : Nat, left : Nat] /\ echoes \in Seq([of : Nat, left : Nat])
    BY <2>1, HeardIsTyped DEF ListenerInv
  <2>4. [echoes[i] EXCEPT !.left = @ - 1] \in [of : Nat, left : Nat]
    BY <2>1, <2>3
  <2>5. /\ echoes' \in Seq([of : Nat, left : Nat]) /\ DOMAIN echoes' = DOMAIN echoes
        /\ \A j \in DOMAIN echoes : echoes'[j].of = echoes[j].of
    <3> DEFINE R == [of : Nat, left : Nat]
               x == [echoes[i] EXCEPT !.left = @ - 1]
    <3>1. echoes' = [echoes EXCEPT ![i] = x]
      BY <2>1
    <3>2. x \in R /\ x.of = echoes[i].of
      BY <2>3, <2>4
    <3>3. echoes \in Seq(R) /\ i \in 1..Len(echoes)
      BY <2>1, <2>3
    <3> HIDE DEF R, x
    <3>4. echoes' \in Seq(R) /\ DOMAIN echoes' = DOMAIN echoes
          /\ \A j \in DOMAIN echoes : echoes'[j] = IF j = i THEN x ELSE echoes[j]
      BY <3>1, <3>2, <3>3, ExceptSeq
    <3> QED BY <3>2, <3>4 DEF R
  <2>6. \A j \in DOMAIN echoes' : echoes'[j].of <= mine /\ echoes'[j].of > 0
    BY <2>5 DEF ListenerInv
  <2>7. echoes[i].of <= mine /\ 0 < echoes[i].of /\ echoes[i].of \in Nat
    BY <2>3 DEF ListenerInv
  <2> QED BY <2>1, <2>2, <2>5, <2>6, <2>7, FailureKept DEF ListenerInv
<1>6. CASE \E s \in Streams : Opens(s)
  BY <1>6 DEF Opens, ListenerInv, OneReconnect
<1>7. LiveNext => \/ Connects \/ Listens \/ Drops \/ Echo \/ (\E s \in Streams : Opens(s))
                  \/ UNCHANGED listener
  BY Zenon DEF LiveNext, FleetReads, FleetAnswers, FleetFails, TabConnects, TabErrors, WatchdogFires,
     Receives, SessionEnds, Redirected, Commit, Notified, QueryReads, QueryAnswers, QueryFails,
     Refuses, Dies, Cancelled
<1>8. UNCHANGED liveVars => UNCHANGED listener
  BY DEF liveVars, listener
<1> QED BY <1>1, <1>2, <1>3, <1>4, <1>5, <1>6, <1>7, <1>8

\* listen.ts:88-96: however many events a lost connection emits, and whenever clients that were
\* given up on are heard again, one reconnect takes the place of one client; there are never two
\* of them and, once a stream was opened, never none.
THEOREM ReconnectsOnce == LiveSpec => []OneReconnect
<1>1. LiveInit => ListenerInv
  BY DEF LiveInit, ListenerInv, OneReconnect
<1>2. ListenerInv => OneReconnect
  BY DEF ListenerInv
<1> QED BY <1>1, <1>2, ListenerStep, PTL DEF LiveSpec

-----------------------------------------------------------------------------
(* Pricing: the invariant of rates, fetch, charge and backfills.           *)

RateRows == [from : Nat, price : Nat, source : Sources, exact : BOOLEAN]

\* energy_rate's unique key, and what is in its columns.
RatesKeyed(S) ==
  /\ \A r \in S : r \in RateRows
  /\ \A r, s \in S : r.from = s.from /\ r.source = s.source => r = s

Urdb(S) == {r \in S : r.source = "urdb"}

\* What is fetched is dated with a moment gone by.
FetchedPast == \A r \in Urdb(rates) : r.from <= clock

\* The last row fetched, or None where nothing was, is what a fetch under way has seen: it was
\* in force, and nobody else inserts one.
SawLast(saw, S) ==
  \/ saw = None /\ Urdb(S) = {}
  \/ saw \in Urdb(S) /\ \A r \in Urdb(S) : r.from <= saw.from

FetchInv ==
  /\ refresh.at \in {"idle", "asking", "inserting"}
  /\ ~Overridden(refresh.saw)
  /\ refresh.at # "idle" => SawLast(refresh.saw, rates)
  /\ refresh.at = "inserting" =>
       /\ refresh.row \in RateRows /\ refresh.row.source = "urdb" /\ refresh.row.from <= clock
       /\ \A r \in Urdb(rates) : r.from <= refresh.row.from
       /\ refresh.row.exact /\ refresh.saw # None => refresh.saw.price # refresh.row.price

\* A run that nothing has overtaken still has the charge as it is.
RunsInv ==
  \A b \in DOMAIN backfills :
    /\ backfills[b].rate = None \/ backfills[b].rate \in rates
    /\ backfills[b].at \in {"listed", "pricing", "over"}
    /\ backfills[b].at # "over" /\ ~backfills[b].stale =>
         charge.stage = "closed" /\ charge.is.source = None /\ backfills[b].basis = charge.is.basis

\* The fields of the records that are updated one at a time.
RecordsShaped ==
  /\ DOMAIN refresh = {"at", "saw", "row"}
  /\ DOMAIN charge = {"stage", "id", "start", "stop", "is", "unsure"}
  /\ \A b \in DOMAIN backfills :
       DOMAIN backfills[b] = {"at", "id", "basis", "stale", "now", "rate", "apply", "mapped"}
  /\ \A b \in DOMAIN backfills : backfills[b].now \in Nat

PricingInv ==
  /\ RecordsShaped
  /\ clock \in Nat /\ charge.start \in Nat
  /\ RatesKeyed(rates) /\ FetchedPast /\ FetchInv /\ RunsInv
  /\ MeasuresAreMeasures /\ FetchesDiffer

LEMMA NoneIsNoRow == \A r \in RateRows : r # None /\ r.price # None /\ r.source # None
  BY PricingAssumption DEF RateRows

\* rateAt: the latest row that had begun, and the typed one of two that began together.
LEMMA RateAtIs ==
  ASSUME RatesKeyed(rates), NEW t \in Nat
  PROVE  \/ RateAt(t) = None /\ \A r \in rates : ~(r.from <= t)
         \/ /\ RateAt(t) \in rates /\ RateAt(t).from <= t
            /\ \A s \in rates : s.from <= t /\ s # RateAt(t) => Outranks(RateAt(t), s)
<1> DEFINE past == {r \in rates : r.from <= t}
           gaps == {t - r.from : r \in past}
           best(r) == \A s \in past \ {r} : Outranks(r, s)
<1>1. CASE past = {}
  <2>1. RateAt(t) = None
    BY <1>1 DEF RateAt
  <2> QED BY <1>1, <2>1
<1>2. CASE past # {}
  <2>1. \A r \in past : r.from \in Nat /\ r.source \in Sources /\ r.from <= t
    BY DEF RatesKeyed, RateRows
  <2>2. gaps \in SUBSET Nat /\ gaps # {}
    BY <1>2, <2>1
  <2>3. PICK g \in gaps : \A h \in gaps : g <= h
    BY <2>2, MinExists
  <2>4. PICK m \in past : g = t - m.from
    BY <2>3
  <2>5. \A r \in past : r.from <= m.from
    <3> SUFFICES ASSUME NEW r \in past PROVE r.from <= m.from
      OBVIOUS
    <3>1. t - m.from <= t - r.from
      BY <2>3, <2>4
    <3> QED BY <2>1, <3>1
  <2>6. \E r \in past : best(r)
    <3>1. CASE \E r \in past : r.from = m.from /\ r.source = "manual"
      <4>1. PICK r \in past : r.from = m.from /\ r.source = "manual"
        BY <3>1
      <4>2. \A s \in past : Outranks(r, s)
        BY <2>1, <2>5, <4>1 DEF Outranks
      <4> QED BY <4>2
    <3>2. CASE ~ \E r \in past : r.from = m.from /\ r.source = "manual"
      <4>1. \A s \in past : s.from = m.from => s.source = "urdb"
        BY <2>1, <3>2 DEF Sources
      <4>2. \A s \in past : s.from = m.from => s = m
        BY <4>1 DEF RatesKeyed
      <4>3. \A s \in past \ {m} : m.from > s.from
        BY <2>1, <2>5, <4>2
      <4> QED BY <4>3 DEF Outranks
    <3> QED BY <3>1, <3>2
  <2>7. RateAt(t) = CHOOSE r \in past : best(r)
    BY <1>2 DEF RateAt
  <2> HIDE DEF past, best
  <2>8. RateAt(t) \in past /\ best(RateAt(t))
    BY <2>6, <2>7
  <2> QED BY <2>8 DEF past, best
<1> QED BY <1>1, <1>2

LEMMA RateRowIs ==
  ASSUME NEW f \in Nat, NEW p \in Prices, NEW src \in Sources
  PROVE  /\ RateRow(f, p, src) \in RateRows
         /\ RateRow(f, p, src).from = f /\ RateRow(f, p, src).source = src
         /\ RateRow(f, p, src).exact => RateRow(f, p, src).price = p
<1>1. p \in Nat /\ Scale \in Nat /\ Scale > 0
  BY PricingAssumption
<1>2. Scale \div 2 \in Nat
  BY <1>1
<1>3. (p + Scale \div 2) \div Scale \in Nat
  BY <1>1, <1>2
<1>4. Rounded(p) \in Nat
  BY <1>1, <1>3 DEF Rounded
<1>5. (Rounded(p) = p) \in BOOLEAN
  OBVIOUS
<1> QED BY <1>4, <1>5 DEF RateRow, RateRows

\* insertRate: the key stays unique, and only the row that was given can be new.
LEMMA InsertKeeps ==
  ASSUME RatesKeyed(rates), NEW r \in RateRows, InsertRate(r)
  PROVE  /\ RatesKeyed(rates') /\ rates \subseteq rates'
         /\ \A s \in rates' : s \in rates \/ s = r
         /\ r \in rates' => r \in rates \/ \A q \in rates : ~(q.from = r.from /\ q.source = r.source)
<1>1. CASE \E s \in rates : s.from = r.from /\ s.source = r.source
  BY <1>1 DEF InsertRate
<1>2. CASE ~ \E s \in rates : s.from = r.from /\ s.source = r.source
  <2>1. rates' = rates \cup {r}
    BY <1>2 DEF InsertRate
  <2> QED BY <1>2, <2>1 DEF RatesKeyed
<1> QED BY <1>1, <1>2

\* priceCharge: a figure has its source and a home, and is that of the rate it was given.
LEMMA PriceSays ==
  ASSUME NEW stop, NEW mapped, NEW r, NEW says,
         r = None \/ r \in RateRows, r # None => says # None
  PROVE  LET made == PriceCharge(stop, mapped, r, says)
         IN /\ made.rate = None <=> made.source = None
            /\ made.rate # None => made.basis = "home"
            /\ made.source # None => made.source = says /\ r # None /\ made.rate = r.price
<1>1. r # None => r.price # None
  BY PricingAssumption DEF RateRows
<1>2. CASE Basis(stop, mapped) = "home" /\ r # None /\ stop.energy
  <2>1. PriceCharge(stop, mapped, r, says) = [rate |-> r.price, source |-> says, basis |-> "home"]
    BY <1>2 DEF PriceCharge
  <2> QED BY <1>1, <1>2, <2>1
<1>3. CASE ~(Basis(stop, mapped) = "home" /\ r # None /\ stop.energy)
  <2>1. PriceCharge(stop, mapped, r, says) = [Unpriced EXCEPT !.basis = Basis(stop, mapped)]
    BY <1>3 DEF PriceCharge
  <2> QED BY <2>1 DEF Unpriced
<1> QED BY <1>2, <1>3

\* What holds of the prices while rows are only added and the charge is left alone.
LEMMA MeasuresGrow ==
  ASSUME MeasuresAreMeasures, charge' = charge, rates \subseteq rates'
  PROVE  MeasuresAreMeasures'
  BY DEF MeasuresAreMeasures

LEMMA RunsGrow ==
  ASSUME RunsInv, charge' = charge, backfills' = backfills, rates \subseteq rates'
  PROVE  RunsInv'
  BY DEF RunsInv

\* Typed rows are not among those that were fetched.
LEMMA TypedApart ==
  ASSUME PricingInv, TypesRate
  PROVE  PricingInv'
<1>1. PICK p \in Prices, d \in 0..(clock \div DayLength + 1) :
        InsertRate(RateRow(d * DayLength, p, "manual"))
  BY DEF TypesRate
<1>2. /\ refresh' = refresh /\ charge' = charge /\ backfills' = backfills /\ clock' = clock
  BY DEF TypesRate
<1>3. d * DayLength \in Nat
  <2>1. d \in Nat
    OBVIOUS
  <2>2. DayLength \in Nat
    BY PricingAssumption
  <2> QED BY <2>1, <2>2
<1> DEFINE written == RateRow(d * DayLength, p, "manual")
<1>4. written \in RateRows /\ written.source = "manual"
  BY <1>3, RateRowIs DEF Sources
<1> HIDE DEF written
<1>5. /\ RatesKeyed(rates') /\ rates \subseteq rates'
      /\ \A s \in rates' : s \in rates \/ s = written
  BY <1>1, <1>4, InsertKeeps DEF PricingInv, written
<1>6. Urdb(rates') = Urdb(rates)
  BY <1>4, <1>5 DEF Urdb
<1>7. FetchedPast' /\ FetchesDiffer'
  BY <1>2, <1>6 DEF PricingInv, FetchedPast, FetchesDiffer, Urdb
<1>8. FetchInv'
  BY <1>2, <1>6 DEF PricingInv, FetchInv, SawLast, Overridden
<1>9. MeasuresAreMeasures' /\ RunsInv'
  BY <1>2, <1>5, MeasuresGrow, RunsGrow DEF PricingInv
<1>10. RecordsShaped'
  BY <1>2 DEF PricingInv, RecordsShaped
<1> QED BY <1>2, <1>5, <1>7, <1>8, <1>9, <1>10 DEF PricingInv

\* What the fetch has read is the last row that was fetched: all of them had begun.
LEMMA FetchReadsLast ==
  ASSUME PricingInv, RefreshReads
  PROVE  PricingInv'
<1>1. /\ charge' = charge /\ backfills' = backfills /\ clock' = clock /\ rates' = rates
      /\ refresh' = IF Overridden(RateAt(clock)) THEN Awake
                    ELSE [Awake EXCEPT !.at = "asking", !.saw = RateAt(clock)]
  BY DEF RefreshReads
<1>2. FetchInv' /\ DOMAIN refresh' = {"at", "saw", "row"}
  <2>1. CASE Overridden(RateAt(clock))
    <3>1. refresh' = Awake
      BY <1>1, <2>1
    <3> QED BY <3>1 DEF FetchInv, Awake, Overridden
  <2>2. CASE ~Overridden(RateAt(clock))
    <3>1. /\ refresh'.at = "asking" /\ refresh'.saw = RateAt(clock)
          /\ DOMAIN refresh' = {"at", "saw", "row"}
      BY <1>1, <2>2 DEF Awake
    <3>2. \A r \in Urdb(rates) : r \in rates /\ r.from <= clock /\ r.from \in Nat
      BY DEF PricingInv, FetchedPast, Urdb, RatesKeyed, RateRows
    <3>3. clock \in Nat /\ RatesKeyed(rates)
      BY DEF PricingInv
    <3>4. SawLast(RateAt(clock), rates)
      <4>1. CASE RateAt(clock) = None /\ \A r \in rates : ~(r.from <= clock)
        BY <3>2, <4>1 DEF SawLast
      <4>2. CASE /\ RateAt(clock) \in rates /\ RateAt(clock).from <= clock
                 /\ \A s \in rates : s.from <= clock /\ s # RateAt(clock) => Outranks(RateAt(clock), s)
        <5>1. RateAt(clock).from \in Nat /\ RateAt(clock).source \in Sources
          BY <3>3, <4>2 DEF RatesKeyed, RateRows
        <5>2. RateAt(clock) \in Urdb(rates)
          <6>1. RateAt(clock) # None
            BY <3>3, <4>2, NoneIsNoRow DEF RatesKeyed
          <6> QED BY <2>2, <4>2, <5>1, <6>1 DEF Overridden, Sources, Urdb
        <5>3. \A r \in Urdb(rates) : r.from <= RateAt(clock).from
          BY <3>2, <4>2, <5>1 DEF Outranks
        <5> QED BY <5>2, <5>3 DEF SawLast
      <4> QED BY <3>3, <4>1, <4>2, RateAtIs
    <3>5. /\ refresh'.at \in {"idle", "asking", "inserting"} /\ refresh'.at # "inserting"
          /\ ~Overridden(refresh'.saw) /\ SawLast(refresh'.saw, rates')
      BY <1>1, <2>2, <3>1, <3>4
    <3> QED BY <3>1, <3>5 DEF FetchInv
  <2> QED BY <2>1, <2>2
<1>3. FetchedPast' /\ FetchesDiffer' /\ RatesKeyed(rates')
  BY <1>1 DEF PricingInv, FetchedPast, FetchesDiffer
<1>4. MeasuresAreMeasures' /\ RunsInv'
  BY <1>1, MeasuresGrow, RunsGrow DEF PricingInv
<1> QED BY <1>1, <1>2, <1>3, <1>4 DEF PricingInv, RecordsShaped

\* A tariff that is what was seen makes no row; any other is dated now, behind all there are.
LEMMA FetchDated ==
  ASSUME PricingInv, RefreshAnswers
  PROVE  PricingInv'
<1>1. /\ charge' = charge /\ backfills' = backfills /\ clock' = clock /\ rates' = rates
      /\ refresh.at = "asking"
  BY DEF RefreshAnswers
<1>2. PICK p \in Prices :
        refresh' = IF refresh.saw # None /\ refresh.saw.price = p THEN Awake
                   ELSE [refresh EXCEPT !.at = "inserting", !.row = RateRow(clock, p, "urdb")]
  BY DEF RefreshAnswers
<1>3. FetchInv' /\ DOMAIN refresh' = {"at", "saw", "row"}
  <2>1. CASE refresh' = Awake
    BY <2>1 DEF FetchInv, Awake, Overridden
  <2>2. CASE /\ ~(refresh.saw # None /\ refresh.saw.price = p)
             /\ refresh' = [refresh EXCEPT !.at = "inserting", !.row = RateRow(clock, p, "urdb")]
    <3> DEFINE written == RateRow(clock, p, "urdb")
    <3>1. /\ written \in RateRows /\ written.from = clock /\ written.source = "urdb"
          /\ written.exact => written.price = p
      BY RateRowIs DEF PricingInv, Sources
    <3>2. /\ refresh'.at = "inserting" /\ refresh'.saw = refresh.saw /\ refresh'.row = written
          /\ DOMAIN refresh' = {"at", "saw", "row"}
      BY <2>2 DEF PricingInv, RecordsShaped
    <3> HIDE DEF written
    <3>3. clock \in Nat /\ \A r \in Urdb(rates) : r.from <= clock
      BY DEF PricingInv, FetchedPast
    <3>4. written.exact /\ refresh.saw # None => refresh.saw.price # written.price
      BY <2>2, <3>1
    <3>5. ~Overridden(refresh.saw) /\ SawLast(refresh.saw, rates)
      BY <1>1 DEF PricingInv, FetchInv
    <3>6. written \in RateRows /\ written.source = "urdb" /\ written.from <= clock
      BY <3>1, <3>3
    <3>7. \A r \in Urdb(rates) : r.from <= written.from
      BY <3>1, <3>3
    <3> QED BY <1>1, <3>2, <3>4, <3>5, <3>6, <3>7 DEF FetchInv
  <2> QED BY <1>2, <2>1, <2>2
<1>4. FetchedPast' /\ FetchesDiffer' /\ RatesKeyed(rates')
  BY <1>1 DEF PricingInv, FetchedPast, FetchesDiffer
<1>5. MeasuresAreMeasures' /\ RunsInv'
  BY <1>1, MeasuresGrow, RunsGrow DEF PricingInv
<1> QED BY <1>1, <1>3, <1>4, <1>5 DEF PricingInv, RecordsShaped

\* The row inserted follows the one that was seen, and does not repeat it.
LEMMA FetchInserted ==
  ASSUME PricingInv, RefreshInserts
  PROVE  PricingInv'
<1>1. /\ charge' = charge /\ backfills' = backfills /\ clock' = clock
      /\ refresh.at = "inserting" /\ refresh' = Awake /\ InsertRate(refresh.row)
  BY DEF RefreshInserts
<1> DEFINE written == refresh.row
           saw == refresh.saw
<1>2. /\ written \in RateRows /\ written.source = "urdb" /\ written.from <= clock /\ SawLast(saw, rates)
      /\ \A r \in Urdb(rates) : r.from <= written.from
      /\ written.exact /\ saw # None => saw.price # written.price
      /\ RatesKeyed(rates) /\ clock \in Nat
  BY <1>1 DEF PricingInv, FetchInv
<1>3. /\ RatesKeyed(rates') /\ rates \subseteq rates'
      /\ \A s \in rates' : s \in rates \/ s = written
      /\ written \in rates' => written \in rates \/ \A q \in rates : ~(q.from = written.from /\ q.source = written.source)
  BY <1>1, <1>2, InsertKeeps
<1> HIDE DEF written, saw
<1>4. FetchedPast'
  BY <1>1, <1>2, <1>3 DEF PricingInv, FetchedPast, Urdb
<1>5. FetchesDiffer'
  <2> SUFFICES ASSUME NEW r \in rates', NEW s \in rates', r.source = "urdb", s.source = "urdb",
                      r.from < s.from, r.price = s.price, s.exact
               PROVE  \E q \in rates' : q.source = "urdb" /\ r.from < q.from /\ q.from < s.from
    BY DEF FetchesDiffer
  <2>0. \A x \in rates' : x.from \in Nat
    BY <1>3 DEF RatesKeyed, RateRows
  <2>1. CASE r \in rates /\ s \in rates
    <3>1. \E q \in rates : q.source = "urdb" /\ r.from < q.from /\ q.from < s.from
      BY <2>1 DEF PricingInv, FetchesDiffer
    <3> QED BY <1>3, <3>1
  <2>2. CASE r \notin rates
    <3>1. r = written
      BY <1>3, <2>2
    <3>2. s \in rates
      BY <1>3, <2>0, <3>1
    <3> QED BY <1>2, <2>0, <3>1, <3>2 DEF Urdb
  <2>3. CASE r \in rates /\ s \notin rates
    <3>1. s = written /\ \A q \in rates : ~(q.from = written.from /\ q.source = written.source)
      BY <1>3, <2>3
    <3>2. r \in Urdb(rates) /\ saw \in Urdb(rates) /\ r.from <= saw.from
      BY <1>2, <2>3 DEF SawLast, Urdb
    <3>3. saw \in rates /\ saw.source = "urdb" /\ saw \in rates'
      BY <1>3, <3>2 DEF Urdb
    <3>4. saw # None
      BY <1>2, <3>3, NoneIsNoRow DEF RatesKeyed
    <3>5. saw.price # r.price
      BY <1>2, <3>1, <3>4
    <3>6. r.from # saw.from
      BY <1>2, <2>3, <3>3, <3>5 DEF RatesKeyed
    <3>7. saw.from <= s.from /\ saw.from # s.from
      BY <1>2, <3>1, <3>2, <3>3
    <3> QED BY <2>0, <3>2, <3>3, <3>6, <3>7
  <2> QED BY <2>1, <2>2, <2>3
<1>6. FetchInv' /\ DOMAIN refresh' = {"at", "saw", "row"}
  BY <1>1 DEF FetchInv, Awake, Overridden
<1>7. MeasuresAreMeasures' /\ RunsInv'
  BY <1>1, <1>3, MeasuresGrow, RunsGrow DEF PricingInv
<1> QED BY <1>1, <1>3, <1>4, <1>5, <1>6, <1>7 DEF PricingInv, RecordsShaped

\* What holds of the rates and of the fetch while a charge or a run moves.
RatesInv ==
  /\ RatesKeyed(rates) /\ FetchedPast /\ FetchInv /\ FetchesDiffer
  /\ DOMAIN refresh = {"at", "saw", "row"} /\ clock \in Nat

LEMMA RatesStay ==
  ASSUME RatesInv, UNCHANGED <<rates, refresh, clock>>
  PROVE  RatesInv'
  BY DEF RatesInv, FetchedPast, FetchInv, FetchesDiffer

LEMMA PricingParts ==
  PricingInv <=>
    /\ RatesInv /\ RunsInv /\ MeasuresAreMeasures /\ charge.start \in Nat
    /\ DOMAIN charge = {"stage", "id", "start", "stop", "is", "unsure"}
    /\ \A b \in DOMAIN backfills :
         DOMAIN backfills[b] = {"at", "id", "basis", "stale", "now", "rate", "apply", "mapped"}
    /\ \A b \in DOMAIN backfills : backfills[b].now \in Nat
  BY DEF PricingInv, RatesInv, RecordsShaped

\* A run that is under way is overtaken by whatever writes the charge's row.
LEMMA OvertakenIs ==
  ASSUME \A b \in DOMAIN backfills : DOMAIN backfills[b] = DOMAIN Finished
  PROVE  /\ DOMAIN Overtaken = DOMAIN backfills
         /\ \A b \in DOMAIN backfills :
              \/ Overtaken[b] = Finished
              \/ /\ DOMAIN Overtaken[b] = DOMAIN Finished /\ Overtaken[b].stale
                 /\ Overtaken[b].at = backfills[b].at /\ Overtaken[b].rate = backfills[b].rate
                 /\ Overtaken[b].now = backfills[b].now
<1>1. DOMAIN Overtaken = DOMAIN backfills
  BY DEF Overtaken
<1>2. ASSUME NEW b \in DOMAIN backfills, b \notin Running PROVE Overtaken[b] = Finished
  BY <1>2 DEF Overtaken
<1>3. ASSUME NEW b \in DOMAIN backfills, b \in Running
      PROVE  /\ DOMAIN Overtaken[b] = DOMAIN Finished /\ Overtaken[b].stale
             /\ Overtaken[b].at = backfills[b].at /\ Overtaken[b].rate = backfills[b].rate
             /\ Overtaken[b].now = backfills[b].now
  <2>1. Overtaken[b] = [backfills[b] EXCEPT !.stale = TRUE]
    BY <1>3 DEF Overtaken
  <2>2. DOMAIN backfills[b] = {"at", "id", "basis", "stale", "now", "rate", "apply", "mapped"}
    BY <1>3 DEF Finished
  <2> QED BY <2>1, <2>2
<1> QED BY <1>1, <1>2, <1>3

LEMMA ClockOrFetchFails ==
  ASSUME PricingInv, Passes \/ RefreshFails
  PROVE  PricingInv'
<1>1. /\ charge' = charge /\ backfills' = backfills /\ rates' = rates
      /\ clock' \in Nat /\ clock' >= clock /\ refresh' \in {refresh, Awake}
  BY DEF PricingInv, Passes, RefreshFails
<1>2. MeasuresAreMeasures' /\ RunsInv'
  BY <1>1, MeasuresGrow, RunsGrow DEF PricingInv
<1>3. \A r \in rates : r.from \in Nat
  BY DEF PricingInv, RatesKeyed, RateRows
<1>4. FetchedPast' /\ FetchesDiffer' /\ RatesKeyed(rates')
  <2>1. \A r \in Urdb(rates) : r.from \in Nat /\ r.from <= clock /\ clock \in Nat
    BY <1>3 DEF PricingInv, FetchedPast, Urdb
  <2>2. FetchedPast'
    BY <1>1, <2>1 DEF FetchedPast
  <2> QED BY <1>1, <2>2 DEF PricingInv, FetchesDiffer
<1>5. FetchInv' /\ DOMAIN refresh' = {"at", "saw", "row"}
  <2>1. CASE refresh' = Awake
    BY <2>1 DEF FetchInv, Awake, Overridden
  <2>2. CASE refresh' = refresh
    <3>1. FetchInv /\ DOMAIN refresh = {"at", "saw", "row"} /\ clock \in Nat
      BY DEF PricingInv, RecordsShaped
    <3>2. refresh.row \in RateRows => refresh.row.from \in Nat
      BY DEF RateRows
    <3> QED BY <1>1, <2>2, <3>1, <3>2 DEF FetchInv
  <2> QED BY <1>1, <2>1, <2>2
<1> QED BY <1>1, <1>2, <1>4, <1>5 DEF PricingInv, RecordsShaped

LEMMA ChargeBegins ==
  ASSUME PricingInv, ChargeStarts
  PROVE  PricingInv'
<1>1. /\ rates' = rates /\ refresh' = refresh /\ clock' = clock /\ backfills' = backfills
      /\ charge.stage = "none"
  BY DEF ChargeStarts
<1>2. PICK s \in Stops : charge' = [NoCharge EXCEPT !.stage = "open", !.id = 1, !.start = clock, !.stop = s]
  BY DEF ChargeStarts
<1>3. /\ charge'.is = Unpriced /\ charge'.start = clock
      /\ DOMAIN charge' = {"stage", "id", "start", "stop", "is", "unsure"}
  BY <1>2 DEF NoCharge
<1>4. MeasuresAreMeasures'
  BY <1>3, PricingAssumption DEF MeasuresAreMeasures, Unpriced
<1>5. RunsInv'
  <2>1. RunsInv
    BY DEF PricingInv
  <2> QED BY <1>1, <2>1 DEF RunsInv
<1>6. RatesInv' /\ clock \in Nat
  BY <1>1, RatesStay, PricingParts DEF RatesInv
<1>7. RecordsShaped'
  BY <1>1, <1>3, <1>6 DEF PricingInv, RecordsShaped, RatesInv
<1> QED BY <1>3, <1>4, <1>5, <1>6, <1>7 DEF PricingInv, RatesInv

\* The close: what it says is a rate that had begun with the charge, or nothing.
LEMMA ClosePriced ==
  ASSUME RatesKeyed(rates), NEW stop, NEW t \in Nat
  PROVE  LET is == PriceAtClose(stop, t)
         IN /\ is.source \in Sources =>
                 \E r \in rates : r.source = is.source /\ r.price = is.rate /\ r.from <= t
            /\ (is.rate = None) = (is.source = None)
            /\ is.rate # None => is.basis = "home"
<1> DEFINE r == RateAt(t)
           says == IF r = None THEN None ELSE r.source
<1>1. r = None \/ (r \in rates /\ r.from <= t)
  BY RateAtIs
<1>2. r = None \/ r \in RateRows
  BY <1>1 DEF RatesKeyed
<1>3. r # None => says # None
  BY <1>2, NoneIsNoRow
<1>4. PriceAtClose(stop, t) = PriceCharge(stop, homeKnown, r, says)
  BY DEF PriceAtClose
<1> HIDE DEF r
<1> DEFINE is == PriceCharge(stop, homeKnown, r, says)
<1>5. /\ is.rate = None <=> is.source = None
      /\ is.rate # None => is.basis = "home"
      /\ is.source # None => is.source = says /\ r # None /\ is.rate = r.price
  BY <1>2, <1>3, PriceSays
<1> HIDE DEF is
<1>6. None \notin Sources
  BY PricingAssumption
<1>7. (is.rate = None) = (is.source = None)
  BY <1>5
<1>8. ASSUME is.source \in Sources
      PROVE  r \in rates /\ r.source = is.source /\ r.price = is.rate /\ r.from <= t
  <2>1. is.source # None
    BY <1>6, <1>8
  <2> QED BY <1>1, <1>5, <2>1
<1> QED BY <1>4, <1>5, <1>7, <1>8 DEF is

LEMMA ChargeEnds ==
  ASSUME PricingInv, ChargeCloses
  PROVE  PricingInv'
<1>1. /\ rates' = rates /\ refresh' = refresh /\ clock' = clock /\ backfills' = Overtaken
  BY DEF ChargeCloses
<1>2. PICK answered \in BOOLEAN :
        \/ charge' = [charge EXCEPT !.stage = "closed", !.unsure = ~answered,
                                    !.is = PriceAtClose(charge.stop, charge.start)]
        \/ charge' = [charge EXCEPT !.id = @ + 1, !.is = PriceAtClose(charge.stop, charge.start)]
  BY DEF ChargeCloses
<1>3. DOMAIN charge = {"stage", "id", "start", "stop", "is", "unsure"} /\ charge.start \in Nat
  BY PricingParts
<1>4. /\ charge'.is = PriceAtClose(charge.stop, charge.start) /\ charge'.start = charge.start
      /\ DOMAIN charge' = {"stage", "id", "start", "stop", "is", "unsure"}
  BY <1>2, <1>3
<1>5. RatesKeyed(rates)
  BY DEF PricingInv
<1>6. MeasuresAreMeasures'
  BY <1>1, <1>3, <1>4, <1>5, ClosePriced DEF MeasuresAreMeasures
<1>7. \A b \in DOMAIN backfills : DOMAIN backfills[b] = DOMAIN Finished
  BY PricingParts DEF Finished
<1>8. /\ RunsInv'
      /\ \A b \in DOMAIN backfills' :
           DOMAIN backfills'[b] = {"at", "id", "basis", "stale", "now", "rate", "apply", "mapped"}
      /\ \A b \in DOMAIN backfills' : backfills'[b].now \in Nat
  <2> SUFFICES ASSUME NEW b \in DOMAIN backfills'
      PROVE  /\ backfills'[b].rate = None \/ backfills'[b].rate \in rates'
             /\ backfills'[b].at \in {"listed", "pricing", "over"}
             /\ backfills'[b].at = "over" \/ backfills'[b].stale
             /\ DOMAIN backfills'[b] = {"at", "id", "basis", "stale", "now", "rate", "apply", "mapped"}
             /\ backfills'[b].now \in Nat
    BY DEF RunsInv
  <2>1. b \in DOMAIN backfills
    BY <1>1, <1>7, OvertakenIs
  <2>2. CASE backfills'[b] = Finished
    BY <2>2 DEF Finished
  <2>3. CASE /\ DOMAIN backfills'[b] = DOMAIN Finished /\ backfills'[b].stale
             /\ backfills'[b].at = backfills[b].at /\ backfills'[b].rate = backfills[b].rate
             /\ backfills'[b].now = backfills[b].now
    <3>1. /\ backfills[b].rate = None \/ backfills[b].rate \in rates
          /\ backfills[b].at \in {"listed", "pricing", "over"} /\ backfills[b].now \in Nat
      BY <2>1, PricingParts DEF RunsInv
    <3>2. DOMAIN Finished = {"at", "id", "basis", "stale", "now", "rate", "apply", "mapped"}
      BY DEF Finished
    <3> QED BY <1>1, <2>3, <3>1, <3>2
  <2> QED BY <1>1, <1>7, <2>1, <2>2, <2>3, OvertakenIs
<1>9. RatesInv'
  BY <1>1, RatesStay, PricingParts
<1>10. RecordsShaped'
  BY <1>4, <1>8, <1>9 DEF RecordsShaped, RatesInv
<1> QED BY <1>3, <1>4, <1>6, <1>8, <1>9, <1>10 DEF PricingInv, RatesInv

\* A run lists the charge as it is, if it has no figure.
LEMMA RunLists ==
  ASSUME PricingInv, BackfillLists
  PROVE  PricingInv'
<1>1. /\ rates' = rates /\ refresh' = refresh /\ clock' = clock /\ charge' = charge
  BY DEF BackfillLists
<1> DEFINE next == Cardinality(DOMAIN backfills) + 1
<1>2. PICK apply, mapped \in BOOLEAN :
        backfills' = [b \in DOMAIN backfills \cup {next} |->
          IF b \in DOMAIN backfills THEN backfills[b]
          ELSE IF ~Unsettled(charge) THEN Finished
          ELSE [at |-> "listed", id |-> charge.id, basis |-> charge.is.basis, stale |-> FALSE,
                now |-> clock, rate |-> None, apply |-> apply, mapped |-> mapped]]
  BY DEF BackfillLists
<1> HIDE DEF next
<1>3. RatesInv' /\ clock \in Nat
  BY <1>1, RatesStay, PricingParts DEF RatesInv
<1>4. MeasuresAreMeasures'
  BY <1>1, MeasuresGrow DEF PricingInv
<1>5. /\ RunsInv'
      /\ \A b \in DOMAIN backfills' :
           DOMAIN backfills'[b] = {"at", "id", "basis", "stale", "now", "rate", "apply", "mapped"}
      /\ \A b \in DOMAIN backfills' : backfills'[b].now \in Nat
  <2> SUFFICES ASSUME NEW b \in DOMAIN backfills'
      PROVE  /\ backfills'[b].rate = None \/ backfills'[b].rate \in rates'
             /\ backfills'[b].at \in {"listed", "pricing", "over"}
             /\ backfills'[b].at # "over" /\ ~backfills'[b].stale =>
                  /\ charge'.stage = "closed" /\ charge'.is.source = None
                  /\ backfills'[b].basis = charge'.is.basis
             /\ DOMAIN backfills'[b] = {"at", "id", "basis", "stale", "now", "rate", "apply", "mapped"}
             /\ backfills'[b].now \in Nat
    BY DEF RunsInv
  <2>1. CASE b \in DOMAIN backfills
    <3>1. backfills'[b] = backfills[b]
      BY <1>2, <2>1
    <3> QED BY <1>1, <2>1, <3>1, PricingParts DEF RunsInv
  <2>2. CASE b \notin DOMAIN backfills /\ ~Unsettled(charge)
    <3>1. backfills'[b] = Finished
      BY <1>2, <2>2
    <3> QED BY <3>1 DEF Finished
  <2>3. CASE b \notin DOMAIN backfills /\ Unsettled(charge)
    <3>1. backfills'[b] = [at |-> "listed", id |-> charge.id, basis |-> charge.is.basis,
                           stale |-> FALSE, now |-> clock, rate |-> None, apply |-> apply,
                           mapped |-> mapped]
      BY <1>2, <2>3
    <3> QED BY <1>1, <1>3, <2>3, <3>1 DEF Unsettled
  <2> QED BY <2>1, <2>2, <2>3
<1>6. RecordsShaped'
  BY <1>1, <1>3, <1>5 DEF PricingInv, RecordsShaped, RatesInv
<1> QED BY <1>1, <1>3, <1>4, <1>5, <1>6 DEF PricingInv, RatesInv

\* The rate of a run is a row there is, or none.
LEMMA RunReads ==
  ASSUME PricingInv, NEW c \in DOMAIN backfills, BackfillReads(c)
  PROVE  PricingInv'
<1>1. /\ rates' = rates /\ refresh' = refresh /\ clock' = clock /\ charge' = charge
      /\ backfills[c].at = "listed"
      /\ backfills' = [backfills EXCEPT ![c].at = "pricing", ![c].rate = RateAt(backfills[c].now)]
  BY DEF BackfillReads
<1>2. backfills[c].now \in Nat /\ RatesKeyed(rates)
  BY PricingParts DEF RatesInv
<1>3. RateAt(backfills[c].now) = None \/ RateAt(backfills[c].now) \in rates
  BY <1>2, RateAtIs
<1>4. DOMAIN backfills[c] = {"at", "id", "basis", "stale", "now", "rate", "apply", "mapped"}
  BY PricingParts
<1>5. /\ DOMAIN backfills' = DOMAIN backfills
      /\ backfills'[c].at = "pricing" /\ backfills'[c].rate = RateAt(backfills[c].now)
      /\ backfills'[c].stale = backfills[c].stale /\ backfills'[c].basis = backfills[c].basis
      /\ backfills'[c].now = backfills[c].now /\ DOMAIN backfills'[c] = DOMAIN backfills[c]
      /\ \A b \in DOMAIN backfills : b # c => backfills'[b] = backfills[b]
  BY <1>1, <1>4
<1>6. RunsInv'
  BY <1>1, <1>3, <1>5, PricingParts DEF RunsInv
<1>7. RatesInv'
  BY <1>1, RatesStay, PricingParts
<1>8. MeasuresAreMeasures'
  BY <1>1, MeasuresGrow DEF PricingInv
<1>9. RecordsShaped'
  BY <1>1, <1>5, <1>7 DEF PricingInv, RecordsShaped, RatesInv
<1> QED BY <1>1, <1>6, <1>7, <1>8, <1>9 DEF PricingInv, RatesInv

\* A dry run, a charge that awaits its invoice, or a row that was replaced: nothing is written.
\* Else the estimate is, which names no source of a rate.
LEMMA RunPrices ==
  ASSUME PricingInv, NEW c \in DOMAIN backfills, BackfillPrices(c)
  PROVE  PricingInv'
<1>1. /\ rates' = rates /\ refresh' = refresh /\ clock' = clock
      /\ backfills[c].at = "pricing"
  BY DEF BackfillPrices
<1>2. RatesInv' /\ RatesKeyed(rates)
  BY <1>1, RatesStay, PricingParts DEF RatesInv
<1>3. DOMAIN charge = {"stage", "id", "start", "stop", "is", "unsure"} /\ charge.start \in Nat
  BY PricingParts
<1>4. \A b \in DOMAIN backfills : DOMAIN backfills[b] = DOMAIN Finished
  BY PricingParts DEF Finished
<1>5. CASE charge' = [charge EXCEPT !.is = Estimate(c)] /\ backfills' = [Overtaken EXCEPT ![c] = Finished]
  <2>1. /\ charge'.is = Estimate(c) /\ charge'.start = charge.start
        /\ DOMAIN charge' = {"stage", "id", "start", "stop", "is", "unsure"}
    BY <1>3, <1>5
  <2>2. MeasuresAreMeasures'
    <3> DEFINE r == backfills[c].rate
               is == PriceCharge(charge.stop, backfills[c].mapped, r, "backfill-estimate")
    <3>1. r = None \/ r \in RateRows
      BY <1>2, PricingParts DEF RunsInv, RatesKeyed
    <3>2. /\ is.rate = None <=> is.source = None
          /\ is.rate # None => is.basis = "home"
          /\ is.source # None => is.source = "backfill-estimate"
      BY <3>1, PriceSays, PricingAssumption
    <3>3. charge'.is = is
      BY <2>1 DEF Estimate
    <3> HIDE DEF is
    <3>4. is.source \notin Sources
      BY <3>2, PricingAssumption DEF Sources
    <3> QED BY <3>2, <3>3, <3>4 DEF MeasuresAreMeasures
  <2>3. DOMAIN backfills' = DOMAIN backfills /\ backfills'[c] = Finished
    BY <1>4, <1>5, OvertakenIs
  <2>4. \A b \in DOMAIN backfills : b # c => backfills'[b] = Overtaken[b]
    BY <1>4, <1>5, OvertakenIs
  <2>5. /\ RunsInv'
        /\ \A b \in DOMAIN backfills' :
             DOMAIN backfills'[b] = {"at", "id", "basis", "stale", "now", "rate", "apply", "mapped"}
        /\ \A b \in DOMAIN backfills' : backfills'[b].now \in Nat
    <3> SUFFICES ASSUME NEW b \in DOMAIN backfills'
        PROVE  /\ backfills'[b].rate = None \/ backfills'[b].rate \in rates'
               /\ backfills'[b].at \in {"listed", "pricing", "over"}
               /\ backfills'[b].at = "over" \/ backfills'[b].stale
               /\ DOMAIN backfills'[b] = {"at", "id", "basis", "stale", "now", "rate", "apply", "mapped"}
               /\ backfills'[b].now \in Nat
      BY DEF RunsInv
    <3>1. CASE backfills'[b] = Finished
      BY <3>1 DEF Finished
    <3>2. CASE /\ DOMAIN backfills'[b] = DOMAIN Finished /\ backfills'[b].stale
               /\ backfills'[b].at = backfills[b].at /\ backfills'[b].rate = backfills[b].rate
               /\ backfills'[b].now = backfills[b].now
      <4>1. /\ backfills[b].rate = None \/ backfills[b].rate \in rates
            /\ backfills[b].at \in {"listed", "pricing", "over"} /\ backfills[b].now \in Nat
        BY <2>3, PricingParts DEF RunsInv
      <4>2. DOMAIN Finished = {"at", "id", "basis", "stale", "now", "rate", "apply", "mapped"}
        BY DEF Finished
      <4> QED BY <1>1, <3>2, <4>1, <4>2
    <3> QED BY <1>4, <2>3, <2>4, <3>1, <3>2, OvertakenIs
  <2>6. RecordsShaped'
    BY <1>2, <2>1, <2>5 DEF RecordsShaped, RatesInv
  <2> QED BY <1>2, <1>3, <2>1, <2>2, <2>5, <2>6 DEF PricingInv, RatesInv
<1>6. CASE charge' = charge /\ backfills' = [backfills EXCEPT ![c] = Finished]
  <2>1. /\ DOMAIN backfills' = DOMAIN backfills /\ backfills'[c] = Finished
        /\ \A b \in DOMAIN backfills : b # c => backfills'[b] = backfills[b]
    BY <1>6
  <2>2. Finished.rate = None /\ Finished.at = "over" /\ Finished.now = 0 /\ ~Finished.stale
    BY DEF Finished
  <2>3. RunsInv'
    BY <1>1, <1>6, <2>1, <2>2, PricingParts DEF RunsInv
  <2>4. MeasuresAreMeasures'
    BY <1>1, <1>6, MeasuresGrow DEF PricingInv
  <2>5. RecordsShaped'
    BY <1>2, <1>4, <1>6, <2>1, <2>2 DEF PricingInv, RecordsShaped, RatesInv
  <2> QED BY <1>2, <1>3, <1>6, <2>3, <2>4, <2>5 DEF PricingInv, RatesInv
<1> QED BY <1>5, <1>6 DEF BackfillPrices

LEMMA PricingStep == PricingInv /\ [PricingNext]_pricingVars => PricingInv'
<1>1. PricingInv /\ UNCHANGED pricingVars => PricingInv'
  BY DEF pricingVars, PricingInv, RecordsShaped, FetchedPast, FetchInv, RunsInv,
     MeasuresAreMeasures, FetchesDiffer
<1>2. PricingInv /\ PricingNext => PricingInv'
  BY ClockOrFetchFails, TypedApart, FetchReadsLast, FetchDated, FetchInserted, ChargeBegins,
     ChargeEnds, RunLists, RunReads, RunPrices DEF PricingNext
<1> QED BY <1>1, <1>2

\* Closes are counted up, one at a time: a close is a step the row's change is owed to.
LEMMA ClosesCounted == closes \in Nat /\ [PricingNext]_pricingVars => (closes \in Nat)'
<1> SUFFICES ASSUME closes \in Nat, [PricingNext]_pricingVars
             PROVE  closes' \in Nat
  OBVIOUS
<1>1. ChargeCloses => closes' = closes + 1
  BY DEF ChargeCloses
<1>2. ChargeCloses \/ closes' = closes
  BY Zenon DEF PricingNext, pricingVars, Passes, TypesRate, RefreshReads, RefreshAnswers,
     RefreshInserts, RefreshFails, ChargeStarts, BackfillLists, BackfillReads, BackfillPrices
<1> QED BY <1>1, <1>2

\* What is written on a closed charge's row: the close's own figure, or that of a run which
\* either listed an earlier state of it or found it still without a source and not pending.
LEMMA SettledStep == PricingInv /\ closes \in Nat /\ PricingNext => RowsSettled
<1> SUFFICES ASSUME PricingInv, closes \in Nat, PricingNext, charge.stage = "closed", charge'.is # charge.is
             PROVE  \/ closes' # closes \/ \E b \in Running : backfills[b].stale /\ backfills'[b] = Finished
                    \/ charge.is.source = None /\ charge.is.basis # "pending"
  BY DEF RowsSettled
<1>1. CASE ChargeCloses
  <2>1. closes < month.closes /\ closes' = closes + 1
    BY <1>1 DEF ChargeCloses
  <2> QED BY <2>1
<1>2. CASE \E c \in DOMAIN backfills : BackfillPrices(c)
  <2>1. PICK c \in DOMAIN backfills : BackfillPrices(c)
    BY <1>2
  <2>2. /\ backfills[c].at = "pricing" /\ Worthwhile(c)
        /\ backfills' = [Overtaken EXCEPT ![c] = Finished]
    <3>1. charge' # charge /\ backfills[c].at = "pricing"
      BY <2>1 DEF BackfillPrices
    <3>2. \/ charge' = charge
          \/ Worthwhile(c) /\ backfills' = [Overtaken EXCEPT ![c] = Finished]
      BY <2>1, Zenon DEF BackfillPrices
    <3> QED BY <3>1, <3>2
  <2>3. c \in Running /\ backfills'[c] = Finished
    BY <2>2 DEF Running, Overtaken
  <2>4. ~backfills[c].stale => charge.is.source = None /\ backfills[c].basis = charge.is.basis
    BY <2>2 DEF PricingInv, RunsInv
  <2>5. backfills[c].basis # "pending"
    BY <2>2 DEF Worthwhile
  <2> QED BY <2>3, <2>4, <2>5
<1>3. PricingNext => \/ ChargeCloses \/ (\E c \in DOMAIN backfills : BackfillPrices(c))
                     \/ charge' = charge \/ ChargeStarts
  BY Zenon DEF PricingNext, Passes, TypesRate, RefreshReads, RefreshAnswers, RefreshInserts,
     RefreshFails, BackfillLists, BackfillReads
<1>4. ~ChargeStarts
  BY DEF ChargeStarts
<1> QED BY <1>1, <1>2, <1>3, <1>4

\* pricing.ts, energy-rate.ts, urdb.ts, backfill-costs.ts: whatever is typed, fetched, closed and
\* estimated, in whichever order, a priced charge names a rate that had begun with it, two
\* fetched rates in a row differ, a standing rate stands, and a settled row is left alone.
THEOREM PricesHold == PricingSpec => PricingSound
<1>1. PricingInit => PricingInv /\ closes \in Nat
  BY PricingAssumption DEF PricingInit, PricingInv, RecordsShaped, RatesKeyed, FetchedPast,
     FetchInv, RunsInv, MeasuresAreMeasures, FetchesDiffer, Awake, NoCharge, Unpriced, Overridden, Urdb
<1>2. PricingInv => MeasuresAreMeasures /\ FetchesDiffer /\ OverrideStands
  BY DEF PricingInv, FetchInv, OverrideStands
<1>3. PricingInv /\ PricingInv' /\ closes \in Nat /\ [PricingNext]_pricingVars =>
        [MeasuresAreMeasures' /\ FetchesDiffer' /\ OverrideStands /\ RowsSettled]_pricingVars
  BY <1>2, SettledStep DEF PricingInv
<1> QED BY <1>1, <1>3, PricingStep, ClosesCounted, PTL DEF PricingSpec, PricingSound

-----------------------------------------------------------------------------
(* SignIn: the invariant of requests, tokens and the attempt.              *)

PostRows ==
  [kind : {"none", "login", "code", "logout"},
   at : {"over", "asking", "otp", "session", "refused", "ended", "saving", "deleting"},
   account : Accounts \cup {NoAccount}, token : Nat, alone : BOOLEAN]

TokenRows == [of : Accounts \cup {NoAccount}, is : {"live", "spent", "expired"}]

\* A token asks the code of the account it was issued to.
Asks(tokens, k, a) == k \in DOMAIN tokens /\ tokens[k].of = a

\* Where a request is, and the token it has.
PostSound(p, tokens) ==
  \/ p.at = "over"
  \/ p.kind = "logout" /\ p.at = "deleting" /\ p.token = 0
  \/ p.kind = "login" /\ p.at \in {"asking", "session", "saving"} /\ p.token = 0
  \/ p.kind = "login" /\ p.at = "otp" /\ Asks(tokens, p.token, p.account)
       /\ tokens[p.token].is # "spent"
  \/ p.kind = "code" /\ p.at \in {"asking", "session", "saving", "refused", "ended"}
       /\ Asks(tokens, p.token, p.account)

AttemptSound(w, tokens) ==
  \/ w = NoAttempt
  \/ DOMAIN w = {"account", "token", "due"} /\ Asks(tokens, w.token, w.account)

\* A token that was just issued is known to the request it was issued to, and to nobody else.
FreshToken(P, w) ==
  \A r \in DOMAIN P : P[r].at = "otp" =>
    /\ w.token # P[r].token
    /\ \A q \in DOMAIN P \ {r} : P[q].at # "over" => P[q].token # P[r].token

OnlySignOuts(P) == \A r \in DOMAIN P : P[r].at # "over" => P[r].kind = "logout"

\* Beside a sign-out that is alone there is no request and no attempt.
AloneIs(P, w) ==
  \A r \in DOMAIN P : P[r].at # "over" /\ P[r].alone =>
    /\ P[r].kind = "logout" /\ w = NoAttempt
    /\ \A q \in DOMAIN P \ {r} : P[q].at = "over"

SignInInv ==
  /\ posts \in Seq(PostRows) /\ codeTokens \in Seq(TokenRows)
  /\ AttemptSound(waiting, codeTokens)
  /\ \A r \in DOMAIN posts : PostSound(posts[r], codeTokens)
  /\ FreshToken(posts, waiting)
  /\ CanSeal \/ OnlySignOuts(posts)
  /\ AloneIs(posts, waiting)
  /\ signedOut => OnlySignOuts(posts)
  /\ SignInSound

\* From one moment to the next a request stays, advances (but not to a new token) or is over.
Onward(P, Q) ==
  /\ DOMAIN Q = DOMAIN P
  /\ \A r \in DOMAIN P :
       \/ Q[r] = P[r] \/ Q[r].at = "over"
       \/ /\ P[r].at # "over" /\ Q[r].at # "otp" /\ Q[r].kind = P[r].kind
          /\ Q[r].token = P[r].token /\ Q[r].alone = P[r].alone

LEMMA OnwardKeeps ==
  ASSUME NEW P, NEW Q, Onward(P, Q), NEW w, NEW v,
         v.token = w.token \/ v.token = 0, w = NoAttempt => v = NoAttempt,
         \A r \in DOMAIN P : P[r].at = "otp" => P[r].token # 0
  PROVE  /\ FreshToken(P, w) => FreshToken(Q, v)
         /\ AloneIs(P, w) => AloneIs(Q, v)
         /\ OnlySignOuts(P) => OnlySignOuts(Q)
<1>1. DOMAIN Q = DOMAIN P
  BY DEF Onward
<1>2. ASSUME FreshToken(P, w) PROVE FreshToken(Q, v)
  <2> SUFFICES ASSUME NEW r \in DOMAIN Q, Q[r].at = "otp"
      PROVE /\ v.token # Q[r].token
            /\ \A q \in DOMAIN Q \ {r} : Q[q].at # "over" => Q[q].token # Q[r].token
    BY DEF FreshToken
  <2>1. r \in DOMAIN P /\ P[r].at = "otp" /\ Q[r].token = P[r].token
    BY <1>1 DEF Onward
  <2>2. \A q \in DOMAIN P : Q[q].at # "over" => P[q].at # "over" /\ Q[q].token = P[q].token
    BY DEF Onward
  <2> QED BY <1>1, <1>2, <2>1, <2>2 DEF FreshToken
<1>3. ASSUME AloneIs(P, w) PROVE AloneIs(Q, v)
  BY <1>1, <1>3 DEF AloneIs, Onward
<1>4. ASSUME OnlySignOuts(P) PROVE OnlySignOuts(Q)
  BY <1>1, <1>4 DEF OnlySignOuts, Onward
<1> QED BY <1>2, <1>3, <1>4

\* Numbers of the requests and of the tokens begin with one.
LEMMA FromOne ==
  ASSUME SignInInv
  PROVE  /\ Len(posts) \in Nat /\ DOMAIN posts = 1..Len(posts)
         /\ Len(codeTokens) \in Nat /\ DOMAIN codeTokens = 1..Len(codeTokens)
         /\ \A r \in DOMAIN posts : posts[r] \in PostRows
         /\ \A k \in DOMAIN codeTokens : codeTokens[k] \in TokenRows
         /\ \A r \in DOMAIN posts : posts[r].at = "otp" => posts[r].token # 0
<1> DEFINE PR == PostRows
           TR == TokenRows
<1>1. posts \in Seq(PR) /\ codeTokens \in Seq(TR)
  BY DEF SignInInv
<1> HIDE DEF PR, TR
<1>2. /\ Len(posts) \in Nat /\ DOMAIN posts = 1..Len(posts)
      /\ Len(codeTokens) \in Nat /\ DOMAIN codeTokens = 1..Len(codeTokens)
      /\ \A r \in DOMAIN posts : posts[r] \in PR
      /\ \A k \in DOMAIN codeTokens : codeTokens[k] \in TR
  BY <1>1, LenProperties
<1>3. 0 \notin DOMAIN codeTokens
  BY <1>2
<1>4. \A r \in DOMAIN posts : posts[r].at = "otp" => posts[r].token \in DOMAIN codeTokens
  BY DEF SignInInv, PostSound, Asks
<1> QED BY <1>2, <1>3, <1>4 DEF PR, TR

\* A request that moves on to its next await.
LEMMA Moved ==
  ASSUME SignInInv, NEW r \in DOMAIN posts, NEW step \in {"session", "saving", "refused", "ended"},
         posts[r].at # "over", Moves(r, step)
  PROVE  /\ posts' \in Seq(PostRows) /\ Onward(posts, posts') /\ DOMAIN posts' = DOMAIN posts
         /\ posts'[r].at = step /\ posts'[r].kind = posts[r].kind
         /\ posts'[r].token = posts[r].token /\ posts'[r].account = posts[r].account
         /\ \A q \in DOMAIN posts \ {r} : posts'[q] = posts[q]
<1> DEFINE p == [posts[r] EXCEPT !.at = step]
           PR == PostRows
<1>1. posts[r] \in PostRows /\ posts \in Seq(PR) /\ r \in 1..Len(posts) /\ DOMAIN posts = 1..Len(posts)
  BY FromOne DEF SignInInv
<1>2. /\ p \in PR /\ p.at = step /\ p.kind = posts[r].kind /\ p.token = posts[r].token
      /\ p.account = posts[r].account /\ p.alone = posts[r].alone
  BY <1>1 DEF PostRows
<1>3. posts' = [posts EXCEPT ![r] = p]
  BY DEF Moves
<1> HIDE DEF p, PR
<1>4. posts' \in Seq(PR) /\ DOMAIN posts' = DOMAIN posts
  BY <1>1, <1>2, <1>3, ExceptSeq
<1>5. posts'[r] = p /\ \A q \in DOMAIN posts \ {r} : posts'[q] = posts[q]
  BY <1>1, <1>3
<1>6. Onward(posts, posts')
  BY <1>2, <1>4, <1>5 DEF Onward
<1> QED BY <1>2, <1>4, <1>5, <1>6 DEF PR

\* A request that is over.
LEMMA WasAnswered ==
  ASSUME SignInInv, NEW r \in DOMAIN posts, NEW reply, Answers(r, reply)
  PROVE  /\ posts' \in Seq(PostRows) /\ Onward(posts, posts') /\ DOMAIN posts' = DOMAIN posts
         /\ posts'[r] = Over /\ \A q \in DOMAIN posts \ {r} : posts'[q] = posts[q]
<1> DEFINE PR == PostRows
<1>1. posts \in Seq(PR) /\ r \in 1..Len(posts) /\ DOMAIN posts = 1..Len(posts)
  BY FromOne DEF SignInInv
<1>2. Over \in PR
  BY DEF Over, PostRows
<1>3. posts' = [posts EXCEPT ![r] = Over]
  BY DEF Answers
<1> HIDE DEF PR
<1>4. posts' \in Seq(PR) /\ DOMAIN posts' = DOMAIN posts
  BY <1>1, <1>2, <1>3, ExceptSeq
<1>5. posts'[r] = Over /\ \A q \in DOMAIN posts \ {r} : posts'[q] = posts[q]
  BY <1>1, <1>3
<1>6. Onward(posts, posts')
  BY <1>4, <1>5 DEF Onward, Over
<1> QED BY <1>4, <1>5, <1>6 DEF PR

\* What is written for a request names the account its session opens.
LEMMA RowTrue ==
  ASSUME SignInInv, NEW r \in DOMAIN posts, posts[r].at = "saving"
  PROVE  Row(r).account = Row(r).opens /\ posts[r].kind # "logout" /\ ~signedOut
<1>1. PostSound(posts[r], codeTokens)
  BY DEF SignInInv
<1>2. posts[r].kind # "logout"
  BY <1>1 DEF PostSound
<1>3. ~signedOut
  BY <1>2 DEF SignInInv, OnlySignOuts
<1>4. posts[r].token = 0 \/ codeTokens[posts[r].token].of = posts[r].account
  BY <1>1 DEF PostSound, Asks
<1> QED BY <1>2, <1>3, <1>4 DEF Row

\* Nobody but those who sign out has a session that cannot be kept.
LEMMA NoneInVain ==
  ASSUME NEW P, NEW tokens, NEW able, \A r \in DOMAIN P : PostSound(P[r], tokens),
         able \/ OnlySignOuts(P)
  PROVE  able \/ \A r \in DOMAIN P : P[r].at # "over" => P[r].at \notin {"session", "saving"}
  BY DEF PostSound, OnlySignOuts

\* One request goes on, or is over: what is kept while no token is issued or spent.
LEMMA GoesOn ==
  ASSUME SignInInv, NEW r \in DOMAIN posts,
         posts' \in Seq(PostRows), Onward(posts, posts'), PostSound(posts'[r], codeTokens),
         \A q \in DOMAIN posts \ {r} : posts'[q] = posts[q],
         codeTokens' = codeTokens, sealKey' = sealKey, waiting' = waiting \/ waiting' = NoAttempt,
         unheard \subseteq unheard', credential'.account = credential'.opens,
         posts[r].at = "session" =>
           waiting' = NoAttempt \/ posts[r].kind = "login" \/ posts[r].token \in unheard',
         signedOut' => OnlySignOuts(posts') /\ credential' = NoRow /\ waiting' = NoAttempt
  PROVE  SignInInv'
<1>1. DOMAIN posts' = DOMAIN posts
  BY DEF Onward
<1>2. waiting'.token = waiting.token \/ waiting'.token = 0
  BY DEF NoAttempt
<1>3. /\ FreshToken(posts', waiting') /\ AloneIs(posts', waiting')
      /\ OnlySignOuts(posts) => OnlySignOuts(posts')
  <2>1. \A q \in DOMAIN posts : posts[q].at = "otp" => posts[q].token # 0
    BY FromOne
  <2>2. FreshToken(posts, waiting) /\ AloneIs(posts, waiting)
    BY DEF SignInInv
  <2>3. waiting = NoAttempt => waiting' = NoAttempt
    OBVIOUS
  <2> QED BY <1>2, <2>1, <2>2, <2>3, OnwardKeeps
<1>4. \A q \in DOMAIN posts' : PostSound(posts'[q], codeTokens')
  BY <1>1 DEF SignInInv
<1>5. AttemptSound(waiting', codeTokens')
  BY DEF SignInInv, AttemptSound
<1>6. CanSeal' \/ OnlySignOuts(posts')
  BY <1>3 DEF SignInInv, CanSeal
<1>7. AttemptUnspent'
  <2> SUFFICES ASSUME NEW k \in DOMAIN codeTokens, waiting'.token = k, codeTokens[k].is = "spent"
               PROVE  \/ k \in unheard'
                      \/ \E q \in DOMAIN posts' :
                           posts'[q].at # "over" /\ posts'[q].token = k /\ posts'[q].at = "session"
    BY DEF AttemptUnspent, UnderWay
  <2>1. k # 0
    BY FromOne
  <2>2. waiting' = waiting /\ waiting' # NoAttempt
    BY <2>1 DEF NoAttempt
  <2>3. \/ k \in unheard
        \/ \E q \in DOMAIN posts : posts[q].token = k /\ posts[q].at = "session"
    BY <2>2 DEF SignInInv, SignInSound, AttemptUnspent, UnderWay
  <2>4. ASSUME NEW q \in DOMAIN posts, posts[q].token = k, posts[q].at = "session", k \notin unheard'
        PROVE  posts'[q].token = k /\ posts'[q].at = "session"
    <3>1. CASE q = r
      <4>1. posts[q].kind = "login"
        BY <2>2, <2>4, <3>1
      <4>2. PostSound(posts[q], codeTokens)
        BY DEF SignInInv
      <4> QED BY <2>1, <2>4, <4>1, <4>2 DEF PostSound
    <3> QED BY <2>4, <3>1
  <2> QED BY <1>1, <2>3, <2>4
<1>8. NothingSpentInVain'
  BY <1>4, <1>6, NoneInVain DEF NothingSpentInVain, UnderWay
<1>9. SignInSound'
  BY <1>7, <1>8 DEF SignInSound, RowOpensItsAccount, SignedOutIsOut
<1>10. codeTokens' \in Seq(TokenRows)
  BY DEF SignInInv
<1> QED BY <1>3, <1>4, <1>5, <1>6, <1>9, <1>10 DEF SignInInv

\* A request whose step leaves the row, the tokens and the sign-out as they are.
LEMMA Uneventful ==
  ASSUME SignInInv, NEW r \in DOMAIN posts,
         posts' \in Seq(PostRows), Onward(posts, posts'), PostSound(posts'[r], codeTokens),
         \A q \in DOMAIN posts \ {r} : posts'[q] = posts[q],
         codeTokens' = codeTokens, sealKey' = sealKey, waiting' = waiting \/ waiting' = NoAttempt,
         unheard \subseteq unheard', credential' = credential, signedOut' = signedOut,
         posts[r].at = "session" =>
           waiting' = NoAttempt \/ posts[r].kind = "login" \/ posts[r].token \in unheard'
  PROVE  SignInInv'
<1>1. credential'.account = credential'.opens
  BY DEF SignInInv, SignInSound, RowOpensItsAccount
<1>2. signedOut' => OnlySignOuts(posts') /\ credential' = NoRow /\ waiting' = NoAttempt
  <2>1. signedOut => OnlySignOuts(posts) /\ credential = NoRow /\ waiting = NoAttempt
    BY DEF SignInInv, SignInSound, SignedOutIsOut
  <2>2. OnlySignOuts(posts) => OnlySignOuts(posts')
    BY DEF OnlySignOuts, Onward
  <2> QED BY <2>1, <2>2
<1> QED BY <1>1, <1>2, GoesOn

LEMMA CallsEnd ==
  ASSUME SignInInv, NEW r \in DOMAIN posts, NoAnswer(r) \/ CodeRefused(r) \/ SessionComes(r)
  PROVE  SignInInv'
<1>1. /\ codeTokens' = codeTokens /\ sealKey' = sealKey /\ credential' = credential
      /\ signedOut' = signedOut /\ posts[r].at # "over"
  BY DEF NoAnswer, CodeRefused, SessionComes, At, UnderWay
<1>2. PostSound(posts[r], codeTokens)
  BY DEF SignInInv
<1>3. CASE NoAnswer(r)
  <2>1. /\ Answers(r, "other") /\ waiting' = waiting
        /\ unheard' = IF At(r, "code", "session") THEN unheard \cup {posts[r].token} ELSE unheard
    BY <1>3 DEF NoAnswer
  <2>2. posts[r].at = "session" => posts[r].kind = "login" \/ posts[r].token \in unheard'
    BY <1>1, <1>2, <2>1 DEF At, UnderWay, PostSound
  <2>3. posts' \in Seq(PostRows) /\ Onward(posts, posts') /\ posts'[r] = Over
        /\ \A q \in DOMAIN posts \ {r} : posts'[q] = posts[q]
    BY <2>1, WasAnswered
  <2>4. PostSound(posts'[r], codeTokens)
    BY <2>3 DEF PostSound, Over
  <2> QED BY <1>1, <2>1, <2>2, <2>3, <2>4, Uneventful
<1>4. CASE CodeRefused(r)
  <2>1. PICK reply \in {"other", "restart"} : Answers(r, reply)
    BY <1>4 DEF CodeRefused
  <2>2. /\ waiting' = waiting \/ waiting' = NoAttempt
        /\ unheard' = unheard /\ posts[r].at \in {"refused", "ended"}
    BY <1>4 DEF CodeRefused, Cleared, At
  <2>3. posts' \in Seq(PostRows) /\ Onward(posts, posts') /\ posts'[r] = Over
        /\ \A q \in DOMAIN posts \ {r} : posts'[q] = posts[q]
    BY <2>1, WasAnswered
  <2>4. PostSound(posts'[r], codeTokens)
    BY <2>3 DEF PostSound, Over
  <2> QED BY <1>1, <2>2, <2>3, <2>4, Uneventful
<1>5. CASE SessionComes(r)
  <2>1. /\ Moves(r, "saving") /\ waiting' = NoAttempt /\ unheard' = unheard
        /\ posts[r].at = "session" /\ posts[r].kind \in {"login", "code"}
    BY <1>5 DEF SessionComes, Cleared, At
  <2>2. /\ posts' \in Seq(PostRows) /\ Onward(posts, posts')
        /\ posts'[r].at = "saving" /\ posts'[r].kind = posts[r].kind
        /\ posts'[r].token = posts[r].token /\ posts'[r].account = posts[r].account
        /\ \A q \in DOMAIN posts \ {r} : posts'[q] = posts[q]
    BY <1>1, <2>1, Moved
  <2>3. PostSound(posts'[r], codeTokens)
    BY <1>2, <2>1, <2>2 DEF PostSound
  <2> QED BY <1>1, <2>1, <2>2, <2>3, Uneventful
<1> QED BY <1>3, <1>4, <1>5

\* The row is written, or may have been.
LEMMA RowWritten ==
  ASSUME SignInInv, NEW r \in DOMAIN posts, Saves(r) \/ Deletes(r) \/ WriteFails(r)
  PROVE  SignInInv'
<1>1. /\ codeTokens' = codeTokens /\ sealKey' = sealKey /\ waiting' = waiting
      /\ unheard' = unheard /\ posts[r].at \in {"saving", "deleting"} /\ Answers(r, "other")
  BY DEF Saves, Deletes, WriteFails, At
<1>2. posts' \in Seq(PostRows) /\ Onward(posts, posts') /\ posts'[r] = Over
      /\ \A q \in DOMAIN posts \ {r} : posts'[q] = posts[q]
  BY <1>1, WasAnswered
<1>3. PostSound(posts'[r], codeTokens)
  BY <1>2 DEF PostSound, Over
<1>4. /\ signedOut => OnlySignOuts(posts) /\ credential = NoRow /\ waiting = NoAttempt
      /\ credential.account = credential.opens /\ NoRow.account = NoRow.opens
  BY DEF SignInInv, SignInSound, SignedOutIsOut, RowOpensItsAccount, NoRow
<1>5. OnlySignOuts(posts) => OnlySignOuts(posts')
  BY <1>2 DEF OnlySignOuts, Onward
<1>6. posts[r].at = "saving" => Row(r).account = Row(r).opens /\ ~signedOut
  BY RowTrue
<1>7. credential'.account = credential'.opens
  BY <1>1, <1>4, <1>6 DEF Saves, Deletes, WriteFails
<1>8. signedOut' => OnlySignOuts(posts') /\ credential' = NoRow /\ waiting' = NoAttempt
  <2>1. CASE Deletes(r)
    <3>1. signedOut' = posts[r].alone /\ credential' = NoRow /\ posts[r].at # "over"
      BY <2>1 DEF Deletes, At, UnderWay
    <3>2. posts[r].alone => waiting = NoAttempt /\ \A q \in DOMAIN posts \ {r} : posts[q].at = "over"
      BY <3>1 DEF SignInInv, AloneIs
    <3>3. posts[r].alone => OnlySignOuts(posts')
      BY <1>2, <3>2 DEF OnlySignOuts, Onward, Over
    <3> QED BY <1>1, <3>1, <3>2, <3>3
  <2>2. CASE Saves(r)
    <3>1. posts[r].at = "saving" /\ signedOut' = signedOut
      BY <2>2 DEF Saves
    <3> QED BY <1>6, <3>1
  <2>3. CASE WriteFails(r)
    <3>1. /\ signedOut' = signedOut
          /\ credential' = credential \/ credential' = IF posts[r].at = "saving" THEN Row(r) ELSE NoRow
      BY <2>3 DEF WriteFails
    <3> QED BY <1>1, <1>4, <1>5, <1>6, <3>1
  <2> QED BY <2>1, <2>2, <2>3
<1>9. posts[r].at # "session"
  BY <1>1
<1> QED BY <1>1, <1>2, <1>3, <1>7, <1>8, <1>9, GoesOn

\* Time, and a page that is loaded: the attempt stays, or it is forgotten.
LEMMA AttemptAges ==
  ASSUME SignInInv, AttemptDue \/ \E t \in Tabs : LoadsPage(t)
  PROVE  SignInInv'
<1>1. /\ posts' = posts /\ codeTokens' = codeTokens /\ sealKey' = sealKey /\ credential' = credential
      /\ unheard' = unheard /\ signedOut' = signedOut
  BY DEF AttemptDue, LoadsPage
<1>2. \/ waiting' = waiting \/ waiting' = NoAttempt
      \/ waiting # NoAttempt /\ waiting' = [waiting EXCEPT !.due = TRUE]
  BY DEF AttemptDue, LoadsPage, PendingOtp
<1>3. /\ waiting'.token = waiting.token \/ waiting'.token = 0
      /\ waiting = NoAttempt => waiting' = NoAttempt
      /\ AttemptSound(waiting', codeTokens)
  <2>1. AttemptSound(waiting, codeTokens)
    BY DEF SignInInv
  <2>2. CASE waiting' = waiting \/ waiting' = NoAttempt
    BY <2>1, <2>2 DEF AttemptSound, NoAttempt
  <2>3. CASE waiting # NoAttempt /\ waiting' = [waiting EXCEPT !.due = TRUE]
    <3>1. DOMAIN waiting = {"account", "token", "due"} /\ Asks(codeTokens, waiting.token, waiting.account)
      BY <2>1, <2>3 DEF AttemptSound
    <3>2. /\ DOMAIN waiting' = {"account", "token", "due"}
          /\ waiting'.token = waiting.token /\ waiting'.account = waiting.account
      BY <2>3, <3>1
    <3> QED BY <2>3, <3>1, <3>2 DEF AttemptSound
  <2> QED BY <1>2, <2>2, <2>3
<1>4. FreshToken(posts, waiting') /\ AloneIs(posts, waiting')
  <2>1. \A q \in DOMAIN posts : posts[q].at = "otp" => posts[q].token # 0
    BY FromOne
  <2>2. FreshToken(posts, waiting) /\ AloneIs(posts, waiting) /\ Onward(posts, posts)
    BY DEF SignInInv, Onward
  <2> QED BY <1>3, <2>1, <2>2, OnwardKeeps
<1>5. AttemptUnspent'
  <2>1. 0 \notin DOMAIN codeTokens
    BY FromOne
  <2>2. AttemptUnspent
    BY DEF SignInInv, SignInSound
  <2> QED BY <1>1, <1>3, <2>1, <2>2 DEF AttemptUnspent, UnderWay
<1>6. SignInSound'
  BY <1>1, <1>3, <1>5 DEF SignInInv, SignInSound, RowOpensItsAccount, NothingSpentInVain,
     SignedOutIsOut, CanSeal, UnderWay
<1> QED BY <1>1, <1>3, <1>4, <1>6 DEF SignInInv, CanSeal

LEMMA FnIsSeq ==
  ASSUME NEW S, NEW n \in Nat, NEW f \in [1..n -> S]
  PROVE  f \in Seq(S) /\ Len(f) = n
<1>1. f \in Seq(S)
  BY SeqDef
<1> QED BY <1>1, LenProperties

\* A new pod has neither the requests nor the attempt, and perhaps another key.
LEMMA PodChanges ==
  ASSUME SignInInv, PodReplaced
  PROVE  SignInInv'
<1>1. /\ posts' = [r \in DOMAIN posts |-> Over] /\ waiting' = NoAttempt /\ codeTokens' = codeTokens
      /\ signedOut' = signedOut
      /\ \/ credential' = credential
         \/ \E q \in DOMAIN posts : posts[q].at = "saving" /\ credential' = Row(q)
  BY DEF PodReplaced, UnderWay
<1>2. posts' \in Seq(PostRows)
  <2> DEFINE PR == PostRows
  <2>1. Over \in PR
    BY DEF Over, PostRows
  <2> HIDE DEF PR
  <2>2. Len(posts) \in Nat /\ DOMAIN posts = 1..Len(posts)
    BY FromOne
  <2>3. posts' \in [1..Len(posts) -> PR]
    BY <1>1, <2>1, <2>2
  <2> QED BY <2>2, <2>3, FnIsSeq DEF PR
<1>3. \A r \in DOMAIN posts' : posts'[r] = Over
  BY <1>1
<1>4. /\ \A r \in DOMAIN posts' : PostSound(posts'[r], codeTokens')
      /\ FreshToken(posts', waiting') /\ OnlySignOuts(posts') /\ AloneIs(posts', waiting')
      /\ NothingSpentInVain'
  BY <1>3 DEF Over, PostSound, FreshToken, OnlySignOuts, AloneIs, NothingSpentInVain, UnderWay
<1>5. AttemptUnspent'
  <2>1. 0 \notin DOMAIN codeTokens
    BY FromOne
  <2> QED BY <1>1, <2>1 DEF AttemptUnspent, NoAttempt
<1>6. RowOpensItsAccount' /\ SignedOutIsOut'
  <2>1. RowOpensItsAccount /\ SignedOutIsOut
    BY DEF SignInInv, SignInSound
  <2>2. CASE credential' = credential
    BY <1>1, <2>1, <2>2 DEF RowOpensItsAccount, SignedOutIsOut
  <2>3. CASE \E q \in DOMAIN posts : posts[q].at = "saving" /\ credential' = Row(q)
    BY <1>1, <2>3, RowTrue DEF RowOpensItsAccount, SignedOutIsOut
  <2> QED BY <1>1, <2>2, <2>3
<1> QED BY <1>1, <1>2, <1>4, <1>5, <1>6 DEF SignInInv, SignInSound, AttemptSound

\* What a POST does to the requests: one more, and no sign-out is alone beside it.
LEMMA Posted ==
  ASSUME SignInInv, NEW t, NEW kind \in {"login", "code", "logout"}, NEW step \in {"asking", "deleting"},
         NEW attempt, attempt.account \in Accounts \cup {NoAccount}, attempt.token \in Nat,
         Post(t, kind, step, attempt)
  PROVE  LET n == Len(posts) + 1
         IN /\ posts' \in Seq(PostRows) /\ n \notin DOMAIN posts /\ DOMAIN posts' = DOMAIN posts \cup {n}
            /\ \A q \in DOMAIN posts :
                 /\ posts'[q].kind = posts[q].kind /\ posts'[q].at = posts[q].at
                 /\ posts'[q].token = posts[q].token /\ posts'[q].account = posts[q].account
                 /\ ~posts'[q].alone
            /\ posts'[n].kind = kind /\ posts'[n].at = step /\ posts'[n].account = attempt.account
            /\ posts'[n].token = attempt.token
            /\ posts'[n].alone => kind = "logout" /\ UnderWay = {}
<1> DEFINE PR == PostRows
           f == [r \in DOMAIN posts |-> [posts[r] EXCEPT !.alone = FALSE]]
           e == [kind |-> kind, at |-> step, account |-> attempt.account,
                 token |-> attempt.token, alone |-> kind = "logout" /\ UnderWay = {}]
           n == Len(posts) + 1
<1>1. posts' = Append(f, e)
  BY DEF Post
<1>2. Len(posts) \in Nat /\ DOMAIN posts = 1..Len(posts) /\ \A r \in DOMAIN posts : posts[r] \in PostRows
  BY FromOne
<1>3. e \in PR
  <2>1. (kind = "logout" /\ UnderWay = {}) \in BOOLEAN
    OBVIOUS
  <2> QED BY <2>1 DEF PostRows
<1>4. \A r \in DOMAIN posts :
        /\ f[r] \in PR /\ f[r].kind = posts[r].kind /\ f[r].at = posts[r].at
        /\ f[r].token = posts[r].token /\ f[r].account = posts[r].account /\ f[r].alone = FALSE
  BY <1>2 DEF PostRows
<1>5. /\ e.kind = kind /\ e.at = step /\ e.account = attempt.account /\ e.token = attempt.token
      /\ e.alone => kind = "logout" /\ UnderWay = {}
  OBVIOUS
<1>6. DOMAIN f = 1..Len(posts)
  BY <1>2
<1> HIDE DEF PR, e
<1>7. f \in [1..Len(posts) -> PR]
  BY <1>2, <1>4
<1> HIDE DEF f
<1>8. f \in Seq(PR) /\ Len(f) = Len(posts)
  BY <1>2, <1>7, FnIsSeq
<1>9. /\ posts' \in Seq(PR) /\ Len(posts') = n /\ DOMAIN posts' = 1..n /\ posts'[n] = e
      /\ \A q \in 1..Len(posts) : posts'[q] = f[q]
  <2>1. Append(f, e) \in Seq(PR) /\ Len(Append(f, e)) = Len(f) + 1
    BY <1>3, <1>8, AppendProperties
  <2>2. Append(f, e)[Len(f) + 1] = e /\ \A q \in 1..Len(f) : Append(f, e)[q] = f[q]
    BY <1>3, <1>8, AppendProperties
  <2>3. DOMAIN posts' = 1..Len(posts')
    BY <1>1, <2>1, LenProperties
  <2> QED BY <1>1, <1>8, <2>1, <2>2, <2>3
<1> QED BY <1>2, <1>4, <1>5, <1>9 DEF PR

\* One request more, of the kind it may be.
LEMMA Begins ==
  ASSUME SignInInv, NEW t, NEW kind \in {"login", "code", "logout"}, NEW step \in {"asking", "deleting"},
         NEW attempt, attempt.account \in Accounts \cup {NoAccount}, attempt.token \in Nat,
         Post(t, kind, step, attempt),
         attempt.token = 0 \/ (attempt.token = waiting.token /\ kind = "code"),
         kind = "logout" => step = "deleting" /\ waiting' = NoAttempt /\ signedOut' = signedOut,
         kind # "logout" => step = "asking" /\ CanSeal /\ ~signedOut',
         kind # "code" => attempt.token = 0,
         kind = "code" => Asks(codeTokens, attempt.token, attempt.account),
         codeTokens' = codeTokens, sealKey' = sealKey, waiting' = waiting \/ waiting' = NoAttempt,
         unheard' = unheard, credential' = credential
  PROVE  SignInInv'
<1> DEFINE n == Len(posts) + 1
<1>1. /\ posts' \in Seq(PostRows) /\ n \notin DOMAIN posts /\ DOMAIN posts' = DOMAIN posts \cup {n}
      /\ \A q \in DOMAIN posts :
           /\ posts'[q].kind = posts[q].kind /\ posts'[q].at = posts[q].at
           /\ posts'[q].token = posts[q].token /\ posts'[q].account = posts[q].account
           /\ ~posts'[q].alone
      /\ posts'[n].kind = kind /\ posts'[n].at = step /\ posts'[n].account = attempt.account
      /\ posts'[n].token = attempt.token
      /\ posts'[n].alone => kind = "logout" /\ UnderWay = {}
  BY Posted, ZenonT(30)
<1> HIDE DEF n
<1>2. \A q \in DOMAIN posts' : PostSound(posts'[q], codeTokens')
  <2> SUFFICES ASSUME NEW q \in DOMAIN posts' PROVE PostSound(posts'[q], codeTokens)
    OBVIOUS
  <2>1. CASE q \in DOMAIN posts
    <3>1. PostSound(posts[q], codeTokens)
      BY <2>1 DEF SignInInv
    <3> QED BY <1>1, <2>1, <3>1 DEF PostSound
  <2>2. CASE q = n
    BY <1>1, <2>2 DEF PostSound
  <2> QED BY <1>1, <2>1, <2>2
<1>3. FreshToken(posts', waiting')
  <2> SUFFICES ASSUME NEW r \in DOMAIN posts', posts'[r].at = "otp"
      PROVE /\ waiting'.token # posts'[r].token
            /\ \A q \in DOMAIN posts' \ {r} : posts'[q].at # "over" => posts'[q].token # posts'[r].token
    BY DEF FreshToken
  <2>1. r \in DOMAIN posts /\ posts[r].at = "otp" /\ posts'[r].token = posts[r].token
    BY <1>1
  <2>2. posts[r].token # 0 /\ NoAttempt.token = 0
    BY <2>1, FromOne DEF NoAttempt
  <2>3. /\ waiting.token # posts[r].token
        /\ \A q \in DOMAIN posts \ {r} : posts[q].at # "over" => posts[q].token # posts[r].token
    BY <2>1 DEF SignInInv, FreshToken
  <2> QED BY <1>1, <2>1, <2>2, <2>3
<1>4. AloneIs(posts', waiting')
  <2> SUFFICES ASSUME NEW r \in DOMAIN posts', posts'[r].alone
      PROVE  /\ posts'[r].kind = "logout" /\ waiting' = NoAttempt
             /\ \A q \in DOMAIN posts' \ {r} : posts'[q].at = "over"
    BY DEF AloneIs
  <2>1. r = n /\ kind = "logout" /\ UnderWay = {}
    BY <1>1
  <2> QED BY <1>1, <2>1 DEF UnderWay
<1>5. OnlySignOuts(posts) /\ kind = "logout" => OnlySignOuts(posts')
  BY <1>1 DEF OnlySignOuts
<1>6. CanSeal' \/ OnlySignOuts(posts')
  <2>1. CanSeal \/ OnlySignOuts(posts)
    BY DEF SignInInv
  <2> QED BY <1>5, <2>1 DEF CanSeal
<1>7. AttemptUnspent'
  <2>1. 0 \notin DOMAIN codeTokens /\ NoAttempt.token = 0
    BY FromOne DEF NoAttempt
  <2>2. AttemptUnspent
    BY DEF SignInInv, SignInSound
  <2> QED BY <1>1, <2>1, <2>2 DEF AttemptUnspent, UnderWay
<1>8. signedOut' => OnlySignOuts(posts') /\ credential' = NoRow /\ waiting' = NoAttempt
  BY <1>5 DEF SignInInv, SignInSound, SignedOutIsOut
<1>9. NothingSpentInVain'
  BY <1>2, <1>6, NoneInVain DEF NothingSpentInVain, UnderWay
<1>10. RowOpensItsAccount' /\ AttemptSound(waiting', codeTokens') /\ codeTokens' \in Seq(TokenRows)
  BY DEF SignInInv, SignInSound, RowOpensItsAccount, AttemptSound
<1> QED BY <1>1, <1>2, <1>3, <1>4, <1>6, <1>7, <1>8, <1>9, <1>10
        DEF SignInInv, SignInSound, SignedOutIsOut

LEMMA TabsPost ==
  ASSUME SignInInv, NEW t \in Tabs,
         SubmitsCode(t) \/ SignsOut(t) \/ \E a \in Accounts : SignsIn(t, a)
  PROVE  SignInInv'
<1>1. NoAttempt.account = NoAccount /\ NoAttempt.token = 0 /\ 0 \in Nat
  BY DEF NoAttempt
<1>2. CASE SignsOut(t)
  <2>1. /\ Post(t, "logout", "deleting", NoAttempt) /\ waiting' = NoAttempt
        /\ codeTokens' = codeTokens /\ sealKey' = sealKey /\ unheard' = unheard
        /\ credential' = credential /\ signedOut' = signedOut
    BY <1>2 DEF SignsOut, Cleared
  <2> QED BY <1>1, <2>1, Begins
<1>3. CASE \E a \in Accounts : SignsIn(t, a)
  <2>1. PICK a \in Accounts : SignsIn(t, a)
    BY <1>3
  <2> DEFINE attempt == [NoAttempt EXCEPT !.account = a]
  <2>2. /\ Post(t, "login", "asking", attempt) /\ waiting' = waiting /\ CanSeal
        /\ codeTokens' = codeTokens /\ sealKey' = sealKey /\ unheard' = unheard
        /\ credential' = credential /\ signedOut' = FALSE
    BY <2>1 DEF SignsIn
  <2>3. attempt.account \in Accounts \cup {NoAccount} /\ attempt.token = 0
    BY DEF NoAttempt
  <2> HIDE DEF attempt
  <2> QED BY <1>1, <2>2, <2>3, Begins
<1>4. CASE SubmitsCode(t)
  <2>1. /\ waiting' = PendingOtp /\ CanSeal
        /\ codeTokens' = codeTokens /\ sealKey' = sealKey /\ unheard' = unheard
        /\ credential' = credential
        /\ waiting' = waiting \/ waiting' = NoAttempt
    BY <1>4 DEF SubmitsCode, PendingOtp
  <2>2. CASE PendingOtp = NoAttempt
    <3>1. posts' = posts /\ signedOut' = signedOut /\ waiting' = NoAttempt
      BY <1>4, <2>1, <2>2 DEF SubmitsCode
    <3>2. FreshToken(posts, NoAttempt) /\ AloneIs(posts, NoAttempt)
      <4>1. \A q \in DOMAIN posts : posts[q].at = "otp" => posts[q].token # 0
        BY FromOne
      <4>2. FreshToken(posts, waiting) /\ AloneIs(posts, waiting) /\ Onward(posts, posts)
        BY DEF SignInInv, Onward
      <4> QED BY <1>1, <4>1, <4>2, OnwardKeeps
    <3>3. AttemptUnspent'
      BY <2>1, <3>1, FromOne DEF AttemptUnspent, NoAttempt
    <3>4. SignInSound'
      BY <2>1, <3>1, <3>3 DEF SignInInv, SignInSound, RowOpensItsAccount, NothingSpentInVain,
         SignedOutIsOut, CanSeal, UnderWay
    <3> QED BY <2>1, <3>1, <3>2, <3>4 DEF SignInInv, CanSeal, AttemptSound
  <2>3. CASE PendingOtp # NoAttempt
    <3>1. /\ Post(t, "code", "asking", waiting) /\ signedOut' = FALSE /\ waiting # NoAttempt
      BY <1>4, <2>3 DEF SubmitsCode, PendingOtp
    <3>2. Asks(codeTokens, waiting.token, waiting.account)
      BY <3>1 DEF SignInInv, AttemptSound
    <3>3. waiting.token \in DOMAIN codeTokens /\ codeTokens[waiting.token].of = waiting.account
      BY <3>2 DEF Asks
    <3>4. waiting.token \in Nat
      BY <3>3, FromOne
    <3>5. waiting.account \in Accounts \cup {NoAccount}
      BY <3>3, FromOne DEF TokenRows
    <3> QED BY <2>1, <3>1, <3>2, <3>4, <3>5, Begins
  <2> QED BY <2>2, <2>3
<1> QED BY <1>2, <1>3, <1>4

\* A token that is issued is new; what is known of the others stays.
LEMMA TokenIssued ==
  ASSUME SignInInv, NEW r \in DOMAIN posts, At(r, "login", "asking"),
         codeTokens' = Append(codeTokens, [of |-> posts[r].account, is |-> "live"]),
         posts' = [posts EXCEPT ![r].at = "otp", ![r].token = Len(codeTokens) + 1],
         UNCHANGED <<sealKey, waiting, credential, unheard, signedOut>>
  PROVE  SignInInv'
<1> DEFINE n == Len(codeTokens) + 1
           p == [posts[r] EXCEPT !.at = "otp", !.token = n]
           e == [of |-> posts[r].account, is |-> "live"]
           PR == PostRows
           TR == TokenRows
<1>1. /\ posts[r] \in PostRows /\ posts \in Seq(PR) /\ r \in 1..Len(posts)
      /\ DOMAIN posts = 1..Len(posts) /\ codeTokens \in Seq(TR) /\ Len(codeTokens) \in Nat
      /\ DOMAIN codeTokens = 1..Len(codeTokens)
      /\ posts[r].at = "asking" /\ posts[r].kind = "login"
  BY FromOne DEF SignInInv, At
<1>0. n \in Nat
  BY <1>1
<1> HIDE DEF n
<1>2. /\ p \in PR /\ p.at = "otp" /\ p.kind = "login" /\ p.token = n
      /\ p.account = posts[r].account /\ p.alone = posts[r].alone
  BY <1>0, <1>1 DEF PostRows
<1>3. e \in TR /\ e.of = posts[r].account /\ e.is = "live"
  BY <1>1 DEF PostRows, TokenRows
<1>4. posts' = [posts EXCEPT ![r] = p] /\ codeTokens' = Append(codeTokens, e)
  BY DEF n
<1> HIDE DEF p, e, PR, TR
<1>5. /\ posts' \in Seq(PR) /\ DOMAIN posts' = DOMAIN posts /\ posts'[r] = p
      /\ \A q \in DOMAIN posts \ {r} : posts'[q] = posts[q]
  <2> DEFINE Q == [posts EXCEPT ![r] = p]
  <2>1. Q \in Seq(PR)
    BY <1>1, <1>2, ExceptSeq
  <2>2. DOMAIN Q = DOMAIN posts /\ Q[r] = p /\ \A q \in DOMAIN posts \ {r} : Q[q] = posts[q]
    BY <1>1
  <2>3. posts' = Q
    BY <1>4
  <2> HIDE DEF Q
  <2> QED BY <2>1, <2>2, <2>3
<1>6. /\ codeTokens' \in Seq(TR) /\ DOMAIN codeTokens' = 1..n /\ codeTokens'[n] = e
      /\ \A k \in DOMAIN codeTokens : codeTokens'[k] = codeTokens[k]
  <2>1. Append(codeTokens, e) \in Seq(TR) /\ Len(Append(codeTokens, e)) = Len(codeTokens) + 1
    BY <1>1, <1>3, AppendProperties
  <2>2. /\ Append(codeTokens, e)[Len(codeTokens) + 1] = e
        /\ \A k \in 1..Len(codeTokens) : Append(codeTokens, e)[k] = codeTokens[k]
    BY <1>1, <1>3, AppendProperties
  <2>3. DOMAIN codeTokens' = 1..Len(codeTokens')
    BY <1>4, <2>1, LenProperties
  <2> QED BY <1>1, <1>4, <2>1, <2>2, <2>3 DEF n
<1>7. n \notin DOMAIN codeTokens /\ n # 0 /\ n \in DOMAIN codeTokens'
  BY <1>1, <1>6 DEF n
<1>8. DOMAIN codeTokens \subseteq DOMAIN codeTokens'
  BY <1>1, <1>6 DEF n
<1>9. \A k, a : Asks(codeTokens, k, a) => Asks(codeTokens', k, a)
  BY <1>6, <1>8 DEF Asks
<1>10. /\ AttemptSound(waiting', codeTokens') /\ waiting'.token # n
  <2>1. AttemptSound(waiting, codeTokens)
    BY DEF SignInInv
  <2> QED BY <1>7, <1>9, <2>1 DEF AttemptSound, Asks, NoAttempt
<1>11. \A q \in DOMAIN posts' : PostSound(posts'[q], codeTokens')
  <2> SUFFICES ASSUME NEW q \in DOMAIN posts' PROVE PostSound(posts'[q], codeTokens')
    OBVIOUS
  <2>1. CASE q = r
    BY <1>2, <1>3, <1>5, <1>6, <1>7, <2>1 DEF PostSound, Asks
  <2>2. CASE q # r
    <3>1. PostSound(posts[q], codeTokens) /\ posts'[q] = posts[q]
      BY <1>5, <2>2 DEF SignInInv
    <3>2. Asks(codeTokens, posts[q].token, posts[q].account) =>
            codeTokens'[posts[q].token] = codeTokens[posts[q].token]
      BY <1>6 DEF Asks
    <3> QED BY <1>9, <3>1, <3>2 DEF PostSound
  <2> QED BY <2>1, <2>2
<1>12. \A q \in DOMAIN posts : posts[q].at # "over" => posts[q].token # n
  <2>1. \A q \in DOMAIN posts : PostSound(posts[q], codeTokens)
    BY DEF SignInInv
  <2> QED BY <1>7, <2>1 DEF PostSound, Asks
<1>13. FreshToken(posts', waiting')
  <2> SUFFICES ASSUME NEW x \in DOMAIN posts', posts'[x].at = "otp"
      PROVE /\ waiting.token # posts'[x].token
            /\ \A q \in DOMAIN posts' \ {x} : posts'[q].at # "over" => posts'[q].token # posts'[x].token
    BY DEF FreshToken
  <2>1. CASE x = r
    <3>1. \A q \in DOMAIN posts \ {r} : posts'[q].at # "over" => posts'[q].token # n
      BY <1>5, <1>12
    <3> QED BY <1>2, <1>5, <1>10, <2>1, <3>1
  <2>2. CASE x # r
    <3>1. posts'[x] = posts[x] /\ posts[x].at = "otp" /\ x \in DOMAIN posts
      BY <1>5, <2>2
    <3>2. /\ waiting.token # posts[x].token /\ posts[x].token # n
          /\ \A q \in DOMAIN posts \ {x} : posts[q].at # "over" => posts[q].token # posts[x].token
      BY <1>12, <3>1 DEF SignInInv, FreshToken
    <3> QED BY <1>2, <1>5, <3>1, <3>2
  <2> QED BY <2>1, <2>2
<1>14. /\ AloneIs(posts', waiting')
       /\ CanSeal' \/ OnlySignOuts(posts')
       /\ signedOut' => OnlySignOuts(posts')
  <2>1. /\ AloneIs(posts, waiting)
        /\ CanSeal \/ OnlySignOuts(posts)
        /\ signedOut => OnlySignOuts(posts)
    BY DEF SignInInv
  <2>2. ~OnlySignOuts(posts)
    BY <1>1 DEF OnlySignOuts
  <2>4. ~posts[r].alone
    BY <1>1, <2>1 DEF AloneIs
  <2>5. \A q \in DOMAIN posts' : posts'[q].at # "over" => ~posts'[q].alone
    <3>1. \A q \in DOMAIN posts : posts[q].at # "over" => ~posts[q].alone
      BY <1>1, <2>1 DEF AloneIs
    <3>2. ~posts'[r].alone
      BY <1>2, <1>5, <2>4
    <3> QED BY <1>5, <3>1, <3>2
  <2>6. AloneIs(posts', waiting')
    BY <2>5 DEF AloneIs
  <2> QED BY <2>1, <2>2, <2>6 DEF CanSeal
<1>15. AttemptUnspent'
  <2> SUFFICES ASSUME NEW k \in DOMAIN codeTokens', waiting.token = k, codeTokens'[k].is = "spent"
               PROVE  \/ k \in unheard
                      \/ \E q \in DOMAIN posts' :
                           posts'[q].at # "over" /\ posts'[q].token = k /\ posts'[q].at = "session"
    BY DEF AttemptUnspent, UnderWay
  <2>1. k \in DOMAIN codeTokens
    BY <1>1, <1>6, <1>10 DEF n
  <2>2. \/ k \in unheard
        \/ \E q \in DOMAIN posts :
             posts[q].at # "over" /\ posts[q].token = k /\ posts[q].at = "session"
    BY <1>6, <2>1 DEF SignInInv, SignInSound, AttemptUnspent, UnderWay
  <2> QED BY <1>1, <1>5, <2>2
<1>16. NothingSpentInVain'
  BY <1>11, <1>14, NoneInVain DEF NothingSpentInVain, UnderWay
<1>17. RowOpensItsAccount' /\ SignedOutIsOut'
  BY DEF SignInInv, SignInSound, RowOpensItsAccount, SignedOutIsOut
<1> QED BY <1>5, <1>6, <1>10, <1>11, <1>13, <1>14, <1>15, <1>16, <1>17
        DEF SignInInv, SignInSound, PR, TR

LEMMA LoginAnswered ==
  ASSUME SignInInv, NEW r \in DOMAIN posts, RivianLogin(r)
  PROVE  SignInInv'
<1>1. /\ sealKey' = sealKey /\ credential' = credential /\ waiting' = waiting
      /\ signedOut' = signedOut /\ unheard' = unheard /\ posts[r].at = "asking"
      /\ posts[r].kind = "login" /\ At(r, "login", "asking")
  BY DEF RivianLogin, At
<1>2. PostSound(posts[r], codeTokens)
  BY DEF SignInInv
<1>3. CASE Moves(r, "session") /\ codeTokens' = codeTokens
  <2>1. /\ posts' \in Seq(PostRows) /\ Onward(posts, posts')
        /\ posts'[r].at = "session" /\ posts'[r].kind = posts[r].kind
        /\ posts'[r].token = posts[r].token /\ posts'[r].account = posts[r].account
        /\ \A q \in DOMAIN posts \ {r} : posts'[q] = posts[q]
    BY <1>1, <1>3, Moved
  <2>2. PostSound(posts'[r], codeTokens)
    BY <1>1, <1>2, <2>1 DEF PostSound
  <2> QED BY <1>1, <1>3, <2>1, <2>2, Uneventful
<1>4. CASE Answers(r, "other") /\ codeTokens' = codeTokens
  <2>1. posts' \in Seq(PostRows) /\ Onward(posts, posts') /\ posts'[r] = Over
        /\ \A q \in DOMAIN posts \ {r} : posts'[q] = posts[q]
    BY <1>4, WasAnswered
  <2>2. PostSound(posts'[r], codeTokens)
    BY <2>1 DEF PostSound, Over
  <2> QED BY <1>1, <1>4, <2>1, <2>2, Uneventful
<1>5. CASE /\ codeTokens' = Append(codeTokens, [of |-> posts[r].account, is |-> "live"])
           /\ posts' = [posts EXCEPT ![r].at = "otp", ![r].token = Len(codeTokens) + 1]
  BY <1>1, <1>5, TokenIssued
<1> QED BY <1>3, <1>4, <1>5 DEF RivianLogin

\* Tokens that are none the newer: spent by the request that goes on, or expired.
LEMMA TokensKept ==
  ASSUME SignInInv, NEW k \in DOMAIN codeTokens, NEW what \in {"spent", "expired"},
         codeTokens' = [codeTokens EXCEPT ![k].is = what]
  PROVE  /\ codeTokens' \in Seq(TokenRows) /\ DOMAIN codeTokens' = DOMAIN codeTokens
         /\ \A j, a : Asks(codeTokens, j, a) => Asks(codeTokens', j, a)
         /\ codeTokens'[k].is = what
         /\ \A j \in DOMAIN codeTokens : j # k => codeTokens'[j] = codeTokens[j]
<1> DEFINE e == [codeTokens[k] EXCEPT !.is = what]
           TR == TokenRows
           Q == [codeTokens EXCEPT ![k] = e]
<1>1. /\ codeTokens \in Seq(TR) /\ k \in 1..Len(codeTokens) /\ codeTokens[k] \in TokenRows
      /\ DOMAIN codeTokens = 1..Len(codeTokens)
  BY FromOne DEF SignInInv
<1>2. e \in TR /\ e.is = what /\ e.of = codeTokens[k].of
  BY <1>1 DEF TokenRows
<1>3. codeTokens' = Q
  OBVIOUS
<1> HIDE DEF e, TR
<1>4. Q \in Seq(TR)
  BY <1>1, <1>2, ExceptSeq
<1>5. /\ DOMAIN Q = DOMAIN codeTokens /\ Q[k] = e
      /\ \A j \in DOMAIN codeTokens : j # k => Q[j] = codeTokens[j]
  BY <1>1
<1> HIDE DEF Q
<1> QED BY <1>2, <1>3, <1>4, <1>5 DEF TR, Asks

LEMMA CodeAnswered ==
  ASSUME SignInInv, NEW r \in DOMAIN posts, RivianCode(r)
  PROVE  SignInInv'
<1>1. /\ sealKey' = sealKey /\ credential' = credential /\ waiting' = waiting
      /\ signedOut' = signedOut /\ unheard' = unheard /\ posts[r].at = "asking"
      /\ posts[r].kind = "code"
  BY DEF RivianCode, At
<1> DEFINE k == posts[r].token
<1>2. Asks(codeTokens, k, posts[r].account) /\ k \in DOMAIN codeTokens
  <2>1. PostSound(posts[r], codeTokens)
    BY DEF SignInInv
  <2> QED BY <1>1, <2>1 DEF PostSound, Asks
<1>3. CASE codeTokens' = codeTokens
  <2>1. PICK step \in {"refused", "ended", "session"} : Moves(r, step)
    BY DEF RivianCode
  <2>2. /\ posts' \in Seq(PostRows) /\ Onward(posts, posts')
        /\ posts'[r].at = step /\ posts'[r].kind = posts[r].kind
        /\ posts'[r].token = posts[r].token /\ posts'[r].account = posts[r].account
        /\ \A q \in DOMAIN posts \ {r} : posts'[q] = posts[q]
    BY <1>1, <2>1, Moved
  <2>3. PostSound(posts'[r], codeTokens)
    BY <1>1, <1>2, <2>2 DEF PostSound
  <2> QED BY <1>1, <1>3, <2>2, <2>3, Uneventful
<1>4. CASE Moves(r, "session") /\ codeTokens' = [codeTokens EXCEPT ![k].is = "spent"]
  <2>1. /\ posts' \in Seq(PostRows) /\ Onward(posts, posts') /\ DOMAIN posts' = DOMAIN posts
        /\ posts'[r].at = "session" /\ posts'[r].kind = posts[r].kind
        /\ posts'[r].token = posts[r].token /\ posts'[r].account = posts[r].account
        /\ \A q \in DOMAIN posts \ {r} : posts'[q] = posts[q]
    BY <1>1, <1>4, Moved
  <2> HIDE DEF k
  <2>2. /\ codeTokens' \in Seq(TokenRows) /\ DOMAIN codeTokens' = DOMAIN codeTokens
        /\ \A j, a : Asks(codeTokens, j, a) => Asks(codeTokens', j, a)
        /\ \A j \in DOMAIN codeTokens : j # k => codeTokens'[j] = codeTokens[j]
    BY <1>2, <1>4, TokensKept
  <2>3. \A q \in DOMAIN posts' : PostSound(posts'[q], codeTokens')
    <3> SUFFICES ASSUME NEW q \in DOMAIN posts' PROVE PostSound(posts'[q], codeTokens')
      OBVIOUS
    <3>1. CASE q = r
      <4>1. Asks(codeTokens', posts'[r].token, posts'[r].account)
        BY <1>2, <2>1, <2>2 DEF k
      <4> QED BY <1>1, <2>1, <3>1, <4>1 DEF PostSound
    <3>2. CASE q # r
      <4>1. PostSound(posts[q], codeTokens) /\ posts'[q] = posts[q]
        BY <2>1, <3>2 DEF SignInInv
      <4>2. posts[q].at = "otp" => posts[q].token # k
        <5>1. FreshToken(posts, waiting)
          BY DEF SignInInv
        <5> QED BY <1>1, <2>1, <3>2, <5>1 DEF FreshToken, k
      <4>3. posts[q].at = "otp" => codeTokens'[posts[q].token] = codeTokens[posts[q].token]
        BY <2>2, <4>1, <4>2 DEF PostSound, Asks
      <4> QED BY <2>2, <4>1, <4>3 DEF PostSound
    <3> QED BY <3>1, <3>2
  <2>4. AttemptSound(waiting', codeTokens')
    BY <1>1, <2>2 DEF SignInInv, AttemptSound
  <2>5. FreshToken(posts', waiting') /\ AloneIs(posts', waiting')
    <3>1. \A q \in DOMAIN posts : posts[q].at = "otp" => posts[q].token # 0
      BY FromOne
    <3>2. FreshToken(posts, waiting) /\ AloneIs(posts, waiting)
      BY DEF SignInInv
    <3> QED BY <1>1, <2>1, <3>1, <3>2, OnwardKeeps
  <2>6. CanSeal /\ ~signedOut
    BY <1>1 DEF SignInInv, OnlySignOuts
  <2>7. AttemptUnspent'
    <3> SUFFICES ASSUME NEW j \in DOMAIN codeTokens, waiting.token = j, codeTokens'[j].is = "spent"
                 PROVE  \/ j \in unheard
                        \/ \E q \in DOMAIN posts' :
                             posts'[q].at # "over" /\ posts'[q].token = j /\ posts'[q].at = "session"
      BY <1>1, <2>2 DEF AttemptUnspent, UnderWay
    <3>1. CASE j = k
      BY <2>1, <3>1 DEF k
    <3>2. CASE j # k
      <4>1. \/ j \in unheard
            \/ \E q \in DOMAIN posts :
                 posts[q].at # "over" /\ posts[q].token = j /\ posts[q].at = "session"
        BY <2>2, <3>2 DEF SignInInv, SignInSound, AttemptUnspent, UnderWay
      <4> QED BY <1>1, <2>1, <4>1
    <3> QED BY <3>1, <3>2
  <2>8. NothingSpentInVain' /\ RowOpensItsAccount' /\ SignedOutIsOut' /\ CanSeal' /\ ~signedOut'
    BY <1>1, <2>6 DEF SignInInv, SignInSound, RowOpensItsAccount, SignedOutIsOut, NothingSpentInVain,
       CanSeal
  <2> QED BY <2>1, <2>2, <2>3, <2>4, <2>5, <2>7, <2>8 DEF SignInInv, SignInSound
<1> QED BY <1>3, <1>4 DEF RivianCode

LEMMA TokenAges ==
  ASSUME SignInInv, NEW k \in DOMAIN codeTokens, TokenExpires(k)
  PROVE  SignInInv'
<1>1. /\ sealKey' = sealKey /\ credential' = credential /\ waiting' = waiting /\ posts' = posts
      /\ signedOut' = signedOut /\ unheard' = unheard
      /\ codeTokens' = [codeTokens EXCEPT ![k].is = "expired"]
  BY DEF TokenExpires
<1>2. /\ codeTokens' \in Seq(TokenRows) /\ DOMAIN codeTokens' = DOMAIN codeTokens
      /\ \A j, a : Asks(codeTokens, j, a) => Asks(codeTokens', j, a)
      /\ \A j \in DOMAIN codeTokens : codeTokens'[j].is = "spent" => codeTokens[j].is = "spent"
  BY <1>1, TokensKept
<1>3. \A q \in DOMAIN posts' : PostSound(posts'[q], codeTokens')
  <2> SUFFICES ASSUME NEW q \in DOMAIN posts PROVE PostSound(posts[q], codeTokens')
    BY <1>1
  <2>1. PostSound(posts[q], codeTokens)
    BY DEF SignInInv
  <2> QED BY <1>2, <2>1 DEF PostSound, Asks
<1>4. AttemptSound(waiting', codeTokens')
  BY <1>1, <1>2 DEF SignInInv, AttemptSound
<1>5. SignInSound'
  BY <1>1, <1>2 DEF SignInInv, SignInSound, RowOpensItsAccount, NothingSpentInVain, AttemptUnspent,
     SignedOutIsOut, CanSeal, UnderWay
<1> QED BY <1>1, <1>2, <1>3, <1>4, <1>5 DEF SignInInv, CanSeal

\* The attempt that is parked has a token nobody else has, and nobody has spent.
LEMMA AttemptParked ==
  ASSUME SignInInv, NEW r \in DOMAIN posts, Parks(r)
  PROVE  SignInInv'
<1>1. /\ sealKey' = sealKey /\ credential' = credential /\ codeTokens' = codeTokens
      /\ signedOut' = signedOut /\ unheard' = unheard /\ posts[r].at = "otp"
      /\ posts[r].kind = "login" /\ Answers(r, "otp_required")
      /\ waiting' = [account |-> posts[r].account, token |-> posts[r].token, due |-> FALSE]
  BY DEF Parks, At
<1>2. posts' \in Seq(PostRows) /\ Onward(posts, posts') /\ posts'[r] = Over
      /\ DOMAIN posts' = DOMAIN posts /\ \A q \in DOMAIN posts \ {r} : posts'[q] = posts[q]
  BY <1>1, WasAnswered
<1>3. /\ Asks(codeTokens, posts[r].token, posts[r].account)
      /\ codeTokens[posts[r].token].is # "spent"
  BY <1>1 DEF SignInInv, PostSound
<1>4. /\ waiting'.token = posts[r].token /\ waiting'.account = posts[r].account
      /\ DOMAIN waiting' = {"account", "token", "due"}
  BY <1>1
<1>5. AttemptSound(waiting', codeTokens')
  BY <1>1, <1>3, <1>4 DEF AttemptSound
<1>6. \A q \in DOMAIN posts' : PostSound(posts'[q], codeTokens')
  BY <1>1, <1>2 DEF SignInInv, PostSound, Over
<1>7. FreshToken(posts', waiting')
  <2> SUFFICES ASSUME NEW x \in DOMAIN posts', posts'[x].at = "otp"
      PROVE /\ posts[r].token # posts'[x].token
            /\ \A q \in DOMAIN posts' \ {x} : posts'[q].at # "over" => posts'[q].token # posts'[x].token
    BY <1>4 DEF FreshToken
  <2>1. x # r /\ posts'[x] = posts[x] /\ x \in DOMAIN posts
    BY <1>2 DEF Over
  <2>2. FreshToken(posts, waiting)
    BY DEF SignInInv
  <2>3. \A q \in DOMAIN posts \ {x} : posts[q].at # "over" => posts[q].token # posts[x].token
    BY <2>1, <2>2 DEF FreshToken
  <2> QED BY <1>1, <1>2, <2>1, <2>3 DEF Over
<1>8. ~OnlySignOuts(posts)
  BY <1>1 DEF OnlySignOuts
<1>9. AloneIs(posts', waiting')
  <2>1. AloneIs(posts, waiting)
    BY DEF SignInInv
  <2>2. \A q \in DOMAIN posts : posts[q].at # "over" => ~posts[q].alone
    BY <1>1, <2>1 DEF AloneIs
  <2> QED BY <1>2, <2>2 DEF AloneIs, Over
<1>10. CanSeal' /\ ~signedOut'
  BY <1>1, <1>8 DEF SignInInv, CanSeal
<1>11. SignInSound'
  BY <1>1, <1>3, <1>4, <1>10 DEF SignInInv, SignInSound, RowOpensItsAccount, NothingSpentInVain,
     AttemptUnspent, SignedOutIsOut
<1>12. codeTokens' \in Seq(TokenRows)
  BY <1>1 DEF SignInInv
<1> QED BY <1>2, <1>5, <1>6, <1>7, <1>9, <1>10, <1>11, <1>12 DEF SignInInv

LEMMA SignInStep == SignInInv /\ [SignInNext]_signInVars => SignInInv'
<1>1. SignInInv /\ UNCHANGED signInVars => SignInInv'
  BY DEF signInVars, SignInInv, SignInSound, RowOpensItsAccount, NothingSpentInVain, AttemptUnspent,
     SignedOutIsOut, CanSeal, UnderWay
<1>2. SignInInv /\ SignInNext => SignInInv'
  BY AttemptAges, PodChanges, TabsPost, LoginAnswered, AttemptParked, CallsEnd, CodeAnswered,
     RowWritten, TokenAges DEF SignInNext
<1> QED BY <1>1, <1>2

\* rivian-auth.ts, rivian-pending.ts, db/repo/rivian.ts: whatever tabs, timeouts, refusals and
\* new pods come between, the row opens the account it names, no session is obtained in vain, no
\* spent attempt is kept, and a sign-out that nothing ran beside leaves nothing.
THEOREM AccountsHold == SignInSpec => []SignInSound
<1>1. SignInInit => SignInInv
  <2> SUFFICES ASSUME SignInInit PROVE SignInInv
    OBVIOUS
  <2>1. /\ posts = <<>> /\ codeTokens = <<>> /\ waiting = NoAttempt /\ credential = NoRow
        /\ signedOut = FALSE
    BY DEF SignInInit
  <2>2. posts \in Seq(PostRows) /\ codeTokens \in Seq(TokenRows)
    BY <2>1, EmptySeq
  <2>3. DOMAIN posts = {} /\ DOMAIN codeTokens = {}
    BY <2>1
  <2> QED BY <2>1, <2>2, <2>3 DEF SignInInv, AttemptSound, FreshToken, OnlySignOuts, AloneIs, SignInSound,
          RowOpensItsAccount, NothingSpentInVain, AttemptUnspent, SignedOutIsOut, UnderWay, NoRow
<1>2. SignInInv => SignInSound
  BY DEF SignInInv
<1> QED BY <1>1, <1>2, SignInStep, PTL DEF SignInSpec

-----------------------------------------------------------------------------
(* Consent: what Tesla echoes, and the requests that act on it.             *)

Wanted == Echoes(Desired) \cup {Desired}

\* What a request may have been shown.
SeenConfigs == {NoConfig} \cup UNION {Echoes(x) : x \in {Desired} \cup Others}

\* An echo is what was sent but for the way a zero delta is written.
LEMMA EchoReads ==
  ASSUME NEW x, DOMAIN x = {"host", "ca", "fields"}, NEW c \in Echoes(x),
         \A f \in DOMAIN x.fields : DOMAIN x.fields[f] = {"interval", "delta"}
  PROVE  /\ c.host = x.host /\ c.ca = x.ca /\ DOMAIN c = {"host", "ca", "fields"}
         /\ DOMAIN c.fields = DOMAIN x.fields
         /\ \A f \in DOMAIN x.fields : /\ c.fields[f].interval = x.fields[f].interval
                                       /\ Delta(c.fields[f]) = Delta(x.fields[f])
                                       /\ DOMAIN c.fields[f] = {"interval", "delta"}
         /\ \E d \in {Absent, 0} : c = [x EXCEPT !.fields =
              [f \in DOMAIN x.fields |-> IF Delta(x.fields[f]) = 0
                                         THEN [x.fields[f] EXCEPT !.delta = d] ELSE x.fields[f]]]
<1>1. PICK d \in {Absent, 0} : c = [x EXCEPT !.fields =
              [f \in DOMAIN x.fields |-> IF Delta(x.fields[f]) = 0
                                         THEN [x.fields[f] EXCEPT !.delta = d] ELSE x.fields[f]]]
  BY DEF Echoes
<1> DEFINE F == [f \in DOMAIN x.fields |-> IF Delta(x.fields[f]) = 0
                                           THEN [x.fields[f] EXCEPT !.delta = d] ELSE x.fields[f]]
<1>2. c.host = x.host /\ c.ca = x.ca /\ c.fields = F /\ DOMAIN c = {"host", "ca", "fields"}
  BY <1>1
<1>3. DOMAIN F = DOMAIN x.fields
  OBVIOUS
<1>4. ASSUME NEW f \in DOMAIN x.fields
      PROVE  /\ F[f].interval = x.fields[f].interval /\ Delta(F[f]) = Delta(x.fields[f])
             /\ DOMAIN F[f] = {"interval", "delta"}
  <2> DEFINE e == x.fields[f]
  <2>1. DOMAIN e = {"interval", "delta"}
    BY <1>4
  <2>2. F[f] = IF Delta(e) = 0 THEN [e EXCEPT !.delta = d] ELSE e
    BY <1>4
  <2> HIDE DEF e, F
  <2>3. CASE Delta(e) = 0
    <3>1. /\ F[f].interval = e.interval /\ F[f].delta = d
          /\ DOMAIN F[f] = {"interval", "delta"}
      BY <2>1, <2>2, <2>3
    <3>2. Delta(F[f]) = 0
      BY <3>1 DEF Delta
    <3> QED BY <2>3, <3>1, <3>2 DEF e
  <2>4. CASE Delta(e) # 0
    BY <2>1, <2>2, <2>4 DEF e
  <2> QED BY <2>3, <2>4
<1> QED BY <1>1, <1>2, <1>3, <1>4

\* The fields that are wanted, each with its interval and delta.
LEMMA FieldsShaped ==
  /\ DOMAIN Fields = DOMAIN Catalogue \ Withheld
  /\ \A f \in DOMAIN Fields : /\ Fields[f] \in [interval : Nat, delta : Nat \cup {Absent}]
                              /\ DOMAIN Fields[f] = {"interval", "delta"}
  /\ Desired.host = Host /\ Desired.ca = TRUE /\ Desired.fields = Fields
  /\ DOMAIN Desired = {"host", "ca", "fields"}
<1>1. \A f \in DOMAIN Fields : Fields[f] \in [interval : Nat, delta : Nat \cup {Absent}]
  BY ConsentAssumption DEF Fields
<1>2. \A f \in DOMAIN Fields : DOMAIN Fields[f] = {"interval", "delta"}
  BY <1>1
<1> QED BY <1>1, <1>2 DEF Fields, Desired

LEMMA WantedMatches ==
  ASSUME NEW c \in Wanted
  PROVE  Matches(c)
<1>1. c # NoConfig /\ c.host = Host /\ c.ca /\ DOMAIN c.fields = DOMAIN Fields
      /\ \A f \in DOMAIN Fields : /\ c.fields[f].interval = Fields[f].interval
                                  /\ Delta(c.fields[f]) = Delta(Fields[f])
  <2>1. CASE c = Desired
    <3>1. NoConfig.host # Host
      BY DEF NoConfig, Host
    <3> QED BY <2>1, <3>1, FieldsShaped
  <2>2. CASE c \in Echoes(Desired)
    <3>1. NoConfig.host # Host
      BY DEF NoConfig, Host
    <3>2. /\ c.host = Desired.host /\ c.ca = Desired.ca /\ DOMAIN c.fields = DOMAIN Desired.fields
          /\ \A f \in DOMAIN Desired.fields :
               /\ c.fields[f].interval = Desired.fields[f].interval
               /\ Delta(c.fields[f]) = Delta(Desired.fields[f])
      BY <2>2, EchoReads, FieldsShaped
    <3> QED BY <3>1, <3>2, FieldsShaped
  <2> QED BY <2>1, <2>2 DEF Wanted
<1> QED BY <1>1 DEF Matches

\* An echo of an echo writes every zero in one way: it is an echo of what was sent.
LEMMA EchoOfEcho ==
  ASSUME NEW x \in Echoes(Desired), NEW c \in Echoes(x)
  PROVE  c \in Echoes(Desired)
<1>1. /\ x.host = Desired.host /\ x.ca = Desired.ca /\ DOMAIN x = {"host", "ca", "fields"}
      /\ DOMAIN x.fields = DOMAIN Fields
      /\ \A f \in DOMAIN Fields : /\ x.fields[f].interval = Fields[f].interval
                                  /\ Delta(x.fields[f]) = Delta(Fields[f])
                                  /\ DOMAIN x.fields[f] = {"interval", "delta"}
  BY EchoReads, FieldsShaped
<1>2. PICK d \in {Absent, 0} : c = [x EXCEPT !.fields =
        [f \in DOMAIN x.fields |-> IF Delta(x.fields[f]) = 0
                                   THEN [x.fields[f] EXCEPT !.delta = d] ELSE x.fields[f]]]
  BY <1>1, EchoReads
<1>3. PICK e \in {Absent, 0} : x = [Desired EXCEPT !.fields =
        [f \in DOMAIN Fields |-> IF Delta(Fields[f]) = 0
                                 THEN [Fields[f] EXCEPT !.delta = e] ELSE Fields[f]]]
  BY EchoReads, FieldsShaped
<1> DEFINE C == [f \in DOMAIN x.fields |-> IF Delta(x.fields[f]) = 0
                                   THEN [x.fields[f] EXCEPT !.delta = d] ELSE x.fields[f]]
           D == [f \in DOMAIN Fields |-> IF Delta(Fields[f]) = 0
                                   THEN [Fields[f] EXCEPT !.delta = d] ELSE Fields[f]]
<1>4. C = D
  <2>1. DOMAIN C = DOMAIN Fields /\ DOMAIN D = DOMAIN Fields
    BY <1>1
  <2>2. ASSUME NEW f \in DOMAIN Fields
        PROVE  C[f] = D[f]
    <3> DEFINE v == Fields[f]
               y == x.fields[f]
    <3>1. y = IF Delta(v) = 0 THEN [v EXCEPT !.delta = e] ELSE v
      BY <1>3, FieldsShaped
    <3>2. /\ C[f] = IF Delta(y) = 0 THEN [y EXCEPT !.delta = d] ELSE y
          /\ D[f] = IF Delta(v) = 0 THEN [v EXCEPT !.delta = d] ELSE v
          /\ Delta(y) = Delta(v)
      BY <1>1, <2>2
    <3>3. DOMAIN v = {"interval", "delta"}
      BY FieldsShaped
    <3> HIDE DEF v, y, C, D
    <3>4. CASE Delta(v) = 0
      <4>1. y = [v EXCEPT !.delta = e] /\ C[f] = [y EXCEPT !.delta = d] /\ D[f] = [v EXCEPT !.delta = d]
        BY <3>1, <3>2, <3>4
      <4> QED BY <3>3, <4>1
    <3>5. CASE Delta(v) # 0
      BY <3>1, <3>2, <3>5
    <3> QED BY <3>4, <3>5
  <2> HIDE DEF C, D
  <2>3. C = [f \in DOMAIN Fields |-> C[f]] /\ D = [f \in DOMAIN Fields |-> D[f]]
    <3>1. C = [f \in DOMAIN C |-> C[f]] /\ D = [f \in DOMAIN D |-> D[f]]
      BY DEF C, D
    <3> QED BY <2>1, <3>1
  <2> QED BY <2>2, <2>3
<1>5. c = [x EXCEPT !.fields = D]
  BY <1>2, <1>4
<1>6. x = [Desired EXCEPT !.fields = x.fields]
  BY <1>3, FieldsShaped
<1> HIDE DEF D
<1>7. c = [Desired EXCEPT !.fields = D]
  BY <1>5, <1>6, FieldsShaped
<1> QED BY <1>7, FieldsShaped DEF Echoes, D

\* Of what the car may have been given, the comparison accepts what was wanted and nothing else.
LEMMA MatchesWanted ==
  ASSUME NEW c \in SeenConfigs
  PROVE  Matches(c) <=> c \in Wanted
<1>1. c \in Wanted => Matches(c)
  BY WantedMatches
<1>2. ASSUME Matches(c)
      PROVE  c \in Wanted
  <2>1. /\ c # NoConfig /\ c.ca /\ DOMAIN c.fields = DOMAIN Fields
        /\ \A f \in DOMAIN Fields : c.fields[f].interval = Fields[f].interval
    BY <1>2 DEF Matches
  <2>2. PICK x \in {Desired} \cup Others : c \in Echoes(x)
    BY <2>1 DEF SeenConfigs
  <2>3. CASE x = Desired
    BY <2>2, <2>3 DEF Wanted
  <2>4. CASE x \in Echoes(Desired)
    BY <2>2, <2>4, EchoOfEcho DEF Wanted
  <2>5. CASE x = [Desired EXCEPT !.ca = FALSE]
    <3>1. /\ DOMAIN x = {"host", "ca", "fields"} /\ x.ca = FALSE /\ x.fields = Fields
      BY <2>5, FieldsShaped
    <3>2. c.ca = x.ca
      BY <2>2, <3>1, EchoReads, FieldsShaped
    <3> QED BY <2>1, <3>1, <3>2
  <2>6. CASE \E g \in DOMAIN Fields :
               x = [Desired EXCEPT !.fields = [f \in DOMAIN Fields \ {g} |-> Fields[f]]]
    <3>1. PICK g \in DOMAIN Fields :
            x = [Desired EXCEPT !.fields = [f \in DOMAIN Fields \ {g} |-> Fields[f]]]
      BY <2>6
    <3>2. /\ DOMAIN x = {"host", "ca", "fields"} /\ x.fields = [f \in DOMAIN Fields \ {g} |-> Fields[f]]
      BY <3>1, FieldsShaped
    <3>3. \A f \in DOMAIN x.fields : DOMAIN x.fields[f] = {"interval", "delta"}
      BY <3>2, FieldsShaped
    <3>4. DOMAIN c.fields = DOMAIN Fields \ {g}
      BY <2>2, <3>2, <3>3, EchoReads
    <3> QED BY <2>1, <3>4
  <2>7. CASE \E g \in DOMAIN Fields :
               x = [Desired EXCEPT !.fields = [Fields EXCEPT ![g].interval = @ + 1]]
    <3>1. PICK g \in DOMAIN Fields :
            x = [Desired EXCEPT !.fields = [Fields EXCEPT ![g].interval = @ + 1]]
      BY <2>7
    <3> DEFINE V == [Fields[g] EXCEPT !.interval = @ + 1]
    <3>2. V.interval = Fields[g].interval + 1 /\ DOMAIN V = {"interval", "delta"}
          /\ Fields[g].interval \in Nat
      BY FieldsShaped
    <3> HIDE DEF V
    <3>3. x = [Desired EXCEPT !.fields = [Fields EXCEPT ![g] = V]]
      BY <3>1 DEF V
    <3>4. DOMAIN x = {"host", "ca", "fields"} /\ x.fields = [Fields EXCEPT ![g] = V]
      BY <3>3, FieldsShaped
    <3>5. /\ DOMAIN x.fields = DOMAIN Fields /\ x.fields[g] = V
          /\ \A f \in DOMAIN Fields : DOMAIN x.fields[f] = {"interval", "delta"}
      BY <3>2, <3>4, FieldsShaped DEF Fields
    <3>6. c.fields[g].interval = V.interval
      BY <2>2, <3>4, <3>5, EchoReads
    <3> QED BY <2>1, <3>2, <3>6
  <2>8. \/ x = Desired \/ x \in Echoes(Desired) \/ x = [Desired EXCEPT !.ca = FALSE]
        \/ \E g \in DOMAIN Fields :
             x = [Desired EXCEPT !.fields = [f \in DOMAIN Fields \ {g} |-> Fields[f]]]
        \/ \E g \in DOMAIN Fields :
             x = [Desired EXCEPT !.fields = [Fields EXCEPT ![g].interval = @ + 1]]
    <3>1. \/ x \in {Desired} \cup Echoes(Desired) \cup {[Desired EXCEPT !.ca = FALSE]}
          \/ \E g \in DOMAIN Fields :
               x = [Desired EXCEPT !.fields = [f \in DOMAIN @ \ {g} |-> @[f]]]
          \/ \E g \in DOMAIN Fields : x = [Desired EXCEPT !.fields[g].interval = @ + 1]
      BY Zenon DEF Others
    <3>2. CASE x \in {Desired} \cup Echoes(Desired) \cup {[Desired EXCEPT !.ca = FALSE]}
      BY <3>2
    <3>3. ASSUME NEW g \in DOMAIN Fields,
                 x = [Desired EXCEPT !.fields = [f \in DOMAIN @ \ {g} |-> @[f]]]
          PROVE  x = [Desired EXCEPT !.fields = [f \in DOMAIN Fields \ {g} |-> Fields[f]]]
      BY <3>3, FieldsShaped
    <3>4. ASSUME NEW g \in DOMAIN Fields, x = [Desired EXCEPT !.fields[g].interval = @ + 1]
          PROVE  x = [Desired EXCEPT !.fields = [Fields EXCEPT ![g].interval = @ + 1]]
      BY <3>4, FieldsShaped
    <3> QED BY <3>1, <3>2, <3>3, <3>4
  <2> QED BY <2>3, <2>4, <2>5, <2>6, <2>7, <2>8
<1> QED BY <1>1, <1>2

\* The requests, as they are on their way.
Act == [kind : {"none", "callback", "check", "push"},
        at : {"over", "exchanging", "exchanged", "listing", "reading", "sending", "taken", "skipped",
              "recording"},
        token : Nat, saw : [config : SeenConfigs, synced : BOOLEAN, able : BOOLEAN],
        read : SUBSET {"config", "status"}, sent : BOOLEAN]

Replies == {"asked", "approved", "denied", "used", "standing"}

\* A request of a state with n consents, in which Tesla has taken a configuration or
\* not, and what is wanted can be built or not.
ActSound(a, n, took, built) ==
  /\ a.at \in {"exchanging", "exchanged"} => a.token \in 1..n
  /\ a.sent => a.at = "recording" /\ took
  /\ a.at = "taken" => took
  /\ a.at \in {"sending", "taken"} => Needed(a.saw) /\ built
  /\ a.kind = "push" /\ a.at = "recording" => a.sent \/ ~Needed(a.saw)

ActsHold(s, n, took, built) ==
  s \in Seq(Act) /\ \A r \in DOMAIN s : ActSound(s[r], n, took, built)

\* A request that has still to put a push on record.
Owes(a) == a.sent \/ a.at = "taken"
Owing(s) == \E r \in DOMAIN s : Owes(s[r])

ConsentInv ==
  /\ consents \in Seq(Replies)
  /\ teslaToken \in [consent : Nat, due : BOOLEAN]
  /\ teslaToken # NoToken => teslaToken.consent \in DOMAIN consents
  /\ ConsentHeld
  /\ car \in [config : {NoConfig, Desired} \cup Others, synced : BOOLEAN, able : BOOLEAN]
  /\ accepted \in BOOLEAN /\ ActsHold(acts, Len(consents), accepted, Buildable)
  /\ status.pushed => accepted
  /\ accepted => status.pushed \/ untold \/ Owing(acts)

\* The consents there are only grow, and one that was used stays so.
LEMMA ConsentsStep ==
  ASSUME consents \in Seq(Replies), [ConsentNext]_consentVars
  PROVE  /\ consents' \in Seq(Replies) /\ Len(consents) <= Len(consents') /\ Len(consents') \in Nat
         /\ Len(consents) \in Nat /\ DOMAIN consents = 1..Len(consents)
         /\ DOMAIN consents \subseteq DOMAIN consents'
         /\ \A k \in DOMAIN consents : consents[k] = "used" => consents'[k] = "used"
<1>1. \/ consents' = consents
      \/ consents' = Append(consents, "asked")
      \/ \E k \in DOMAIN consents, how \in Replies : consents[k] = "asked"
                                                    /\ consents' = [consents EXCEPT ![k] = how]
      \/ \E r \in DOMAIN acts, how \in Replies :
            consents[acts[r].token] = "approved"
            /\ consents' = [consents EXCEPT ![acts[r].token] = how]
  <2>1. CASE ConnectsTesla
    BY <2>1 DEF ConnectsTesla
  <2>2. ASSUME NEW k \in DOMAIN consents, OperatorAnswers(k)
        PROVE  \E how \in Replies : consents[k] = "asked"
                                    /\ consents' = [consents EXCEPT ![k] = how]
    BY <2>2 DEF OperatorAnswers, Replies
  <2>3. ASSUME NEW r \in DOMAIN acts, Exchanges(r)
        PROVE  \/ consents' = consents
               \/ \E how \in Replies : consents[acts[r].token] = "approved"
                                       /\ consents' = [consents EXCEPT ![acts[r].token] = how]
    BY <2>3 DEF Exchanges, Replies
  <2>4. CASE \/ TokenDue \/ Disconnects \/ CarChanges
             \/ \E kind \in {"check", "push"} : Presses(kind)
             \/ \E k \in DOMAIN consents : CallsBack(k) \/ Withdraws(k)
             \/ UNCHANGED consentVars
    BY <2>4 DEF TokenDue, Disconnects, CarChanges, Presses, CallsBack, Withdraws, consentVars
  <2>5. CASE \E r \in DOMAIN acts :
               \/ TokenKept(r) \/ ListsVehicles(r) \/ Observes(r) \/ Judges(r)
               \/ TeslaTakes(r) \/ Taken(r) \/ TeslaFails(r) \/ RecordsAct(r) \/ RecordingFails(r)
    BY <2>5 DEF TokenKept, ListsVehicles, Observes, Judges, TeslaTakes, Taken, TeslaFails,
                RecordsAct, RecordingFails
  <2> QED BY <2>1, <2>2, <2>3, <2>4, <2>5 DEF ConsentNext
<1> DEFINE R == Replies
<1>2. consents \in Seq(R) /\ "asked" \in R
  BY DEF Replies
<1>3. Len(consents) \in Nat /\ DOMAIN consents = 1..Len(consents)
  BY <1>2, LenProperties
<1> HIDE DEF R
<1>4. CASE consents' = consents
  BY <1>2, <1>3, <1>4 DEF R
<1>5. CASE consents' = Append(consents, "asked")
  <2>1. /\ consents' \in Seq(R) /\ Len(consents') = Len(consents) + 1
        /\ \A k \in 1..Len(consents) : consents'[k] = consents[k]
    BY <1>2, <1>5, AppendProperties
  <2>2. DOMAIN consents' = 1..Len(consents')
    BY <2>1, LenProperties
  <2> QED BY <1>3, <2>1, <2>2 DEF R
<1>6. ASSUME NEW k, NEW how \in R, consents[k] # "used",
             consents' = [consents EXCEPT ![k] = how]
      PROVE  /\ consents' \in Seq(R) /\ Len(consents') = Len(consents)
             /\ DOMAIN consents' = DOMAIN consents
             /\ \A j \in DOMAIN consents : consents[j] = "used" => consents'[j] = "used"
  <2>1. DOMAIN consents' = DOMAIN consents
    BY <1>6
  <2>2. \A j \in 1..Len(consents) : consents'[j] \in R
    BY <1>2, <1>3, <1>6, ElementOfSeq
  <2>3. consents' \in [1..Len(consents) -> R]
    BY <1>3, <1>6, <2>1, <2>2
  <2>4. consents' \in Seq(R) /\ Len(consents') = Len(consents)
    BY <1>3, <2>3, FnIsSeq
  <2> QED BY <1>6, <2>1, <2>4
<1>7. CASE \E k : \E how \in R : consents[k] # "used" /\ consents' = [consents EXCEPT ![k] = how]
  <2>1. PICK k : \E how \in R : consents[k] # "used" /\ consents' = [consents EXCEPT ![k] = how]
    BY <1>7
  <2>2. /\ consents' \in Seq(R) /\ Len(consents') = Len(consents)
        /\ DOMAIN consents' = DOMAIN consents
        /\ \A j \in DOMAIN consents : consents[j] = "used" => consents'[j] = "used"
    BY <1>6, <2>1
  <2> QED BY <1>3, <2>2 DEF R
<1> QED BY <1>1, <1>4, <1>5, <1>7 DEF R

\* One request changes, and another may begin.
LEMMA ActChanged ==
  ASSUME NEW s, NEW n \in Nat, NEW took, NEW built, ActsHold(s, n, took, built),
         NEW takes, took => takes, NEW r \in DOMAIN s, NEW a \in Act, ActSound(a, n, takes, built),
         NEW t, t = [s EXCEPT ![r] = a]
  PROVE  /\ ActsHold(t, n, takes, built)
         /\ Owing(s) /\ ~Owes(s[r]) => Owing(t)
         /\ Owes(a) => Owing(t)
<1> DEFINE A == Act
<1>1. s \in Seq(A) /\ a \in A
  BY DEF ActsHold
<1> HIDE DEF A
<1>2. Len(s) \in Nat /\ DOMAIN s = 1..Len(s) /\ \A q \in 1..Len(s) : s[q] \in A
  BY <1>1, LenProperties, ElementOfSeq
<1>3. DOMAIN t = DOMAIN s /\ t[r] = a /\ \A q \in DOMAIN s : q # r => t[q] = s[q]
  BY <1>2
<1>4. t \in Seq(A)
  <2>1. t \in [1..Len(s) -> A]
    BY <1>1, <1>2, <1>3
  <2> QED BY <1>2, <2>1, FnIsSeq
<1>5. \A q \in DOMAIN s : ActSound(s[q], n, takes, built)
  BY DEF ActsHold, ActSound
<1>6. \A q \in DOMAIN t : ActSound(t[q], n, takes, built)
  BY <1>3, <1>5
<1>7. ActsHold(t, n, takes, built)
  BY <1>4, <1>6 DEF ActsHold, A
<1>8. (Owing(s) /\ ~Owes(s[r]) => Owing(t)) /\ (Owes(a) => Owing(t))
  BY <1>3 DEF Owing
<1> QED BY <1>7, <1>8

LEMMA ActBegins ==
  ASSUME NEW s, NEW n \in Nat, NEW took, NEW built,
         ActsHold(s, n, took, built), NEW a \in Act, ActSound(a, n, took, built)
  PROVE  ActsHold(Append(s, a), n, took, built) /\ (Owing(s) => Owing(Append(s, a)))
<1> DEFINE A == Act
           t == Append(s, a)
<1>1. s \in Seq(A) /\ a \in A
  BY DEF ActsHold
<1> HIDE DEF A
<1>2. /\ t \in Seq(A) /\ Len(s) \in Nat /\ DOMAIN s = 1..Len(s) /\ Len(t) = Len(s) + 1
      /\ DOMAIN t = 1..Len(t) /\ t[Len(s) + 1] = a /\ \A q \in 1..Len(s) : t[q] = s[q]
  BY <1>1, AppendProperties, LenProperties
<1> HIDE DEF t
<1>3. \A q \in DOMAIN t : ActSound(t[q], n, took, built)
  <2> SUFFICES ASSUME NEW q \in DOMAIN t PROVE ActSound(t[q], n, took, built)
    OBVIOUS
  <2>1. q = Len(s) + 1 \/ q \in 1..Len(s)
    BY <1>2
  <2>2. q \in 1..Len(s) => ActSound(s[q], n, took, built)
    BY <1>2 DEF ActsHold
  <2> QED BY <1>2, <2>1, <2>2
<1>4. Owing(s) => Owing(t)
  BY <1>2 DEF Owing
<1> QED BY <1>2, <1>3, <1>4 DEF ActsHold, A, t

\* What was seen is what a request may have been shown.
LEMMA SeenKept ==
  ASSUME NEW c \in IF car.config = NoConfig THEN {NoConfig} ELSE Echoes(car.config),
         car.config \in {NoConfig, Desired} \cup Others
  PROVE  c \in SeenConfigs
<1>1. CASE car.config = NoConfig
  BY <1>1 DEF SeenConfigs
<1>2. CASE car.config # NoConfig
  BY <1>2 DEF SeenConfigs
<1> QED BY <1>1, <1>2

\* Nothing that is read of a request that is over, or of one that begins, is a promise.
LEMMA EndedIs ==
  ASSUME NEW n \in Nat, NEW took \in BOOLEAN, NEW built
  PROVE  Ended \in Act /\ ActSound(Ended, n, took, built) /\ ~Owes(Ended)
<1>1. NoConfig \in SeenConfigs
  BY DEF SeenConfigs
<1> HIDE DEF SeenConfigs
<1>2. Ended \in Act
  BY <1>1 DEF Ended, Act, Unseen
<1> QED BY <1>2 DEF Ended, ActSound, Owes

\* A token that is held came with its consent, used.
LEMMA TokenStep ==
  ASSUME ConsentInv, [ConsentNext]_consentVars
  PROVE  /\ teslaToken' \in [consent : Nat, due : BOOLEAN]
         /\ teslaToken' # NoToken => teslaToken'.consent \in DOMAIN consents'
         /\ ConsentHeld'
<1>1. /\ Len(consents) <= Len(consents') /\ Len(consents') \in Nat
      /\ Len(consents) \in Nat /\ DOMAIN consents = 1..Len(consents)
      /\ DOMAIN consents \subseteq DOMAIN consents'
      /\ \A k \in DOMAIN consents : consents[k] = "used" => consents'[k] = "used"
  BY ConsentsStep DEF ConsentInv
<1>2. \/ teslaToken' \in {teslaToken, NoToken}
      \/ teslaToken # NoToken /\ teslaToken' = [teslaToken EXCEPT !.due = TRUE]
      \/ \E r \in DOMAIN acts :
           /\ acts[r].at = "exchanged" /\ consents[acts[r].token] = "used"
           /\ teslaToken' = [consent |-> acts[r].token, due |-> FALSE]
  <2>1. CASE TokenDue
    BY <2>1 DEF TokenDue
  <2>2. ASSUME NEW r \in DOMAIN acts, TokenKept(r)
        PROVE  \/ teslaToken' = teslaToken
               \/ /\ acts[r].at = "exchanged" /\ consents[acts[r].token] = "used"
                  /\ teslaToken' = [consent |-> acts[r].token, due |-> FALSE]
    BY <2>2 DEF TokenKept, ActAt
  <2>3. CASE Disconnects \/ \E r \in DOMAIN acts : TeslaFails(r)
    BY <2>3 DEF Disconnects, TeslaFails
  <2>4. CASE \/ ConnectsTesla \/ CarChanges \/ UNCHANGED consentVars
             \/ \E kind \in {"check", "push"} : Presses(kind)
             \/ \E k \in DOMAIN consents : OperatorAnswers(k) \/ CallsBack(k) \/ Withdraws(k)
    BY <2>4 DEF ConnectsTesla, CarChanges, Presses, OperatorAnswers, CallsBack, Withdraws, consentVars
  <2>5. CASE \E r \in DOMAIN acts :
               \/ Exchanges(r) \/ ListsVehicles(r) \/ Observes(r) \/ Judges(r)
               \/ TeslaTakes(r) \/ Taken(r) \/ RecordsAct(r) \/ RecordingFails(r)
    BY <2>5 DEF Exchanges, ListsVehicles, Observes, Judges, TeslaTakes, Taken, RecordsAct, RecordingFails
  <2> QED BY <2>1, <2>2, <2>3, <2>4, <2>5 DEF ConsentNext
<1>3. /\ teslaToken \in [consent : Nat, due : BOOLEAN]
      /\ teslaToken # NoToken => /\ teslaToken.consent \in DOMAIN consents
                                 /\ consents[teslaToken.consent] = "used"
      /\ NoToken \in [consent : Nat, due : BOOLEAN]
  BY DEF ConsentInv, ConsentHeld, NoToken
<1>4. CASE teslaToken' \in {teslaToken, NoToken}
  BY <1>1, <1>3, <1>4 DEF ConsentHeld
<1>5. CASE teslaToken # NoToken /\ teslaToken' = [teslaToken EXCEPT !.due = TRUE]
  <2>1. teslaToken' \in [consent : Nat, due : BOOLEAN] /\ teslaToken'.consent = teslaToken.consent
    BY <1>3, <1>5
  <2> QED BY <1>1, <1>3, <1>5, <2>1 DEF ConsentHeld
<1>6. CASE \E r \in DOMAIN acts :
             /\ acts[r].at = "exchanged" /\ consents[acts[r].token] = "used"
             /\ teslaToken' = [consent |-> acts[r].token, due |-> FALSE]
  <2>1. PICK r \in DOMAIN acts :
          /\ acts[r].at = "exchanged" /\ consents[acts[r].token] = "used"
          /\ teslaToken' = [consent |-> acts[r].token, due |-> FALSE]
    BY <1>6
  <2>2. ActSound(acts[r], Len(consents), accepted, Buildable)
    BY DEF ConsentInv, ActsHold
  <2>3. acts[r].token \in 1..Len(consents)
    BY <2>1, <2>2 DEF ActSound
  <2>4. acts[r].token \in Nat /\ acts[r].token \in DOMAIN consents
    BY <1>1, <2>3
  <2>5. teslaToken' \in [consent : Nat, due : BOOLEAN] /\ teslaToken'.consent = acts[r].token
    BY <2>1, <2>4
  <2> QED BY <1>1, <2>1, <2>4, <2>5 DEF ConsentHeld
<1> QED BY <1>2, <1>4, <1>5, <1>6

LEMMA CarStep ==
  ASSUME car \in [config : {NoConfig, Desired} \cup Others, synced : BOOLEAN, able : BOOLEAN],
         [ConsentNext]_consentVars
  PROVE  car' \in [config : {NoConfig, Desired} \cup Others, synced : BOOLEAN, able : BOOLEAN]
<1> DEFINE C == {NoConfig, Desired} \cup Others
<1>1. \/ car' = car \/ car' = [car EXCEPT !.config = Desired, !.synced = FALSE]
      \/ car' = [car EXCEPT !.synced = TRUE] \/ car' = [car EXCEPT !.able = ~@]
      \/ \E c \in Others : car' = [car EXCEPT !.config = c, !.synced = TRUE]
  <2>1. CASE \E r \in DOMAIN acts : TeslaTakes(r)
    BY <2>1 DEF TeslaTakes
  <2>2. CASE CarChanges
    BY <2>2 DEF CarChanges
  <2>3. CASE ~CarChanges /\ ~(\E r \in DOMAIN acts : TeslaTakes(r))
    BY <2>3, Zenon DEF ConsentNext, outside, consentVars, ConnectsTesla, TokenDue, Disconnects, Presses,
       OperatorAnswers, CallsBack, Withdraws, Exchanges, TokenKept, ListsVehicles, Observes, Judges,
       Taken, TeslaFails, RecordsAct, RecordingFails
  <2> QED BY <2>1, <2>2, <2>3
<1>2. car \in [config : C, synced : BOOLEAN, able : BOOLEAN] /\ Desired \in C /\ Others \subseteq C
  OBVIOUS
<1> HIDE DEF C
<1>3. car' \in [config : C, synced : BOOLEAN, able : BOOLEAN]
  BY <1>1, <1>2
<1> QED BY <1>3 DEF C

\* A request goes on, or ends: what it owes it goes on owing, puts on record, or has lost.
ActMoves(r) ==
  \E a \in Act :
    /\ acts' = [acts EXCEPT ![r] = a]
    /\ ActSound(a, Len(consents), accepted', Buildable)
    /\ Owes(acts[r]) => Owes(a) \/ status'.pushed \/ untold'
    /\ accepted' /\ ~accepted => Owes(a)

LEMMA Advancing ==
  ASSUME ConsentInv, NEW r \in DOMAIN acts,
         Exchanges(r) \/ TokenKept(r) \/ ListsVehicles(r) \/ Judges(r)
  PROVE  ActMoves(r) /\ accepted' = accepted /\ status' = status /\ untold' = untold
<1> DEFINE p == acts[r]
           n == Len(consents)
<1>1. p \in Act /\ ActSound(p, n, accepted, Buildable) /\ n \in Nat /\ accepted \in BOOLEAN
  <2>1. acts \in Seq(Act) /\ consents \in Seq(Replies)
    BY DEF ConsentInv, ActsHold
  <2>2. ActSound(acts[r], n, accepted, Buildable) /\ accepted \in BOOLEAN
    BY DEF ConsentInv, ActsHold
  <2> HIDE DEF ConsentInv
  <2> QED BY <2>1, <2>2, ElementOfSeq, LenProperties
<1>2. accepted' = accepted /\ status' = status /\ untold' = untold
  BY DEF Exchanges, TokenKept, ListsVehicles, Judges, row
<1>3. Ended \in Act /\ ActSound(Ended, n, accepted, Buildable)
  BY <1>1, EndedIs
<1>4. p.at \in {"exchanging", "exchanged", "listing", "reading"}
  BY DEF Exchanges, TokenKept, ListsVehicles, Judges, ActAt
<1>5. ~Owes(p)
  BY <1>1, <1>4 DEF Owes, ActSound
<1>6. \/ acts' = [acts EXCEPT ![r] = Ended]
      \/ p.at = "exchanging" /\ acts' = [acts EXCEPT ![r].at = "exchanged"]
      \/ p.at = "listing" /\ acts' = [acts EXCEPT ![r].at = "reading"]
      \/ /\ p.at = "reading" /\ Needed(p.saw) /\ Buildable /\ acts' = [acts EXCEPT ![r].at = "sending"]
      \/ /\ p.at = "reading" /\ (p.kind = "push" => ~Needed(p.saw))
         /\ acts' = [acts EXCEPT ![r].at = "recording"]
  <2>1. CASE Exchanges(r)
    BY <2>1 DEF Exchanges, ActAt, Ends, Advances
  <2>2. CASE TokenKept(r)
    BY <2>2 DEF TokenKept, Ends
  <2>3. CASE ListsVehicles(r)
    BY <2>3 DEF ListsVehicles, ActAt, Advances
  <2>4. CASE Judges(r)
    <3>1. CASE p.kind = "push" /\ p.saw.able /\ ~Buildable
      BY <2>4, <3>1 DEF Judges, Ends
    <3>2. CASE p.kind = "push" /\ Needed(p.saw) /\ ~(p.saw.able /\ ~Buildable)
      <4>1. Buildable
        BY <3>2 DEF Needed
      <4> QED BY <2>4, <3>2, <4>1 DEF Judges, ActAt, Advances
    <3>3. CASE ~(p.kind = "push" /\ Needed(p.saw)) /\ ~(p.kind = "push" /\ p.saw.able /\ ~Buildable)
      BY <2>4, <3>3 DEF Judges, ActAt, Advances
    <3> QED BY <3>1, <3>2, <3>3
  <2> QED BY <2>1, <2>2, <2>3, <2>4
<1>7. ASSUME NEW step \in {"exchanged", "reading", "sending", "recording"},
             acts' = [acts EXCEPT ![r].at = step],
             step = "exchanged" => p.at = "exchanging",
             step = "sending" => Needed(p.saw) /\ Buildable,
             step = "recording" => (p.kind = "push" => ~Needed(p.saw))
      PROVE  ActMoves(r)
  <2> DEFINE a == [p EXCEPT !.at = step]
  <2>1. a \in Act /\ a.at = step /\ a.token = p.token /\ a.saw = p.saw /\ a.kind = p.kind /\ a.sent = p.sent
    BY <1>1, <1>7 DEF Act
  <2>2. acts' = [acts EXCEPT ![r] = a]
    BY <1>7
  <2> HIDE DEF a
  <2>3. ~p.sent
    BY <1>5 DEF Owes
  <2>4. ActSound(a, n, accepted, Buildable)
    BY <1>1, <1>7, <2>1, <2>3 DEF ActSound
  <2> QED BY <1>2, <1>5, <2>1, <2>2, <2>4 DEF ActMoves
<1>8. CASE acts' = [acts EXCEPT ![r] = Ended]
  BY <1>2, <1>3, <1>5, <1>8 DEF ActMoves
<1> QED BY <1>2, <1>6, <1>7, <1>8

LEMMA SawConfig ==
  ASSUME NEW S, NEW w \in [config : S, synced : BOOLEAN, able : BOOLEAN], NEW c, NEW x
  PROVE  [w EXCEPT !.config = c, !.synced = x] = [config |-> c, synced |-> x, able |-> w.able]
<1> DEFINE v == [w EXCEPT !.config = c]
<1>1. v = [config |-> c, synced |-> w.synced, able |-> w.able]
  OBVIOUS
<1> HIDE DEF v
<1>2. [v EXCEPT !.synced = x] = [config |-> c, synced |-> x, able |-> w.able]
  BY <1>1
<1>3. [w EXCEPT !.config = c, !.synced = x] = [v EXCEPT !.synced = x]
  BY DEF v
<1> QED BY <1>2, <1>3

LEMMA Observing ==
  ASSUME ConsentInv, NEW r \in DOMAIN acts, Observes(r)
  PROVE  ActMoves(r) /\ accepted' = accepted /\ status' = status /\ untold' = untold
<1> DEFINE p == acts[r]
           n == Len(consents)
<1>1. /\ p \in Act /\ ActSound(p, n, accepted, Buildable) /\ accepted \in BOOLEAN
      /\ car \in [config : {NoConfig, Desired} \cup Others, synced : BOOLEAN, able : BOOLEAN]
  <2>1. acts \in Seq(Act)
    BY DEF ConsentInv, ActsHold
  <2>2. /\ ActSound(acts[r], n, accepted, Buildable) /\ accepted \in BOOLEAN
        /\ car \in [config : {NoConfig, Desired} \cup Others, synced : BOOLEAN, able : BOOLEAN]
    BY DEF ConsentInv, ActsHold
  <2> HIDE DEF ConsentInv
  <2> QED BY <2>1, <2>2, ElementOfSeq
<1>2. accepted' = accepted /\ status' = status /\ untold' = untold /\ p.at = "reading"
  BY DEF Observes, row, ActAt
<1>3. ~Owes(p)
  BY <1>1, <1>2 DEF Owes, ActSound
<1> DEFINE S == SeenConfigs
<1>4. \E c \in S, synced \in BOOLEAN, able \in BOOLEAN, read \in SUBSET {"config", "status"} :
        acts' = [acts EXCEPT ![r] = [p EXCEPT !.read = read,
                    !.saw = [config |-> c, synced |-> synced, able |-> able]]]
  <2>1. /\ p.saw \in [config : S, synced : BOOLEAN, able : BOOLEAN]
        /\ p.read \in SUBSET {"config", "status"}
        /\ DOMAIN p = {"kind", "at", "token", "saw", "read", "sent"}
    BY <1>1 DEF Act
  <2>2. car.config \in {NoConfig, Desired} \cup Others /\ car.synced \in BOOLEAN /\ car.able \in BOOLEAN
    BY <1>1
  <2>3. CASE \E c \in IF car.config = NoConfig THEN {NoConfig} ELSE Echoes(car.config) :
             acts' = [acts EXCEPT ![r].read = @ \cup {"config"}, ![r].saw.config = c,
                                  ![r].saw.synced = car.synced]
    <3>1. PICK c \in IF car.config = NoConfig THEN {NoConfig} ELSE Echoes(car.config) :
             acts' = [acts EXCEPT ![r].read = @ \cup {"config"}, ![r].saw.config = c,
                                  ![r].saw.synced = car.synced]
      BY <2>3
    <3>2. c \in S
      BY <2>2, SeenKept
    <3>3. p.read \cup {"config"} \in SUBSET {"config", "status"}
      BY <2>1
    <3> HIDE DEF S
    <3>4. [p.saw EXCEPT !.config = c, !.synced = car.synced]
            = [config |-> c, synced |-> car.synced, able |-> p.saw.able]
      <4>1. p.saw \in [config : S, synced : BOOLEAN, able : BOOLEAN]
        BY <2>1
      <4> HIDE DEF p
      <4> QED BY <4>1, SawConfig
    <3>5. acts' = [acts EXCEPT ![r] = [p EXCEPT !.read = p.read \cup {"config"},
                     !.saw = [p.saw EXCEPT !.config = c, !.synced = car.synced]]]
      BY <2>1, <3>1
    <3>6. p.saw.able \in BOOLEAN
      BY <2>1
    <3> QED BY <2>2, <3>2, <3>3, <3>4, <3>5, <3>6
  <2>4. CASE acts' = [acts EXCEPT ![r].read = @ \cup {"status"}, ![r].saw.able = car.able]
    <3>1. p.read \cup {"status"} \in SUBSET {"config", "status"}
      BY <2>1
    <3> HIDE DEF S
    <3>2. [p.saw EXCEPT !.able = car.able]
            = [config |-> p.saw.config, synced |-> p.saw.synced, able |-> car.able]
      BY <2>1
    <3>3. acts' = [acts EXCEPT ![r] = [p EXCEPT !.read = p.read \cup {"status"},
                     !.saw = [p.saw EXCEPT !.able = car.able]]]
      BY <2>1, <2>4
    <3>4. p.saw.config \in S /\ p.saw.synced \in BOOLEAN
      BY <2>1
    <3> QED BY <2>2, <3>1, <3>2, <3>3, <3>4
  <2> QED BY <2>3, <2>4 DEF Observes
<1>5. PICK c \in S, synced \in BOOLEAN, able \in BOOLEAN, read \in SUBSET {"config", "status"} :
        acts' = [acts EXCEPT ![r] = [p EXCEPT !.read = read,
                    !.saw = [config |-> c, synced |-> synced, able |-> able]]]
  BY <1>4
<1> DEFINE a == [p EXCEPT !.read = read, !.saw = [config |-> c, synced |-> synced, able |-> able]]
<1>6. a \in Act /\ a.at = "reading" /\ a.sent = p.sent
  <2> HIDE DEF S
  <2>1. p \in [kind : {"none", "callback", "check", "push"},
               at : {"over", "exchanging", "exchanged", "listing", "reading", "sending", "taken",
                     "skipped", "recording"},
               token : Nat, saw : [config : S, synced : BOOLEAN, able : BOOLEAN],
               read : SUBSET {"config", "status"}, sent : BOOLEAN]
    BY <1>1 DEF Act, S
  <2>2. [config |-> c, synced |-> synced, able |-> able] \in [config : S, synced : BOOLEAN, able : BOOLEAN]
    OBVIOUS
  <2>3. /\ a.at = "reading" /\ a.sent = p.sent
        /\ a \in [kind : {"none", "callback", "check", "push"},
               at : {"over", "exchanging", "exchanged", "listing", "reading", "sending", "taken",
                     "skipped", "recording"},
               token : Nat, saw : [config : S, synced : BOOLEAN, able : BOOLEAN],
               read : SUBSET {"config", "status"}, sent : BOOLEAN]
    BY <1>2, <2>1, <2>2
  <2> QED BY <2>3 DEF Act, S
<1> HIDE DEF a
<1>7. ActSound(a, n, accepted, Buildable)
  BY <1>3, <1>6 DEF ActSound, Owes
<1> QED BY <1>2, <1>3, <1>5, <1>6, <1>7 DEF ActMoves, a

LEMMA Sending ==
  ASSUME ConsentInv, NEW r \in DOMAIN acts, TeslaTakes(r) \/ Taken(r)
  PROVE  /\ ActMoves(r) /\ accepted' \in BOOLEAN /\ (accepted => accepted')
         /\ status' = status /\ untold' = untold
<1> DEFINE p == acts[r]
           n == Len(consents)
<1>1. p \in Act /\ ActSound(p, n, accepted, Buildable) /\ n \in Nat /\ accepted \in BOOLEAN
  <2>1. acts \in Seq(Act) /\ consents \in Seq(Replies)
    BY DEF ConsentInv, ActsHold
  <2>2. ActSound(acts[r], n, accepted, Buildable) /\ accepted \in BOOLEAN
    BY DEF ConsentInv, ActsHold
  <2> HIDE DEF ConsentInv
  <2> QED BY <2>1, <2>2, ElementOfSeq, LenProperties
<1>2. status' = status /\ untold' = untold /\ accepted' \in BOOLEAN /\ (accepted => accepted')
  BY <1>1 DEF TeslaTakes, Taken, row
<1>3. CASE TeslaTakes(r) /\ Advances(r, "taken") /\ accepted' = TRUE
  <2> DEFINE a == [p EXCEPT !.at = "taken"]
  <2>1. a \in Act /\ a.at = "taken" /\ a.saw = p.saw /\ a.sent = p.sent
    BY <1>1 DEF Act
  <2>2. acts' = [acts EXCEPT ![r] = a] /\ p.at = "sending"
    BY <1>3 DEF Advances, TeslaTakes, ActAt
  <2> HIDE DEF a
  <2>3. ActSound(a, n, TRUE, Buildable) /\ Owes(a)
    BY <1>1, <2>1, <2>2 DEF ActSound, Owes
  <2> QED BY <1>2, <1>3, <2>1, <2>2, <2>3 DEF ActMoves
<1>4. CASE TeslaTakes(r) /\ Advances(r, "skipped") /\ accepted' = accepted
  <2> DEFINE a == [p EXCEPT !.at = "skipped"]
  <2>1. a \in Act /\ a.at = "skipped" /\ a.sent = p.sent
    BY <1>1 DEF Act
  <2>2. acts' = [acts EXCEPT ![r] = a] /\ p.at = "sending"
    BY <1>4 DEF Advances, TeslaTakes, ActAt
  <2> HIDE DEF a
  <2>3. ActSound(a, n, accepted, Buildable) /\ ~Owes(p)
    BY <1>1, <2>1, <2>2 DEF ActSound, Owes
  <2> QED BY <1>2, <1>4, <2>1, <2>2, <2>3 DEF ActMoves
<1>5. CASE Taken(r) /\ p.at = "taken"
  <2> DEFINE a == [p EXCEPT !.at = "recording", !.sent = TRUE]
  <2>1. a \in Act /\ a.at = "recording" /\ a.sent
    BY <1>1 DEF Act
  <2>2. acts' = [acts EXCEPT ![r] = a] /\ accepted' = accepted
    <3>1. /\ acts' = [acts EXCEPT ![r].at = "recording", ![r].sent = TRUE] /\ accepted' = accepted
      BY <1>5 DEF Taken, ActAt, row
    <3> QED BY <3>1
  <2> HIDE DEF a
  <2>3. ActSound(a, n, accepted, Buildable) /\ Owes(a)
    BY <1>1, <1>5, <2>1 DEF ActSound, Owes
  <2> QED BY <1>2, <2>1, <2>2, <2>3 DEF ActMoves
<1>6. CASE Taken(r) /\ p.at # "taken"
  <2>1. acts' = [acts EXCEPT ![r] = Ended] /\ accepted' = accepted /\ p.at = "skipped"
    BY <1>6 DEF Taken, ActAt, Ends, row
  <2>2. ~Owes(p)
    BY <1>1, <2>1 DEF ActSound, Owes
  <2>3. Ended \in Act /\ ActSound(Ended, n, accepted, Buildable)
    BY <1>1, EndedIs
  <2> QED BY <1>2, <2>1, <2>2, <2>3 DEF ActMoves
<1> QED BY <1>2, <1>3, <1>4, <1>5, <1>6 DEF TeslaTakes

LEMMA Ending ==
  ASSUME ConsentInv, NEW r \in DOMAIN acts, TeslaFails(r) \/ RecordsAct(r) \/ RecordingFails(r)
  PROVE  /\ ActMoves(r) /\ accepted' = accepted /\ (untold => untold')
         /\ (status.pushed => status'.pushed) /\ (status'.pushed => accepted)
<1> DEFINE p == acts[r]
           n == Len(consents)
<1>1. p \in Act /\ ActSound(p, n, accepted, Buildable) /\ n \in Nat /\ accepted \in BOOLEAN
  <2>1. acts \in Seq(Act) /\ consents \in Seq(Replies)
    BY DEF ConsentInv, ActsHold
  <2>2. ActSound(acts[r], n, accepted, Buildable) /\ accepted \in BOOLEAN
    BY DEF ConsentInv, ActsHold
  <2> HIDE DEF ConsentInv
  <2> QED BY <2>1, <2>2, ElementOfSeq, LenProperties
<1>2. acts' = [acts EXCEPT ![r] = Ended] /\ accepted' = accepted
  BY DEF TeslaFails, RecordsAct, RecordingFails, Ends
<1>3. Ended \in Act /\ ActSound(Ended, n, accepted, Buildable)
  BY <1>1, EndedIs
<1>4. Recorded(r).pushed <=> status.pushed \/ p.sent
  BY DEF Recorded
<1>5. p.sent => accepted
  BY <1>1 DEF ActSound
<1>6. status.pushed => accepted
  BY DEF ConsentInv
<1>7. CASE TeslaFails(r)
  <2>1. status' = status /\ (untold' <=> untold \/ p.at = "taken") /\ p.at # "recording"
    BY <1>7 DEF TeslaFails, ActAt
  <2>2. Owes(p) => p.at = "taken"
    BY <1>1, <2>1 DEF Owes, ActSound
  <2> QED BY <1>2, <1>3, <1>6, <2>1, <2>2 DEF ActMoves
<1>8. CASE RecordsAct(r)
  <2>1. status' = Recorded(r) /\ untold' = untold /\ p.at = "recording"
    BY <1>8 DEF RecordsAct, ActAt
  <2>2. Owes(p) => p.sent
    BY <2>1 DEF Owes
  <2> QED BY <1>2, <1>3, <1>4, <1>5, <1>6, <2>1, <2>2 DEF ActMoves
<1>9. CASE RecordingFails(r)
  <2>1. status' \in {status, Recorded(r)} /\ (untold' <=> untold \/ p.sent) /\ p.at = "recording"
    BY <1>9 DEF RecordingFails, ActAt
  <2>2. Owes(p) => p.sent
    BY <2>1 DEF Owes
  <2> QED BY <1>2, <1>3, <1>4, <1>5, <1>6, <2>1, <2>2 DEF ActMoves
<1> QED BY <1>7, <1>8, <1>9

LEMMA Beginning ==
  ASSUME ConsentInv,
         \/ \E kind \in {"check", "push"} : Presses(kind)
         \/ \E k \in DOMAIN consents : CallsBack(k)
  PROVE  /\ ActsHold(acts', Len(consents), accepted, Buildable) /\ (Owing(acts) => Owing(acts'))
         /\ consents' = consents /\ accepted' = accepted /\ status' = status /\ untold' = untold
<1>1. consents' = consents /\ accepted' = accepted /\ status' = status /\ untold' = untold
  BY DEF Presses, CallsBack, row
<1> DEFINE n == Len(consents)
<1>2. n \in Nat /\ DOMAIN consents = 1..n /\ accepted \in BOOLEAN
  <2>1. consents \in Seq(Replies) /\ accepted \in BOOLEAN
    BY DEF ConsentInv
  <2> QED BY <2>1, LenProperties
<1>3. ActsHold(acts, n, accepted, Buildable)
  BY DEF ConsentInv
<1>4. \/ acts' = acts
      \/ \E k \in Nat : acts' = Append(acts, [Ended EXCEPT !.kind = "check", !.at = "listing", !.token = k])
      \/ \E k \in Nat : acts' = Append(acts, [Ended EXCEPT !.kind = "push", !.at = "listing", !.token = k])
      \/ \E k \in 1..n : acts' = Append(acts, [Ended EXCEPT !.kind = "callback", !.at = "exchanging", !.token = k])
  <2>1. CASE \E kind \in {"check", "push"} : Presses(kind)
    <3>1. PICK kind \in {"check", "push"} :
            acts' = Append(acts, [Ended EXCEPT !.kind = kind, !.at = "listing",
                                               !.token = teslaToken.consent])
      BY <2>1 DEF Presses, Request
    <3>2. teslaToken.consent \in Nat
      <4>1. teslaToken \in [consent : Nat, due : BOOLEAN]
        BY DEF ConsentInv
      <4> QED BY <4>1
    <3> QED BY <3>1, <3>2
  <2>2. CASE \E k \in DOMAIN consents : CallsBack(k)
    BY <1>2, <2>2 DEF CallsBack, Request
  <2> QED BY <2>1, <2>2
<1>5. ASSUME NEW kind \in {"check", "push", "callback"}, NEW step \in {"listing", "exchanging"},
             NEW k \in Nat, step = "exchanging" => k \in 1..n,
             acts' = Append(acts, [Ended EXCEPT !.kind = kind, !.at = step, !.token = k])
      PROVE  ActsHold(acts', n, accepted, Buildable) /\ (Owing(acts) => Owing(acts'))
  <2> DEFINE a == [Ended EXCEPT !.kind = kind, !.at = step, !.token = k]
  <2>1. a \in Act
    BY <1>2, EndedIs DEF Act
  <2>2. a.at = step /\ a.token = k /\ a.sent = FALSE
    BY DEF Ended
  <2> HIDE DEF a
  <2>3. ActSound(a, n, accepted, Buildable)
    BY <1>5, <2>2 DEF ActSound
  <2> QED BY <1>2, <1>3, <1>5, <2>1, <2>3, ActBegins DEF a
<1>6. CASE acts' = acts
  BY <1>1, <1>3, <1>6
<1>7. ASSUME NEW k \in Nat,
             acts' = Append(acts, [Ended EXCEPT !.kind = "check", !.at = "listing", !.token = k])
      PROVE  ActsHold(acts', n, accepted, Buildable) /\ (Owing(acts) => Owing(acts'))
  BY <1>7, <1>5
<1>8. ASSUME NEW k \in Nat,
             acts' = Append(acts, [Ended EXCEPT !.kind = "push", !.at = "listing", !.token = k])
      PROVE  ActsHold(acts', n, accepted, Buildable) /\ (Owing(acts) => Owing(acts'))
  BY <1>8, <1>5
<1>9. ASSUME NEW k \in 1..n,
             acts' = Append(acts, [Ended EXCEPT !.kind = "callback", !.at = "exchanging", !.token = k])
      PROVE  ActsHold(acts', n, accepted, Buildable) /\ (Owing(acts) => Owing(acts'))
  <2>1. k \in Nat
    BY <1>2
  <2> QED BY <1>9, <1>5, <2>1
<1> QED BY <1>1, <1>4, <1>6, <1>7, <1>8, <1>9

LEMMA ConsentStep ==
  ASSUME ConsentInv, [ConsentNext]_consentVars
  PROVE  ConsentInv'
<1>1. /\ consents' \in Seq(Replies) /\ Len(consents) <= Len(consents') /\ Len(consents') \in Nat
      /\ Len(consents) \in Nat
  BY ConsentsStep DEF ConsentInv
<1>2. /\ teslaToken' \in [consent : Nat, due : BOOLEAN]
      /\ teslaToken' # NoToken => teslaToken'.consent \in DOMAIN consents'
      /\ ConsentHeld'
  BY TokenStep
<1>3. car' \in [config : {NoConfig, Desired} \cup Others, synced : BOOLEAN, able : BOOLEAN]
  BY CarStep DEF ConsentInv
<1>4. /\ ActsHold(acts, Len(consents), accepted, Buildable) /\ accepted \in BOOLEAN
      /\ status.pushed => accepted
      /\ accepted => status.pushed \/ untold \/ Owing(acts)
  BY DEF ConsentInv
<1> DEFINE Kept == /\ accepted' \in BOOLEAN
                   /\ ActsHold(acts', Len(consents'), accepted', Buildable)
                   /\ status'.pushed => accepted'
                   /\ accepted' => status'.pushed \/ untold' \/ Owing(acts')
<1>5. ASSUME NEW r \in DOMAIN acts, ActMoves(r), accepted' \in BOOLEAN, accepted => accepted',
             status.pushed => status'.pushed, untold => untold', status'.pushed => accepted'
      PROVE  Kept
  <2>1. PICK a \in Act : /\ acts' = [acts EXCEPT ![r] = a]
                         /\ ActSound(a, Len(consents), accepted', Buildable)
                         /\ Owes(acts[r]) => Owes(a) \/ status'.pushed \/ untold'
                         /\ accepted' /\ ~accepted => Owes(a)
    BY <1>5 DEF ActMoves
  <2>2. /\ ActsHold(acts', Len(consents), accepted', Buildable)
        /\ Owing(acts) /\ ~Owes(acts[r]) => Owing(acts')
        /\ Owes(a) => Owing(acts')
    <3> DEFINE n == Len(consents)
               takes == accepted'
               built == Buildable
    <3>1. /\ n \in Nat /\ ActSound(a, n, takes, built) /\ acts' = [acts EXCEPT ![r] = a]
          /\ ActsHold(acts, n, accepted, built)
      BY <1>1, <1>4, <2>1
    <3>2. accepted => takes
      BY <1>5
    <3> HIDE DEF n, takes, built
    <3>3. /\ ActsHold(acts', n, takes, built)
          /\ Owing(acts) /\ ~Owes(acts[r]) => Owing(acts')
          /\ Owes(a) => Owing(acts')
      BY <3>1, <3>2, ActChanged
    <3> QED BY <3>3 DEF n, takes, built
  <2>3. ActsHold(acts', Len(consents'), accepted', Buildable)
    BY <1>1, <2>2 DEF ActsHold, ActSound
  <2> QED BY <1>4, <1>5, <2>1, <2>2, <2>3
<1>6. ASSUME ActsHold(acts', Len(consents), accepted, Buildable), Owing(acts) => Owing(acts'),
             accepted' = accepted, status' = status, untold' = untold
      PROVE  Kept
  <2>1. ActsHold(acts', Len(consents'), accepted', Buildable)
    BY <1>1, <1>6 DEF ActsHold, ActSound
  <2> QED BY <1>4, <1>6, <2>1
<1>7. ASSUME \/ \E kind \in {"check", "push"} : Presses(kind)
             \/ \E k \in DOMAIN consents : CallsBack(k)
      PROVE  Kept
  BY <1>7, <1>6, Beginning
<1>8. ASSUME \/ ConnectsTesla \/ TokenDue \/ Disconnects \/ CarChanges \/ UNCHANGED consentVars
             \/ \E k \in DOMAIN consents : OperatorAnswers(k) \/ Withdraws(k)
      PROVE  Kept
  <2>1. acts' = acts /\ accepted' = accepted /\ status' = status /\ untold' = untold
    BY <1>8 DEF ConnectsTesla, TokenDue, Disconnects, CarChanges, OperatorAnswers, Withdraws, row,
                consentVars
  <2> QED BY <1>4, <1>6, <2>1
<1>9. ASSUME NEW r \in DOMAIN acts,
             Exchanges(r) \/ TokenKept(r) \/ ListsVehicles(r) \/ Judges(r) \/ Observes(r)
      PROVE  Kept
  <2>1. ActMoves(r) /\ accepted' = accepted /\ status' = status /\ untold' = untold
    BY <1>9, Advancing, Observing
  <2> QED BY <1>4, <1>5, <2>1
<1>10. ASSUME NEW r \in DOMAIN acts, TeslaTakes(r) \/ Taken(r)
       PROVE  Kept
  <2>1. /\ ActMoves(r) /\ accepted' \in BOOLEAN /\ (accepted => accepted')
        /\ status' = status /\ untold' = untold
    BY <1>10, Sending
  <2> QED BY <1>4, <1>5, <2>1
<1>11. ASSUME NEW r \in DOMAIN acts, TeslaFails(r) \/ RecordsAct(r) \/ RecordingFails(r)
       PROVE  Kept
  <2>1. /\ ActMoves(r) /\ accepted' = accepted /\ (untold => untold')
        /\ (status.pushed => status'.pushed) /\ (status'.pushed => accepted)
    BY <1>11, Ending
  <2> QED BY <1>4, <1>5, <2>1
<1> HIDE DEF Kept
<1>12. Kept
  BY <1>7, <1>8, <1>9, <1>10, <1>11 DEF ConsentNext
<1>13. /\ accepted' \in BOOLEAN /\ ActsHold(acts', Len(consents'), accepted', Buildable)
       /\ status'.pushed => accepted'
       /\ accepted' => status'.pushed \/ untold' \/ Owing(acts')
  BY <1>12 DEF Kept
<1>14. Buildable' = Buildable
  <2>1. mount' = mount
    BY Zenon DEF ConsentNext, outside, consentVars, ConnectsTesla, TokenDue, Disconnects, Presses,
       OperatorAnswers, CallsBack, Withdraws, Exchanges, TokenKept, ListsVehicles, Observes, Judges,
       Taken, TeslaTakes, TeslaFails, RecordsAct, RecordingFails, CarChanges
  <2> QED BY <2>1 DEF Buildable
<1>15. ActsHold(acts', Len(consents'), accepted', Buildable')
  BY <1>13, <1>14
<1> QED BY <1>1, <1>2, <1>3, <1>13, <1>15, Zenon DEF ConsentInv

\* What the requests hold makes the judgements right, the comparison with an echo included.
LEMMA ConsentFollows ==
  ASSUME ConsentInv
  PROVE  ConsentSound
<1>1. PushesOnRecord
  BY DEF ConsentInv, PushesOnRecord, Owing, Owes, ActAt
<1>2. PushesJudged
  <2> SUFFICES ASSUME NEW r \in DOMAIN acts
               PROVE  LET had == acts[r].saw.config \in Wanted /\ acts[r].saw.synced IN
                      /\ acts[r].at \in {"sending", "taken"} => ~had /\ acts[r].saw.able /\ Buildable
                      /\ acts[r].kind = "push" /\ ActAt(r, "recording")
                           => acts[r].sent \/ had \/ ~acts[r].saw.able
    BY DEF PushesJudged, Wanted
  <2> DEFINE p == acts[r]
  <2>1. p \in Act /\ ActSound(p, Len(consents), accepted, Buildable)
    <3>1. acts \in Seq(Act) /\ ActSound(acts[r], Len(consents), accepted, Buildable)
      BY DEF ConsentInv, ActsHold
    <3> HIDE DEF ConsentInv
    <3> QED BY <3>1, ElementOfSeq
  <2>2. p.saw.config \in SeenConfigs
    <3>1. p.saw \in [config : SeenConfigs, synced : BOOLEAN, able : BOOLEAN]
      BY <2>1 DEF Act
    <3> QED BY <3>1
  <2>3. Matches(p.saw.config) <=> p.saw.config \in Wanted
    BY <2>2, MatchesWanted
  <2>4. Needed(p.saw) <=> p.saw.able /\ ~(p.saw.config \in Wanted /\ p.saw.synced)
    BY <2>3 DEF Needed
  <2> HIDE DEF p
  <2>5. /\ p.at \in {"sending", "taken"} => Needed(p.saw) /\ Buildable
        /\ p.kind = "push" /\ p.at = "recording" => p.sent \/ ~Needed(p.saw)
    BY <2>1 DEF ActSound
  <2> QED BY <2>4, <2>5 DEF ActAt, p
<1>3. ConsentHeld
  BY DEF ConsentInv
<1> QED BY <1>1, <1>2, <1>3 DEF ConsentSound

\* A push is sent when, and only when, the car that was seen lacks something of the configuration
\* that is wanted and could apply it, in whatever way Tesla writes its zeroes; what Tesla took is on
\* record as soon as its request ends, unless an answer was lost, and nothing else is; and the token
\* held is one whose code was exchanged without a standing grant (telemetry.ts, pushTelemetry;
\* telemetry-config.ts, compareTelemetryConfig; callback/+server.ts). For every catalogue, every
\* number of consents and requests.
THEOREM PushesHold == ConsentSpec => []ConsentSound
<1>1. ConsentInit => ConsentInv
  <2> SUFFICES ASSUME ConsentInit PROVE ConsentInv
    OBVIOUS
  <2>1. <<>> \in Seq(Replies) /\ <<>> \in Seq(Act)
    BY EmptySeq
  <2>2. ActsHold(acts, Len(consents), accepted, Buildable)
    BY <2>1 DEF ConsentInit, ActsHold
  <2>3. NoToken \in [consent : Nat, due : BOOLEAN] /\ teslaToken = NoToken
    BY DEF ConsentInit, NoToken
  <2>4. car \in [config : {NoConfig, Desired} \cup Others, synced : BOOLEAN, able : BOOLEAN]
    <3> DEFINE C == {NoConfig, Desired} \cup Others
    <3>1. NoConfig \in C
      OBVIOUS
    <3> HIDE DEF C
    <3>2. /\ Unseen \in [config : C, synced : BOOLEAN, able : BOOLEAN]
          /\ [Unseen EXCEPT !.able = TRUE] \in [config : C, synced : BOOLEAN, able : BOOLEAN]
      BY <3>1 DEF Unseen
    <3>3. car \in {Unseen, [Unseen EXCEPT !.able = TRUE]}
      BY DEF ConsentInit
    <3> QED BY <3>2, <3>3 DEF C
  <2>5. /\ consents = <<>> /\ accepted = FALSE
        /\ status = [there |-> FALSE, saw |-> Unseen, pushed |-> FALSE]
    BY DEF ConsentInit
  <2>6. ~status.pushed
    BY <2>5
  <2> QED BY <2>1, <2>2, <2>3, <2>4, <2>5, <2>6 DEF ConsentInv, ConsentHeld
<1>2. ConsentInv /\ [ConsentNext]_consentVars => ConsentInv'
  BY ConsentStep
<1>3. ConsentInv => ConsentSound
  BY ConsentFollows
<1> QED BY <1>1, <1>2, <1>3, PTL DEF ConsentSpec

-----------------------------------------------------------------------------
(* Socket: the invariant of one connection and its lifecycle.              *)

Calls == {"data", "refusal", "error", "ending"}
Messages == {"connection_init", "pong", "subscribe", "complete"}

\* Before there is a socket nothing was heard, sent, told or asked.
Untouched ==
  /\ phase = "awaiting_ack" /\ promise = "pending" /\ ~ackTimer /\ ~seen /\ frame = Unsaid
  /\ calls = <<>> /\ sent = <<>> /\ why = Unsaid /\ letGo = Unsaid
  /\ task = "none" /\ asks = 0 /\ asksAtEnd = Unsaid

\* How the promise, the phase and the caller go together.
Promised ==
  /\ promise \in {"pending", "resolved", "no_ack", "closed", "error", "rate_limited", "unauthenticated"}
  /\ phase \in {"awaiting_ack", "acked", "over"}
  /\ (promise = "pending") = (phase = "awaiting_ack")
  /\ phase = "acked" => promise = "resolved"
  /\ seen => promise # "pending"
  /\ caller = "opening" => ~seen
  /\ caller = "holds" => seen /\ promise = "resolved"
  /\ promise = "resolved" /\ caller \in {"opening", "holds"} => phase = "acked" /\ readyState # "closed"
  /\ caller \notin {"opening", "holds"} /\ seen /\ promise = "resolved" => phase = "over"

\* What was heard and said: an ending is the last thing, and a socket begins once.
Spoken ==
  /\ calls \in Seq(Calls) /\ sent \in Seq(Messages)
  /\ phase # "over" => \A i \in DOMAIN calls : calls[i] # "ending"
  /\ letGo # Unsaid => phase = "over"
  /\ readyState = "connecting" => sent = <<>>
  /\ readyState = "open" => sent # <<>>

\* A verdict is the frame's, and no frame comes once the socket is closed.
Verdicts ==
  /\ frame = Unsaid \/ frame \in CloseFrames
  /\ promise = "unauthenticated" => ClosedDead
  /\ promise \in {"closed", "error", "rate_limited", "unauthenticated"} => readyState = "closed"
  /\ promise \in {"closed", "error", "rate_limited"} => ~ClosedDead
  /\ caller = "backing off" /\ promise # "no_ack" => readyState = "closed"
  /\ why = "rate_limited" => readyState = "closed"

\* The tasks of a lifecycle that has ended wait for nothing.
Quieted ==
  /\ asks \in Nat
  /\ asksAtEnd # Unsaid => ~Alive
  /\ ~Alive => task # "due"

SocketInv ==
  /\ readyState \in {"idle", "connecting", "open", "closing", "closed"}
  /\ readyState = "idle" => Untouched
  /\ readyState # "idle" =>
       /\ caller \in {"opening", "holds", "dead", "backing off", "gone"}
       /\ Promised /\ Spoken /\ Verdicts /\ Quieted
  /\ OneConnection

LEMMA UnsaidIsNoWord ==
  Unsaid \notin {"unauthenticated", "rate_limited", "wrong credentials"}
BY SocketAssumption, Zenon

\* Before the socket: a call is answered, made again, or given up.
LEMMA StillIdle ==
  ASSUME SocketInv, FreshSession \/ \E s \in {Unsaid, 200, 400, 401, 429}, b \in Bodies : CallFails(s, b)
  PROVE  SocketInv'
<1>1. /\ UNCHANGED <<wsVars, openVars, toldVars, slowVars>>
      /\ caller \in {"asking", "asking again", "refused"}
  BY DEF FreshSession, CallFails
<1>2. readyState = "idle" /\ Untouched
  <2>1. readyState # "idle" => caller \in {"opening", "holds", "dead", "backing off", "gone"}
    BY DEF SocketInv
  <2>2. readyState = "idle" => Untouched
    BY DEF SocketInv
  <2> QED BY <1>1, <2>1, <2>2
<1>3. UNCHANGED <<readyState, dropped, frame, failure, phase, ackTimer, promise, sent, calls, why,
                  letGo, seen, task, asks, asksAtEnd>>
  BY <1>1 DEF wsVars, openVars, toldVars, slowVars
<1>4. readyState' = "idle" /\ Untouched'
  BY <1>2, <1>3 DEF Untouched
<1> HIDE DEF Untouched
<1>5. OneConnection'
  BY <1>4 DEF Untouched, OneConnection, DeadHeard, OneEnding, SilentAfter
<1> QED BY <1>4, <1>5 DEF SocketInv

\* The invariant when there is a socket, in the parts a step can disturb.
HeldInv ==
  /\ readyState \in {"connecting", "open", "closing", "closed"}
  /\ caller \in {"opening", "holds", "dead", "backing off", "gone"}
  /\ Promised /\ Spoken /\ Verdicts /\ Quieted
  /\ DeadHeard /\ OneEnding /\ SilentAfter

LEMMA SocketParts ==
  /\ SocketInv /\ readyState # "idle" => HeldInv
  /\ SocketInv /\ readyState = "idle" => Untouched
  BY DEF SocketInv, HeldInv, OneConnection

LEMMA SocketHeld ==
  ASSUME HeldInv'
  PROVE  SocketInv'
  BY DEF SocketInv, HeldInv, OneConnection

LEMMA SocketOpens ==
  ASSUME SocketInv, OpensSocket
  PROVE  SocketInv'
<1>1. readyState = "idle"
  BY DEF OpensSocket, SocketInv
<1>2. /\ phase = "awaiting_ack" /\ promise = "pending" /\ ~seen /\ frame = Unsaid
      /\ calls = <<>> /\ sent = <<>> /\ why = Unsaid /\ letGo = Unsaid /\ asksAtEnd = Unsaid
  BY <1>1, SocketParts DEF Untouched
<1>3. /\ caller' = "opening" /\ readyState' = "connecting" /\ ackTimer' /\ asks' = 1
      /\ asksAtEnd' = asksAtEnd /\ frame' = frame /\ phase' = phase /\ promise' = promise
      /\ sent' = sent /\ calls' = calls /\ why' = why /\ letGo' = letGo /\ seen' = seen
  BY DEF OpensSocket, toldVars
<1>4. Promised' /\ Quieted'
  BY <1>2, <1>3 DEF Promised, Quieted, Alive
<1>5. Spoken'
  <2>1. <<>> \in Seq(Calls) /\ <<>> \in Seq(Messages)
    BY EmptySeq
  <2> QED BY <1>2, <1>3, <2>1 DEF Spoken
<1>6. Verdicts'
  BY <1>2, <1>3, UnsaidIsNoWord DEF Verdicts
<1>7. DeadHeard' /\ OneEnding' /\ SilentAfter'
  <2>1. DeadHeard'
    BY <1>2, <1>3, UnsaidIsNoWord DEF DeadHeard
  <2>2. DOMAIN calls' = {} /\ DOMAIN sent' = {}
    BY <1>2, <1>3
  <2>3. OneEnding'
    BY <1>2, <1>3, <2>2 DEF OneEnding
  <2>4. SilentAfter'
    BY <1>2, <1>3 DEF SilentAfter
  <2> QED BY <2>1, <2>3, <2>4
<1> QED BY <1>3, <1>4, <1>5, <1>6, <1>7, SocketHeld DEF HeldInv

\* The slow tasks, of which no word is heard but by Rivian.
LEMMA TasksStep ==
  ASSUME SocketInv, TaskStarts \/ TaskAnswered \/ TaskRemade
  PROVE  SocketInv'
<1>1. /\ UNCHANGED <<caller, wsVars, openVars, toldVars, asksAtEnd>>
      /\ task # "none"
  BY DEF TaskStarts, TaskAnswered, TaskRemade
<1>2. readyState # "idle"
  BY <1>1, SocketParts DEF Untouched
<1>3. HeldInv
  BY <1>2, SocketParts
<1>4. UNCHANGED <<caller, readyState, dropped, frame, failure, phase, ackTimer, promise, sent, calls,
                  why, letGo, seen, asksAtEnd>>
  BY <1>1 DEF wsVars, openVars, toldVars
<1>5. Promised' /\ Spoken' /\ Verdicts' /\ DeadHeard' /\ OneEnding'
  <2>1. Promised'
    BY <1>3, <1>4 DEF HeldInv, Promised
  <2>2. Spoken'
    BY <1>3, <1>4 DEF HeldInv, Spoken
  <2>3. Verdicts' /\ DeadHeard'
    BY <1>3, <1>4 DEF HeldInv, Verdicts, DeadHeard, ClosedDead
  <2>4. OneEnding'
    BY <1>3, <1>4 DEF HeldInv, OneEnding
  <2> QED BY <2>1, <2>2, <2>3, <2>4
<1>6. asks \in Nat /\ (~Alive => task # "due") /\ (asksAtEnd # Unsaid => ~Alive)
  BY <1>3 DEF HeldInv, Quieted
<1>7. /\ asks' \in {asks, asks + 1} /\ (asks' # asks => Alive)
      /\ (~Alive => task' # "due")
  BY <1>6 DEF TaskStarts, TaskAnswered, TaskRemade, TaskDue
<1>8. Quieted' /\ SilentAfter'
  <2>1. caller' = caller /\ asksAtEnd' = asksAtEnd
    BY <1>4
  <2>2. asks' \in Nat
    BY <1>6, <1>7
  <2>3. Alive' <=> Alive
    BY <2>1 DEF Alive
  <2>4. SilentAfter
    BY <1>3 DEF HeldInv
  <2>5. asksAtEnd # Unsaid => asks' = asks
    BY <1>6, <1>7
  <2> QED BY <1>6, <1>7, <2>1, <2>2, <2>3, <2>4, <2>5 DEF Quieted, SilentAfter
<1> QED BY <1>3, <1>4, <1>5, <1>8, SocketHeld DEF HeldInv

\* A lifecycle that is over by a step leaves its count behind.
LEMMA LifecycleKeeps ==
  ASSUME Quieted, SilentAfter, Lifecycle, ~Alive => ~(Alive')
  PROVE  Quieted' /\ SilentAfter'
<1>1. /\ asks' = asks
      /\ task' = IF (Alive /\ caller' \in {"dead", "gone"}) /\ task = "due" THEN "none" ELSE task
      /\ asksAtEnd' = IF Alive /\ caller' \in {"dead", "gone"} THEN asks ELSE asksAtEnd
  BY DEF Lifecycle
<1>2. Alive' <=> caller' \notin {"dead", "gone"}
  BY DEF Alive
<1> QED BY <1>1, <1>2 DEF Quieted, SilentAfter

\* What the wire does without a word to the caller: the handshake, a ping, a close frame, a loss.
LEMMA WireStep ==
  ASSUME SocketInv, WsOpens \/ PingArrives \/ ServerCloses \/ WsDrops
  PROVE  SocketInv'
<1>1. /\ UNCHANGED <<caller, phase, ackTimer, promise, calls, why, letGo, seen, task, asks, asksAtEnd>>
      /\ readyState \in {"connecting", "open", "closing"}
      /\ readyState' \in {"connecting", "open", "closing"}
  BY DEF WsOpens, PingArrives, ServerCloses, WsDrops, CanRead, openVars, toldVars, wsVars, slowVars
<1>2. HeldInv
  BY <1>1, SocketParts
<1>3. Promised' /\ Quieted' /\ SilentAfter'
  BY <1>1, <1>2 DEF HeldInv, Promised, Quieted, SilentAfter, Alive
<1>4. /\ sent' \in Seq(Messages)
      /\ \A i \in DOMAIN sent' : (sent'[i] = "connection_init") <=> (i = 1)
      /\ readyState' = "connecting" => sent' = <<>>
      /\ readyState' = "open" => sent' # <<>>
  <2> DEFINE M == Messages
  <2>0. /\ sent \in Seq(M) /\ (readyState = "connecting" => sent = <<>>)
        /\ (readyState = "open" => sent # <<>>)
        /\ \A i \in DOMAIN sent : (sent[i] = "connection_init") <=> (i = 1)
    BY <1>2 DEF HeldInv, Spoken, OneEnding
  <2>1. "connection_init" \in M /\ "pong" \in M
    BY DEF Messages
  <2> HIDE DEF M
  <2>2. CASE WsOpens
    <3>1. sent = <<>> /\ sent' = Append(sent, "connection_init") /\ readyState' = "open"
      BY <2>0, <2>2 DEF WsOpens
    <3>2. sent' = <<"connection_init">>
      BY <3>1
    <3> QED BY <2>0, <2>1, <3>1, <3>2 DEF M
  <2>3. CASE PingArrives
    <3>1. /\ readyState' = readyState /\ readyState # "connecting"
          /\ sent' = IF readyState = "open" THEN Append(sent, "pong") ELSE sent
      BY <2>3 DEF PingArrives, Sends, CanRead, wsVars
    <3>2. CASE readyState = "open"
      <4>1. sent' = Append(sent, "pong") /\ sent # <<>>
        BY <2>0, <3>1, <3>2
      <4>2. /\ sent' \in Seq(M) /\ Len(sent) \in Nat /\ DOMAIN sent = 1..Len(sent)
            /\ Len(sent') = Len(sent) + 1 /\ DOMAIN sent' = 1..Len(sent')
            /\ \A i \in 1..Len(sent) : sent'[i] = sent[i]
            /\ sent'[Len(sent) + 1] = "pong"
        BY <2>0, <2>1, <4>1, AppendProperties, LenProperties
      <4>3. Len(sent) # 0
        BY <2>0, <4>1, EmptySeq
      <4>4. \A i \in DOMAIN sent' : (sent'[i] = "connection_init") <=> (i = 1)
        BY <2>0, <4>2, <4>3
      <4>5. sent' # <<>>
        BY <4>2
      <4> QED BY <3>1, <3>2, <4>2, <4>4, <4>5 DEF M
    <3>3. CASE readyState # "open"
      BY <2>0, <3>1, <3>3 DEF M
    <3> QED BY <3>2, <3>3
  <2>4. CASE ServerCloses \/ WsDrops
    <3>1. sent' = sent /\ readyState' = "closing"
      BY <2>4 DEF ServerCloses, WsDrops, toldVars
    <3> QED BY <2>0, <3>1 DEF M
  <2> QED BY <2>2, <2>3, <2>4
<1>5. Spoken'
  BY <1>1, <1>2, <1>4 DEF HeldInv, Spoken
<1>6. OneEnding'
  BY <1>1, <1>2, <1>4 DEF HeldInv, OneEnding
<1>7. \/ frame' = frame
      \/ /\ frame = Unsaid /\ frame' \in CloseFrames
  BY DEF WsOpens, PingArrives, ServerCloses, WsDrops, CanRead, wsVars
<1>8. promise \in {"pending", "resolved", "no_ack"} /\ (caller = "backing off" => promise = "no_ack")
  BY <1>1, <1>2 DEF HeldInv, Promised, Verdicts
<1>9. Verdicts'
  <2>1. frame' = Unsaid \/ frame' \in CloseFrames
    BY <1>2, <1>7 DEF HeldInv, Verdicts
  <2>2. why # "rate_limited"
    BY <1>1, <1>2 DEF HeldInv, Verdicts
  <2> QED BY <1>1, <1>8, <2>1, <2>2 DEF Verdicts
<1>10. DeadHeard'
  <2>1. ClosedDead => ClosedDead'
    BY <1>7 DEF ClosedDead
  <2>2. why # "rate_limited"
    BY <1>1, <1>2 DEF HeldInv, Verdicts
  <2>3. caller = "dead" => ClosedDead \/ Contains(calls, "refusal")
    BY <1>1, <1>2 DEF HeldInv, DeadHeard
  <2> QED BY <1>1, <1>8, <2>1, <2>2, <2>3 DEF DeadHeard
<1> QED BY <1>1, <1>2, <1>3, <1>5, <1>6, <1>9, <1>10, SocketHeld DEF HeldInv

\* The ack, or the end of the wait for it.
LEMMA AckStep ==
  ASSUME SocketInv, AckArrives \/ AckTimeout
  PROVE  SocketInv'
<1>1. /\ UNCHANGED <<caller, frame, sent, calls, why, letGo, seen, task, asks, asksAtEnd>>
      /\ ~(ackTimer')
  BY DEF AckArrives, AckTimeout, toldVars, wsVars, slowVars
<1>2. readyState # "idle" /\ HeldInv
  <2>1. AckArrives => readyState # "idle"
    BY DEF AckArrives, CanRead
  <2>2. AckTimeout => readyState # "idle"
    BY SocketParts DEF AckTimeout, Untouched
  <2> QED BY <2>1, <2>2, SocketParts
<1>3. phase = "awaiting_ack" /\ promise = "pending" /\ readyState # "closed"
  <2>1. AckTimeout => phase = "awaiting_ack"
    BY <1>2 DEF AckTimeout, HeldInv, OneEnding
  <2>2. phase = "awaiting_ack"
    BY <2>1 DEF AckArrives
  <2>3. promise = "pending"
    BY <1>2, <2>2 DEF HeldInv, Promised
  <2> QED BY <1>2, <2>2, <2>3 DEF HeldInv, OneEnding
<1>4. \/ phase' = "acked" /\ promise' = "resolved" /\ readyState' = readyState
      \/ phase' = "over" /\ promise' = "no_ack" /\ readyState' = "closing"
  BY <1>3 DEF AckArrives, AckTimeout, wsVars
<1>5. ~seen /\ caller # "holds"
  BY <1>2, <1>3 DEF HeldInv, Promised
<1>6. Promised'
  BY <1>1, <1>2, <1>3, <1>4, <1>5 DEF HeldInv, Promised
<1>7. Quieted' /\ SilentAfter'
  BY <1>1, <1>2 DEF HeldInv, Quieted, SilentAfter, Alive
<1>8. Spoken'
  BY <1>1, <1>2, <1>3, <1>4 DEF HeldInv, Spoken
<1>9. caller # "backing off" /\ why # "rate_limited"
  BY <1>2, <1>3 DEF HeldInv, Verdicts
<1>10. Verdicts' /\ DeadHeard'
  BY <1>1, <1>2, <1>3, <1>4, <1>9 DEF HeldInv, Verdicts, DeadHeard, ClosedDead
<1>11. OneEnding'
  <2>1. calls = <<>>
    BY <1>2, <1>3 DEF HeldInv, OneEnding
  <2> QED BY <1>1, <1>2, <1>3, <1>4, <1>5, <2>1 DEF HeldInv, OneEnding
<1> QED BY <1>1, <1>2, <1>4, <1>6, <1>7, <1>8, <1>10, <1>11, SocketHeld DEF HeldInv

\* One more thing is heard.
LEMMA Heard ==
  ASSUME calls \in Seq(Calls), NEW c \in Calls, calls' = Append(calls, c)
  PROVE  /\ calls' \in Seq(Calls) /\ Len(calls') = Len(calls) + 1 /\ Len(calls) \in Nat
         /\ DOMAIN calls = 1..Len(calls) /\ DOMAIN calls' = 1..Len(calls')
         /\ \A i \in 1..Len(calls) : calls'[i] = calls[i]
         /\ calls'[Len(calls')] = c
         /\ Contains(calls, "refusal") => Contains(calls', "refusal")
         /\ c = "refusal" => Contains(calls', "refusal")
<1> DEFINE C == Calls
<1>1. calls \in Seq(C) /\ c \in C
  OBVIOUS
<1> HIDE DEF C
<1>2. /\ calls' \in Seq(C) /\ Len(calls') = Len(calls) + 1 /\ Len(calls) \in Nat
      /\ DOMAIN calls = 1..Len(calls) /\ DOMAIN calls' = 1..Len(calls')
      /\ \A i \in 1..Len(calls) : calls'[i] = calls[i]
      /\ calls'[Len(calls) + 1] = c
  BY <1>1, AppendProperties, LenProperties
<1>3. Contains(calls, "refusal") => Contains(calls', "refusal")
  BY <1>2 DEF Contains
<1>4. c = "refusal" => Contains(calls', "refusal")
  BY <1>2 DEF Contains
<1> QED BY <1>2, <1>3, <1>4 DEF C

\* What is said of an ending keeps to its place.
EndingLast(s) == \A i \in DOMAIN s : s[i] = "ending" => i = Len(s)

LEMMA HeardLast ==
  ASSUME calls \in Seq(Calls), NEW c \in Calls, calls' = Append(calls, c),
         \A i \in DOMAIN calls : calls[i] # "ending"
  PROVE  EndingLast(calls') /\ (c # "ending" => \A i \in DOMAIN calls' : calls'[i] # "ending")
<1>1. /\ Len(calls') = Len(calls) + 1 /\ Len(calls) \in Nat
      /\ DOMAIN calls = 1..Len(calls) /\ DOMAIN calls' = 1..Len(calls')
      /\ \A i \in 1..Len(calls) : calls'[i] = calls[i]
      /\ calls'[Len(calls')] = c
  BY Heard
<1> QED BY <1>1 DEF EndingLast

\* A frame that is data, or an error; one of them may be the end of the lifecycle.
LEMMA FrameStep ==
  ASSUME SocketInv, DataArrives \/ ErrorArrives
  PROVE  SocketInv'
<1>1. /\ UNCHANGED <<frame, dropped, failure, ackTimer, promise, sent, why, seen>>
      /\ CanRead /\ phase = "acked"
  BY DEF DataArrives, ErrorArrives, wsVars, openVars
<1>2. readyState \in {"open", "closing"} /\ frame = Unsaid
  BY <1>1 DEF CanRead
<1>3. HeldInv
  BY <1>2, SocketParts
<1>4. PICK c \in {"data", "refusal", "error"} :
        /\ calls' = Append(calls, c)
        /\ \/ UNCHANGED <<caller, phase, letGo, readyState, task, asks, asksAtEnd>>
           \/ /\ c = "refusal" /\ Lifecycle /\ caller = "opening" /\ caller' = "dead"
              /\ UNCHANGED <<phase, letGo, readyState>>
           \/ c = "refusal" /\ Lifecycle /\ caller = "holds" /\ caller' = "dead" /\ Closes
           \/ Lifecycle /\ UNCHANGED <<caller, phase, letGo, readyState>>
  <2>1. CASE DataArrives
    BY <2>1 DEF DataArrives, wsVars, openVars, slowVars
  <2>2. CASE ErrorArrives
    <3>1. PICK dead \in ErrorVerdicts :
            /\ calls' = Append(calls, IF dead THEN "refusal" ELSE "error")
            /\ caller' = IF dead /\ caller \in {"opening", "holds"} THEN "dead" ELSE caller
            /\ IF dead /\ caller = "holds" THEN Closes ELSE UNCHANGED <<phase, letGo, readyState>>
      BY <2>2 DEF ErrorArrives
    <3>2. Lifecycle
      BY <2>2 DEF ErrorArrives
    <3>3. CASE dead /\ caller = "holds"
      BY <3>1, <3>2, <3>3
    <3>4. CASE dead /\ caller # "holds"
      BY <3>1, <3>2, <3>4
    <3>5. CASE ~dead
      BY <3>1, <3>2, <3>5
    <3> QED BY <3>3, <3>4, <3>5
  <2> QED BY <2>1, <2>2
<1>5. /\ calls \in Seq(Calls) /\ \A i \in DOMAIN calls : calls[i] # "ending"
      /\ letGo = Unsaid /\ promise = "resolved" /\ ~ackTimer
  BY <1>1, <1>3 DEF HeldInv, Spoken, Promised, OneEnding
<1>6. c \in Calls /\ c # "ending"
  BY DEF Calls
<1>7. /\ calls' \in Seq(Calls) /\ EndingLast(calls') /\ \A i \in DOMAIN calls' : calls'[i] # "ending"
      /\ Contains(calls, "refusal") => Contains(calls', "refusal")
      /\ c = "refusal" => Contains(calls', "refusal")
  BY <1>4, <1>5, <1>6, Heard, HeardLast
<1>8. /\ caller' = caller \/ (c = "refusal" /\ caller' = "dead" /\ caller \in {"opening", "holds"})
      /\ readyState' \in {"open", "closing"}
      /\ \/ /\ phase' = "acked" /\ letGo' = letGo /\ readyState' = readyState
            /\ caller' = "dead" => caller \in {"dead", "opening"}
         \/ /\ phase' = "over" /\ letGo' = calls' /\ caller' = "dead" /\ caller = "holds"
      /\ readyState' = "open" => readyState = "open"
  BY <1>1, <1>2, <1>4 DEF Closes
<1>9. Promised'
  <2>1. Promised
    BY <1>3 DEF HeldInv
  <2>2. caller = "opening" => ~seen
    BY <2>1 DEF Promised
  <2>3. caller \in {"opening", "holds"} \/ ~seen
    BY <1>1, <1>5, <2>1 DEF Promised
  <2> QED BY <1>1, <1>5, <1>8, <2>1, <2>2, <2>3 DEF Promised
<1>10. Quieted' /\ SilentAfter'
  <2>1. Quieted /\ SilentAfter
    BY <1>3 DEF HeldInv
  <2>2. ~Alive => ~(Alive')
    BY <1>8 DEF Alive
  <2>3. CASE Lifecycle
    BY <2>1, <2>2, <2>3, LifecycleKeeps
  <2>4. CASE UNCHANGED <<caller, phase, letGo, readyState, task, asks, asksAtEnd>>
    BY <2>1, <2>4 DEF Quieted, SilentAfter, Alive
  <2> QED BY <1>4, <2>3, <2>4
<1>11. Spoken'
  BY <1>1, <1>2, <1>3, <1>5, <1>7, <1>8 DEF HeldInv, Spoken
<1>12. Verdicts'
  BY <1>1, <1>2, <1>3, <1>5, <1>8 DEF HeldInv, Verdicts, ClosedDead
<1>13. DeadHeard'
  BY <1>1, <1>2, <1>3, <1>7, <1>8 DEF HeldInv, Verdicts, DeadHeard, ClosedDead
<1>14. OneEnding'
  <2>1. caller' \in {"dead", "gone"} /\ seen => phase' = "over"
    BY <1>1, <1>3, <1>5, <1>8 DEF HeldInv, OneEnding, Promised
  <2> QED BY <1>1, <1>2, <1>3, <1>5, <1>7, <1>8, <2>1 DEF HeldInv, OneEnding, EndingLast
<1> QED BY <1>3, <1>8, <1>9, <1>10, <1>11, <1>12, <1>13, <1>14, SocketHeld DEF HeldInv

\* The verdict of a dead session is read off the frame, and off nothing else.
LEMMA ReasonReads ==
  ASSUME frame = Unsaid \/ frame \in CloseFrames
  PROVE  /\ Reason \in {"unauthenticated", "rate_limited", "error", "closed"}
         /\ (Reason = "unauthenticated") <=> ClosedDead
         /\ Reason = "rate_limited" => frame.code = "other" /\ frame.word = "rate_limited"
<1> DEFINE verdict == IF frame = Unsaid THEN Unsaid
                      ELSE IF frame.code = "auth" THEN "unauthenticated" ELSE frame.word
<1>1. Reason = IF verdict # Unsaid THEN verdict ELSE IF failure THEN "error" ELSE "closed"
  BY DEF Reason, CloseReasonOf
<1>2. CASE frame = Unsaid
  BY <1>1, <1>2 DEF ClosedDead
<1>3. CASE frame # Unsaid /\ frame.code = "auth"
  BY <1>1, <1>3, UnsaidIsNoWord DEF ClosedDead
<1>4. CASE frame # Unsaid /\ frame.code # "auth"
  <2>1. frame.code = "other" /\ frame.word \in {"unauthenticated", "rate_limited", Unsaid}
    BY <1>4 DEF CloseFrames
  <2> QED BY <1>1, <1>4, <2>1, UnsaidIsNoWord DEF ClosedDead
<1> QED BY <1>2, <1>3, <1>4

\* The close event tells the ending, once, to whoever waits for it.
LEMMA CloseStep ==
  ASSUME SocketInv, WsCloses
  PROVE  SocketInv'
<1>1. /\ UNCHANGED <<frame, dropped, failure, sent, seen>>
      /\ readyState = "closing" /\ readyState' = "closed" /\ ~(ackTimer') /\ phase' = "over"
      /\ promise' = IF phase = "awaiting_ack" THEN Reason ELSE promise
      /\ Lifecycle
  BY DEF WsCloses
<1>2. HeldInv
  BY <1>1, SocketParts
<1>3. \/ /\ phase = "acked" /\ calls' = Append(calls, "ending") /\ why' = Reason
         /\ caller' = IF caller \in {"opening", "holds"} THEN EndsFor(Reason) ELSE caller
         /\ letGo' = IF caller = "holds" THEN calls' ELSE letGo
      \/ phase # "acked" /\ UNCHANGED <<calls, why, caller, letGo>>
  BY DEF WsCloses
<1>4. frame = Unsaid \/ frame \in CloseFrames
  BY <1>2 DEF HeldInv, Verdicts
<1>5. /\ Reason \in {"unauthenticated", "rate_limited", "error", "closed"}
      /\ (Reason = "unauthenticated") <=> ClosedDead
      /\ Reason = "rate_limited" => frame.code = "other" /\ frame.word = "rate_limited"
  BY <1>4, ReasonReads
<1>6. EndsFor(Reason) = IF ClosedDead THEN "dead" ELSE "backing off"
  BY <1>5 DEF EndsFor
<1>7. ClosedDead' <=> ClosedDead
  BY <1>1 DEF ClosedDead
<1> DEFINE reason == Reason
<1> HIDE DEF reason
<1>8. /\ Promised /\ Spoken /\ Verdicts /\ DeadHeard /\ OneEnding /\ Quieted /\ SilentAfter
      /\ caller \in {"opening", "holds", "dead", "backing off", "gone"}
  BY <1>2 DEF HeldInv
<1>9. /\ (phase = "awaiting_ack" => promise = "pending") /\ (phase # "awaiting_ack" => promise # "pending")
      /\ promise \in {"pending", "resolved", "no_ack"}
      /\ (phase = "acked" => promise = "resolved" /\ letGo = Unsaid)
      /\ (phase = "over" => (caller = "opening" => ~seen /\ promise # "resolved"))
      /\ (phase # "acked" => caller # "holds")
      /\ (phase = "awaiting_ack" => ~seen)
  BY <1>1, <1>8 DEF Promised, Spoken, Verdicts
<1>10. caller' \in {"opening", "dead", "backing off", "gone"}
  BY <1>3, <1>6, <1>8, <1>9
<1>11. Promised'
  <2>1. promise' \in {"resolved", "no_ack", "closed", "error", "rate_limited", "unauthenticated"}
    BY <1>1, <1>5, <1>9
  <2>2. caller' = "opening" => phase # "acked" /\ caller = "opening"
    BY <1>3, <1>6
  <2>3. caller' = "opening" => ~seen /\ promise' # "resolved"
    <3>1. caller' = "opening" => ~seen
      BY <1>8, <2>2 DEF Promised
    <3>2. caller' = "opening" => promise' # "resolved"
      <4>1. CASE phase = "awaiting_ack"
        BY <1>1, <1>5, <4>1
      <4>2. CASE phase = "over"
        BY <1>1, <1>9, <2>2, <4>2
      <4> QED BY <1>8, <2>2, <4>1, <4>2 DEF Promised
    <3> QED BY <3>1, <3>2
  <2> QED BY <1>1, <1>10, <2>1, <2>3 DEF Promised
<1>12. Quieted' /\ SilentAfter'
  <2>1. ~Alive => ~(Alive')
    BY <1>3 DEF Alive
  <2> QED BY <1>1, <1>8, <2>1, LifecycleKeeps
<1>13. /\ calls' \in Seq(Calls) /\ EndingLast(calls')
       /\ Contains(calls, "refusal") => Contains(calls', "refusal")
  <2>1. CASE phase = "acked"
    <3>1. calls \in Seq(Calls) /\ (\A i \in DOMAIN calls : calls[i] # "ending") /\ "ending" \in Calls
      BY <1>8, <2>1 DEF Spoken, Calls
    <3> QED BY <1>3, <2>1, <3>1, Heard, HeardLast
  <2>2. CASE phase # "acked"
    BY <1>3, <1>8, <2>2 DEF Spoken, OneEnding, EndingLast
  <2> QED BY <2>1, <2>2
<1>14. Spoken'
  BY <1>1, <1>8, <1>13 DEF Spoken
<1>15. Verdicts'
  <2>1. promise' = "unauthenticated" => ClosedDead
    BY <1>1, <1>5, <1>9
  <2>2. promise' \in {"closed", "error", "rate_limited"} => ~ClosedDead
    BY <1>1, <1>5, <1>9
  <2> QED BY <1>1, <1>4, <1>7, <2>1, <2>2 DEF Verdicts
<1>16. DeadHeard'
  <2>1. caller' = "dead" => ClosedDead \/ Contains(calls', "refusal")
    BY <1>1, <1>3, <1>6, <1>8, <1>13 DEF DeadHeard
  <2>2. caller' = "backing off" /\ ClosedDead => promise' = "no_ack"
    <3>1. CASE caller = "backing off"
      <4>1. promise = "no_ack"
        BY <1>1, <1>8, <3>1 DEF Verdicts
      <4> QED BY <1>1, <1>9, <4>1
    <3>2. CASE caller # "backing off"
      BY <1>3, <1>6, <3>2
    <3> QED BY <3>1, <3>2
  <2>3. why' = "rate_limited" => frame'.code = "other" /\ frame'.word = "rate_limited"
    BY <1>1, <1>3, <1>5, <1>8 DEF DeadHeard
  <2> QED BY <1>1, <1>7, <2>1, <2>2, <2>3 DEF DeadHeard
<1>17. OneEnding'
  <2>1. promise' # "pending" /\ (seen' => caller' \notin {"opening", "holds"})
    BY <1>1, <1>5, <1>9, <1>10, <1>11 DEF Promised
  <2>2. calls' # <<>> => promise' = "resolved"
    BY <1>1, <1>3, <1>8, <1>9 DEF OneEnding
  <2>3. letGo' # Unsaid => calls' = letGo'
    BY <1>3, <1>8, <1>9 DEF OneEnding
  <2> QED BY <1>1, <1>8, <1>13, <2>1, <2>2, <2>3 DEF OneEnding, EndingLast
<1> QED BY <1>1, <1>10, <1>11, <1>12, <1>14, <1>15, <1>16, <1>17, SocketHeld DEF HeldInv

\* Messages that follow the first one.
LEMMA Said ==
  ASSUME sent \in Seq(Messages), sent # <<>>, NEW m \in Seq(Messages \ {"connection_init"}),
         \A i \in DOMAIN sent : (sent[i] = "connection_init") <=> (i = 1), sent' = sent \o m
  PROVE  /\ sent' \in Seq(Messages) /\ sent' # <<>>
         /\ \A i \in DOMAIN sent' : (sent'[i] = "connection_init") <=> (i = 1)
<1> DEFINE M == Messages
           N == Messages \ {"connection_init"}
<1>0. /\ sent \in Seq(M) /\ m \in Seq(N) /\ N \subseteq M
      /\ \A x \in N : x # "connection_init"
  OBVIOUS
<1> HIDE DEF M, N
<1>1. m \in Seq(M)
  BY <1>0, SeqMonotonic
<1>2. /\ sent' \in Seq(M) /\ Len(sent') = Len(sent) + Len(m)
      /\ \A i \in 1..(Len(sent) + Len(m)) :
           sent'[i] = IF i <= Len(sent) THEN sent[i] ELSE m[i - Len(sent)]
  BY <1>0, <1>1, ConcatProperties
<1>3. /\ Len(sent) \in Nat /\ Len(m) \in Nat /\ Len(sent) # 0 /\ DOMAIN sent = 1..Len(sent)
      /\ DOMAIN sent' = 1..Len(sent')
  BY <1>0, <1>1, <1>2, LenProperties, EmptySeq
<1>4. \A j \in 1..Len(m) : m[j] # "connection_init"
  BY <1>0, ElementOfSeq
<1>5. \A i \in DOMAIN sent' : (sent'[i] = "connection_init") <=> (i = 1)
  <2> SUFFICES ASSUME NEW i \in 1..(Len(sent) + Len(m))
               PROVE  (sent'[i] = "connection_init") <=> (i = 1)
    BY <1>2, <1>3
  <2>1. CASE i <= Len(sent)
    <3>1. i \in DOMAIN sent
      BY <1>3, <2>1
    <3> QED BY <1>2, <2>1, <3>1
  <2>2. CASE ~(i <= Len(sent))
    <3>1. i - Len(sent) \in 1..Len(m) /\ i # 1
      BY <1>3, <2>2
    <3> QED BY <1>2, <1>4, <2>2, <3>1
  <2> QED BY <2>1, <2>2
<1>6. sent' # <<>>
  BY <1>2, <1>3
<1> QED BY <1>2, <1>5, <1>6 DEF M

\* The code behind the awaited openSocket: it gives up, begins to listen, or closes what it is late for.
LEMMA AwakeStep ==
  ASSUME SocketInv, Awakes
  PROVE  SocketInv'
<1>1. /\ UNCHANGED <<dropped, frame, failure, ackTimer, promise, calls, why>>
      /\ promise # "pending" /\ ~seen /\ seen' /\ Lifecycle
  BY DEF Awakes
<1>2. readyState # "idle" /\ HeldInv
  BY <1>1, SocketParts DEF Untouched
<1>3. /\ Promised /\ Spoken /\ Verdicts /\ DeadHeard /\ OneEnding /\ Quieted /\ SilentAfter
      /\ caller \in {"opening", "holds", "dead", "backing off", "gone"}
      /\ readyState \in {"connecting", "open", "closing", "closed"}
  BY <1>2 DEF HeldInv
<1>4. caller # "holds" /\ phase # "awaiting_ack" /\ ~ackTimer
  BY <1>1, <1>3 DEF Promised, OneEnding
<1>5. \/ /\ promise # "resolved" /\ UNCHANGED <<sent, letGo, phase, readyState>>
         /\ caller' = IF caller = "opening" THEN EndsFor(promise) ELSE caller
      \/ /\ promise = "resolved" /\ caller = "opening" /\ caller' = "holds"
         /\ Sends("subscribe") /\ UNCHANGED <<letGo, phase, readyState>>
      \/ promise = "resolved" /\ caller # "opening" /\ Closes /\ UNCHANGED <<caller, sent>>
  BY DEF Awakes
<1>6. EndsFor(promise) = IF promise = "unauthenticated" THEN "dead" ELSE "backing off"
  BY DEF EndsFor
<1>7. Quieted' /\ SilentAfter'
  <2>1. ~Alive => ~(Alive')
    BY <1>5 DEF Alive
  <2> QED BY <1>1, <1>3, <2>1, LifecycleKeeps
<1>8. CASE promise # "resolved"
  <2>1. /\ UNCHANGED <<sent, letGo, phase, readyState>>
        /\ caller' = IF caller = "opening" THEN EndsFor(promise) ELSE caller
        /\ caller' \in {"dead", "backing off", "gone"}
    BY <1>3, <1>4, <1>5, <1>6, <1>8
  <2>2. Promised'
    BY <1>1, <1>3, <1>8, <2>1 DEF Promised
  <2>3. Spoken'
    BY <1>1, <1>3, <2>1 DEF Spoken
  <2>4. ClosedDead' <=> ClosedDead
    BY <1>1 DEF ClosedDead
  <2>5. Verdicts'
    BY <1>1, <1>3, <1>6, <1>8, <2>1, <2>4 DEF Verdicts, Promised
  <2>6. DeadHeard'
    BY <1>1, <1>3, <1>6, <1>8, <2>1, <2>4 DEF DeadHeard, Verdicts, Promised
  <2>7. OneEnding'
    BY <1>1, <1>3, <1>4, <1>8, <2>1 DEF OneEnding
  <2> QED BY <1>3, <1>7, <2>1, <2>2, <2>3, <2>5, <2>6, <2>7, SocketHeld DEF HeldInv
<1>9. CASE promise = "resolved" /\ caller = "opening"
  <2>1. /\ UNCHANGED <<letGo, phase, readyState>> /\ caller' = "holds" /\ Sends("subscribe")
    BY <1>5, <1>9
  <2>2. phase = "acked" /\ readyState # "closed"
    BY <1>3, <1>9 DEF Promised
  <2>3. /\ sent' \in Seq(Messages)
        /\ \A i \in DOMAIN sent' : (sent'[i] = "connection_init") <=> (i = 1)
        /\ readyState' = "connecting" => sent' = <<>>
        /\ readyState' = "open" => sent' # <<>>
    <3>1. CASE readyState = "open"
      <4>1. /\ sent \in Seq(Messages) /\ sent # <<>>
            /\ \A i \in DOMAIN sent : (sent[i] = "connection_init") <=> (i = 1)
        BY <1>3, <3>1 DEF Spoken, OneEnding
      <4>2. sent' = Append(sent, "subscribe")
        BY <2>1, <3>1 DEF Sends
      <4>3. <<"subscribe">> \in Seq(Messages \ {"connection_init"})
        BY DEF Messages
      <4>4. Append(sent, "subscribe") = sent \o <<"subscribe">>
        BY <4>1 DEF Messages
      <4> HIDE DEF Messages
      <4>5. sent' = sent \o <<"subscribe">>
        BY <4>2, <4>4
      <4> QED BY <2>1, <3>1, <4>1, <4>3, <4>5, Said
    <3>2. CASE readyState # "open"
      BY <1>3, <2>1, <3>2 DEF Spoken, OneEnding, Sends
    <3> QED BY <3>1, <3>2
  <2>4. Promised'
    BY <1>1, <1>3, <1>9, <2>1, <2>2 DEF Promised
  <2>5. Spoken'
    BY <1>1, <1>3, <2>1, <2>3 DEF Spoken
  <2>6. Verdicts'
    BY <1>1, <1>3, <1>9, <2>1 DEF Verdicts, ClosedDead
  <2>7. DeadHeard'
    BY <1>1, <1>3, <1>9, <2>1 DEF DeadHeard, ClosedDead
  <2>8. OneEnding'
    BY <1>1, <1>3, <1>4, <1>9, <2>1, <2>2, <2>3 DEF OneEnding
  <2> QED BY <1>3, <1>7, <2>1, <2>4, <2>5, <2>6, <2>7, <2>8, SocketHeld DEF HeldInv
<1>10. CASE promise = "resolved" /\ caller # "opening"
  <2>1. /\ UNCHANGED <<caller, sent>> /\ phase' = "over" /\ letGo' = calls
        /\ readyState' = IF readyState = "open" THEN "closing" ELSE readyState
        /\ caller \in {"dead", "backing off", "gone"}
    BY <1>1, <1>3, <1>4, <1>5, <1>10 DEF Closes
  <2>2. Promised'
    BY <1>1, <1>3, <1>10, <2>1 DEF Promised
  <2>3. Spoken'
    BY <1>1, <1>3, <2>1 DEF Spoken
  <2>4. Verdicts'
    BY <1>1, <1>3, <1>10, <2>1 DEF Verdicts, ClosedDead
  <2>5. DeadHeard'
    BY <1>1, <1>3, <1>10, <2>1 DEF DeadHeard, ClosedDead
  <2>6. OneEnding'
    BY <1>1, <1>3, <1>4, <1>10, <2>1 DEF OneEnding
  <2> QED BY <1>3, <1>7, <2>1, <2>2, <2>3, <2>4, <2>5, <2>6, SocketHeld DEF HeldInv
<1> QED BY <1>8, <1>9, <1>10

\* A renewal only speaks.
LEMMA RenewStep ==
  ASSUME SocketInv, Renews
  PROVE  SocketInv'
<1>1. /\ UNCHANGED <<caller, readyState, frame, phase, ackTimer, promise, calls, why, letGo, seen,
                     task, asks, asksAtEnd>>
      /\ caller = "holds"
      /\ sent' = IF readyState = "open" THEN sent \o <<"complete", "subscribe">> ELSE sent
  BY DEF Renews, wsVars, openVars, slowVars
<1>2. readyState # "idle" => HeldInv
  BY SocketParts
<1>3. /\ UNCHANGED <<readyState, phase, promise, calls, why, letGo, seen, task, asks, asksAtEnd, frame,
                     ackTimer, caller>>
      /\ readyState = "idle" => sent' = sent
  BY <1>1
<1>4. CASE readyState = "idle"
  <2>1. Untouched' /\ readyState' = "idle"
    BY <1>3, <1>4, SocketParts DEF Untouched
  <2> HIDE DEF Untouched
  <2>2. OneConnection'
    BY <2>1 DEF Untouched, OneConnection, DeadHeard, OneEnding, SilentAfter
  <2> QED BY <2>1, <2>2 DEF SocketInv
<1>5. CASE readyState # "idle"
  <2>1. Promised /\ Spoken /\ Verdicts /\ DeadHeard /\ OneEnding /\ Quieted /\ SilentAfter
    BY <1>2, <1>5 DEF HeldInv
  <2>2. /\ sent' \in Seq(Messages)
        /\ \A i \in DOMAIN sent' : (sent'[i] = "connection_init") <=> (i = 1)
        /\ readyState' = "connecting" => sent' = <<>>
        /\ readyState' = "open" => sent' # <<>>
    <3>1. CASE readyState = "open"
      <4>1. /\ sent \in Seq(Messages) /\ sent # <<>>
            /\ \A i \in DOMAIN sent : (sent[i] = "connection_init") <=> (i = 1)
        BY <2>1, <3>1 DEF Spoken, OneEnding
      <4>2. <<"complete", "subscribe">> \in Seq(Messages \ {"connection_init"})
        BY DEF Messages
      <4> QED BY <1>1, <3>1, <4>1, <4>2, Said
    <3>2. CASE readyState # "open"
      BY <1>1, <2>1, <3>2 DEF Spoken, OneEnding
    <3> QED BY <3>1, <3>2
  <2>3. Promised' /\ Quieted' /\ SilentAfter'
    BY <1>1, <2>1 DEF Promised, Quieted, SilentAfter, Alive
  <2>4. Spoken'
    BY <1>1, <2>1, <2>2 DEF Spoken
  <2>5. Verdicts' /\ DeadHeard'
    BY <1>1, <2>1 DEF Verdicts, DeadHeard, ClosedDead
  <2>6. OneEnding'
    BY <1>1, <2>1, <2>2 DEF OneEnding
  <2> QED BY <1>1, <1>2, <1>5, <2>3, <2>4, <2>5, <2>6, SocketHeld DEF HeldInv
<1> QED BY <1>4, <1>5

\* A sign-out, a new credential or a shutdown.
LEMMA StopStep ==
  ASSUME SocketInv, StopsIt
  PROVE  SocketInv'
<1>1. /\ UNCHANGED <<frame, dropped, failure, ackTimer, promise, sent, why, seen, calls>>
      /\ caller \in {"opening", "holds", "backing off"} /\ caller' = "gone" /\ readyState # "idle"
      /\ Lifecycle
  BY DEF StopsIt
<1>2. HeldInv
  BY <1>1, SocketParts
<1>3. /\ Promised /\ Spoken /\ Verdicts /\ DeadHeard /\ OneEnding /\ Quieted /\ SilentAfter
      /\ readyState \in {"connecting", "open", "closing", "closed"}
  BY <1>2 DEF HeldInv
<1>4. \/ caller # "holds" /\ UNCHANGED <<phase, letGo, readyState>>
      \/ /\ caller = "holds" /\ phase' = "over" /\ letGo' = calls
         /\ readyState' = IF readyState = "open" THEN "closing" ELSE readyState
  BY <1>1 DEF StopsIt, Closes
<1>5. /\ readyState' \in {"connecting", "open", "closing", "closed"}
      /\ readyState' = "open" => readyState = "open"
      /\ readyState' = "connecting" => readyState = "connecting"
      /\ readyState' = "closed" <=> readyState = "closed"
  BY <1>3, <1>4
<1>6. Quieted' /\ SilentAfter'
  <2>1. ~Alive => ~(Alive')
    BY <1>1 DEF Alive
  <2> QED BY <1>1, <1>3, <2>1, LifecycleKeeps
<1>7. Promised'
  BY <1>1, <1>3, <1>4 DEF Promised
<1>8. Spoken'
  BY <1>1, <1>3, <1>4, <1>5 DEF Spoken
<1>9. Verdicts' /\ DeadHeard'
  BY <1>1, <1>3, <1>5 DEF Verdicts, DeadHeard, ClosedDead
<1>10. OneEnding'
  <2>1. promise # "pending" => phase # "awaiting_ack"
    BY <1>3 DEF Promised
  <2>2. caller = "holds" => phase # "awaiting_ack" /\ ~ackTimer
    BY <1>3 DEF Promised, OneEnding
  <2>3. seen /\ promise = "resolved" => phase' = "over"
    BY <1>1, <1>3, <1>4, <1>7 DEF Promised
  <2> QED BY <1>1, <1>3, <1>4, <1>5, <2>1, <2>2, <2>3 DEF OneEnding
<1> QED BY <1>1, <1>5, <1>6, <1>7, <1>8, <1>9, <1>10, SocketHeld DEF HeldInv

LEMMA SocketStep ==
  ASSUME SocketInv, [SocketNext]_socketVars
  PROVE  SocketInv'
<1>1. CASE \/ FreshSession
           \/ \E s \in {Unsaid, 200, 400, 401, 429}, b \in Bodies : CallFails(s, b)
  BY <1>1, StillIdle
<1>2. CASE OpensSocket
  BY <1>2, SocketOpens
<1>3. CASE WsOpens \/ PingArrives \/ ServerCloses \/ WsDrops
  BY <1>3, WireStep
<1>4. CASE AckArrives \/ AckTimeout
  BY <1>4, AckStep
<1>5. CASE DataArrives \/ ErrorArrives
  BY <1>5, FrameStep
<1>6. CASE WsCloses
  BY <1>6, CloseStep
<1>7. CASE Awakes
  BY <1>7, AwakeStep
<1>8. CASE Renews
  BY <1>8, RenewStep
<1>9. CASE StopsIt
  BY <1>9, StopStep
<1>10. CASE TaskStarts \/ TaskAnswered \/ TaskRemade
  BY <1>10, TasksStep
<1>11. CASE UNCHANGED socketVars
  <2>1. UNCHANGED <<caller, readyState, dropped, frame, failure, phase, ackTimer, promise, sent, calls,
                    why, letGo, seen, task, asks, asksAtEnd>>
    BY <1>11 DEF socketVars, wsVars, openVars, toldVars, slowVars
  <2>2. Alive' = Alive /\ ClosedDead' = ClosedDead
    BY <2>1 DEF Alive, ClosedDead
  <2>3. Untouched' = Untouched
    BY <2>1 DEF Untouched
  <2>4. Promised' = Promised /\ Spoken' = Spoken /\ Verdicts' = Verdicts /\ Quieted' = Quieted
    BY <2>1, <2>2 DEF Promised, Spoken, Verdicts, Quieted
  <2>5. OneConnection' = OneConnection
    BY <2>1, <2>2 DEF OneConnection, DeadHeard, OneEnding, SilentAfter
  <2> QED BY <2>1, <2>3, <2>4, <2>5 DEF SocketInv
<1> QED BY <1>1, <1>2, <1>3, <1>4, <1>5, <1>6, <1>7, <1>8, <1>9, <1>10, <1>11 DEF SocketNext

-----------------------------------------------------------------------------
(* Socket: what an answer says.                                            *)

CodeEntry == [code : STRING, reason : STRING \cup {Unsaid}]

LEMMA BodiesTyped ==
  ASSUME NEW b \in Bodies
  PROVE  b \in Seq(CodeEntry)
BY SocketAssumption, Zenon DEF CodeEntry

LEMMA KeptEntryTyped ==
  ASSUME NEW e \in CodeEntry
  PROVE  KeptEntry(e) \in CodeEntry /\ KeptEntry(e).code = e.code
BY DEF KeptEntry, CodeEntry

\* The entries that the first n of a list say.
SaidBy(b, n) == {KeptEntry(e) : e \in {x \in {b[i] : i \in 1..n} : x.code # "?"}}

\* What is kept of the first n: none twice, none that was not said, and all unless the list is full.
KeptOf(k, b, n) ==
  /\ k \in Seq(CodeEntry) /\ Len(k) <= MaxCodes
  /\ \A i, j \in 1..Len(k) : k[i] = k[j] => i = j
  /\ \A i \in 1..Len(k) : k[i] \in SaidBy(b, n)
  /\ Len(k) = MaxCodes \/ \A e \in SaidBy(b, n) : \E i \in 1..Len(k) : k[i] = e

LEMMA SaidByNext ==
  ASSUME NEW b \in Seq(CodeEntry), NEW n \in Nat, n + 1 <= Len(b)
  PROVE  SaidBy(b, n + 1) =
           IF b[n + 1].code = "?" THEN SaidBy(b, n) ELSE SaidBy(b, n) \cup {KeptEntry(b[n + 1])}
<1>1. 1..n + 1 = 1..n \cup {n + 1}
  OBVIOUS
<1>2. {b[i] : i \in 1..n + 1} = {b[i] : i \in 1..n} \cup {b[n + 1]}
  BY <1>1
<1> QED BY <1>2 DEF SaidBy

\* One entry more (errors.ts, keepCodes).
LEMMA KeepsOne ==
  ASSUME NEW b \in Seq(CodeEntry), NEW n \in Nat, n + 1 <= Len(b), NEW k, KeptOf(k, b, n)
  PROVE  KeptOf(Keep(k, b[n + 1]), b, n + 1)
<1> DEFINE e == b[n + 1]
           v == KeptEntry(e)
<1>1. e \in CodeEntry /\ v \in CodeEntry
  BY KeptEntryTyped
<1>2. k \in Seq(CodeEntry) /\ Len(k) \in Nat /\ Len(k) <= MaxCodes /\ MaxCodes \in Nat \ {0}
  <2>1. k \in Seq(CodeEntry) /\ Len(k) <= MaxCodes
    BY DEF KeptOf
  <2>2. MaxCodes \in Nat \ {0}
    BY SocketAssumption
  <2> QED BY <2>1, <2>2
<1>3. SaidBy(b, n + 1) = IF e.code = "?" THEN SaidBy(b, n) ELSE SaidBy(b, n) \cup {v}
  BY SaidByNext
<1>4. Contains(k, v) <=> \E i \in 1..Len(k) : k[i] = v
  BY <1>2 DEF Contains
<1> HIDE DEF v, e
<1>5. CASE e.code = "?"
  <2>1. Keep(k, e) = k /\ SaidBy(b, n + 1) = SaidBy(b, n)
    BY <1>3, <1>5 DEF Keep
  <2> QED BY <2>1 DEF KeptOf, e
<1>6. CASE e.code # "?" /\ Len(k) >= MaxCodes
  <2>1. Keep(k, e) = k /\ SaidBy(b, n + 1) = SaidBy(b, n) \cup {v} /\ Len(k) = MaxCodes
    BY <1>2, <1>3, <1>6 DEF Keep
  <2> QED BY <2>1 DEF KeptOf, e
<1>7. CASE e.code # "?" /\ ~(Len(k) >= MaxCodes) /\ Contains(k, v)
  <2>1. Keep(k, e) = k /\ SaidBy(b, n + 1) = SaidBy(b, n) \cup {v}
    BY <1>3, <1>7 DEF Keep, v
  <2> QED BY <1>4, <1>7, <2>1 DEF KeptOf, e
<1>8. CASE e.code # "?" /\ ~(Len(k) >= MaxCodes) /\ ~Contains(k, v)
  <2> DEFINE a == Append(k, v)
  <2>1. Keep(k, e) = a /\ SaidBy(b, n + 1) = SaidBy(b, n) \cup {v}
    BY <1>3, <1>8 DEF Keep, v
  <2>2. /\ a \in Seq(CodeEntry) /\ Len(a) = Len(k) + 1
        /\ \A i \in 1..Len(k) : a[i] = k[i]
        /\ a[Len(k) + 1] = v
    BY <1>1, <1>2
  <2>3. 1..Len(a) = 1..Len(k) \cup {Len(k) + 1} /\ Len(a) <= MaxCodes
    BY <1>2, <1>8, <2>2
  <2> HIDE DEF a
  <2>4. \A i \in 1..Len(k) : k[i] # v
    BY <1>4, <1>8
  <2>5. \A i, j \in 1..Len(a) : a[i] = a[j] => i = j
    BY <2>2, <2>3, <2>4 DEF KeptOf
  <2>6. \A i \in 1..Len(a) : a[i] \in SaidBy(b, n + 1)
    BY <2>1, <2>2, <2>3 DEF KeptOf
  <2>7. \A x \in SaidBy(b, n) : \E i \in 1..Len(k) : k[i] = x
    BY <1>2, <1>8 DEF KeptOf
  <2>8. \A x \in SaidBy(b, n + 1) : \E i \in 1..Len(a) : a[i] = x
    <3> SUFFICES ASSUME NEW x \in SaidBy(b, n + 1) PROVE \E i \in 1..Len(a) : a[i] = x
      OBVIOUS
    <3>1. CASE x = v
      BY <2>2, <2>3, <3>1
    <3>2. CASE x # v
      <4>1. PICK i \in 1..Len(k) : k[i] = x
        BY <2>1, <2>7, <3>2
      <4> QED BY <2>2, <2>3, <4>1
    <3> QED BY <3>1, <3>2
  <2> QED BY <2>1, <2>2, <2>3, <2>5, <2>6, <2>8 DEF KeptOf, e
<1> QED BY <1>5, <1>6, <1>7, <1>8

\* The lists kept one after another, to the nth, as KeepCodes has them.
KeptBy(s, b, n) ==
  /\ s \in [0..n -> Seq(CodeEntry)] /\ s[0] = <<>>
  /\ \A i \in 0..n - 1 : s[i + 1] = Keep(s[i], b[i + 1])

LEMMA KeptTyped ==
  ASSUME NEW k \in Seq(CodeEntry), NEW e \in CodeEntry
  PROVE  Keep(k, e) \in Seq(CodeEntry)
<1>1. KeptEntry(e) \in CodeEntry
  BY KeptEntryTyped
<1>2. Append(k, KeptEntry(e)) \in Seq(CodeEntry)
  BY <1>1
<1> QED BY <1>2 DEF Keep

LEMMA KeptByExists ==
  ASSUME NEW b \in Seq(CodeEntry)
  PROVE  \E s : KeptBy(s, b, Len(b))
<1> DEFINE E == {n \in Nat : n <= Len(b) => \E s : KeptBy(s, b, n)}
<1>1. 0 \in E
  <2>1. KeptBy([i \in 0..0 |-> <<>>], b, 0)
    BY DEF KeptBy
  <2> QED BY <2>1
<1>2. ASSUME NEW n \in Nat, n \in E PROVE n + 1 \in E
  <2> SUFFICES ASSUME n + 1 <= Len(b) PROVE \E s : KeptBy(s, b, n + 1)
    OBVIOUS
  <2>1. PICK s : KeptBy(s, b, n)
    BY <1>2
  <2> DEFINE next == Keep(s[n], b[n + 1])
             t == [i \in 0..n + 1 |-> IF i = n + 1 THEN next ELSE s[i]]
  <2>2. next \in Seq(CodeEntry)
    <3>1. s[n] \in Seq(CodeEntry) /\ b[n + 1] \in CodeEntry
      BY <2>1 DEF KeptBy
    <3> QED BY <3>1, KeptTyped
  <2> HIDE DEF next
  <2>3. t \in [0..n + 1 -> Seq(CodeEntry)] /\ t[0] = <<>>
    BY <2>1, <2>2 DEF KeptBy
  <2>4. ASSUME NEW i \in 0..(n + 1) - 1 PROVE t[i + 1] = Keep(t[i], b[i + 1])
    <3>1. i \in 0..n /\ i + 1 \in 0..n + 1 /\ i # n + 1
      OBVIOUS
    <3>2. CASE i = n
      BY <3>1, <3>2 DEF next
    <3>3. CASE i # n
      <4>1. i \in 0..n - 1 /\ i + 1 # n + 1
        BY <3>1, <3>3
      <4> QED BY <2>1, <3>1, <4>1 DEF KeptBy
    <3> QED BY <3>2, <3>3
  <2> QED BY <2>3, <2>4 DEF KeptBy
<1>3. \A n \in Nat : n \in E
  BY <1>1, <1>2, NatSetInduction
<1> QED BY <1>3

LEMMA KeptIsKept ==
  ASSUME NEW b \in Seq(CodeEntry)
  PROVE  KeptOf(KeepCodes(b), b, Len(b))
<1>0. KeptOf(<<>>, b, 0)
  <2>1. SaidBy(b, 0) = {} /\ <<>> \in Seq(CodeEntry) /\ Len(<<>>) = 0
    BY DEF SaidBy
  <2>2. MaxCodes \in Nat
    BY SocketAssumption
  <2> QED BY <2>1, <2>2 DEF KeptOf
<1>1. PICK s : KeptBy(s, b, Len(b))
  BY KeptByExists
<1> DEFINE Def(f) == f = [n \in 0..Len(b) |-> IF n = 0 THEN <<>> ELSE Keep(f[n - 1], b[n])]
           kept == CHOOSE f : Def(f)
<1>2. Def(s)
  <2>1. s = [n \in 0..Len(b) |-> s[n]]
    BY <1>1 DEF KeptBy
  <2>2. ASSUME NEW n \in 0..Len(b)
        PROVE  s[n] = IF n = 0 THEN <<>> ELSE Keep(s[n - 1], b[n])
    <3>1. CASE n = 0
      BY <1>1, <3>1 DEF KeptBy
    <3>2. CASE n # 0
      <4>1. n - 1 \in 0..Len(b) - 1 /\ (n - 1) + 1 = n
        BY <3>2
      <4> QED BY <1>1, <3>2, <4>1 DEF KeptBy
    <3> QED BY <3>1, <3>2
  <2> QED BY <2>1, <2>2
<1>3. Def(kept)
  BY <1>2
<1>4. KeepCodes(b) = kept[Len(b)]
  BY DEF KeepCodes, kept
<1> HIDE DEF kept
<1> DEFINE F == {n \in Nat : n <= Len(b) => KeptOf(kept[n], b, n)}
<1>5. 0 \in F
  BY <1>0, <1>3
<1>6. ASSUME NEW n \in Nat, n \in F PROVE n + 1 \in F
  <2> SUFFICES ASSUME n + 1 <= Len(b) PROVE KeptOf(kept[n + 1], b, n + 1)
    OBVIOUS
  <2>1. n + 1 \in 0..Len(b) /\ n + 1 # 0 /\ (n + 1) - 1 = n
    OBVIOUS
  <2>2. kept[n + 1] = Keep(kept[n], b[n + 1])
    BY <1>3, <2>1
  <2>3. KeptOf(kept[n], b, n)
    BY <1>6
  <2> QED BY <2>2, <2>3, KeepsOne
<1>7. \A n \in Nat : n \in F
  BY <1>5, <1>6, NatSetInduction
<1> QED BY <1>4, <1>7

LEMMA EntriesAre ==
  ASSUME NEW b \in Seq(CodeEntry)
  PROVE  Entries(b) = SaidBy(b, Len(b)) /\ IsFiniteSet(Entries(b))
<1> DEFINE I == {i \in 1..Len(b) : b[i].code # "?"}
           f == [i \in I |-> KeptEntry(b[i])]
<1>1. ToSet(b) = {b[i] : i \in 1..Len(b)}
  BY DEF ToSet
<1>2. Entries(b) = SaidBy(b, Len(b))
  BY <1>1 DEF SaidBy, Entries
<1>3. IsFiniteSet(1..Len(b))
  BY FS_Interval
<1>4. IsFiniteSet(I)
  <2>1. I \in SUBSET (1..Len(b))
    OBVIOUS
  <2> HIDE DEF I
  <2> QED BY <1>3, <2>1, FS_Subset
<1>5. f \in Surjection(I, Entries(b))
  <2>1. \A i \in I : KeptEntry(b[i]) \in Entries(b)
    BY <1>1 DEF Entries
  <2>2. \A e \in Entries(b) : \E i \in I : KeptEntry(b[i]) = e
    BY <1>1 DEF Entries
  <2> HIDE DEF I
  <2>3. f \in [I -> Entries(b)]
    BY <2>1
  <2>4. \A e \in Entries(b) : \E i \in I : f[i] = e
    BY <2>2
  <2> HIDE DEF f
  <2> QED BY <2>3, <2>4 DEF Surjection
<1> HIDE DEF I, f
<1> QED BY <1>2, <1>4, <1>5, FS_Surjection

\* A list without repetition has as many members as it is long.
LEMMA NoneTwiceCounts ==
  ASSUME NEW k \in Seq(CodeEntry), \A i, j \in 1..Len(k) : k[i] = k[j] => i = j
  PROVE  Cardinality(ToSet(k)) = Len(k)
<1>1. ToSet(k) = {k[i] : i \in 1..Len(k)} /\ Len(k) \in Nat
  BY DEF ToSet
<1> DEFINE f == [i \in 1..Len(k) |-> k[i]]
<1>2. f \in [1..Len(k) -> ToSet(k)]
  BY <1>1
<1>3. \A x \in ToSet(k) : \E i \in 1..Len(k) : f[i] = x
  BY <1>1
<1>4. \A i, j \in 1..Len(k) : f[i] = f[j] => i = j
  OBVIOUS
<1> HIDE DEF f
<1>5. f \in Bijection(1..Len(k), ToSet(k))
  BY <1>2, <1>3, <1>4 DEF Bijection, Injection, Surjection, IsInjective
<1>6. ExistsBijection(1..Len(k), ToSet(k))
  BY <1>5 DEF ExistsBijection
<1> QED BY <1>1, <1>6, FS_CountingElements

\* Of a list that is not cut all is kept, and nothing else.
LEMMA KeptIsSaid ==
  ASSUME NEW b \in Seq(CodeEntry), ~Cut(b)
  PROVE  KeepCodes(b) \in Seq(CodeEntry) /\ ToSet(KeepCodes(b)) = Entries(b)
<1> DEFINE k == KeepCodes(b)
           S == Entries(b)
<1>1. KeptOf(k, b, Len(b))
  BY KeptIsKept
<1>2. SaidBy(b, Len(b)) = S /\ IsFiniteSet(S)
  BY EntriesAre
<1>3. MaxCodes \in Nat
  BY SocketAssumption
<1>4. Cardinality(S) \in Nat /\ Cardinality(S) <= MaxCodes
  BY <1>2, <1>3, FS_CardinalityType DEF Cut
<1> HIDE DEF k, S
<1>5. k \in Seq(CodeEntry) /\ Len(k) \in Nat /\ Len(k) <= MaxCodes
  BY <1>1 DEF KeptOf
<1>6. ToSet(k) = {k[i] : i \in 1..Len(k)}
  BY <1>5 DEF ToSet
<1>7. ToSet(k) \in SUBSET S
  BY <1>1, <1>2, <1>6 DEF KeptOf
<1>8. CASE Len(k) = MaxCodes
  <2>1. \A i, j \in 1..Len(k) : k[i] = k[j] => i = j
    BY <1>1 DEF KeptOf
  <2>2. Cardinality(ToSet(k)) = Len(k)
    BY <1>5, <2>1, NoneTwiceCounts
  <2>3. /\ Cardinality(ToSet(k)) <= Cardinality(S)
        /\ Cardinality(S) = Cardinality(ToSet(k)) => S = ToSet(k)
    BY <1>2, <1>7, FS_Subset
  <2>4. Cardinality(S) = Cardinality(ToSet(k))
    BY <1>3, <1>4, <1>8, <2>2, <2>3
  <2> QED BY <1>5, <2>3, <2>4 DEF k, S
<1>9. CASE Len(k) # MaxCodes
  <2>1. S \subseteq ToSet(k)
    BY <1>1, <1>2, <1>6, <1>9 DEF KeptOf
  <2> QED BY <1>5, <1>7, <2>1 DEF k, S
<1> QED BY <1>8, <1>9

\* What an error says is what the answer said, but for a code of this client's own
\* (errors.ts, toRivianApiError).
LEMMA ErrorSays ==
  ASSUME NEW http, NEW b \in Seq(CodeEntry), ~Cut(b)
  PROVE  LET e == ToRivianApiError(http, b) IN
         /\ e.status = http
         /\ \A c \in ToSet(e.codes) : c \in Entries(b) \/ c.code = "UNCODED_ERROR"
         /\ Entries(b) \subseteq ToSet(e.codes)
         /\ \A c : Contains(e.codes, c) <=> c \in ToSet(e.codes)
<1> DEFINE k == KeepCodes(b)
           own == [code |-> "UNCODED_ERROR", reason |-> Unsaid]
           e == ToRivianApiError(http, b)
<1>1. k \in Seq(CodeEntry) /\ ToSet(k) = Entries(b)
  BY KeptIsSaid
<1>2. e.status = http /\ e.codes = IF k = <<>> /\ http = 200 THEN <<own>> ELSE k
  BY DEF ToRivianApiError
<1>3. own.code = "UNCODED_ERROR"
  OBVIOUS
<1> HIDE DEF k, e, own
<1>4. CASE k = <<>> /\ http = 200
  <2>1. e.codes = <<own>>
    BY <1>2, <1>4
  <2>2. ToSet(<<own>>) = {own} /\ ToSet(<<>>) = {}
    BY DEF ToSet
  <2>3. \A c : Contains(<<own>>, c) <=> c = own
    BY DEF Contains
  <2> QED BY <1>1, <1>2, <1>3, <1>4, <2>1, <2>2, <2>3 DEF e
<1>5. CASE ~(k = <<>> /\ http = 200)
  <2>1. e.codes = k
    BY <1>2, <1>5
  <2>2. ToSet(k) = {k[i] : i \in DOMAIN k} /\ DOMAIN k = 1..Len(k)
    BY <1>1 DEF ToSet
  <2>3. \A c : Contains(k, c) <=> c \in ToSet(k)
    BY <2>2 DEF Contains
  <2> QED BY <1>1, <1>2, <2>1, <2>3 DEF e
<1> QED BY <1>4, <1>5

LEMMA EntriesTyped ==
  ASSUME NEW b \in Seq(CodeEntry)
  PROVE  Entries(b) \subseteq CodeEntry
<1>1. \A x \in ToSet(b) : x \in CodeEntry
  BY DEF ToSet
<1> QED BY <1>1, KeptEntryTyped DEF Entries

LEMMA CodesApart ==
  ASSUME NEW S, NEW W, \A c \in S : c.code \notin W
  PROVE  {c.code : c \in S} \cap W = {}
OBVIOUS

\* An answer that says a password is wrong, and nothing of a lock, a throttle or the code.
SaysPassword(step, b) ==
  /\ step = "password"
  /\ {c.code : c \in Entries(b)} \cap {"RATE_LIMIT", "SESSION_MANAGER_ERROR"} = {}
  /\ \E c \in Entries(b) :
       \/ c.code = "BAD_CURRENT_PASSWORD"
       \/ c.code = "BAD_USER_INPUT" /\ c.reason \notin OtpReasons

\* The classes of errors are told by what the answer says (errors.ts, toRivianApiError,
\* rivian-auth.ts, messageFor).
LEMMA ClassedAsSaid ==
  ASSUME NEW http, NEW b \in Seq(CodeEntry), ~Cut(b), NEW step
  PROVE  /\ Unauthenticated(ToRivianApiError(http, b)) <=> MeansDead([status |-> http, body |-> b])
         /\ MessageFor(ToRivianApiError(http, b), step) = "wrong credentials" => SaysPassword(step, b)
<1> DEFINE e == ToRivianApiError(http, b)
           S == Entries(b)
           T == ToSet(e.codes)
<1>1. /\ e.status = http
      /\ \A c \in T : c \in S \/ c.code = "UNCODED_ERROR"
      /\ S \subseteq T
      /\ \A c : Contains(e.codes, c) <=> c \in T
  BY ErrorSays
<1>2. S \subseteq CodeEntry
  BY EntriesTyped
<1> DEFINE Tells(w) == \E c \in S : c.code = w
<1>3. \A w : Says(e, w) <=> \E c \in T : c.code = w
  BY DEF Says
<1>4. BadCredentials(e) <=>
        \/ Says(e, "BAD_CURRENT_PASSWORD")
        \/ \E c \in T : c.code = "BAD_USER_INPUT" /\ c.reason \notin OtpReasons
  BY DEF BadCredentials
<1>5. BadOtp(e) <=>
        \/ Contains(e.codes, [code |-> "BAD_USER_INPUT", reason |-> "INVALID_OTP"])
        \/ Contains(e.codes, [code |-> "UNAUTHENTICATED", reason |-> "OTP_TOKEN_EXPIRED"])
  BY DEF BadOtp
<1>6. /\ Unauthenticated(e) <=>
           \/ Says(e, "UNAUTHENTICATED")
           \/ /\ e.status = 401
              /\ ~RateLimited(e) /\ ~ValidationFailed(e) /\ ~BadCredentials(e) /\ ~BadOtp(e)
              /\ ~Locked(e)
      /\ RateLimited(e) <=> (e.status = 429 \/ Says(e, "RATE_LIMIT"))
      /\ ValidationFailed(e) <=> Says(e, "GRAPHQL_VALIDATION_FAILED")
      /\ Locked(e) <=> Says(e, "SESSION_MANAGER_ERROR")
  BY DEF Unauthenticated, RateLimited, ValidationFailed, Locked
<1>7. MessageFor(e, step) = "wrong credentials" =>
        step = "password" /\ ~Locked(e) /\ ~RateLimited(e) /\ BadCredentials(e)
  BY Zenon DEF MessageFor
<1>8. MeansDead([status |-> http, body |-> b]) <=>
        \/ Tells("UNAUTHENTICATED")
        \/ http = 401 /\ Claimed(S) = {}
  BY DEF MeansDead
<1>9. Claimed(S) = {} <=>
        /\ ~Tells("RATE_LIMIT") /\ ~Tells("GRAPHQL_VALIDATION_FAILED")
        /\ ~Tells("BAD_CURRENT_PASSWORD") /\ ~Tells("SESSION_MANAGER_ERROR")
        /\ ~\E c \in S : c.code = "BAD_USER_INPUT" /\ c.reason # "OTP_TOKEN_EXPIRED"
  BY DEF Claimed
<1> HIDE DEF e, S, T
<1>10. \A w : w # "UNCODED_ERROR" => (Says(e, w) <=> Tells(w))
  BY <1>1, <1>3
<1>11. BadCredentials(e) <=>
         \/ Tells("BAD_CURRENT_PASSWORD")
         \/ \E c \in S : c.code = "BAD_USER_INPUT" /\ c.reason \notin OtpReasons
  BY <1>1, <1>4, <1>10
<1>12. ~Tells("UNAUTHENTICATED") =>
         (BadOtp(e) <=> \E c \in S : c.code = "BAD_USER_INPUT" /\ c.reason = "INVALID_OTP")
  <2> SUFFICES ASSUME ~Tells("UNAUTHENTICATED")
               PROVE  BadOtp(e) <=>
                        \E c \in S : c.code = "BAD_USER_INPUT" /\ c.reason = "INVALID_OTP"
    OBVIOUS
  <2>1. ~Contains(e.codes, [code |-> "UNAUTHENTICATED", reason |-> "OTP_TOKEN_EXPIRED"])
    BY <1>1
  <2>2. \A c \in S : c.code = "BAD_USER_INPUT" /\ c.reason = "INVALID_OTP" =>
                       c = [code |-> "BAD_USER_INPUT", reason |-> "INVALID_OTP"]
    BY <1>2 DEF CodeEntry
  <2>3. Contains(e.codes, [code |-> "BAD_USER_INPUT", reason |-> "INVALID_OTP"]) <=>
          [code |-> "BAD_USER_INPUT", reason |-> "INVALID_OTP"] \in S
    BY <1>1
  <2> QED BY <1>5, <2>1, <2>2, <2>3
<1>13. Unauthenticated(e) <=> MeansDead([status |-> http, body |-> b])
  <2>1. CASE Tells("UNAUTHENTICATED")
    BY <1>6, <1>8, <1>10, <2>1
  <2>2. CASE ~Tells("UNAUTHENTICATED") /\ http # 401
    BY <1>1, <1>6, <1>8, <1>10, <2>2
  <2>3. CASE ~Tells("UNAUTHENTICATED") /\ http = 401
    <3>1. Unauthenticated(e) <=> (~RateLimited(e) /\ ~ValidationFailed(e) /\ ~BadCredentials(e)
                                  /\ ~BadOtp(e) /\ ~Locked(e))
      BY <1>1, <1>6, <1>10, <2>3
    <3>2. /\ RateLimited(e) <=> Tells("RATE_LIMIT")
          /\ ValidationFailed(e) <=> Tells("GRAPHQL_VALIDATION_FAILED")
          /\ Locked(e) <=> Tells("SESSION_MANAGER_ERROR")
      BY <1>1, <1>6, <1>10, <2>3
    <3>3. (\E c \in S : c.code = "BAD_USER_INPUT" /\ c.reason # "OTP_TOKEN_EXPIRED") <=>
            \/ \E c \in S : c.code = "BAD_USER_INPUT" /\ c.reason \notin OtpReasons
            \/ \E c \in S : c.code = "BAD_USER_INPUT" /\ c.reason = "INVALID_OTP"
      BY DEF OtpReasons
    <3> QED BY <1>8, <1>9, <1>11, <1>12, <2>3, <3>1, <3>2, <3>3
  <2> QED BY <2>1, <2>2, <2>3
<1>14. MessageFor(e, step) = "wrong credentials" => SaysPassword(step, b)
  <2> SUFFICES ASSUME MessageFor(e, step) = "wrong credentials" PROVE SaysPassword(step, b)
    OBVIOUS
  <2>1. step = "password" /\ ~Locked(e) /\ ~RateLimited(e) /\ BadCredentials(e)
    BY <1>7
  <2>2. ~Tells("RATE_LIMIT") /\ ~Tells("SESSION_MANAGER_ERROR")
    BY <1>6, <1>10, <2>1
  <2>3. {c.code : c \in S} \cap {"RATE_LIMIT", "SESSION_MANAGER_ERROR"} = {}
    <3>1. \A c \in S : c.code \notin {"RATE_LIMIT", "SESSION_MANAGER_ERROR"}
      BY <2>2
    <3> QED BY <3>1, CodesApart
  <2>4. \/ Tells("BAD_CURRENT_PASSWORD")
        \/ \E c \in S : c.code = "BAD_USER_INPUT" /\ c.reason \notin OtpReasons
    BY <1>11, <2>1
  <2> QED BY <2>1, <2>3, <2>4, Zenon DEF SaysPassword, S
<1> QED BY <1>13, <1>14 DEF e, S

-----------------------------------------------------------------------------
(* Socket: what was made of the last answer.                               *)

\* An answer is kept only where a call has just failed, and a message only on a page.
AnsweredInv ==
  /\ answer # Unsaid =>
       readyState = "idle" /\ caller \in {"answered", "backing off", "refused", "dead"}
  /\ caller # "answered" => message = Unsaid
  /\ AnswersRead

\* A call fails (errors.ts, toRivianApiError and isUnauthenticated; connector.ts, #authed;
\* rivian-auth.ts, messageFor).
LEMMA FailsStep ==
  ASSUME SocketInv, AnsweredInv, NEW s \in {Unsaid, 200, 400, 401, 429}, NEW b \in Bodies,
         CallFails(s, b)
  PROVE  AnsweredInv'
<1> DEFINE e == ToRivianApiError(s, b)
           a == [status |-> s, body |-> b]
           dead == Unauthenticated(e)
           text == MessageFor(e, purpose)
<1>1. /\ caller \in {"asking", "asking again"} /\ answer' = a /\ purpose' = purpose
      /\ readyState' = readyState
      /\ IF purpose # "session"
         THEN caller' = "answered" /\ message' = text
         ELSE /\ caller' = IF ~dead THEN "backing off"
                           ELSE IF caller = "asking" THEN "refused" ELSE "dead"
              /\ message' = message
  BY DEF CallFails, wsVars
<1>2. readyState = "idle" /\ message = Unsaid
  BY <1>1 DEF SocketInv, AnsweredInv
<1>3. Unsaid # "wrong credentials" /\ b \in Seq(CodeEntry)
  BY UnsaidIsNoWord, BodiesTyped
<1>4. ~Cut(b) => (dead <=> MeansDead(a)) /\ (text = "wrong credentials" => SaysPassword(purpose, b))
  <2> SUFFICES ASSUME ~Cut(b)
               PROVE  (dead <=> MeansDead(a)) /\ (text = "wrong credentials" => SaysPassword(purpose, b))
    OBVIOUS
  <2>1. Unauthenticated(ToRivianApiError(s, b)) <=> MeansDead([status |-> s, body |-> b])
    BY <1>3, ClassedAsSaid, Zenon
  <2>2. MessageFor(ToRivianApiError(s, b), purpose) = "wrong credentials" => SaysPassword(purpose, b)
    BY <1>3, ClassedAsSaid, Zenon
  <2> QED BY <2>1, <2>2
<1>5. a.body = b
  OBVIOUS
<1> HIDE DEF e, a, dead, text
<1>6. /\ readyState' = "idle" /\ caller' \in {"answered", "backing off", "refused", "dead"}
      /\ caller' # "answered" => message' = Unsaid
  BY <1>1, <1>2
<1>7. AnswersRead'
  <2>1. answer' = a /\ purpose' = purpose
    BY <1>1
  <2>2. ~Cut(b) => (caller' \in {"refused", "dead"} => MeansDead(a))
    BY <1>1, <1>4
  <2>3. ~Cut(b) => (caller' = "backing off" => ~MeansDead(a))
    BY <1>1, <1>4
  <2>4. message' = "wrong credentials" => text = "wrong credentials"
    BY <1>1, <1>2, <1>3
  <2> QED BY <1>4, <1>5, <2>1, <2>2, <2>3, <2>4 DEF AnswersRead, SaysPassword
<1> QED BY <1>6, <1>7 DEF AnsweredInv

\* Nothing else is heard as an answer: every other step leaves what was asked and said, and where
\* an answer is kept, the caller and the socket too.
LEMMA AnswersKept ==
  ASSUME SocketInv, AnsweredInv, SocketNext,
         ~\E s \in {Unsaid, 200, 400, 401, 429}, b \in Bodies : CallFails(s, b)
  PROVE  AnsweredInv'
<1>1. CASE FreshSession
  <2>1. answer' = Unsaid /\ message' = message /\ caller = "refused"
    BY <1>1 DEF FreshSession
  <2>2. message' = Unsaid
    BY <2>1 DEF AnsweredInv
  <2> QED BY <2>1, <2>2 DEF AnsweredInv, AnswersRead
<1>2. CASE OpensSocket
  <2>1. /\ caller \in {"asking", "asking again"} /\ answer' = answer /\ message' = message
        /\ caller' = "opening"
    BY <1>2 DEF OpensSocket, httpVars
  <2>2. answer' = Unsaid /\ message' = Unsaid
    BY <2>1 DEF AnsweredInv
  <2> QED BY <2>2 DEF AnsweredInv, AnswersRead
<1>3. CASE Renews \/ TaskStarts \/ TaskAnswered \/ TaskRemade
  <2>1. UNCHANGED <<purpose, answer, message, caller, readyState>>
    BY <1>3 DEF Renews, TaskStarts, TaskAnswered, TaskRemade, httpVars, wsVars
  <2> QED BY <2>1 DEF AnsweredInv, AnswersRead
<1>4. CASE \/ WsOpens \/ AckArrives \/ PingArrives \/ DataArrives \/ ErrorArrives
           \/ ServerCloses \/ WsDrops \/ AckTimeout \/ WsCloses
           \/ Awakes \/ StopsIt
  <2>1. UNCHANGED <<answer, message>>
    BY <1>4 DEF WsOpens, AckArrives, PingArrives, DataArrives, ErrorArrives, ServerCloses, WsDrops,
                AckTimeout, WsCloses, Awakes, StopsIt, httpVars
  <2>2. readyState # "idle"
    <3>1. CASE AckTimeout
      BY <3>1, SocketParts DEF AckTimeout, Untouched
    <3>2. CASE Awakes
      BY <3>2, SocketParts DEF Awakes, Untouched
    <3>3. CASE WsOpens \/ AckArrives \/ PingArrives \/ DataArrives \/ ErrorArrives
               \/ ServerCloses \/ WsDrops \/ WsCloses \/ StopsIt
      BY <3>3 DEF WsOpens, AckArrives, PingArrives, DataArrives, ErrorArrives, ServerCloses,
                  WsDrops, WsCloses, StopsIt, CanRead
    <3> QED BY <1>4, <3>1, <3>2, <3>3
  <2>3. caller # "answered"
    BY <2>2 DEF SocketInv
  <2>4. answer' = Unsaid /\ message' = Unsaid
    BY <2>1, <2>2, <2>3 DEF AnsweredInv
  <2> QED BY <2>4 DEF AnsweredInv, AnswersRead
<1> QED BY <1>1, <1>2, <1>3, <1>4 DEF SocketNext

\* What Rivian says is heard as it is said. Whatever codes an answer carries, in whatever order, a
\* session is given up as dead exactly when they or a bare 401 mean it, and a page is told that its
\* password is wrong only when they say so (errors.ts, toRivianApiError; connector.ts, #authed;
\* rivian-auth.ts, messageFor). Of every connection there is one ending, told last and once, to a
\* caller that is still there; on a socket too a session is dead on the server's word alone; the
\* first message is the handshake, and only that; and once a lifecycle is over its slow tasks ask
\* nothing more, whatever the order of the ack, its timer, frames, closes, losses, renewals and
\* sign-outs (socket.ts, openSocket; connector.ts, #connect, #socketEnded, #authed and #halt).
THEOREM HeardAsSaid == SocketSpec => []SocketSound
<1>1. SocketInit => SocketInv /\ AnsweredInv
  <2> SUFFICES ASSUME SocketInit PROVE SocketInv /\ AnsweredInv
    OBVIOUS
  <2>1. readyState = "idle" /\ Untouched
    BY DEF SocketInit, Untouched
  <2>2. AnsweredInv
    BY DEF SocketInit, AnsweredInv, AnswersRead
  <2> HIDE DEF Untouched
  <2>3. OneConnection
    BY <2>1 DEF Untouched, OneConnection, DeadHeard, OneEnding, SilentAfter
  <2> QED BY <2>1, <2>2, <2>3 DEF SocketInv
<1>2. SocketInv /\ AnsweredInv /\ [SocketNext]_socketVars => (SocketInv /\ AnsweredInv)'
  <2> SUFFICES ASSUME SocketInv, AnsweredInv, [SocketNext]_socketVars
               PROVE  SocketInv' /\ AnsweredInv'
    OBVIOUS
  <2>1. SocketInv'
    BY SocketStep
  <2>2. CASE UNCHANGED socketVars
    <3>1. UNCHANGED <<purpose, answer, message, caller, readyState>>
      BY <2>2 DEF socketVars, httpVars, wsVars
    <3> QED BY <2>1, <3>1 DEF AnsweredInv, AnswersRead
  <2>3. CASE SocketNext
    BY <2>1, <2>3, FailsStep, AnswersKept
  <2> QED BY <2>1, <2>2, <2>3
<1>3. SocketInv /\ AnsweredInv => SocketSound
  BY DEF SocketInv, AnsweredInv, SocketSound
<1> QED BY <1>1, <1>2, <1>3, PTL DEF SocketSpec

-----------------------------------------------------------------------------
(* History: the list that is read a page at a time.                        *)

Drive == [id : Nat, car : Garage, at : Nat, open : BOOLEAN, km : Nat]
Key == [at : Nat, id : Nat]
IdsApart(S) == \A r, s \in S : r.id = s.id => r = s
Falls(q) == \A i, j \in DOMAIN q : i < j => Before(q[j], q[i])
Listed(r, vehicle, from, to, cursor) ==
  r.car = vehicle /\ Within(r.at, from, to) /\ (cursor = Nil \/ Before(r, cursor))

LEMMA DriveFields ==
  ASSUME NEW r \in Drive
  PROVE  /\ r.id \in Nat /\ r.at \in Nat /\ r.car \in Garage /\ r.open \in BOOLEAN /\ r.km \in Nat
         /\ KeyOf(r) \in Key /\ KeyOf(r) # Nil /\ KeyOf(r).at = r.at /\ KeyOf(r).id = r.id
BY HistoryAssumption DEF Drive, Key, KeyOf

LEMMA KeyFields == ASSUME NEW k \in Key PROVE k.id \in Nat /\ k.at \in Nat /\ k # Nil
BY HistoryAssumption DEF Key

LEMMA BeforeOrders ==
  ASSUME NEW k, NEW l, NEW m, k.at \in Nat, k.id \in Nat, l.at \in Nat, l.id \in Nat,
         m.at \in Nat, m.id \in Nat
  PROVE  /\ ~Before(k, k)
         /\ Before(k, l) \/ Before(l, k) \/ (k.at = l.at /\ k.id = l.id)
         /\ ~(Before(k, l) /\ Before(l, k))
         /\ Before(k, l) /\ Before(l, m) => Before(k, m)
<1> DEFINE a == k.at  b == l.at  c == m.at  x == k.id  y == l.id  z == m.id
<1>1. a \in Nat /\ b \in Nat /\ c \in Nat /\ x \in Nat /\ y \in Nat /\ z \in Nat
  OBVIOUS
<1>2. /\ Before(k, k) <=> (a < a \/ (a = a /\ x < x))
      /\ Before(k, l) <=> (a < b \/ (a = b /\ x < y))
      /\ Before(l, k) <=> (b < a \/ (b = a /\ y < x))
      /\ Before(l, m) <=> (b < c \/ (b = c /\ y < z))
      /\ Before(k, m) <=> (a < c \/ (a = c /\ x < z))
  BY DEF Before
<1> HIDE DEF a, b, c, x, y, z
<1>3. /\ ~Before(k, k)
      /\ Before(k, l) \/ Before(l, k) \/ (a = b /\ x = y)
      /\ ~(Before(k, l) /\ Before(l, k))
      /\ Before(k, l) /\ Before(l, m) => Before(k, m)
  BY <1>1, <1>2
<1> QED BY <1>3 DEF a, b, x, y

\* The rows newest first: each of them once, in order.
LEMMA SortedIs ==
  ASSUME NEW S \in SUBSET Drive, IsFiniteSet(S), IdsApart(S), NEW q, q = NewestFirst(S)
  PROVE  /\ q \in Seq(S) /\ Falls(q)
         /\ \A r \in S : \E i \in DOMAIN q : q[i] = r
<1> DEFINE N == Cardinality(S)
           After(r) == {s \in S : Before(r, s)}
           rank == [r \in S |-> Cardinality(After(r)) + 1]
<1>1. N \in Nat /\ \A r \in S : r.id \in Nat /\ r.at \in Nat
  BY FS_CardinalityType, DriveFields
<1>2. \A r \in S : After(r) \in SUBSET S /\ r \notin After(r)
  BY <1>1, BeforeOrders
<1>3. ASSUME NEW r \in S
      PROVE  /\ IsFiniteSet(After(r)) /\ Cardinality(After(r)) \in Nat
             /\ Cardinality(After(r)) + 1 \in 1..N
  <2> DEFINE B == After(r)
             b == Cardinality(B)
  <2>1. B \in SUBSET S /\ B # S
    BY <1>2, <1>3
  <2> HIDE DEF B
  <2>2. IsFiniteSet(B) /\ b <= N /\ b # N /\ b \in Nat
    BY <2>1, FS_Subset, FS_CardinalityType
  <2> HIDE DEF N, b
  <2>3. b + 1 \in 1..N
    BY <1>1, <2>2
  <2> QED BY <2>2, <2>3 DEF B, b
<1>4. ASSUME NEW r \in S, NEW s \in S, Before(s, r)
      PROVE  rank[r] < rank[s]
  <2> DEFINE A == After(r)
             B == After(s)
             a == Cardinality(A)
             b == Cardinality(B)
  <2>1. A \in SUBSET B
    BY <1>1, <1>4, BeforeOrders
  <2>2. r \in B /\ r \notin A
    BY <1>2, <1>4
  <2>3. IsFiniteSet(B) /\ b \in Nat /\ a \in Nat
    BY <1>3
  <2> HIDE DEF A, B
  <2>4. a <= b /\ a # b
    BY <2>1, <2>2, <2>3, FS_Subset
  <2> HIDE DEF a, b
  <2>5. a + 1 < b + 1
    BY <2>3, <2>4
  <2> QED BY <2>5 DEF a, b, A, B
<1>5. rank \in [S -> 1..N] /\ \A r \in S : rank[r] = Cardinality(After(r)) + 1
  BY <1>3
<1> HIDE DEF rank
<1>6. \A r, s \in S : rank[r] = rank[s] => r = s
  <2> TAKE r, s \in S
  <2>1. rank[r] \in Nat /\ rank[s] \in Nat
    BY <1>5
  <2>2. rank[r] = rank[s] => ~Before(r, s) /\ ~Before(s, r)
    <3>1. Before(r, s) => rank[s] < rank[r]
      BY <1>4
    <3>2. Before(s, r) => rank[r] < rank[s]
      BY <1>4
    <3> QED BY <2>1, <3>1, <3>2
  <2>3. ~Before(r, s) /\ ~Before(s, r) => r.id = s.id
    BY <1>1, BeforeOrders
  <2> QED BY <2>2, <2>3 DEF IdsApart
<1>7. rank \in Injection(S, 1..N)
  BY <1>5, <1>6 DEF Injection, IsInjective
<1>8. rank \in Surjection(S, 1..N)
  <2> HIDE DEF N
  <2>1. IsFiniteSet(1..N) /\ Cardinality(1..N) = N
    BY <1>1, FS_Interval
  <2>2. Cardinality(S) = Cardinality(1..N)
    BY <2>1 DEF N
  <2> QED BY <1>7, <2>1, <2>2, FS_Injection
<1>9. \A n \in 1..N : \E r \in S : rank[r] = n
  BY <1>8 DEF Surjection
<1>10. \A n \in 1..N, r \in S : rank[r] = n <=> Cardinality(After(r)) = n - 1
  <2> TAKE n \in 1..N, r \in S
  <2> DEFINE a == Cardinality(After(r))
  <2>1. a \in Nat /\ rank[r] = a + 1
    <3>1. a \in Nat
      BY <1>3
    <3>2. rank[r] = a + 1
      BY <1>5
    <3> QED BY <3>1, <3>2
  <2>0. n \in Nat
    <3> HIDE DEF N
    <3> QED BY <1>1
  <2> HIDE DEF a
  <2>2. rank[r] = n <=> a = n - 1
    BY <2>0, <2>1
  <2> QED BY <2>2 DEF a
<1>11. q = [n \in 1..N |-> CHOOSE r \in S : Cardinality(After(r)) = n - 1]
  BY DEF NewestFirst
<1> HIDE DEF After, N
<1>12. \A n \in 1..N : q[n] \in S /\ rank[q[n]] = n
  <2> TAKE n \in 1..N
  <2>1. PICK r \in S : Cardinality(After(r)) = n - 1
    BY <1>9, <1>10
  <2>2. q[n] = CHOOSE s \in S : Cardinality(After(s)) = n - 1
    BY <1>11
  <2>3. q[n] \in S /\ Cardinality(After(q[n])) = n - 1
    BY <2>1, <2>2
  <2> QED BY <1>10, <2>3
<1>13. DOMAIN q = 1..N /\ q \in [1..N -> S] /\ q \in Seq(S)
  <2>1. q \in [1..N -> S]
    BY <1>11, <1>12
  <2> QED BY <1>1, <2>1
<1>14. Falls(q)
  <2> SUFFICES ASSUME NEW i \in 1..N, NEW j \in 1..N, i < j PROVE Before(q[j], q[i])
    BY <1>13 DEF Falls
  <2>1. q[i] \in S /\ q[j] \in S /\ rank[q[i]] = i /\ rank[q[j]] = j
    BY <1>12
  <2>2. Before(q[i], q[j]) => rank[q[j]] < rank[q[i]]
    BY <2>1, <1>4
  <2>3. i \in Nat /\ j \in Nat
    BY <1>1
  <2>4. ~Before(q[i], q[j]) /\ q[i] # q[j]
    BY <2>1, <2>2, <2>3
  <2>5. q[i].id # q[j].id
    BY <2>1, <2>4 DEF IdsApart
  <2> QED BY <1>1, <2>1, <2>4, <2>5, BeforeOrders
<1>15. \A r \in S : \E i \in DOMAIN q : q[i] = r
  <2> TAKE r \in S
  <2>1. rank[r] \in 1..N
    BY <1>5
  <2>2. rank[q[rank[r]]] = rank[r] /\ q[rank[r]] \in S
    BY <1>12, <2>1
  <2>3. q[rank[r]] = r
    BY <1>6, <2>2
  <2> QED BY <1>13, <2>1, <2>3
<1> QED BY <1>13, <1>14, <1>15

PageSet(S) == [sessions : Seq(S), next : Key \cup {Nil}]

\* A page is in order, of the rows behind the cursor, and leaves none out of what it has reached.
Page(S, p, vehicle, from, to, cursor) ==
  /\ p \in PageSet(S) /\ Falls(p.sessions)
  /\ \A i \in DOMAIN p.sessions : Listed(p.sessions[i], vehicle, from, to, cursor)
  /\ p.next # Nil => Len(p.sessions) > 0 /\ p.next = KeyOf(p.sessions[Len(p.sessions)])
  /\ \A r \in S : Listed(r, vehicle, from, to, cursor) /\ (p.next = Nil \/ ~Before(r, p.next)) =>
       \E i \in DOMAIN p.sessions : p.sessions[i] = r

LEMMA MinOfTwo ==
  ASSUME NEW m \in Nat, NEW n \in Nat
  PROVE  Min({m, n}) = IF m <= n THEN m ELSE n
<1> DEFINE l == IF m <= n THEN m ELSE n
<1>1. l \in {m, n} /\ \A y \in {m, n} : l <= y
  OBVIOUS
<1>2. \A x \in {m, n} : (\A y \in {m, n} : x <= y) => x = l
  OBVIOUS
<1> HIDE DEF l
<1>3. Min({m, n}) = l
  BY <1>1, <1>2 DEF Min
<1> QED BY <1>3 DEF l

LEMMA PrefixIs ==
  ASSUME NEW S, NEW q \in Seq(S), NEW n \in Nat, n <= Len(q), NEW s, s = SubSeq(q, 1, n)
  PROVE  s \in Seq(S) /\ Len(s) = n /\ DOMAIN s = 1..n /\ \A i \in 1..n : s[i] = q[i]
BY SubSeqProperties

LEMMA PageIs ==
  ASSUME NEW S \in SUBSET Drive, IsFiniteSet(S), IdsApart(S), NEW vehicle, NEW from, NEW to,
         NEW cursor \in Key \cup {Nil}, NEW p, p = ListSessions(S, vehicle, from, to, cursor)
  PROVE  Page(S, p, vehicle, from, to, cursor)
<1> DEFINE A == {r \in S : Listed(r, vehicle, from, to, cursor)}
           q == NewestFirst(A)
           n == Len(q)
           k == IF n <= PageSize + 1 THEN n ELSE PageSize + 1
           read == SubSeq(q, 1, k)
           m == IF k <= PageSize THEN k ELSE PageSize
           s == SubSeq(read, 1, m)
<1>0. PageSize \in Nat /\ PageSize > 0
  BY HistoryAssumption
<1>1. A \in SUBSET S /\ A \in SUBSET Drive
  OBVIOUS
<1>2. IsFiniteSet(A) /\ IdsApart(A)
  <2> HIDE DEF A
  <2> QED BY <1>1, FS_Subset DEF IdsApart
<1>3. q \in Seq(A) /\ Falls(q) /\ \A r \in A : \E i \in DOMAIN q : q[i] = r
  <2> HIDE DEF A
  <2> QED BY <1>1, <1>2, SortedIs
<1>4. Probed(S, vehicle, from, to, cursor) = read
  <2>1. A = {r \in S : r.car = vehicle /\ Within(r.at, from, to) /\ (cursor = Nil \/ Before(r, cursor))}
    BY DEF Listed
  <2>2. Probed(S, vehicle, from, to, cursor) = SubSeq(q, 1, Min({n, PageSize + 1}))
    BY <2>1 DEF Probed
  <2>3. n \in Nat /\ PageSize + 1 \in Nat
    BY <1>0, <1>3
  <2> QED BY <2>2, <2>3, MinOfTwo
<1> HIDE DEF A, q
<1>5. n \in Nat /\ k \in Nat /\ k <= n /\ m \in Nat /\ m <= k /\ m <= n
  BY <1>0, <1>3
<1>6. read \in Seq(A) /\ Len(read) = k /\ DOMAIN read = 1..k /\ \A i \in 1..k : read[i] = q[i]
  BY <1>3, <1>5, PrefixIs
<1>7. s \in Seq(A) /\ Len(s) = m /\ DOMAIN s = 1..m /\ \A i \in 1..m : s[i] = q[i]
  <2> HIDE DEF read, k, m
  <2>1. s \in Seq(A) /\ Len(s) = m /\ DOMAIN s = 1..m /\ \A i \in 1..m : s[i] = read[i]
    BY <1>5, <1>6, PrefixIs
  <2> QED BY <2>1, <1>5, <1>6
<1>8. p.sessions = s /\ p.next = (IF k > PageSize THEN KeyOf(read[PageSize]) ELSE Nil)
      /\ DOMAIN p = {"sessions", "next"} /\ p = [sessions |-> p.sessions, next |-> p.next]
  <2>1. Min({Len(read), PageSize}) = m
    <3> HIDE DEF read, k
    <3> QED BY <1>0, <1>5, <1>6, MinOfTwo
  <2>2. p = [sessions |-> SubSeq(read, 1, Min({Len(read), PageSize})), next |-> NextCursor(read)]
    BY <1>4 DEF ListSessions
  <2> DEFINE x == NextCursor(read)
  <2>3. x = IF k > PageSize THEN KeyOf(read[PageSize]) ELSE Nil
    BY <1>6 DEF NextCursor
  <2>4. p = [sessions |-> s, next |-> x]
    BY <2>1, <2>2
  <2> HIDE DEF s, x
  <2>5. p.sessions = s /\ p.next = x /\ DOMAIN p = {"sessions", "next"}
        /\ p = [sessions |-> p.sessions, next |-> p.next]
    BY <2>4
  <2> HIDE DEF read, k
  <2> QED BY <2>3, <2>5
<1> HIDE DEF s, read
<1>9. ASSUME p.next # Nil
      PROVE  k > PageSize /\ m = PageSize /\ p.next = KeyOf(q[PageSize]) /\ q[PageSize] \in A
             /\ PageSize \in 1..m /\ p.next = KeyOf(s[m])
  <2>1. k > PageSize /\ p.next = KeyOf(read[PageSize])
    BY <1>8, <1>9
  <2>2. m = PageSize /\ PageSize \in 1..m /\ PageSize \in 1..k /\ PageSize \in 1..n
    BY <1>0, <1>5, <2>1
  <2>3. read[PageSize] = q[PageSize] /\ s[m] = q[PageSize]
    BY <1>6, <1>7, <2>2
  <2>4. q[PageSize] \in A
    BY <1>3, <2>2
  <2> QED BY <2>1, <2>2, <2>3, <2>4
<1>10. p.next \in Key \cup {Nil}
  BY <1>1, <1>9, DriveFields
<1>11. p \in PageSet(S)
  <2>1. s \in Seq(S)
    BY <1>1, <1>7
  <2> QED BY <2>1, <1>8, <1>10 DEF PageSet
<1>12. Falls(p.sessions)
  <2> HIDE DEF m, k
  <2>1. \A i \in 1..m : i \in DOMAIN q
    BY <1>3, <1>5
  <2> QED BY <1>3, <1>7, <1>8, <2>1 DEF Falls
<1>13. \A i \in DOMAIN p.sessions : Listed(p.sessions[i], vehicle, from, to, cursor)
  <2> HIDE DEF m, k
  <2>1. \A i \in 1..m : s[i] \in A
    BY <1>7
  <2> QED BY <1>7, <1>8, <2>1 DEF A
<1>14. p.next # Nil => Len(p.sessions) > 0 /\ p.next = KeyOf(p.sessions[Len(p.sessions)])
  BY <1>0, <1>7, <1>8, <1>9
<1>15. ASSUME NEW r \in S, Listed(r, vehicle, from, to, cursor), p.next = Nil \/ ~Before(r, p.next)
       PROVE  \E i \in DOMAIN p.sessions : p.sessions[i] = r
  <2>1. PICK i \in DOMAIN q : q[i] = r
    BY <1>3, <1>15 DEF A
  <2>2. i \in 1..n
    BY <1>3, <2>1
  <2>3. i <= m
    <3>1. CASE p.next = Nil
      <4>1. k <= PageSize
        <5>1. k > PageSize => q[PageSize] \in A /\ p.next = KeyOf(q[PageSize])
          <6> SUFFICES ASSUME k > PageSize PROVE q[PageSize] \in A /\ p.next = KeyOf(q[PageSize])
            OBVIOUS
          <6>1. PageSize \in 1..k /\ PageSize \in 1..n
            BY <1>0, <1>5
          <6> QED BY <1>3, <1>6, <1>8, <6>1
        <5>2. k > PageSize => p.next # Nil
          BY <1>1, <5>1, DriveFields
        <5> QED BY <1>0, <1>5, <3>1, <5>2
      <4> QED BY <1>0, <1>5, <2>2, <4>1
    <3>2. CASE p.next # Nil
      <4>1. m = PageSize /\ p.next = KeyOf(q[PageSize]) /\ PageSize \in 1..n
        BY <1>0, <1>5, <1>9, <3>2
      <4>2. ~Before(r, q[PageSize])
        BY <1>15, <3>2, <4>1 DEF Before, KeyOf
      <4>3. ~(PageSize < i)
        BY <1>3, <2>1, <4>1, <4>2 DEF Falls
      <4> QED BY <1>0, <2>2, <4>1, <4>3
    <3> QED BY <3>1, <3>2
  <2>4. i \in 1..m
    BY <2>2, <2>3, <1>5
  <2> QED BY <1>7, <1>8, <2>1, <2>4
<1> QED BY <1>11, <1>12, <1>13, <1>14, <1>15 DEF Page

\* A list in order, and one behind its end in order.
LEMMA FallsOn ==
  ASSUME NEW q \in Seq(Drive), NEW s \in Seq(Drive), Falls(q), Falls(s),
         Len(q) > 0, \A i \in DOMAIN s : Before(s[i], q[Len(q)])
  PROVE  Falls(q \o s)
<1> DEFINE m == Len(q)
           n == Len(s)
           w == q \o s
<1>1. /\ m \in Nat /\ n \in Nat /\ m > 0 /\ Len(w) = m + n /\ DOMAIN w = 1..(m + n)
      /\ DOMAIN q = 1..m /\ DOMAIN s = 1..n
      /\ \A i \in 1..m : w[i] = q[i] /\ q[i] \in Drive
      /\ \A i \in 1..n : w[m + i] = s[i] /\ s[i] \in Drive
  OBVIOUS
<1> HIDE DEF w, m, n
<1>2. \A i \in (m + 1)..(m + n) : i - m \in 1..n /\ w[i] = s[i - m]
  <2> TAKE i \in (m + 1)..(m + n)
  <2>1. i - m \in 1..n /\ m + (i - m) = i
    BY <1>1
  <2> QED BY <1>1, <2>1
<1> SUFFICES ASSUME NEW i \in 1..(m + n), NEW j \in 1..(m + n), i < j PROVE Before(w[j], w[i])
  BY <1>1 DEF Falls, w
<1>3. CASE j <= m
  <2>1. i \in 1..m /\ j \in 1..m
    BY <1>1, <1>3
  <2> QED BY <1>1, <2>1 DEF Falls
<1>4. CASE i > m
  <2>1. i \in (m + 1)..(m + n) /\ j \in (m + 1)..(m + n) /\ i - m < j - m
    BY <1>1, <1>4
  <2> QED BY <1>1, <1>2, <2>1 DEF Falls
<1>5. CASE i <= m /\ j > m
  <2>1. i \in 1..m /\ m \in 1..m /\ j \in (m + 1)..(m + n) /\ (i < m \/ i = m)
    BY <1>1, <1>5
  <2>2. w[i] = q[i] /\ w[j] = s[j - m] /\ j - m \in 1..n
    BY <1>1, <1>2, <2>1
  <2>3. Before(s[j - m], q[m])
    BY <1>1, <2>2 DEF m
  <2>4. i < m => Before(q[m], q[i])
    BY <1>1, <2>1 DEF Falls
  <2>5. s[j - m] \in Drive /\ q[m] \in Drive /\ q[i] \in Drive
    BY <1>1, <2>1, <2>2
  <2>6. Before(s[j - m], q[i])
    BY <2>1, <2>3, <2>4, <2>5, DriveFields, BeforeOrders
  <2> QED BY <2>2, <2>6
<1> QED BY <1>1, <1>3, <1>4, <1>5

ViewSet ==
  [car : Garage \cup {Nil}, from : Bounds, to : Bounds, list : Seq(Drive), cursor : Key \cup {Nil},
   loading : BOOLEAN, failed : BOOLEAN, mixed : BOOLEAN]
RequestSet ==
  [car : Garage \cup {Nil}, cursor : Key \cup {Nil}, page : PageSet(Drive) \cup {Nil}]

\* The rows on record: finitely many, each with an id that was given to no other.
OnRecord ==
  /\ sessionRows \in SUBSET Drive /\ IsFiniteSet(sessionRows) /\ IdsApart(sessionRows)
  /\ spent \subseteq Ids /\ \A r \in sessionRows : r.id \in spent

ListTyped ==
  /\ evening \in Evenings /\ view \in ViewSet /\ request \in RequestSet \cup {Nil}
  /\ stayed \in SUBSET Key

\* A key that stayed is of a row that belongs in the list.
ListStays ==
  \A k \in stayed : \E r \in sessionRows :
    KeyOf(r) = k /\ r.car = view.car /\ Within(r.at, view.from, view.to)

\* The list is what has been read, down to the cursor.
ListReads ==
  /\ Falls(view.list)
  /\ \A i \in DOMAIN view.list :
       view.list[i].car = view.car /\ Within(view.list[i].at, view.from, view.to)
  /\ view.cursor # Nil => Len(view.list) > 0 /\ view.cursor = KeyOf(view.list[Len(view.list)])
  /\ \A k \in stayed : view.cursor = Nil \/ ~Before(k, view.cursor) =>
       \E i \in DOMAIN view.list : KeyOf(view.list[i]) = k

\* What is asked for is what comes next, and an answer has all of it that has stayed since.
ListAsks ==
  request # Nil =>
    /\ request.car = view.car /\ request.cursor = view.cursor /\ request.cursor # Nil
    /\ request.page # Nil =>
         LET p == request.page IN
         /\ Falls(p.sessions)
         /\ \A i \in DOMAIN p.sessions :
              Listed(p.sessions[i], view.car, view.from, view.to, view.cursor)
         /\ p.next # Nil => Len(p.sessions) > 0 /\ p.next = KeyOf(p.sessions[Len(p.sessions)])
         /\ \A k \in stayed : Before(k, view.cursor) /\ (p.next = Nil \/ ~Before(k, p.next)) =>
              \E i \in DOMAIN p.sessions : KeyOf(p.sessions[i]) = k

HistoryInv == OnRecord /\ ListTyped /\ (~view.mixed => ListStays /\ ListReads /\ ListAsks)

LEMMA ListIsStable == HistoryInv => ListStable
<1> SUFFICES ASSUME HistoryInv, ~view.mixed PROVE ListStable
  BY DEF ListStable
<1> DEFINE q == view.list
<1>1. q \in Seq(Drive) /\ ListReads
  BY DEF HistoryInv, ListTyped, ViewSet
<1>2. Shown = {q[i] : i \in DOMAIN q}
  BY DEF Shown, ToSet
<1>3. \A i \in 1..(Len(q) - 1) : Before(q[i + 1], q[i])
  <2> TAKE i \in 1..(Len(q) - 1)
  <2>1. i \in DOMAIN q /\ i + 1 \in DOMAIN q /\ i < i + 1
    BY <1>1
  <2> QED BY <1>1, <2>1 DEF ListReads, Falls
<1>4. \A r \in Shown : r.car = view.car /\ Within(r.at, view.from, view.to)
  BY <1>1, <1>2 DEF ListReads
<1>5. \A k \in stayed : view.cursor = Nil \/ ~Before(k, view.cursor) => k \in {KeyOf(r) : r \in Shown}
  <2> TAKE k \in stayed
  <2> HAVE view.cursor = Nil \/ ~Before(k, view.cursor)
  <2>1. PICK i \in DOMAIN q : KeyOf(q[i]) = k
    BY <1>1 DEF ListReads
  <2> QED BY <1>2, <2>1
<1> QED BY <1>3, <1>4, <1>5 DEF ListStable

LEMMA HistoryBegins == HistoryInit => HistoryInv
<1> SUFFICES ASSUME HistoryInit PROVE HistoryInv
  OBVIOUS
<1> DEFINE e == evening.record
           drive(i) == [id |-> e[i].id, car |-> e[i].car, at |-> i - 1, open |-> FALSE, km |-> i]
<1>1. e \in Seq([car : Garage, id : Ids]) /\ Ids \subseteq Nat
      /\ \A i, j \in DOMAIN e : e[i].id = e[j].id => i = j
  BY HistoryAssumption DEF HistoryInit
<1>2. sessionRows = {drive(i) : i \in DOMAIN e} /\ spent = {r.id : r \in sessionRows}
      /\ view = Nowhere /\ request = Nil /\ stayed = {} /\ evening \in Evenings
  BY DEF HistoryInit
<1> HIDE DEF e
<1>3. DOMAIN e = 1..Len(e) /\ Len(e) \in Nat
  BY <1>1
<1>4. ASSUME NEW i \in DOMAIN e PROVE drive(i) \in Drive /\ drive(i).id = e[i].id /\ drive(i).id \in Ids
  <2> DEFINE R == [car : Garage, id : Ids]
  <2>0. e \in Seq(R)
    BY <1>1
  <2> HIDE DEF R
  <2>1. e[i] \in R
    BY <1>4, <2>0
  <2>2. e[i].id \in Ids /\ e[i].car \in Garage /\ e[i].id \in Nat
    BY <1>1, <2>1 DEF R
  <2>3. i - 1 \in Nat /\ i \in Nat
    BY <1>3, <1>4
  <2> QED BY <2>2, <2>3 DEF Drive
<1> HIDE DEF drive
<1>5. sessionRows \in SUBSET Drive /\ IdsApart(sessionRows) /\ spent \subseteq Ids
  BY <1>1, <1>2, <1>4 DEF IdsApart
<1>6. IsFiniteSet(sessionRows)
  <2> DEFINE f == [i \in DOMAIN e |-> drive(i)]
  <2>1. f \in Surjection(DOMAIN e, sessionRows)
    BY <1>2 DEF Surjection
  <2>2. IsFiniteSet(DOMAIN e)
    BY <1>3, FS_Interval
  <2> HIDE DEF f
  <2> QED BY <2>1, <2>2, FS_Surjection
<1>7. ListTyped
  <2>1. Nowhere \in ViewSet
    BY DEF Nowhere, ViewSet, Bounds
  <2> QED BY <1>2, <2>1 DEF ListTyped
<1>8. ListStays /\ ListReads /\ ListAsks
  BY <1>2 DEF ListStays, ListReads, ListAsks, Nowhere, Falls
<1> QED BY <1>2, <1>5, <1>6, <1>7, <1>8 DEF HistoryInv, OnRecord

\* What is written leaves the list alone: a row on record before and after is of the same car and
\* at the same instant if it has the same key.
LEMMA WritesKeep ==
  ASSUME HistoryInv, OnRecord', UNCHANGED <<evening, view, request>>, Records(sessionRows'),
         \A r \in sessionRows, s \in sessionRows' : KeyOf(r) = KeyOf(s) => r.car = s.car
  PROVE  HistoryInv'
<1>1. stayed' = stayed \cap {KeyOf(r) : r \in sessionRows'}
  BY DEF Records
<1>2. ListTyped'
  BY <1>1 DEF HistoryInv, ListTyped
<1>3. view' = view /\ request' = request
  OBVIOUS
<1>4. ASSUME ~view.mixed PROVE (ListStays /\ ListReads /\ ListAsks)'
  <2>1. ListStays /\ ListReads /\ ListAsks
    BY <1>4 DEF HistoryInv
  <2>2. ListStays'
    <3> SUFFICES ASSUME NEW k \in stayed'
                 PROVE  \E s \in sessionRows' : KeyOf(s) = k /\ s.car = view.car
                                                 /\ Within(s.at, view.from, view.to)
      BY <1>3 DEF ListStays
    <3>1. PICK s \in sessionRows' : KeyOf(s) = k
      BY <1>1
    <3>2. PICK r \in sessionRows : KeyOf(r) = k /\ r.car = view.car /\ Within(r.at, view.from, view.to)
      BY <1>1, <2>1 DEF ListStays
    <3>3. r.at = s.at /\ r.car = s.car
      BY <3>1, <3>2 DEF KeyOf
    <3> QED BY <3>1, <3>2, <3>3
  <2>3. ListReads'
    BY <1>1, <1>3, <2>1 DEF ListReads
  <2>4. ListAsks'
    BY <1>1, <1>3, <2>1 DEF ListAsks
  <2> QED BY <2>2, <2>3, <2>4
<1> QED BY <1>2, <1>3, <1>4 DEF HistoryInv

\* Two rows of which each is on record, or has an id of its own.
LEMMA SameRow ==
  ASSUME NEW r \in Drive, NEW s \in Drive, KeyOf(r) = KeyOf(s)
  PROVE  r.id = s.id /\ r.at = s.at
BY DEF KeyOf

LEMMA DriveOpensKeeps == ASSUME HistoryInv, NEW vehicle \in Garage, DriveOpens(vehicle) PROVE HistoryInv'
<1>1. PICK at \in {LatestStart(vehicle) + 1} \cap Instants, id \in Ids \ spent :
        /\ Records(sessionRows \cup {[id |-> id, car |-> vehicle, at |-> at, open |-> TRUE, km |-> 0]})
        /\ spent' = spent \cup {id} /\ UNCHANGED <<evening, view, request>>
  BY DEF DriveOpens
<1> DEFINE new == [id |-> id, car |-> vehicle, at |-> at, open |-> TRUE, km |-> 0]
<1>2. OnRecord /\ sessionRows' = sessionRows \cup {new} /\ Records(sessionRows')
  BY <1>1 DEF HistoryInv, Records
<1>3. new \in Drive /\ new.id = id /\ id \notin spent
  <2>1. at \in Instants /\ id \in Ids /\ id \notin spent
    BY <1>1
  <2>2. id \in Nat
    BY <2>1, HistoryAssumption
  <2>3. Horizon \in Nat
    BY HistoryAssumption
  <2>4. at \in Nat
    BY <2>1, <2>3 DEF Instants
  <2> QED BY <2>1, <2>2, <2>4 DEF Drive
<1> HIDE DEF new
<1>4. IsFiniteSet(sessionRows')
  BY <1>2, FS_AddElement DEF OnRecord
<1>5. OnRecord'
  BY <1>1, <1>2, <1>3, <1>4 DEF OnRecord, IdsApart
<1>6. \A r \in sessionRows, s \in sessionRows' : KeyOf(r) = KeyOf(s) => r.car = s.car
  BY <1>2, <1>3, SameRow DEF OnRecord, IdsApart
<1> QED BY <1>1, <1>2, <1>5, <1>6, WritesKeep

\* A row that takes the place of another and keeps its id and its car.
LEMMA ReplacedKeeps ==
  ASSUME HistoryInv, NEW drive \in sessionRows, NEW kept \in SUBSET Drive, IsFiniteSet(kept),
         \A r \in kept : r.id = drive.id /\ r.car = drive.car, \A r, s \in kept : r = s,
         Records((sessionRows \ {drive}) \cup kept), UNCHANGED <<evening, spent, view, request>>
  PROVE  HistoryInv'
<1>1. OnRecord /\ sessionRows' = (sessionRows \ {drive}) \cup kept /\ Records(sessionRows')
  BY DEF HistoryInv, Records
<1>2. IsFiniteSet(sessionRows')
  BY <1>1, FS_Union, FS_RemoveElement DEF OnRecord
<1>3. OnRecord'
  BY <1>1, <1>2 DEF OnRecord, IdsApart
<1>4. \A r \in sessionRows, s \in sessionRows' : KeyOf(r) = KeyOf(s) => r.car = s.car
  BY <1>1, SameRow DEF OnRecord, IdsApart
<1> QED BY <1>1, <1>3, <1>4, WritesKeep

LEMMA DriveEndsKeeps ==
  ASSUME HistoryInv, NEW drive \in sessionRows, DriveEnds(drive) \/ DriveMoves(drive) PROVE HistoryInv'
<1>1. drive \in Drive /\ drive.at \in Nat
  BY DriveFields DEF HistoryInv, OnRecord
<1>2. CASE DriveEnds(drive)
  <2> DEFINE new == [drive EXCEPT !.open = FALSE, !.km = 1 + drive.at]
  <2>1. PICK kept \in {{}, {new}} : Records((sessionRows \ {drive}) \cup kept)
    BY <1>2 DEF DriveEnds
  <2>2. new \in Drive /\ new.id = drive.id /\ new.car = drive.car
    <3>1. 1 + drive.at \in Nat
      BY <1>1
    <3> QED BY <1>1, <3>1 DEF Drive
  <2> HIDE DEF new
  <2>3. UNCHANGED <<evening, spent, view, request>>
    BY <1>2 DEF DriveEnds
  <2>4. IsFiniteSet(kept)
    <3>1. kept = {} \/ kept = {new}
      BY <2>1
    <3>2. IsFiniteSet({})
      BY FS_EmptySet
    <3>3. IsFiniteSet({new})
      BY FS_Singleton
    <3> QED BY <3>1, <3>2, <3>3
  <2> QED BY <2>1, <2>2, <2>3, <2>4, ReplacedKeeps
<1>3. CASE DriveMoves(drive)
  <2>1. PICK at \in Instants : Records((sessionRows \ {drive}) \cup {[drive EXCEPT !.at = at]})
    BY <1>3 DEF DriveMoves
  <2> DEFINE new == [drive EXCEPT !.at = at]
  <2>2. new \in Drive /\ new.id = drive.id /\ new.car = drive.car
    BY <1>1, HistoryAssumption DEF Drive, Instants
  <2>3. Records((sessionRows \ {drive}) \cup {new})
    BY <2>1
  <2> HIDE DEF new
  <2>4. UNCHANGED <<evening, spent, view, request>>
    BY <1>3 DEF DriveMoves
  <2>5. IsFiniteSet({new})
    BY FS_Singleton
  <2> QED BY <2>2, <2>3, <2>4, <2>5, ReplacedKeeps
<1> QED BY <1>2, <1>3

LEMMA RewritesKeeps == ASSUME HistoryInv, NEW vehicle \in Garage, Rewrites(vehicle) PROVE HistoryInv'
<1>1. PICK from \in Instants :
        LET gone == {r \in sessionRows : r.car = vehicle /\ r.at >= from}
        IN \E back \in SUBSET gone : \E ids \in Fresh(Cardinality(back)) :
             /\ \E id \in [back -> ids] :
                  /\ \A r, s \in back : id[r] = id[s] => r = s
                  /\ Records((sessionRows \ gone) \cup {[r EXCEPT !.id = id[r]] : r \in back})
             /\ spent' = spent \cup ids
  BY DEF Rewrites
<1> DEFINE gone == {r \in sessionRows : r.car = vehicle /\ r.at >= from}
<1>2. PICK back \in SUBSET gone : \E ids \in Fresh(Cardinality(back)) :
        /\ \E id \in [back -> ids] :
             /\ \A r, s \in back : id[r] = id[s] => r = s
             /\ Records((sessionRows \ gone) \cup {[r EXCEPT !.id = id[r]] : r \in back})
        /\ spent' = spent \cup ids
  BY <1>1
<1>20. PICK ids \in Fresh(Cardinality(back)) :
        /\ \E id \in [back -> ids] :
             /\ \A r, s \in back : id[r] = id[s] => r = s
             /\ Records((sessionRows \ gone) \cup {[r EXCEPT !.id = id[r]] : r \in back})
        /\ spent' = spent \cup ids
  BY <1>2
<1>3. PICK id \in [back -> ids] :
        /\ \A r, s \in back : id[r] = id[s] => r = s
        /\ Records((sessionRows \ gone) \cup {[r EXCEPT !.id = id[r]] : r \in back})
  BY <1>20
<1> DEFINE new(r) == [r EXCEPT !.id = id[r]]
           all == {new(r) : r \in back}
<1>4. /\ OnRecord /\ sessionRows' = (sessionRows \ gone) \cup all /\ Records(sessionRows')
      /\ UNCHANGED <<evening, view, request>> /\ ids \in SUBSET (Ids \ spent)
      /\ back \in SUBSET sessionRows /\ Ids \subseteq Nat /\ spent' = spent \cup ids
  BY <1>20, <1>3, HistoryAssumption DEF HistoryInv, Records, Rewrites, Fresh
<1> HIDE DEF gone
<1>5. \A r \in back : new(r) \in Drive /\ new(r).id = id[r] /\ id[r] \in ids /\ id[r] \notin spent
  BY <1>4 DEF OnRecord, Drive
<1>6. IsFiniteSet(back)
  BY <1>4, FS_Subset DEF OnRecord
<1>7. IsFiniteSet(all)
  <2> DEFINE f == [r \in back |-> new(r)]
  <2>1. f \in Surjection(back, all)
    BY DEF Surjection
  <2> HIDE DEF f, all
  <2> QED BY <1>6, <2>1, FS_Surjection
<1> HIDE DEF new
<1>8. \A s \in all : s \in Drive /\ s.id \in ids /\ s.id \notin spent
  BY <1>5
<1>9. \A r, s \in all : r.id = s.id => r = s
  BY <1>3, <1>5
<1> HIDE DEF all
<1>10. IsFiniteSet(sessionRows \ gone)
  BY <1>4, FS_Difference DEF OnRecord
<1>11. IsFiniteSet(sessionRows')
  BY <1>4, <1>7, <1>10, FS_Union
<1>12. OnRecord'
  BY <1>4, <1>8, <1>9, <1>11 DEF OnRecord, IdsApart
<1>13. \A r \in sessionRows, s \in sessionRows' : KeyOf(r) = KeyOf(s) => r.car = s.car
  BY <1>4, <1>8, SameRow DEF OnRecord, IdsApart
<1> QED BY <1>4, <1>12, <1>13, WritesKeep

LEMMA MorePages == ASSUME NEW S \in SUBSET Drive PROVE PageSet(S) \subseteq PageSet(Drive)
<1>1. Seq(S) \subseteq Seq(Drive)
  OBVIOUS
<1> QED BY <1>1 DEF PageSet

LEMMA LoadsDrivesKeeps == ASSUME HistoryInv, LoadsDrives PROVE HistoryInv'
<1>1. PICK vehicle \in Garage, f \in Filters :
        LET first == ListSessions(sessionRows, vehicle, f[1], f[2], Nil)
        IN /\ view' = [Nowhere EXCEPT !.car = vehicle, !.from = f[1], !.to = f[2],
                                      !.list = first.sessions, !.cursor = first.next]
           /\ stayed' = {KeyOf(r) : r \in {s \in sessionRows : s.car = vehicle /\ Within(s.at, f[1], f[2])}}
  BY DEF LoadsDrives
<1> DEFINE from == f[1]
           to == f[2]
           p == ListSessions(sessionRows, vehicle, from, to, Nil)
           S == {s \in sessionRows : s.car = vehicle /\ Within(s.at, from, to)}
<1>2. /\ view' = [Nowhere EXCEPT !.car = vehicle, !.from = from, !.to = to, !.list = p.sessions, !.cursor = p.next]
      /\ stayed' = {KeyOf(r) : r \in S}
      /\ request' = Nil /\ UNCHANGED <<evening, sessionRows, spent>> /\ evening \in Evenings
  BY <1>1 DEF LoadsDrives, HistoryInv, ListTyped
<1>3. from \in Bounds /\ to \in Bounds
  BY <1>2, HistoryAssumption DEF Filters, Bounds, Instants
<1>4. OnRecord
  BY DEF HistoryInv
<1>5. Page(sessionRows, p, vehicle, from, to, Nil)
  BY <1>4, PageIs DEF OnRecord
<1> HIDE DEF p, from, to
<1>6. p \in PageSet(Drive) /\ p.sessions \in Seq(Drive) /\ p.next \in Key \cup {Nil}
  BY <1>4, <1>5, MorePages DEF OnRecord, Page, PageSet
<1>7. /\ view' = [car |-> vehicle, from |-> from, to |-> to, list |-> p.sessions, cursor |-> p.next,
                  loading |-> FALSE, failed |-> FALSE, mixed |-> FALSE]
  BY <1>2 DEF Nowhere
<1>8. view' \in ViewSet
  BY <1>3, <1>6, <1>7 DEF ViewSet
<1>9. stayed' \in SUBSET Key
  BY <1>2, <1>4, DriveFields DEF OnRecord
<1>10. ListTyped'
  BY <1>2, <1>8, <1>9 DEF ListTyped
<1>11. OnRecord'
  BY <1>2, <1>4 DEF OnRecord
<1>12. /\ view'.car = vehicle /\ view'.from = from /\ view'.to = to /\ view'.list = p.sessions
       /\ view'.cursor = p.next
  BY <1>7
<1>13. ListStays'
  BY <1>2, <1>12 DEF ListStays
<1>14. ListReads'
  <2>1. ASSUME NEW k \in stayed', p.next = Nil \/ ~Before(k, p.next)
        PROVE  \E i \in DOMAIN p.sessions : KeyOf(p.sessions[i]) = k
    <3>1. PICK r \in S : KeyOf(r) = k
      BY <1>2, <2>1
    <3>2. p.next = Nil \/ ~Before(r, p.next)
      BY <2>1, <3>1 DEF Before, KeyOf
    <3>3. Listed(r, vehicle, from, to, Nil)
      BY <3>1 DEF Listed
    <3> QED BY <1>5, <3>1, <3>2, <3>3 DEF Page
  <2>2. \A i \in DOMAIN p.sessions : p.sessions[i].car = vehicle /\ Within(p.sessions[i].at, from, to)
    BY <1>5 DEF Page, Listed
  <2>3. Falls(p.sessions)
        /\ (p.next # Nil => Len(p.sessions) > 0 /\ p.next = KeyOf(p.sessions[Len(p.sessions)]))
    BY <1>5 DEF Page
  <2> QED BY <1>12, <2>1, <2>2, <2>3 DEF ListReads
<1>15. ListAsks'
  BY <1>2 DEF ListAsks
<1> QED BY <1>10, <1>11, <1>13, <1>14, <1>15 DEF HistoryInv

LEMMA LoadMoreKeeps == ASSUME HistoryInv, LoadMore \/ Jumps PROVE HistoryInv'
<1>0. OnRecord' /\ view \in ViewSet
  BY DEF HistoryInv, OnRecord, LoadMore, Jumps, ListTyped
<1>1. CASE Jumps
  <2>1. PICK vehicle \in Garage : view' = [view EXCEPT !.car = vehicle, !.mixed = TRUE]
    BY <1>1 DEF Jumps
  <2>2. view' \in ViewSet /\ view'.mixed
    BY <1>0, <2>1 DEF ViewSet
  <2> QED BY <1>0, <1>1, <2>2 DEF HistoryInv, ListTyped, Jumps
<1>2. CASE LoadMore
  <2>1. /\ view.cursor # Nil /\ view' = [view EXCEPT !.loading = TRUE, !.failed = FALSE]
        /\ request' = [car |-> view.car, cursor |-> view.cursor, page |-> Nil]
        /\ UNCHANGED <<evening, sessionRows, spent, stayed>>
    BY <1>2 DEF LoadMore
  <2>2. /\ view' \in ViewSet /\ view'.mixed = view.mixed /\ view'.car = view.car
        /\ view'.from = view.from /\ view'.to = view.to /\ view'.list = view.list
        /\ view'.cursor = view.cursor
    BY <1>0, <2>1 DEF ViewSet
  <2>3. request' \in RequestSet /\ request'.car = view.car /\ request'.cursor = view.cursor
        /\ request'.page = Nil
    BY <1>0, <2>1 DEF RequestSet, ViewSet
  <2>4. ListTyped'
    BY <2>1, <2>2, <2>3 DEF ListTyped, HistoryInv
  <2>5. ASSUME ~view.mixed PROVE (ListStays /\ ListReads /\ ListAsks)'
    <3>1. ListStays /\ ListReads
      BY <2>5 DEF HistoryInv
    <3>2. ListStays' /\ ListReads'
      BY <2>1, <2>2, <3>1 DEF ListStays, ListReads
    <3>3. ListAsks'
      BY <2>1, <2>2, <2>3 DEF ListAsks
    <3> QED BY <3>2, <3>3
  <2> QED BY <1>0, <2>2, <2>4, <2>5 DEF HistoryInv
<1> QED BY <1>1, <1>2

LEMMA ServerAnswersKeeps == ASSUME HistoryInv, ServerAnswers PROVE HistoryInv'
<1> DEFINE p == ListSessions(sessionRows, request.car, view.from, view.to, request.cursor)
<1>1. /\ request # Nil /\ request' = [request EXCEPT !.page = p]
      /\ UNCHANGED <<evening, sessionRows, spent, view, stayed>>
      /\ request \in RequestSet /\ OnRecord
  BY DEF ServerAnswers, HistoryInv, ListTyped
<1>2. Page(sessionRows, p, request.car, view.from, view.to, request.cursor)
  BY <1>1, PageIs DEF OnRecord, RequestSet
<1> HIDE DEF p
<1>3. p \in PageSet(Drive)
  BY <1>1, <1>2, MorePages DEF OnRecord, Page
<1>4. request' \in RequestSet /\ request'.car = request.car /\ request'.cursor = request.cursor
      /\ request'.page = p
  BY <1>1, <1>3 DEF RequestSet
<1>5. ListTyped' /\ OnRecord'
  BY <1>1, <1>4 DEF ListTyped, OnRecord, HistoryInv
<1>6. ASSUME ~view.mixed PROVE (ListStays /\ ListReads /\ ListAsks)'
  <2>1. ListStays /\ ListReads /\ ListAsks
    BY <1>6 DEF HistoryInv
  <2>2. ListStays' /\ ListReads'
    BY <1>1, <2>1 DEF ListStays, ListReads
  <2>3. request.car = view.car /\ request.cursor = view.cursor /\ view.cursor # Nil
    BY <1>1, <2>1 DEF ListAsks
  <2>4. Page(sessionRows, p, view.car, view.from, view.to, view.cursor)
    BY <1>2, <2>3
  <2>5. ASSUME NEW k \in stayed, Before(k, view.cursor), p.next = Nil \/ ~Before(k, p.next)
        PROVE  \E i \in DOMAIN p.sessions : KeyOf(p.sessions[i]) = k
    <3>1. PICK r \in sessionRows : KeyOf(r) = k /\ r.car = view.car /\ Within(r.at, view.from, view.to)
      BY <2>1, <2>5 DEF ListStays
    <3>2. Listed(r, view.car, view.from, view.to, view.cursor) /\ (p.next = Nil \/ ~Before(r, p.next))
      BY <2>5, <3>1 DEF Listed, Before, KeyOf
    <3> QED BY <2>4, <3>1, <3>2 DEF Page
  <2>6. ListAsks'
    <3>1. /\ Falls(p.sessions)
          /\ \A i \in DOMAIN p.sessions :
               Listed(p.sessions[i], view.car, view.from, view.to, view.cursor)
          /\ p.next # Nil => Len(p.sessions) > 0 /\ p.next = KeyOf(p.sessions[Len(p.sessions)])
      BY <2>4 DEF Page
    <3> QED BY <1>1, <1>4, <2>3, <2>5, <3>1 DEF ListAsks
  <2> QED BY <2>2, <2>6
<1> QED BY <1>1, <1>5, <1>6 DEF HistoryInv


LEMMA SettlesKeeps == ASSUME HistoryInv, Settles PROVE HistoryInv'
<1>1. /\ request # Nil /\ request' = Nil /\ UNCHANGED <<evening, sessionRows, spent, stayed>>
      /\ request \in RequestSet /\ view \in ViewSet /\ OnRecord
  BY DEF Settles, HistoryInv, ListTyped
<1>2. OnRecord' /\ ListAsks'
  BY <1>1 DEF OnRecord, ListAsks
<1>3. CASE view' = [view EXCEPT !.failed = TRUE, !.loading = FALSE]
  <2>1. /\ view' \in ViewSet /\ view'.mixed = view.mixed /\ view'.car = view.car
        /\ view'.from = view.from /\ view'.to = view.to /\ view'.list = view.list
        /\ view'.cursor = view.cursor
    BY <1>1, <1>3 DEF ViewSet
  <2>2. ListTyped'
    BY <1>1, <2>1 DEF ListTyped, HistoryInv
  <2>3. ListStays /\ ListReads => (ListStays /\ ListReads)'
    BY <1>1, <2>1 DEF ListStays, ListReads
  <2> QED BY <1>2, <2>1, <2>2, <2>3 DEF HistoryInv
<1>4. CASE /\ request.page # Nil
           /\ view' = [view EXCEPT !.list = @ \o request.page.sessions, !.cursor = request.page.next,
                                   !.loading = FALSE]
  <2> DEFINE p == request.page
             s == p.sessions
             q == view.list
             w == q \o s
             c == view.cursor
  <2>1. p \in PageSet(Drive) /\ s \in Seq(Drive) /\ p.next \in Key \cup {Nil} /\ q \in Seq(Drive)
        /\ c \in Key \cup {Nil}
    BY <1>1, <1>4 DEF RequestSet, PageSet, ViewSet
  <2>2. w \in Seq(Drive)
    BY <2>1
  <2>3. /\ view' \in ViewSet /\ view'.mixed = view.mixed /\ view'.car = view.car
        /\ view'.from = view.from /\ view'.to = view.to /\ view'.list = w
        /\ view'.cursor = p.next
    BY <1>1, <1>4, <2>1, <2>2 DEF ViewSet
  <2>4. ListTyped'
    BY <1>1, <2>3 DEF ListTyped, HistoryInv
  <2>5. ASSUME ~view.mixed PROVE (ListStays /\ ListReads)'
    <3>1. ListStays /\ ListReads /\ ListAsks
      BY <2>5 DEF HistoryInv
    <3>2. ListStays'
      BY <1>1, <2>3, <3>1 DEF ListStays
    <3>3. /\ c # Nil /\ Falls(s)
          /\ \A i \in DOMAIN s : Listed(s[i], view.car, view.from, view.to, c)
          /\ p.next # Nil => Len(s) > 0 /\ p.next = KeyOf(s[Len(s)])
          /\ \A k \in stayed : Before(k, c) /\ (p.next = Nil \/ ~Before(k, p.next)) =>
               \E i \in DOMAIN s : KeyOf(s[i]) = k
      BY <1>1, <1>4, <3>1 DEF ListAsks
    <3>4. /\ Falls(q) /\ Len(q) > 0 /\ c = KeyOf(q[Len(q)])
          /\ \A i \in DOMAIN q : q[i].car = view.car /\ Within(q[i].at, view.from, view.to)
          /\ \A k \in stayed : ~Before(k, c) => \E i \in DOMAIN q : KeyOf(q[i]) = k
      BY <3>1, <3>3 DEF ListReads
    <3> HIDE DEF p, s, q, c
    <3>5. \A i \in DOMAIN s : Before(s[i], q[Len(q)])
      BY <3>3, <3>4 DEF Listed, Before, KeyOf
    <3>6. Falls(w)
      BY <2>1, <3>3, <3>4, <3>5, FallsOn
    <3>7. /\ Len(q) \in Nat /\ Len(s) \in Nat /\ Len(w) = Len(q) + Len(s)
          /\ DOMAIN w = 1..Len(w) /\ DOMAIN q = 1..Len(q) /\ DOMAIN s = 1..Len(s)
          /\ \A i \in DOMAIN q : i \in DOMAIN w /\ w[i] = q[i]
          /\ \A i \in DOMAIN s : Len(q) + i \in DOMAIN w /\ w[Len(q) + i] = s[i]
          /\ \A i \in DOMAIN w : (i \in DOMAIN q /\ w[i] = q[i]) \/ \E j \in DOMAIN s : w[i] = s[j]
      <4>1. /\ Len(q) \in Nat /\ Len(s) \in Nat /\ Len(w) = Len(q) + Len(s)
            /\ DOMAIN w = 1..Len(w) /\ DOMAIN q = 1..Len(q) /\ DOMAIN s = 1..Len(s)
            /\ \A i \in DOMAIN q : i \in DOMAIN w /\ w[i] = q[i]
            /\ \A i \in DOMAIN s : Len(q) + i \in DOMAIN w /\ w[Len(q) + i] = s[i]
        BY <2>1
      <4>2. ASSUME NEW i \in DOMAIN w, i \notin DOMAIN q PROVE \E j \in DOMAIN s : w[i] = s[j]
        <5> HIDE DEF w
        <5>1. i - Len(q) \in DOMAIN s /\ Len(q) + (i - Len(q)) = i
          BY <4>1, <4>2
        <5> QED BY <4>1, <5>1
      <4> HIDE DEF w
      <4> QED BY <4>1, <4>2
    <3> HIDE DEF w
    <3>8. \A i \in DOMAIN w : w[i].car = view.car /\ Within(w[i].at, view.from, view.to)
      BY <3>3, <3>4, <3>7 DEF Listed
    <3>9. p.next # Nil => Len(w) > 0 /\ p.next = KeyOf(w[Len(w)])
      <4> SUFFICES ASSUME p.next # Nil PROVE Len(w) > 0 /\ p.next = KeyOf(w[Len(w)])
        OBVIOUS
      <4>1. Len(s) > 0 /\ Len(s) \in DOMAIN s /\ Len(w) > 0
        BY <3>3, <3>7
      <4>2. w[Len(w)] = s[Len(s)]
        BY <3>7, <4>1
      <4> QED BY <3>3, <4>1, <4>2
    <3>10. ASSUME NEW k \in stayed, p.next = Nil \/ ~Before(k, p.next)
           PROVE  \E i \in DOMAIN w : KeyOf(w[i]) = k
      <4>1. CASE Before(k, c)
        <5>1. PICK i \in DOMAIN s : KeyOf(s[i]) = k
          BY <3>3, <3>10, <4>1
        <5> QED BY <3>7, <5>1
      <4>2. CASE ~Before(k, c)
        <5>1. PICK i \in DOMAIN q : KeyOf(q[i]) = k
          BY <3>4, <4>2
        <5> QED BY <3>7, <5>1
      <4> QED BY <4>1, <4>2
    <3>11. ListReads'
      BY <1>1, <2>3, <3>6, <3>8, <3>9, <3>10 DEF ListReads
    <3> QED BY <3>2, <3>11
  <2> QED BY <1>2, <2>3, <2>4, <2>5 DEF HistoryInv
<1> QED BY <1>3, <1>4 DEF Settles

LEMMA HistoryStep == HistoryInv /\ [HistoryNext]_historyVars => HistoryInv'
<1> SUFFICES ASSUME HistoryInv, [HistoryNext]_historyVars PROVE HistoryInv'
  OBVIOUS
<1>1. ASSUME NEW vehicle \in Garage, DriveOpens(vehicle) \/ Rewrites(vehicle) PROVE HistoryInv'
  BY <1>1, DriveOpensKeeps, RewritesKeeps
<1>2. ASSUME NEW drive \in sessionRows, DriveEnds(drive) \/ DriveMoves(drive) PROVE HistoryInv'
  BY <1>2, DriveEndsKeeps
<1>3. CASE LoadsDrives
  BY <1>3, LoadsDrivesKeeps
<1>4. CASE LoadMore \/ Jumps
  BY <1>4, LoadMoreKeeps
<1>5. CASE ServerAnswers
  BY <1>5, ServerAnswersKeeps
<1>6. CASE Settles
  BY <1>6, SettlesKeeps
<1>7. CASE UNCHANGED historyVars
  BY <1>7 DEF historyVars, HistoryInv, OnRecord, ListTyped, ListStays, ListReads, ListAsks
<1> QED BY <1>1, <1>2, <1>3, <1>4, <1>5, <1>6, <1>7 DEF HistoryNext

-----------------------------------------------------------------------------
(* History: the totals of a window.                                        *)

\* The distance of the rows of S, as a fold: f has that of every part of S.
Km(S) == MapThenSumSet(LAMBDA r : r.km, S)
One(T) == CHOOSE x \in T : TRUE
KmStep(f, T) == IF T = {} THEN 0 ELSE One(T).km + f[T \ {One(T)}]
IsKm(f, S) == f = [T \in SUBSET S |-> KmStep(f, T)]

LEMMA KmIs == ASSUME NEW S PROVE Km(S) = (CHOOSE f : IsKm(f, S))[S]
BY DEF Km, MapThenSumSet, MapThenFoldSet, IsKm, KmStep, One

\* A row less is a smaller set.
LEMMA OneLess ==
  ASSUME NEW T, IsFiniteSet(T), NEW x \in T
  PROVE  /\ IsFiniteSet(T \ {x}) /\ Cardinality(T) \in Nat /\ Cardinality(T \ {x}) \in Nat
         /\ Cardinality(T) = Cardinality(T \ {x}) + 1 /\ T = (T \ {x}) \cup {x}
<1> DEFINE a == Cardinality(T)
           b == Cardinality(T \ {x})
<1>1. IsFiniteSet(T \ {x}) /\ b = a - 1
  BY FS_RemoveElement
<1>2. a \in Nat /\ b \in Nat
  BY <1>1, FS_CardinalityType
<1> HIDE DEF a, b
<1>3. a = b + 1
  BY <1>1, <1>2
<1> QED BY <1>1, <1>2, <1>3 DEF a, b

LEMMA OneOfThem ==
  ASSUME NEW S \in SUBSET Drive, NEW T \in SUBSET S, T # {}
  PROVE  One(T) \in T /\ One(T) \in S /\ One(T).km \in Nat /\ T \ {One(T)} \in SUBSET S
BY DEF One, Drive

LEMMA EmptyOrNot ==
  ASSUME NEW T, IsFiniteSet(T)
  PROVE  Cardinality(T) \in Nat /\ (Cardinality(T) <= 0 => T = {}) /\ (T = {} => Cardinality(T) = 0)
<1>1. Cardinality(T) \in Nat /\ (Cardinality(T) = 0 <=> T = {})
  BY FS_CardinalityType, FS_EmptySet
<1> QED BY <1>1

Small(S, n) == {T \in SUBSET S : Cardinality(T) <= n}
KmUpto(f, S, n) ==
  /\ f = [T \in Small(S, n) |-> f[T]]
  /\ \A T \in Small(S, n) : f[T] \in Nat /\ f[T] = KmStep(f, T)

LEMMA KmUptoExists ==
  ASSUME NEW S \in SUBSET Drive, IsFiniteSet(S), NEW m \in Nat
  PROVE  \E f : KmUpto(f, S, m)
<1> DEFINE K == {n \in Nat : \E f : KmUpto(f, S, n)}
<1>0. \A T \in SUBSET S : IsFiniteSet(T) /\ Cardinality(T) \in Nat
  BY FS_Subset, FS_CardinalityType
<1>1. 0 \in K
  <2> DEFINE f == [T \in Small(S, 0) |-> 0]
  <2>1. \A T \in Small(S, 0) : T = {}
    BY <1>0, EmptyOrNot DEF Small
  <2>2. KmUpto(f, S, 0)
    BY <2>1 DEF KmUpto, KmStep
  <2> QED BY <2>2
<1>2. ASSUME NEW n \in Nat, n \in K PROVE n + 1 \in K
  <2>1. PICK f : KmUpto(f, S, n)
    BY <1>2
  <2> DEFINE g == [T \in Small(S, n + 1) |-> KmStep(f, T)]
  <2>2. \A T \in Small(S, n) : T \in Small(S, n + 1)
    <3> TAKE T \in Small(S, n)
    <3> DEFINE a == Cardinality(T)
    <3>1. T \in SUBSET S /\ a <= n /\ a \in Nat
      BY <1>0 DEF Small
    <3> HIDE DEF a
    <3>2. a <= n + 1
      BY <3>1
    <3> QED BY <3>1, <3>2 DEF Small, a
  <2>3. ASSUME NEW T \in Small(S, n + 1), T # {} PROVE T \ {One(T)} \in Small(S, n)
    <3> DEFINE a == Cardinality(T)
               b == Cardinality(T \ {One(T)})
    <3>1. T \in SUBSET S /\ a <= n + 1
      BY DEF Small
    <3>2. One(T) \in T /\ T \ {One(T)} \in SUBSET S
      BY <2>3, <3>1, OneOfThem
    <3>3. a \in Nat /\ b \in Nat /\ a = b + 1
      BY <1>0, <3>1, <3>2, OneLess
    <3> HIDE DEF a, b
    <3>4. b <= n
      BY <3>1, <3>3
    <3> QED BY <3>2, <3>4 DEF Small, b
  <2>4. \A T \in Small(S, n) : g[T] = f[T]
    BY <2>1, <2>2 DEF KmUpto
  <2>5. ASSUME NEW T \in Small(S, n + 1) PROVE g[T] \in Nat /\ g[T] = KmStep(g, T)
    <3>1. CASE T = {}
      BY <3>1 DEF KmStep
    <3>2. CASE T # {}
      <4>1. T \ {One(T)} \in Small(S, n)
        BY <2>3, <3>2
      <4>2. g[T] = One(T).km + f[T \ {One(T)}]
        BY <3>2 DEF KmStep
      <4>3. f[T \ {One(T)}] \in Nat /\ g[T \ {One(T)}] = f[T \ {One(T)}]
        BY <2>1, <2>4, <4>1 DEF KmUpto
      <4>4. One(T).km \in Nat
        BY <3>2, OneOfThem DEF Small
      <4> HIDE DEF g
      <4> QED BY <3>2, <4>2, <4>3, <4>4 DEF KmStep
    <3> QED BY <3>1, <3>2
  <2>6. g = [T \in Small(S, n + 1) |-> g[T]]
    OBVIOUS
  <2> HIDE DEF g
  <2>7. KmUpto(g, S, n + 1)
    BY <2>5, <2>6 DEF KmUpto
  <2> QED BY <2>7
<1>3. \A n \in Nat : n \in K
  BY <1>1, <1>2, NatSetInduction
<1> QED BY <1>3

LEMMA KmExists ==
  ASSUME NEW S \in SUBSET Drive, IsFiniteSet(S), NEW f, f = CHOOSE g : IsKm(g, S)
  PROVE  \A T \in SUBSET S : f[T] \in Nat /\ f[T] = KmStep(f, T)
<1> DEFINE n == Cardinality(S)
<1>1. n \in Nat /\ Small(S, n) = SUBSET S
  BY FS_CardinalityType, FS_Subset DEF Small
<1>2. PICK g : KmUpto(g, S, n)
  BY <1>1, KmUptoExists
<1> HIDE DEF n
<1>3. g = [T \in SUBSET S |-> g[T]] /\ \A T \in SUBSET S : g[T] \in Nat /\ g[T] = KmStep(g, T)
  BY <1>1, <1>2 DEF KmUpto
<1>4. IsKm(g, S)
  BY <1>3 DEF IsKm
<1>5. IsKm(f, S)
  BY <1>4
<1>6. \A T \in SUBSET S : f[T] = KmStep(f, T)
  BY <1>5 DEF IsKm
<1> DEFINE K == {i \in Nat : \A T \in SUBSET S : Cardinality(T) <= i => f[T] \in Nat}
<1>7. \A T \in SUBSET S : IsFiniteSet(T) /\ Cardinality(T) \in Nat
  BY FS_Subset, FS_CardinalityType
<1>8. 0 \in K
  <2> SUFFICES ASSUME NEW T \in SUBSET S, Cardinality(T) <= 0 PROVE f[T] \in Nat
    OBVIOUS
  <2>1. T = {}
    BY <1>7, EmptyOrNot
  <2>2. f[T] = KmStep(f, T)
    BY <1>6
  <2>3. KmStep(f, T) = 0
    BY <2>1 DEF KmStep
  <2> QED BY <2>2, <2>3
<1>9. ASSUME NEW i \in Nat, i \in K PROVE i + 1 \in K
  <2> SUFFICES ASSUME NEW T \in SUBSET S, Cardinality(T) <= i + 1 PROVE f[T] \in Nat
    OBVIOUS
  <2>1. CASE T = {}
    <3>1. f[T] = KmStep(f, T)
      BY <1>6
    <3>2. KmStep(f, T) = 0
      BY <2>1 DEF KmStep
    <3> QED BY <3>1, <3>2
  <2>2. CASE T # {}
    <3> DEFINE R == T \ {One(T)}
               a == Cardinality(T)
               b == Cardinality(R)
    <3>1. One(T) \in T /\ R \in SUBSET S /\ One(T).km \in Nat
      BY <2>2, OneOfThem
    <3>2. a \in Nat /\ b \in Nat /\ a = b + 1 /\ a <= i + 1
      BY <1>7, <3>1, OneLess
    <3> HIDE DEF a, b
    <3>3. b <= i
      BY <3>2
    <3>4. f[R] \in Nat
      BY <1>9, <3>1, <3>3 DEF b
    <3>5. f[T] = One(T).km + f[R]
      BY <1>6, <2>2 DEF KmStep
    <3> HIDE DEF R
    <3> QED BY <3>1, <3>4, <3>5
  <2> QED BY <2>1, <2>2
<1>10. \A i \in Nat : i \in K
  BY <1>8, <1>9, NatSetInduction
<1>11. \A T \in SUBSET S : f[T] \in Nat
  <2> TAKE T \in SUBSET S
  <2> DEFINE a == Cardinality(T)
  <2>1. a \in Nat /\ a <= a
    BY <1>7
  <2> QED BY <1>10, <2>1
<1> QED BY <1>6, <1>11

\* The fold of a part of S is the same as in that of S.
LEMMA KmOfPart ==
  ASSUME NEW S \in SUBSET Drive, IsFiniteSet(S), NEW f, f = CHOOSE g : IsKm(g, S), NEW R \in SUBSET S
  PROVE  Km(R) = f[R]
<1> DEFINE h == CHOOSE g : IsKm(g, R)
<1>0. R \in SUBSET Drive /\ IsFiniteSet(R)
  BY FS_Subset
<1>1. \A T \in SUBSET S : f[T] = KmStep(f, T)
  BY KmExists
<1>2. \A T \in SUBSET R : h[T] = KmStep(h, T)
  BY <1>0, KmExists
<1>3. Km(R) = h[R]
  BY KmIs
<1> HIDE DEF h
<1> DEFINE K == {i \in Nat : \A T \in SUBSET R : Cardinality(T) <= i => f[T] = h[T]}
<1>7. \A T \in SUBSET R : IsFiniteSet(T) /\ Cardinality(T) \in Nat /\ T \in SUBSET S
  BY <1>0, FS_Subset, FS_CardinalityType
<1>8. 0 \in K
  <2> SUFFICES ASSUME NEW T \in SUBSET R, Cardinality(T) <= 0 PROVE f[T] = h[T]
    OBVIOUS
  <2>1. T = {}
    BY <1>7, EmptyOrNot
  <2> QED BY <1>1, <1>2, <2>1 DEF KmStep
<1>9. ASSUME NEW i \in Nat, i \in K PROVE i + 1 \in K
  <2> SUFFICES ASSUME NEW T \in SUBSET R, Cardinality(T) <= i + 1 PROVE f[T] = h[T]
    OBVIOUS
  <2>1. CASE T = {}
    BY <1>1, <1>2, <2>1 DEF KmStep
  <2>2. CASE T # {}
    <3> DEFINE Q == T \ {One(T)}
               a == Cardinality(T)
               b == Cardinality(Q)
    <3>1. One(T) \in T /\ Q \in SUBSET R
      BY <1>0, <2>2, OneOfThem
    <3>2. a \in Nat /\ b \in Nat /\ a = b + 1 /\ a <= i + 1
      BY <1>7, <3>1, OneLess
    <3> HIDE DEF a, b
    <3>3. b <= i
      BY <3>2
    <3>4. f[Q] = h[Q]
      BY <1>9, <3>1, <3>3 DEF b
    <3>5. f[T] = One(T).km + f[Q] /\ h[T] = One(T).km + h[Q]
      BY <1>1, <1>2, <1>7, <2>2 DEF KmStep
    <3> QED BY <3>4, <3>5
  <2> QED BY <2>1, <2>2
<1>10. \A i \in Nat : i \in K
  BY <1>8, <1>9, NatSetInduction
<1>11. f[R] = h[R]
  <2> DEFINE a == Cardinality(R)
  <2>1. a \in Nat /\ a <= a
    BY <1>7
  <2> QED BY <1>10, <2>1
<1> QED BY <1>3, <1>11

\* The distances are numbers, the sum of none is nothing, and one more row adds its own: that of the
\* row which is chosen, and so that of any.
LEMMA KmFolds ==
  ASSUME NEW T \in SUBSET Drive, IsFiniteSet(T)
  PROVE  /\ Km(T) \in Nat
         /\ T = {} => Km(T) = 0
         /\ T # {} => One(T) \in T /\ Km(T) = One(T).km + Km(T \ {One(T)})
<1> DEFINE f == CHOOSE g : IsKm(g, T)
           R == T \ {One(T)}
<1>1. \A Q \in SUBSET T : f[Q] \in Nat /\ f[Q] = KmStep(f, Q)
  BY KmExists
<1>2. Km(T) = f[T]
  BY KmIs
<1>3. R \in SUBSET T /\ Km(R) = f[R]
  <2> HIDE DEF f
  <2>1. R \in SUBSET T
    OBVIOUS
  <2> HIDE DEF R
  <2> QED BY <2>1, KmOfPart DEF f
<1>4. T # {} => One(T) \in T
  BY OneOfThem
<1> HIDE DEF f
<1>5. f[T] \in Nat /\ f[T] = KmStep(f, T)
  BY <1>1
<1>6. T = {} => f[T] = 0
  BY <1>5 DEF KmStep
<1>7. T # {} => f[T] = One(T).km + f[R]
  BY <1>5 DEF KmStep
<1> QED BY <1>2, <1>3, <1>4, <1>5, <1>6, <1>7

LEMMA KmAdds ==
  ASSUME NEW S \in SUBSET Drive, IsFiniteSet(S), NEW x \in S
  PROVE  Km(S) = x.km + Km(S \ {x})
<1> DEFINE K == {i \in Nat : \A T \in SUBSET S : Cardinality(T) <= i =>
                    \A y \in T : Km(T) = y.km + Km(T \ {y})}
<1>1. \A T \in SUBSET S : /\ IsFiniteSet(T) /\ Cardinality(T) \in Nat /\ T \in SUBSET Drive
                          /\ \A y \in T : T \ {y} \in SUBSET S
  BY FS_Subset, FS_CardinalityType
<1>2. \A T \in SUBSET S : Km(T) \in Nat
  BY <1>1, KmFolds
<1>3. \A y \in S : y.km \in Nat
  BY DriveFields
<1>4. 0 \in K
  <2> SUFFICES ASSUME NEW T \in SUBSET S, Cardinality(T) <= 0, NEW y \in T PROVE FALSE
    OBVIOUS
  <2> QED BY <1>1, EmptyOrNot
<1>5. ASSUME NEW i \in Nat, i \in K PROVE i + 1 \in K
  <2> SUFFICES ASSUME NEW T \in SUBSET S, Cardinality(T) <= i + 1, NEW y \in T
               PROVE  Km(T) = y.km + Km(T \ {y})
    OBVIOUS
  <2> DEFINE o == One(T)
             A == T \ {o}
             B == T \ {y}
             C == A \ {y}
             m == Cardinality(A)  n == Cardinality(B)
  <2>1. o \in T /\ Km(T) = o.km + Km(A)
    BY <1>1, KmFolds
  <2>2. CASE y = o
    BY <2>1, <2>2
  <2>3. CASE y # o
    <3>1. y \in A /\ o \in B /\ C = B \ {o} /\ A \in SUBSET S /\ B \in SUBSET S /\ C \in SUBSET S
      BY <2>1, <2>3
    <3>2. /\ Cardinality(T) \in Nat /\ m \in Nat /\ n \in Nat
          /\ Cardinality(T) = m + 1 /\ Cardinality(T) = n + 1
      BY <1>1, <2>1, OneLess
    <3> HIDE DEF o, A, B, C, m, n
    <3>3. m <= i /\ n <= i
      BY <3>2
    <3>4. Km(A) = y.km + Km(C)
      BY <1>5, <3>1, <3>3 DEF C, m
    <3>5. Km(B) = o.km + Km(C)
      BY <1>5, <3>1, <3>3 DEF n
    <3>6. y.km \in Nat /\ o.km \in Nat /\ Km(A) \in Nat /\ Km(B) \in Nat /\ Km(C) \in Nat
      BY <1>2, <1>3, <2>1, <3>1
    <3> DEFINE a == Km(A)  b == Km(B)  c == Km(C)  t == Km(T)  p == y.km  q == o.km
    <3>7. t = q + a /\ a = p + c /\ b = q + c /\ p \in Nat /\ q \in Nat /\ c \in Nat
      BY <2>1, <3>4, <3>5, <3>6
    <3> HIDE DEF a, b, c, t, p, q
    <3>8. t = p + b
      BY <3>7
    <3> QED BY <3>8 DEF t, p, b, B
  <2> QED BY <2>2, <2>3
<1>6. \A i \in Nat : i \in K
  BY <1>4, <1>5, NatSetInduction
<1> DEFINE a == Cardinality(S)
<1>7. a \in Nat /\ a <= a
  BY <1>1
<1> QED BY <1>6, <1>7

\* The distance of two sets of rows with none in common.
LEMMA KmOfBoth ==
  ASSUME NEW S \in SUBSET Drive, IsFiniteSet(S), NEW A \in SUBSET S, NEW B \in SUBSET S,
         A \cap B = {}
  PROVE  Km(A \cup B) = Km(A) + Km(B)
<1> DEFINE K == {i \in Nat : \A T \in SUBSET A : Cardinality(T) <= i => Km(T \cup B) = Km(T) + Km(B)}
<1>1. \A T \in SUBSET S : IsFiniteSet(T) /\ Cardinality(T) \in Nat /\ T \in SUBSET Drive /\ Km(T) \in Nat
  <2>1. \A T \in SUBSET S : IsFiniteSet(T) /\ Cardinality(T) \in Nat /\ T \in SUBSET Drive
    BY FS_Subset, FS_CardinalityType
  <2> QED BY <2>1, KmFolds
<1>2. \A T \in SUBSET A : T \in SUBSET S /\ T \cup B \in SUBSET S
  OBVIOUS
<1>3. 0 \in K
  <2> SUFFICES ASSUME NEW T \in SUBSET A, Cardinality(T) <= 0 PROVE Km(T \cup B) = Km(T) + Km(B)
    OBVIOUS
  <2>1. T = {}
    BY <1>1, <1>2, EmptyOrNot
  <2>2. Km(T) = 0 /\ T \cup B = B /\ Km(B) \in Nat
    BY <1>1, <1>2, <2>1, KmFolds
  <2>3. Km(T \cup B) = Km(B)
    BY <2>2
  <2> DEFINE b == Km(B)
  <2>4. b \in Nat /\ b = 0 + b
    BY <2>2
  <2> QED BY <2>2, <2>3, <2>4
<1>4. ASSUME NEW i \in Nat, i \in K PROVE i + 1 \in K
  <2> SUFFICES ASSUME NEW T \in SUBSET A, Cardinality(T) <= i + 1 PROVE Km(T \cup B) = Km(T) + Km(B)
    OBVIOUS
  <2>1. CASE T = {}
    <3>1. Km(T) = 0 /\ T \cup B = B /\ Km(B) \in Nat
      BY <1>1, <1>2, <2>1, KmFolds
    <3> QED BY <3>1
  <2>2. CASE T # {}
    <3>1. PICK x \in T : TRUE
      BY <2>2
    <3> DEFINE R == T \ {x}
               m == Cardinality(R)
    <3>2. R \in SUBSET A /\ (T \cup B) \ {x} = R \cup B /\ x \in S
      BY <3>1
    <3>3. Cardinality(T) \in Nat /\ m \in Nat /\ Cardinality(T) = m + 1
      BY <1>1, <1>2, <3>1, OneLess
    <3>4. Km(T) = x.km + Km(R)
      BY <1>1, <1>2, <3>1, KmAdds
    <3>5. Km(T \cup B) = x.km + Km(R \cup B)
      <4> DEFINE U == T \cup B
      <4>1. U \in SUBSET Drive /\ IsFiniteSet(U) /\ x \in U
        BY <1>1, <1>2, <3>1
      <4>2. U \ {x} = R \cup B
        BY <3>2
      <4> HIDE DEF U
      <4>3. Km(U) = x.km + Km(U \ {x})
        BY <4>1, KmAdds
      <4> QED BY <4>2, <4>3 DEF U
    <3> HIDE DEF R, m
    <3>6. m <= i
      BY <3>3
    <3>7. Km(R \cup B) = Km(R) + Km(B)
      BY <1>4, <3>2, <3>6 DEF m
    <3>8. x.km \in Nat /\ Km(R) \in Nat /\ Km(B) \in Nat
      BY <1>1, <1>2, <3>2, DriveFields
    <3> DEFINE a == Km(R)  b == Km(B)  p == x.km
    <3>9. Km(T \cup B) = p + (a + b) /\ Km(T) = p + a /\ a \in Nat /\ b \in Nat /\ p \in Nat
      BY <3>4, <3>5, <3>7, <3>8
    <3> HIDE DEF a, b, p
    <3>10. p + (a + b) = (p + a) + b
      BY <3>9
    <3> QED BY <3>9, <3>10 DEF b
  <2> QED BY <2>1, <2>2
<1>5. \A i \in Nat : i \in K
  BY <1>3, <1>4, NatSetInduction
<1> DEFINE a == Cardinality(A)
<1>6. a \in Nat /\ a <= a
  BY <1>1
<1> QED BY <1>5, <1>6

\* The totals of a window are those of its two parts, cut where the worker left no row in both or
\* in neither.
LEMMA TotalsTile ==
  ASSUME NEW S \in SUBSET Drive, IsFiniteSet(S), NEW vehicle,
         NEW from \in Nat \cup {Nil}, NEW to \in Nat \cup {Nil}, NEW mid \in Nat,
         Within(mid, from, to),
         NEW whole, whole = PeriodStats(S, vehicle, from, to),
         NEW early, early = PeriodStats(S, vehicle, from, mid),
         NEW late, late = PeriodStats(S, vehicle, mid, to)
  PROVE  whole.drives = early.drives + late.drives /\ whole.km = Plus(early.km, late.km)
<1> DEFINE W == {r \in S : r.car = vehicle /\ ~r.open /\ Within(r.at, from, to)}
           E == {r \in S : r.car = vehicle /\ ~r.open /\ Within(r.at, from, mid)}
           L == {r \in S : r.car = vehicle /\ ~r.open /\ Within(r.at, mid, to)}
<1>1. mid # Nil
  BY HistoryAssumption
<1>2. ASSUME NEW at \in Nat
      PROVE  /\ Within(at, from, to) <=> (Within(at, from, mid) \/ Within(at, mid, to))
             /\ ~(Within(at, from, mid) /\ Within(at, mid, to))
  BY <1>1 DEF Within
<1>3. W = E \cup L /\ E \cap L = {} /\ E \in SUBSET S /\ L \in SUBSET S
  <2>1. \A r \in S : r.at \in Nat
    BY DriveFields
  <2> QED BY <1>2, <2>1
<1>4. /\ whole.drives = Cardinality(W) /\ whole.km = (IF W = {} THEN Nil ELSE Km(W))
      /\ early.drives = Cardinality(E) /\ early.km = (IF E = {} THEN Nil ELSE Km(E))
      /\ late.drives = Cardinality(L) /\ late.km = (IF L = {} THEN Nil ELSE Km(L))
  BY DEF PeriodStats, Km
<1> HIDE DEF W, E, L
<1>5. IsFiniteSet(E) /\ IsFiniteSet(L) /\ E \in SUBSET Drive /\ L \in SUBSET Drive
  BY <1>3, FS_Subset
<1>6. Cardinality(W) = Cardinality(E) + Cardinality(L)
  <2>1. Cardinality(E \cup L) = Cardinality(E) + Cardinality(L) - Cardinality(E \cap L)
    BY <1>5, FS_Union
  <2>2. Cardinality(E \cap L) = 0
    BY <1>3, FS_EmptySet
  <2> DEFINE a == Cardinality(E)  b == Cardinality(L)
  <2>3. a \in Nat /\ b \in Nat
    BY <1>5, FS_CardinalityType
  <2>4. Cardinality(E \cup L) = a + b - 0
    BY <2>1, <2>2
  <2> HIDE DEF a, b
  <2>5. a + b - 0 = a + b
    BY <2>3
  <2> QED BY <1>3, <2>4, <2>5 DEF a, b
<1>7. Km(W) = Km(E) + Km(L) /\ Km(E) \in Nat /\ Km(L) \in Nat
  <2>1. Km(E \cup L) = Km(E) + Km(L)
    BY <1>3, KmOfBoth
  <2>2. Km(E) \in Nat
    BY <1>5, KmFolds
  <2>3. Km(L) \in Nat
    BY <1>5, KmFolds
  <2> QED BY <1>3, <2>1, <2>2, <2>3
<1>8. Nil \notin Nat
  BY HistoryAssumption
<1>9. whole.km = Plus(early.km, late.km)
  <2>1. CASE E = {}
    <3>1. W = L /\ early.km = Nil
      BY <1>3, <1>4, <2>1
    <3> QED BY <1>4, <3>1 DEF Plus
  <2>2. CASE L = {} /\ E # {}
    <3>1. W = E /\ late.km = Nil /\ early.km = Km(E)
      BY <1>3, <1>4, <2>2
    <3> QED BY <1>4, <1>7, <1>8, <2>2, <3>1 DEF Plus
  <2>3. CASE L # {} /\ E # {}
    <3>1. W # {} /\ early.km = Km(E) /\ late.km = Km(L) /\ whole.km = Km(W)
      BY <1>3, <1>4, <2>3
    <3>2. early.km # Nil /\ late.km # Nil
      BY <1>7, <1>8, <3>1
    <3> QED BY <1>7, <3>1, <3>2 DEF Plus
  <2> QED BY <2>1, <2>2, <2>3
<1> QED BY <1>4, <1>6, <1>9

-----------------------------------------------------------------------------
(* History: all the pages, read at one moment.                             *)

ReadUpto(f, vehicle, from, to, n) ==
  f = [i \in 0..n |-> IF i = 0 THEN ListSessions(sessionRows, vehicle, from, to, Nil)
                      ELSE PageAfter(vehicle, from, to, f[i - 1])]

LEMMA ReadExists ==
  ASSUME NEW vehicle, NEW from, NEW to, NEW m \in Nat
  PROVE  \E f : ReadUpto(f, vehicle, from, to, m)
<1> DEFINE First == ListSessions(sessionRows, vehicle, from, to, Nil)
           After(p) == PageAfter(vehicle, from, to, p)
           K == {n \in Nat : \E f : f = [i \in 0..n |-> IF i = 0 THEN First ELSE After(f[i - 1])]}
<1> HIDE DEF First, After
<1>1. 0 \in K
  <2> DEFINE f == [i \in 0..0 |-> First]
  <2>1. \A i \in 0..0 : i = 0
    OBVIOUS
  <2>2. f = [i \in 0..0 |-> IF i = 0 THEN First ELSE After(f[i - 1])]
    BY <2>1
  <2> QED BY <2>2
<1>2. ASSUME NEW n \in Nat, n \in K PROVE n + 1 \in K
  <2>1. PICK f : f = [i \in 0..n |-> IF i = 0 THEN First ELSE After(f[i - 1])]
    BY <1>2
  <2> DEFINE g == [i \in 0..(n + 1) |-> IF i = n + 1 THEN After(f[n]) ELSE f[i]]
  <2>2. ASSUME NEW i \in 0..(n + 1)
        PROVE  g[i] = IF i = 0 THEN First ELSE After(g[i - 1])
    <3>1. CASE i = n + 1
      <4>1. i - 1 = n /\ n \in 0..(n + 1) /\ n # n + 1 /\ i # 0
        BY <3>1
      <4>2. g[n] = f[n] /\ g[i] = After(f[n])
        BY <3>1, <4>1
      <4> QED BY <4>1, <4>2
    <3>2. CASE i = 0
      <4>1. i \in 0..n /\ i # n + 1
        BY <3>2
      <4>2. g[i] = f[i] /\ f[i] = First
        BY <2>1, <3>2, <4>1
      <4> QED BY <3>2, <4>2
    <3>3. CASE i # 0 /\ i # n + 1
      <4>1. i \in 0..n /\ i - 1 \in 0..(n + 1) /\ i - 1 # n + 1
        BY <3>3
      <4>2. g[i] = f[i] /\ g[i - 1] = f[i - 1]
        BY <3>3, <4>1
      <4>3. f[i] = After(f[i - 1])
        BY <2>1, <3>3, <4>1
      <4> QED BY <3>3, <4>2, <4>3
    <3> QED BY <3>1, <3>2, <3>3
  <2>3. g = [i \in 0..(n + 1) |-> g[i]]
    OBVIOUS
  <2> HIDE DEF g
  <2>4. g = [i \in 0..(n + 1) |-> IF i = 0 THEN First ELSE After(g[i - 1])]
    BY <2>2, <2>3
  <2> QED BY <2>4
<1>3. m \in K
  BY <1>1, <1>2, NatSetInduction
<1> QED BY <1>3 DEF ReadUpto, First, After

LEMMA PagesAre ==
  ASSUME NEW vehicle, NEW from, NEW to, IsFiniteSet(sessionRows)
  PROVE  \E f : /\ Pages(vehicle, from, to) = f[Cardinality(sessionRows)].sessions
                /\ ReadUpto(f, vehicle, from, to, Cardinality(sessionRows))
<1> DEFINE m == Cardinality(sessionRows)
           f == CHOOSE g : ReadUpto(g, vehicle, from, to, m)
<1>1. m \in Nat
  BY FS_CardinalityType
<1>2. ReadUpto(f, vehicle, from, to, m)
  <2> HIDE DEF m
  <2> QED BY <1>1, ReadExists
<1>3. Pages(vehicle, from, to) = f[m].sessions
  BY DEF Pages, ReadUpto
<1> QED BY <1>2, <1>3

\* A page and the one behind it are a page.
LEMMA PageFollows ==
  ASSUME NEW S \in SUBSET Drive, NEW vehicle, NEW from, NEW to,
         NEW p, Page(S, p, vehicle, from, to, Nil), p.next # Nil,
         NEW q, Page(S, q, vehicle, from, to, p.next),
         NEW b, b = [sessions |-> p.sessions \o q.sessions, next |-> q.next]
  PROVE  /\ Page(S, b, vehicle, from, to, Nil)
         /\ q.next # Nil => Len(b.sessions) > Len(p.sessions)
<1> DEFINE s == p.sessions  t == q.sessions  u == s \o t  m == Len(s)  n == Len(t)
<1>1. /\ s \in Seq(S) /\ t \in Seq(S) /\ p.next \in Key /\ q.next \in Key \cup {Nil}
      /\ Falls(s) /\ Falls(t)
  BY DEF Page, PageSet
<1>2. m > 0 /\ p.next = KeyOf(s[m])
  BY DEF Page
<1>3. b.sessions = u /\ b.next = q.next
  OBVIOUS
<1>4. /\ u \in Seq(S) /\ m \in Nat /\ n \in Nat /\ Len(u) = m + n
      /\ \A i \in 1..(m + n) : u[i] = IF i <= m THEN s[i] ELSE t[i - m]
  <2> HIDE DEF s, t
  <2>1. /\ u \in Seq(S) /\ m \in Nat /\ n \in Nat /\ Len(u) = m + n /\ DOMAIN s = 1..m
        /\ \A i \in 1..m : u[i] = s[i]
        /\ \A i \in 1..n : u[m + i] = t[i]
    BY <1>1
  <2> HIDE DEF u, m, n
  <2>2. ASSUME NEW i \in 1..(m + n), ~(i <= m) PROVE i - m \in 1..n /\ m + (i - m) = i
    BY <2>1, <2>2
  <2>3. ASSUME NEW i \in 1..(m + n), i <= m PROVE i \in 1..m
    BY <2>1, <2>3
  <2> QED BY <2>1, <2>2, <2>3
<1>5. \A i \in 1..m : s[i] \in Drive /\ Listed(s[i], vehicle, from, to, Nil)
  BY <1>1 DEF Page
<1>6. \A i \in 1..n : t[i] \in Drive /\ Listed(t[i], vehicle, from, to, p.next)
  BY <1>1 DEF Page
<1>7. b \in PageSet(S)
  BY <1>1, <1>3, <1>4 DEF PageSet
<1>8. ASSUME NEW i \in 1..n PROVE Listed(t[i], vehicle, from, to, Nil) /\ Before(t[i], s[m])
  <2>1. Before(t[i], p.next) /\ p.next # Nil
    BY <1>6 DEF Listed
  <2>2. Before(t[i], s[m])
    BY <1>2, <2>1 DEF Before, KeyOf
  <2> QED BY <1>6, <2>2 DEF Listed
<1>9. s \in Seq(Drive) /\ t \in Seq(Drive)
  BY <1>1
<1> HIDE DEF s, t, u, m, n
<1>10. Falls(u)
  <2>1. \A i \in DOMAIN t : Before(t[i], s[Len(s)])
    BY <1>1, <1>8 DEF m, n
  <2> QED BY <1>1, <1>2, <1>9, <2>1, FallsOn DEF u, m
<1>11. ASSUME NEW i \in 1..(m + n) PROVE Listed(u[i], vehicle, from, to, Nil)
  <2>1. CASE i <= m
    <3>1. i \in 1..m /\ u[i] = s[i]
      BY <1>4, <2>1
    <3> QED BY <1>5, <3>1
  <2>2. CASE ~(i <= m)
    <3>1. i - m \in 1..n /\ u[i] = t[i - m]
      BY <1>4, <2>2
    <3> QED BY <1>8, <3>1
  <2> QED BY <2>1, <2>2
<1>12. ASSUME q.next # Nil
       PROVE  n > 0 /\ Len(u) > m /\ Len(u) > 0 /\ q.next = KeyOf(u[Len(u)])
  <2>1. n > 0 /\ q.next = KeyOf(t[n])
    BY <1>12 DEF Page, t, n
  <2>2. m + n \in 1..(m + n) /\ ~(m + n <= m) /\ (m + n) - m = n
    BY <1>4, <2>1
  <2>3. u[m + n] = t[n]
    BY <1>4, <2>2
  <2> QED BY <1>4, <2>1, <2>2, <2>3
<1>13. ASSUME NEW r \in S, Listed(r, vehicle, from, to, Nil), q.next = Nil \/ ~Before(r, q.next)
       PROVE  \E i \in 1..(m + n) : u[i] = r
  <2>1. CASE Before(r, p.next)
    <3>1. Listed(r, vehicle, from, to, p.next)
      BY <1>13, <2>1 DEF Listed
    <3>2. PICK i \in DOMAIN t : t[i] = r
      BY <1>13, <3>1 DEF Page, t
    <3>3. i \in 1..n
      BY <1>1, <3>2 DEF n
    <3>4. m + i \in 1..(m + n) /\ ~(m + i <= m) /\ (m + i) - m = i
      BY <1>4, <3>3
    <3>5. u[m + i] = r
      BY <1>4, <3>2, <3>4
    <3> QED BY <3>4, <3>5
  <2>2. CASE ~Before(r, p.next)
    <3>1. PICK i \in DOMAIN s : s[i] = r
      BY <1>13, <2>2 DEF Page, s
    <3>2. i \in 1..m
      BY <1>1, <3>1 DEF m
    <3>3. i \in 1..(m + n) /\ i <= m
      BY <1>4, <3>2
    <3> QED BY <1>4, <3>1, <3>3
  <2> QED BY <2>1, <2>2
<1>14. DOMAIN u = 1..(m + n)
  BY <1>4
<1>15. Page(S, b, vehicle, from, to, Nil)
  BY <1>3, <1>7, <1>10, <1>11, <1>12, <1>13, <1>14 DEF Page
<1> QED BY <1>3, <1>12, <1>15 DEF m, s

\* As many pages as there are rows are all of them: a page behind the last has one row more.
LEMMA PagesEnd ==
  ASSUME OnRecord, NEW vehicle, NEW from, NEW to
  PROVE  \E p : /\ Page(sessionRows, p, vehicle, from, to, Nil) /\ p.next = Nil
                /\ Pages(vehicle, from, to) = p.sessions
<1> DEFINE S == sessionRows
           N == Cardinality(S)
<1>1. S \in SUBSET Drive /\ IsFiniteSet(S) /\ IdsApart(S) /\ N \in Nat
  BY FS_CardinalityType DEF OnRecord
<1>2. PICK f : Pages(vehicle, from, to) = f[N].sessions /\ ReadUpto(f, vehicle, from, to, N)
  BY <1>1, PagesAre
<1> DEFINE K == {n \in Nat : n <= N =>
                   /\ Page(S, f[n], vehicle, from, to, Nil)
                   /\ f[n].next # Nil => Len(f[n].sessions) > n}
<1>3. 0 \in K
  <2>1. f[0] = ListSessions(S, vehicle, from, to, Nil)
    <3> HIDE DEF N
    <3> QED BY <1>1, <1>2 DEF ReadUpto
  <2>2. Page(S, f[0], vehicle, from, to, Nil)
    BY <1>1, <2>1, PageIs
  <2>3. f[0].next # Nil => Len(f[0].sessions) > 0
    BY <2>2 DEF Page
  <2> QED BY <2>2, <2>3
<1>4. ASSUME NEW n \in Nat, n \in K PROVE n + 1 \in K
  <2> SUFFICES ASSUME n + 1 <= N
               PROVE  /\ Page(S, f[n + 1], vehicle, from, to, Nil)
                      /\ f[n + 1].next # Nil => Len(f[n + 1].sessions) > n + 1
    OBVIOUS
  <2> DEFINE p == f[n]
             b == f[n + 1]
             q == ListSessions(S, vehicle, from, to, p.next)
  <2>1. n <= N /\ n + 1 \in 0..N /\ n + 1 # 0 /\ (n + 1) - 1 = n
    <3> HIDE DEF N
    <3> QED BY <1>1
  <2>2. b = PageAfter(vehicle, from, to, p)
    <3> HIDE DEF N
    <3> QED BY <1>2, <2>1 DEF ReadUpto
  <2>3. Page(S, p, vehicle, from, to, Nil) /\ (p.next # Nil => Len(p.sessions) > n)
    BY <1>4, <2>1
  <2> HIDE DEF p, b
  <2>4. CASE p.next = Nil
    BY <2>2, <2>3, <2>4 DEF PageAfter, p, b
  <2>5. CASE p.next # Nil
    <3>1. p.next \in Key /\ p.sessions \in Seq(S)
      BY <2>3, <2>5 DEF Page, PageSet
    <3>2. Page(S, q, vehicle, from, to, p.next)
      <4> HIDE DEF S
      <4> QED BY <1>1, <3>1, PageIs
    <3>3. b = [sessions |-> p.sessions \o q.sessions, next |-> q.next]
      BY <2>2, <2>5 DEF PageAfter
    <3> HIDE DEF q, S
    <3>4. /\ Page(S, b, vehicle, from, to, Nil)
          /\ q.next # Nil => Len(b.sessions) > Len(p.sessions)
      BY <1>1, <2>3, <2>5, <3>2, <3>3, PageFollows
    <3>5. b.next = q.next /\ b.sessions \in Seq(S)
      BY <3>3, <3>4 DEF Page, PageSet
    <3>6. b.next # Nil => Len(b.sessions) > n + 1
      <4> DEFINE l == Len(p.sessions)  k == Len(b.sessions)
      <4>1. l \in Nat /\ k \in Nat /\ l > n
        BY <2>3, <2>5, <3>1, <3>5
      <4>2. b.next # Nil => k > l
        BY <3>4, <3>5
      <4> HIDE DEF k, l
      <4> QED BY <4>1, <4>2 DEF k
    <3> QED BY <3>4, <3>6 DEF b, S
  <2> QED BY <2>4, <2>5
<1> DEFINE p == f[N]
           l == p.sessions
<1>5. Page(S, p, vehicle, from, to, Nil) /\ (p.next # Nil => Len(p.sessions) > N)
  <2>1. N \in K
    <3> HIDE DEF K
    <3>1. \A n \in Nat : n \in K
      BY <1>3, <1>4, NatSetInduction
    <3> QED BY <1>1, <3>1
  <2> HIDE DEF N
  <2>2. N <= N
    BY <1>1
  <2> QED BY <2>1, <2>2
<1> HIDE DEF p, S
<1>6. Len(l) <= N
  <2>1. l \in Seq(S) /\ Falls(l)
    BY <1>5 DEF Page, PageSet
  <2> HIDE DEF l
  <2>2. \A i, j \in 1..Len(l) : l[i] = l[j] => i = j
    <3> TAKE i, j \in 1..Len(l)
    <3>1. i < j => Before(l[j], l[i])
      BY <2>1 DEF Falls
    <3>2. j < i => Before(l[i], l[j])
      BY <2>1 DEF Falls
    <3>3. l[i] \in Drive /\ l[j] \in Drive
      BY <1>1, <2>1
    <3>4. l[i] = l[j] => ~(i < j) /\ ~(j < i)
      BY <3>1, <3>2, <3>3, DriveFields, BeforeOrders
    <3> QED BY <2>1, <3>4
  <2>3. l \in Injection(1..Len(l), S)
    BY <2>1, <2>2 DEF Injection, IsInjective
  <2>4. Cardinality(1..Len(l)) <= Cardinality(S)
    BY <1>1, <2>3, FS_Injection
  <2>5. Cardinality(1..Len(l)) = Len(l)
    <3>1. Len(l) \in Nat
      BY <2>1
    <3> HIDE DEF N
    <3>2. Cardinality(1..Len(l)) = Len(l) - 1 + 1
      BY <3>1, FS_Interval, SMTT(30)
    <3> QED BY <3>1, <3>2
  <2> QED BY <2>4, <2>5
<1>7. p.next = Nil
  <2>1. l \in Seq(S)
    BY <1>5 DEF Page, PageSet
  <2> DEFINE k == Len(l)
  <2>2. k \in Nat /\ k <= N /\ (p.next # Nil => k > N)
    BY <1>5, <1>6, <2>1
  <2> HIDE DEF N, k
  <2> QED BY <1>1, <2>2
<1> QED BY <1>2, <1>5, <1>7 DEF p, S

\* The list and the totals have the same drives of a window.
LEMMA ListIsTotal ==
  ASSUME OnRecord, NEW vehicle, NEW from \in Bounds, NEW to \in Bounds
  PROVE  PeriodStats(sessionRows, vehicle, from, to).drives =
           Cardinality({i \in DOMAIN Pages(vehicle, from, to) : ~Pages(vehicle, from, to)[i].open})
<1>1. PICK p : /\ Page(sessionRows, p, vehicle, from, to, Nil) /\ p.next = Nil
               /\ Pages(vehicle, from, to) = p.sessions
  BY PagesEnd
<1> DEFINE l == p.sessions
           I == {i \in DOMAIN l : ~l[i].open}
           W == {r \in sessionRows : r.car = vehicle /\ ~r.open /\ Within(r.at, from, to)}
           at == [i \in I |-> l[i]]
<1>2. l \in Seq(sessionRows) /\ Falls(l) /\ sessionRows \in SUBSET Drive /\ IsFiniteSet(sessionRows)
  BY <1>1 DEF Page, PageSet, OnRecord
<1>3. \A i \in DOMAIN l : /\ l[i] \in sessionRows /\ l[i].car = vehicle /\ Within(l[i].at, from, to)
  BY <1>1, <1>2 DEF Page, Listed
<1>4. \A r \in sessionRows : r.car = vehicle /\ Within(r.at, from, to) => \E i \in DOMAIN l : l[i] = r
  BY <1>1 DEF Page, Listed
<1> HIDE DEF l
<1>5. \A i, j \in DOMAIN l : l[i] = l[j] => i = j
  <2> TAKE i, j \in DOMAIN l
  <2>1. i \in Nat /\ j \in Nat
    BY <1>2
  <2>2. i < j => Before(l[j], l[i])
    BY <1>2 DEF Falls
  <2>3. j < i => Before(l[i], l[j])
    BY <1>2 DEF Falls
  <2>4. l[i] \in Drive /\ l[j] \in Drive
    BY <1>2, <1>3
  <2>5. l[i] = l[j] => ~(i < j) /\ ~(j < i)
    BY <2>2, <2>3, <2>4, DriveFields, BeforeOrders
  <2> QED BY <2>1, <2>5
<1>6. at \in Bijection(I, W)
  <2>1. at \in [I -> W]
    BY <1>3
  <2>2. \A i, j \in I : at[i] = at[j] => i = j
    BY <1>5
  <2>3. \A r \in W : \E i \in I : at[i] = r
    BY <1>4
  <2> HIDE DEF at, I, W
  <2> QED BY <2>1, <2>2, <2>3 DEF Bijection, Injection, Surjection, IsInjective
<1>7. Cardinality(I) = Cardinality(W)
  <2>1. IsFiniteSet(1..Len(l)) /\ I \in SUBSET (1..Len(l))
    BY <1>2, FS_Interval
  <2> HIDE DEF at, I, W
  <2>2. IsFiniteSet(I)
    BY <2>1, FS_Subset
  <2>3. ExistsBijection(I, W)
    BY <1>6 DEF ExistsBijection
  <2> QED BY <2>2, <2>3, FS_Bijection
<1>8. PeriodStats(sessionRows, vehicle, from, to).drives = Cardinality(W)
  BY DEF PeriodStats
<1>9. {i \in DOMAIN Pages(vehicle, from, to) : ~Pages(vehicle, from, to)[i].open} = I
  BY <1>1 DEF l
<1> QED BY <1>7, <1>8, <1>9

\* queries.ts, listSessions and periodStats: at every moment the totals of a window are of the closed
\* drives of all its pages, and those of two windows that meet are the totals of the one they make.
LEMMA TotalsHold == HistoryInv => WindowsTile
<1> SUFFICES ASSUME HistoryInv, NEW vehicle \in Garage, NEW f \in Filters
             PROVE  LET from == f[1]
                        to == f[2]
                        whole == PeriodStats(sessionRows, vehicle, from, to)
                        pages == Pages(vehicle, from, to)
                    IN /\ whole.drives = Cardinality({i \in DOMAIN pages : ~pages[i].open})
                       /\ \A mid \in Instants :
                            Within(mid, from, to) =>
                              LET early == PeriodStats(sessionRows, vehicle, from, mid)
                                  late == PeriodStats(sessionRows, vehicle, mid, to)
                              IN whole.drives = early.drives + late.drives
                                 /\ whole.km = Plus(early.km, late.km)
  BY DEF WindowsTile
<1> DEFINE from == f[1]
           to == f[2]
<1>1. from \in Bounds /\ to \in Bounds
  BY HistoryAssumption DEF Filters, Bounds, Instants, HistoryInv, ListTyped
<1>2. OnRecord /\ sessionRows \in SUBSET Drive /\ IsFiniteSet(sessionRows)
  BY DEF HistoryInv, OnRecord
<1>3. from \in Nat \cup {Nil} /\ to \in Nat \cup {Nil} /\ \A mid \in Instants : mid \in Nat
  BY <1>1, HistoryAssumption DEF Bounds, Instants
<1> HIDE DEF from, to
<1>4. PeriodStats(sessionRows, vehicle, from, to).drives =
        Cardinality({i \in DOMAIN Pages(vehicle, from, to) : ~Pages(vehicle, from, to)[i].open})
  BY <1>1, <1>2, ListIsTotal
<1>5. ASSUME NEW mid \in Instants, Within(mid, from, to)
      PROVE  /\ PeriodStats(sessionRows, vehicle, from, to).drives =
                  PeriodStats(sessionRows, vehicle, from, mid).drives
                    + PeriodStats(sessionRows, vehicle, mid, to).drives
             /\ PeriodStats(sessionRows, vehicle, from, to).km =
                  Plus(PeriodStats(sessionRows, vehicle, from, mid).km, PeriodStats(sessionRows, vehicle, mid, to).km)
  BY <1>2, <1>3, <1>5, TotalsTile
<1> QED BY <1>4, <1>5 DEF from, to

LEMMA DivMod ==
  ASSUME NEW a \in Nat, NEW b \in Nat, b > 0
  PROVE  /\ a \div b \in Nat /\ a % b \in 0..(b - 1) /\ a = b * (a \div b) + (a % b)
OBVIOUS

LEMMA TimesMore ==
  ASSUME NEW b \in Nat, NEW p \in Nat, NEW q \in Nat, p < q
  PROVE  b * p + b <= b * q
<1> DEFINE e == q - p - 1
<1>1. e \in Nat /\ q = p + 1 + e
  OBVIOUS
<1> HIDE DEF e
<1>2. b * q = b * p + b + b * e
  BY <1>1
<1>3. b * e \in Nat /\ b * p \in Nat
  BY <1>1
<1> QED BY <1>2, <1>3

LEMMA DivIs ==
  ASSUME NEW a \in Nat, NEW b \in Nat, b > 0, NEW q \in Nat, NEW r \in 0..(b - 1), a = b * q + r
  PROVE  a \div b = q /\ a % b = r
<1> DEFINE p == a \div b
           s == a % b
<1>1. p \in Nat /\ s \in 0..(b - 1) /\ a = b * p + s
  BY DivMod
<1> HIDE DEF p, s
<1>2. p = q
  <2>1. p < q => b * p + b <= b * q
    BY <1>1, TimesMore
  <2>2. q < p => b * q + b <= b * p
    BY <1>1, TimesMore
  <2> QED BY <1>1, <2>1, <2>2
<1>3. s = r
  BY <1>1, <1>2
<1> QED BY <1>2, <1>3 DEF p, s

LEMMA CeilIs ==
  ASSUME NEW n \in Nat, NEW d \in Nat, n > 0, d > 0, NEW c, c = CeilDiv(n, d)
  PROVE  c \in Nat /\ c > 0 /\ c * d >= n /\ (c = 1 <=> n <= d)
<1> DEFINE a == n + d - 1
           s == a % d
<1>1. a \in Nat /\ c = a \div d
  BY DEF CeilDiv
<1>2. c \in Nat /\ s \in 0..(d - 1) /\ a = d * c + s
  BY <1>1, DivMod
<1> HIDE DEF s
<1>3. c * d >= n
  <2>1. c * d = d * c
    BY <1>2
  <2> DEFINE x == d * c
  <2>2. x \in Nat /\ n + d - 1 = x + s
    BY <1>2
  <2> HIDE DEF x
  <2>3. x >= n
    BY <1>2, <2>2
  <2> QED BY <2>1, <2>3 DEF x
<1>4. c > 0
  <2>1. c = 0 => c * d = 0
    OBVIOUS
  <2> QED BY <1>2, <1>3, <2>1
<1>5. c = 1 => n <= d
  BY <1>3
<1>6. n <= d => c = 1
  <2>1. c >= 2 => d * c >= d + d
    BY <1>2
  <2> DEFINE x == d * c
  <2>2. x \in Nat /\ n + d - 1 = x + s
    BY <1>2
  <2> HIDE DEF x
  <2>3. n <= d => ~(x >= d + d)
    BY <1>2, <2>2
  <2>4. n <= d => ~(c >= 2)
    BY <2>1, <2>3 DEF x
  <2> QED BY <1>2, <1>4, <2>4
<1> QED BY <1>2, <1>3, <1>4, <1>5, <1>6

\* The multiples of the step and the last index.
LEMMA SampledSpans ==
  ASSUME NEW total \in Nat, total > 0, NEW cap \in Nat, cap >= 2, NEW kept, kept = Sampled(total, cap),
         NEW c, c = CeilDiv(total, cap)
  PROVE  /\ {0, total - 1} \subseteq kept /\ Cardinality(kept) <= cap + 1
         /\ \A n \in 0..(total - 1) : \E k \in kept : n - k \in 0..(c - 1)
         /\ total > cap <=> kept # 0..(total - 1)
<1> DEFINE N == 0..(total - 1)
           M == {n \in N : n % c = 0}
<1>1. c \in Nat /\ c > 0 /\ c * cap >= total /\ (c = 1 <=> total <= cap)
  <2>1. cap > 0
    OBVIOUS
  <2> QED BY <2>1, CeilIs
<1>2. Max({1, c}) = c
  <2>1. c \in {1, c} /\ \A y \in {1, c} : c >= y
    BY <1>1
  <2>2. \A x \in {1, c} : (\A y \in {1, c} : x >= y) => x = c
    BY <1>1
  <2> QED BY <2>1, <2>2 DEF Max
<1>3. kept = {n \in N : n % c = 0 \/ n = total - 1}
  BY <1>2 DEF Sampled
<1>4. 0 \in N /\ total - 1 \in N
  OBVIOUS
<1>5. 0 % c = 0
  BY <1>1
<1>6. kept = M \cup {total - 1}
  BY <1>3, <1>4
<1>7. {0, total - 1} \subseteq kept
  BY <1>3, <1>4, <1>5
<1>8. \A n \in N : n \in Nat /\ n \div c \in Nat /\ n % c \in 0..(c - 1) /\ n = c * (n \div c) + (n % c)
  BY <1>1, DivMod
<1>9. \A n \in N : n \div c \in 0..(cap - 1)
  <2> TAKE n \in N
  <2> DEFINE a == n \div c
             r == n % c
  <2>1. n \in Nat /\ a \in Nat /\ r \in 0..(c - 1) /\ n = c * a + r /\ n < total
    BY <1>8
  <2> HIDE DEF a, r
  <2>2. cap < a => c * cap + c <= c * a
    BY <1>1, <2>1, TimesMore
  <2>3. cap = a => c * cap = c * a
    OBVIOUS
  <2> DEFINE x == c * cap
             y == c * a
  <2>4. x \in Nat /\ y \in Nat
    BY <1>1, <2>1
  <2>5. ~(cap < a) /\ cap # a
    <3> HIDE DEF x, y
    <3>1. x >= total /\ n = y + r
      BY <1>1, <2>1 DEF x, y
    <3>2. ~(x <= y)
      BY <1>1, <2>1, <2>4, <3>1
    <3>3. cap < a => x <= y
      BY <1>1, <2>2, <2>4 DEF x, y
    <3>4. cap = a => x <= y
      BY <2>3, <2>4 DEF x, y
    <3> QED BY <3>2, <3>3, <3>4
  <2>6. a \in 0..(cap - 1)
    BY <2>1, <2>5
  <2> QED BY <2>6 DEF a
<1>10. IsFiniteSet(M) /\ Cardinality(M) <= cap
  <2> DEFINE f == [n \in M |-> n \div c]
  <2>1. f \in [M -> 0..(cap - 1)]
    BY <1>9
  <2>2. \A m, n \in M : m \div c = n \div c => m = n
    BY <1>8
  <2>3. f \in Injection(M, 0..(cap - 1))
    BY <2>1, <2>2 DEF Injection, IsInjective
  <2>4. IsFiniteSet(0..(cap - 1)) /\ Cardinality(0..(cap - 1)) = cap
    BY FS_Interval
  <2> HIDE DEF f, M
  <2> QED BY <2>3, <2>4, FS_Injection
<1>11. Cardinality(kept) <= cap + 1
  <2> HIDE DEF M
  <2>1. Cardinality(M \cup {total - 1}) = IF total - 1 \in M THEN Cardinality(M) ELSE Cardinality(M) + 1
    BY <1>10, FS_AddElement
  <2>2. Cardinality(M) \in Nat
    BY <1>10, FS_CardinalityType
  <2> DEFINE a == Cardinality(M)
             b == Cardinality(kept)
  <2>3. b = a \/ b = a + 1
    BY <1>6, <2>1
  <2>4. a \in Nat /\ a <= cap
    BY <1>10, <2>2
  <2> HIDE DEF a, b
  <2>5. b <= cap + 1
    BY <2>3, <2>4
  <2> QED BY <2>5 DEF b
<1>12. ASSUME NEW n \in N PROVE \E k \in kept : n - k \in 0..(c - 1)
  <2> DEFINE a == n \div c
             r == n % c
             k == c * a
  <2>0. n \in Nat /\ a \in Nat /\ r \in 0..(c - 1) /\ n = c * a + r /\ n < total
    BY <1>8
  <2>1. n \in Nat /\ a \in Nat /\ r \in 0..(c - 1) /\ n = k + r /\ k \in Nat /\ n < total
    <3> HIDE DEF a, r
    <3> QED BY <1>1, <2>0
  <2>2. k % c = 0
    <3> HIDE DEF a
    <3>1. k = c * a + 0 /\ 0 \in 0..(c - 1)
      <4>1. 0 \in 0..(c - 1)
        BY <1>1
      <4>2. k \in Nat
        BY <2>1
      <4> HIDE DEF k
      <4>3. k = k + 0
        BY <4>2
      <4> QED BY <4>1, <4>3 DEF k
    <3> QED BY <1>1, <2>1, <3>1, DivIs
  <2> HIDE DEF k, a, r
  <2>3. k \in N /\ n - k \in 0..(c - 1)
    BY <1>1, <2>1
  <2> QED BY <1>3, <2>2, <2>3
<1>13. total > cap => kept # N
  <2> SUFFICES ASSUME total > cap PROVE 1 \in N /\ 1 \notin kept
    OBVIOUS
  <2>1. c >= 2
    BY <1>1
  <2>2. 1 % c = 1
    <3>0. c * 0 = 0
      BY <1>1
    <3>1. 1 = c * 0 + 1 /\ 1 \in 0..(c - 1)
      BY <1>1, <2>1, <3>0
    <3> QED BY <1>1, <3>1, DivIs
  <2> QED BY <1>3, <2>2
<1>14. total <= cap => kept = N
  <2> SUFFICES ASSUME total <= cap PROVE \A n \in N : n % c = 0
    BY <1>3
  <2>1. c = 1
    BY <1>1
  <2> QED BY <1>8, <2>1
<1> QED BY <1>7, <1>11, <1>12, <1>13, <1>14

\* The places of a drawn series are apart and run from the first to the last.
LEMMA DecimateSpans ==
  ASSUME NEW n \in Nat, n > 0, NEW most \in Nat, most >= 2, NEW d, d = Decimate(n, most)
  PROVE  /\ Len(d) = (IF n <= most THEN n ELSE most) /\ d[1] = 0 /\ d[Len(d)] = n - 1
         /\ \A i \in 1..(Len(d) - 1) : d[i] < d[i + 1]
<1>1. CASE n <= most
  <2>1. d = [i \in 1..n |-> i - 1]
    BY <1>1 DEF Decimate
  <2>2. Len(d) = n /\ \A i \in 1..n : d[i] = i - 1
    <3>1. d \in Seq(Int) /\ DOMAIN d = 1..n
      BY <2>1
    <3> QED BY <2>1, <3>1
  <2>3. \A i \in 1..(n - 1) : i \in 1..n /\ i + 1 \in 1..n /\ i - 1 < (i + 1) - 1
    OBVIOUS
  <2> QED BY <1>1, <2>2, <2>3
<1>2. CASE n > most
  <2> DEFINE at(i) == (2 * (i - 1) * (n - 1) + (most - 1)) \div (2 * (most - 1))
             b == 2 * (most - 1)
             h == most - 1
             l == n - 1
             top(i) == 2 * (i - 1) * (n - 1) + (most - 1)
  <2>1. d = [i \in 1..most |-> IF i = most THEN n - 1 ELSE at(i)]
    BY <1>2 DEF Decimate
  <2>2. /\ Len(d) = most /\ d[most] = n - 1 /\ \A i \in 1..(most - 1) : d[i] = at(i)
    <3> HIDE DEF at
    <3>1. DOMAIN d = 1..most /\ Len(d) = most
      BY <2>1
    <3>2. most \in 1..most /\ \A i \in 1..(most - 1) : i \in 1..most /\ i # most
      OBVIOUS
    <3> QED BY <2>1, <3>1, <3>2
  <2>3. h \in Nat /\ h >= 1 /\ b \in Nat /\ b = 2 * h /\ b > 0 /\ l \in Nat /\ l > h
    BY <1>2
  <2>4. ASSUME NEW i \in 1..most
        PROVE  top(i) \in Nat /\ top(i + 1) \in Nat /\ top(i + 1) = top(i) + 2 * l
    <3> DEFINE j == i - 1
               x == 2 * j * l
    <3>1. j \in Nat /\ l \in Nat /\ (i + 1) - 1 = j + 1 /\ h \in Nat
      BY <2>3
    <3>2. top(i) = 2 * j * l + h /\ top(i + 1) = 2 * (j + 1) * l + h
      BY <3>1
    <3> HIDE DEF top, j, l, h
    <3>3. 2 * (j + 1) * l = 2 * j * l + 2 * l /\ 2 * j * l \in Nat /\ 2 * l \in Nat
      BY <3>1
    <3> HIDE DEF x
    <3>4. x \in Nat /\ 2 * (j + 1) * l = x + 2 * l
      BY <3>3 DEF x
    <3>5. top(i) = x + h /\ top(i + 1) = (x + 2 * l) + h
      BY <3>2, <3>4 DEF x
    <3> QED BY <3>1, <3>3, <3>4, <3>5
  <2>5. \A i \in 1..most : at(i) = top(i) \div b
    OBVIOUS
  <2> HIDE DEF at, top, b, h, l
  <2>6. ASSUME NEW i \in 1..most, i + 1 \in 1..most PROVE at(i) < at(i + 1)
    <3> DEFINE p == top(i) \div b
               q == top(i + 1) \div b
               r == top(i) % b
               s == top(i + 1) % b
    <3>1. /\ p \in Nat /\ q \in Nat /\ r \in 0..(b - 1) /\ s \in 0..(b - 1)
          /\ top(i) = b * p + r /\ top(i + 1) = b * q + s
      BY <2>3, <2>4, DivMod
    <3>2. top(i + 1) >= top(i) + b
      <4> DEFINE u == top(i)  v == top(i + 1)
      <4>1. u \in Nat /\ v \in Nat /\ v = u + 2 * l
        BY <2>4
      <4> HIDE DEF u, v
      <4>2. v >= u + b
        BY <2>3, <4>1
      <4> QED BY <4>2 DEF u, v
    <3> HIDE DEF p, q, r, s
    <3>3. q < p => b * q + b <= b * p
      BY <2>3, <3>1, TimesMore
    <3> DEFINE x == b * p
               y == b * q
    <3>4. x \in Nat /\ y \in Nat /\ (p = q => x = y)
      BY <2>3, <3>1
    <3>5. top(i) = x + r /\ top(i + 1) = y + s
      BY <3>1
    <3>6. q < p => y + b <= x
      BY <3>3
    <3> HIDE DEF x, y
    <3>7. y + s >= x + r + b
      BY <3>2, <3>5
    <3>8. ~(y <= x)
      BY <2>3, <3>1, <3>4, <3>7
    <3>9. ~(q < p) /\ q # p
      BY <2>3, <3>4, <3>6, <3>8
    <3>10. p < q
      BY <3>1, <3>9
    <3> QED BY <2>5, <2>6, <3>10 DEF p, q
  <2>7. at(1) = 0
    <3>1. top(1) = h
      <4>1. 1 \in Nat /\ 2 * (1 - 1) * (n - 1) = 0
        OBVIOUS
      <4> QED BY <4>1 DEF top, h
    <3>2. h = b * 0 + h /\ h \in 0..(b - 1)
      <4>1. b * 0 = 0
        BY <2>3
      <4> QED BY <2>3, <4>1
    <3>3. h \div b = 0
      BY <2>3, <3>2, DivIs
    <3> QED BY <2>5, <3>1, <3>3
  <2>8. at(most) = n - 1
    <3>1. top(most) = b * l + h
      <4>1. 2 * (most - 1) * (n - 1) = b * l
        BY DEF b, l
      <4> QED BY <4>1 DEF top, h
    <3>2. h \in 0..(b - 1)
      BY <2>3
    <3>3. top(most) \in Nat
      BY <2>4
    <3>4. top(most) \div b = l
      BY <2>3, <3>1, <3>2, <3>3, DivIs
    <3> QED BY <2>5, <3>4 DEF l
  <2>9. \A i \in 1..most : d[i] = at(i)
    <3> TAKE i \in 1..most
    <3>1. i = most \/ i \in 1..(most - 1)
      OBVIOUS
    <3> QED BY <2>2, <2>8, <3>1
  <2>10. d[1] = 0
    BY <2>7, <2>9
  <2>11. \A i \in 1..(most - 1) : d[i] < d[i + 1]
    <3> TAKE i \in 1..(most - 1)
    <3>1. i \in 1..most /\ i + 1 \in 1..most
      OBVIOUS
    <3> QED BY <2>6, <2>9, <3>1
  <2> QED BY <1>2, <2>2, <2>10, <2>11
<1> QED BY <1>1, <1>2

\* queries.ts, chart.ts: for a series of any length and any cap of two or more, what is left spans it
\* with even gaps, is one more than the cap at most, and is said to be thinned exactly when it is.
THEOREM SeriesHold == SeriesSpans
<1> SUFFICES ASSUME NEW total \in 1..MaxPoints, NEW cap \in 2..MaxPoints
             PROVE  LET kept == Sampled(total, cap)
                        plan == PlanDecimation(total, cap)
                        drawn == Decimate(total, cap)
                    IN /\ {0, total - 1} \subseteq kept /\ Cardinality(kept) <= cap + 1
                       /\ \A n \in 0..(total - 1) : \E k \in kept : n - k \in 0..(plan.step - 1)
                       /\ plan.downsampled <=> kept # 0..(total - 1)
                       /\ drawn[1] = 0 /\ Last(drawn) = total - 1 /\ Len(drawn) = Min({total, cap})
                       /\ \A i \in 1..(Len(drawn) - 1) : drawn[i] < drawn[i + 1]
  BY DEF SeriesSpans
<1> DEFINE kept == Sampled(total, cap)
           plan == PlanDecimation(total, cap)
           drawn == Decimate(total, cap)
           c == CeilDiv(total, cap)
<1>1. total \in Nat /\ total > 0 /\ cap \in Nat /\ cap >= 2 /\ cap > 0
  BY HistoryAssumption
<1>2. c \in Nat /\ (c = 1 <=> total <= cap)
  BY <1>1, CeilIs
<1>3. plan.step = c /\ (plan.downsampled <=> total > cap)
  BY <1>1, <1>2 DEF PlanDecimation
<1>4. /\ {0, total - 1} \subseteq kept /\ Cardinality(kept) <= cap + 1
      /\ \A n \in 0..(total - 1) : \E k \in kept : n - k \in 0..(c - 1)
      /\ total > cap <=> kept # 0..(total - 1)
  BY <1>1, SampledSpans
<1>5. /\ Len(drawn) = (IF total <= cap THEN total ELSE cap) /\ drawn[1] = 0
      /\ drawn[Len(drawn)] = total - 1
      /\ \A i \in 1..(Len(drawn) - 1) : drawn[i] < drawn[i + 1]
  BY <1>1, DecimateSpans
<1>6. Min({total, cap}) = IF total <= cap THEN total ELSE cap
  BY <1>1, MinOfTwo
<1> HIDE DEF kept, plan, drawn, c
<1>7. /\ {0, total - 1} \subseteq kept /\ Cardinality(kept) <= cap + 1
      /\ \A n \in 0..(total - 1) : \E k \in kept : n - k \in 0..(plan.step - 1)
      /\ plan.downsampled <=> kept # 0..(total - 1)
  BY <1>3, <1>4
<1>8. /\ drawn[1] = 0 /\ Last(drawn) = total - 1 /\ Len(drawn) = Min({total, cap})
      /\ \A i \in 1..(Len(drawn) - 1) : drawn[i] < drawn[i + 1]
  BY <1>5, <1>6 DEF Last
<1> QED BY <1>7, <1>8 DEF kept, plan, drawn

\* queries.ts, PaginatedSessions.svelte, chart.ts: whatever drives begin, end, move or are rewritten
\* between the pages, and whichever pages fail, the list stays in order, of its car and its window,
\* and has every drive that stayed on record, down to where it has read (but for a list that was
\* carried over to another car); the totals of a window are of the closed drives of its pages, and
\* consecutive windows tile; a thinned series spans what it was thinned from, with even gaps.
THEOREM HistoryHolds == HistorySpec => []HistorySound
<1>1. HistoryInit => HistoryInv
  BY HistoryBegins
<1>2. HistoryInv /\ [HistoryNext]_historyVars => HistoryInv'
  BY HistoryStep
<1>3. HistoryInv => HistorySound
  BY ListIsStable, TotalsHold, SeriesHold DEF HistorySound
<1> QED BY <1>1, <1>2, <1>3, PTL DEF HistorySpec

=============================================================================
