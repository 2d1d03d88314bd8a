------------------------------- MODULE Pricing -------------------------------
(***************************************************************************)
(* What a charge cost: the history of rates (packages/db/src/repo/         *)
(* energy-rate.ts), the operator who types one (apps/web/src/lib/server/   *)
(* rates.ts), the daily fetch of one (apps/ingest/src/urdb.ts), the price  *)
(* a charge gets when it closes (pricing.ts, pipeline.ts) and the backfill *)
(* that is run by hand over charges without one (backfill-costs.ts).       *)
(*                                                                         *)
(* Time is counted in instants, DayLength of them a day; a typed date is a *)
(* midnight.  A price has more digits than its column keeps: Scale of the  *)
(* units a price is given in make one of the units it is stored in.        *)
(*                                                                         *)
(* Abstracted: the product of energy and rate, for what a row says is the  *)
(* rate; currencies; what the reports and the refusals say.                *)
(***************************************************************************)
EXTENDS Integers, FiniteSets

CONSTANTS
  Prices,       \* that are typed or published
  Scale,
  DayLength,
  Stops,        \* what a charge shows: where it was, what it was plugged into, its energy
  None,
  Months        \* how much of each thing happens (bounds)

Sources == {"manual", "urdb"}

ASSUME PricingAssumption ==
  /\ Prices \subseteq Nat \ {0} /\ {Scale, DayLength} \subseteq Nat \ {0}
  /\ None \notin Nat \cup Sources \cup {"backfill-estimate"}
  /\ None \notin [from : Nat, price : Nat, source : Sources, exact : BOOLEAN]
  /\ Stops \subseteq [located : BOOLEAN, near : BOOLEAN, fast : BOOLEAN,
                      types : SUBSET {"tesla", "other"}, energy : BOOLEAN]
  /\ Months \subseteq [instants : Nat, typed : Nat, fetched : Nat, closes : Nat, backfills : Nat]

VARIABLES
  month,
  clock,
  rates,        \* energy_rate: rows [from, price, source], and whether the column held the price
  typed,        \* rates typed so far
  refresh,      \* the fetch: how far it is, what was in force, the row it will insert
  fetched,      \* fetches so far
  homeKnown,    \* the worker knows where home is
  charge,       \* the session row of the charge, and whether its close was answered
  closes,       \* closes so far
  backfills     \* the runs of the script

pricingVars ==
  <<month, clock, rates, typed, refresh, fetched, homeKnown, charge, closes, backfills>>

Awake == [at |-> "idle", saw |-> None, row |-> None]
Unpriced == [rate |-> None, source |-> None, basis |-> None]
NoCharge == [stage |-> "none", id |-> 0, start |-> 0, stop |-> None, is |-> Unpriced, unsure |-> FALSE]

PricingInit ==
  /\ month \in Months
  /\ clock = DayLength /\ rates = {} /\ typed = 0
  /\ refresh = Awake /\ fetched = 0
  /\ homeKnown \in BOOLEAN /\ charge = NoCharge /\ closes = 0
  /\ backfills = <<>>

Passes ==
  /\ clock < DayLength + month.instants /\ clock' = clock + 1
  /\ UNCHANGED <<month, rates, typed, refresh, fetched, homeKnown, charge, closes, backfills>>

-----------------------------------------------------------------------------
(* The rates.                                                              *)

\* NUMERIC(10,5).
Rounded(price) == ((price + Scale \div 2) \div Scale) * Scale

Outranks(r, s) == r.from > s.from \/ (r.from = s.from /\ r.source = "manual")

\* rateAt: the latest that is not after the instant, and a typed one before a fetched one.
RateAt(t) ==
  LET past == {r \in rates : r.from <= t}
  IN IF past = {} THEN None ELSE CHOOSE r \in past : \A s \in past \ {r} : Outranks(r, s)

RateRow(from, price, src) ==
  [from |-> from, price |-> Rounded(price), source |-> src, exact |-> Rounded(price) = price]

\* insertRate: a row for this instant and source is left alone.
InsertRate(r) ==
  rates' = IF \E s \in rates : s.from = r.from /\ s.source = r.source THEN rates ELSE rates \cup {r}

\* addManualRate, for a day gone by, today or tomorrow.
TypesRate ==
  /\ typed < month.typed /\ typed' = typed + 1
  /\ \E p \in Prices, d \in 0..(clock \div DayLength + 1) : InsertRate(RateRow(d * DayLength, p, "manual"))
  /\ UNCHANGED <<month, clock, refresh, fetched, homeKnown, charge, closes, backfills>>

-----------------------------------------------------------------------------
(* The fetch.                                                              *)

\* Mutant: an override in force does not stop the fetch.
Unhindered(r) == FALSE

\* A typed rate in force is a standing instruction.
Overridden(r) == r # None /\ r.source = "manual"

\* refreshEnergyRate, on its timer: the rate in force is read.
RefreshReads ==
  /\ refresh.at = "idle" /\ fetched < month.fetched /\ fetched' = fetched + 1
  /\ refresh' = IF Overridden(RateAt(clock)) THEN Awake
                ELSE [Awake EXCEPT !.at = "asking", !.saw = RateAt(clock)]
  /\ UNCHANGED <<month, clock, rates, typed, homeKnown, charge, closes, backfills>>

\* The tariff arrives: no row for a value already held, else one dated now.
RefreshAnswers ==
  /\ refresh.at = "asking"
  /\ \E p \in Prices :
       refresh' = IF refresh.saw # None /\ refresh.saw.price = p THEN Awake
                  ELSE [refresh EXCEPT !.at = "inserting", !.row = RateRow(clock, p, "urdb")]
  /\ UNCHANGED <<month, clock, rates, typed, fetched, homeKnown, charge, closes, backfills>>

RefreshInserts ==
  /\ refresh.at = "inserting" /\ InsertRate(refresh.row)
  /\ refresh' = Awake
  /\ UNCHANGED <<month, clock, typed, fetched, homeKnown, charge, closes, backfills>>

\* Refused, not understood, or the write failed: the last known rate stays.
RefreshFails ==
  /\ refresh.at # "idle" /\ refresh' = Awake
  /\ UNCHANGED <<month, clock, rates, typed, fetched, homeKnown, charge, closes, backfills>>

-----------------------------------------------------------------------------
(* The charge.                                                             *)

\* isAtHome: the car's own word, and the map where it has none.
AtHome(stop, mapped) == stop.located \/ (mapped /\ stop.near)

\* isTeslaBilled: plugged into a fast charger, and nothing says it is not Tesla's.
TeslaBilled(stop) == stop.fast /\ stop.types \subseteq {"tesla"}

\* classifyCharge.
Basis(stop, mapped) ==
  IF AtHome(stop, mapped) THEN "home" ELSE IF TeslaBilled(stop) THEN "pending" ELSE "unknown"

\* priceCharge: no figure but at home, with a rate and an energy.
PriceCharge(stop, mapped, r, says) ==
  LET basis == Basis(stop, mapped)
  IN IF basis = "home" /\ r # None /\ stop.energy
     THEN [rate |-> r.price, source |-> says, basis |-> basis]
     ELSE [Unpriced EXCEPT !.basis = basis]

ChargeStarts ==
  /\ charge.stage = "none"
  /\ \E s \in Stops : charge' = [NoCharge EXCEPT !.stage = "open", !.id = 1, !.start = clock, !.stop = s]
  /\ UNCHANGED <<month, clock, rates, typed, refresh, fetched, homeKnown, closes, backfills>>

Finished == [at |-> "over", id |-> 0, basis |-> None, stale |-> FALSE, now |-> 0, rate |-> None,
             apply |-> FALSE, mapped |-> FALSE]

Running == {b \in DOMAIN backfills : backfills[b].at # "over"}

\* The row is written: what a run under way has listed is no longer what it says.
Overtaken == [b \in DOMAIN backfills |->
                IF b \in Running THEN [backfills[b] EXCEPT !.stale = TRUE] ELSE Finished]

\* Mutant: the rate of the moment it closes.
PricedNow(stop, start) ==
  LET r == RateAt(clock)
  IN PriceCharge(stop, homeKnown, r, IF r = None THEN None ELSE r.source)

\* attachCost: the rate in force when the charge began.
PriceAtClose(stop, start) ==
  LET r == RateAt(start)
  IN PriceCharge(stop, homeKnown, r, IF r = None THEN None ELSE r.source)

\* finish, in one transaction with the close.  A COMMIT without an answer is done again, and
\* reprocess does it again under a new id.
ChargeCloses ==
  /\ closes < month.closes /\ closes' = closes + 1
  /\ \E answered \in BOOLEAN :
       \/ /\ charge.stage = "open" \/ charge.unsure
          /\ charge' = [charge EXCEPT !.stage = "closed", !.unsure = ~answered,
                                      !.is = PriceAtClose(charge.stop, charge.start)]
       \/ /\ charge.stage = "closed" /\ ~charge.unsure /\ answered
          /\ charge' = [charge EXCEPT !.id = @ + 1, !.is = PriceAtClose(charge.stop, charge.start)]
  /\ backfills' = Overtaken
  /\ UNCHANGED <<month, clock, rates, typed, refresh, fetched, homeKnown>>

-----------------------------------------------------------------------------
(* The backfill.                                                           *)

\* Mutant: a charge with a price is listed as well.
AnyClosed(c) == c.stage = "closed"

\* unpricedCharges.
Unsettled(c) == c.stage = "closed" /\ c.is.rate = None /\ c.is.source = None

\* runBackfill: the charges are listed once.
BackfillLists ==
  /\ Cardinality(DOMAIN backfills) < month.backfills
  /\ \E apply, mapped \in BOOLEAN :
       backfills' = [b \in DOMAIN backfills \cup {Cardinality(DOMAIN backfills) + 1} |->
         IF b \in DOMAIN backfills THEN backfills[b]
         ELSE IF ~Unsettled(charge) THEN Finished
         ELSE [at |-> "listed", id |-> charge.id, basis |-> charge.is.basis, stale |-> FALSE,
               now |-> clock, rate |-> None, apply |-> apply, mapped |-> mapped]]
  /\ UNCHANGED <<month, clock, rates, typed, refresh, fetched, homeKnown, charge, closes>>

\* One rate for the whole run: today's.
BackfillReads(b) ==
  /\ backfills[b].at = "listed"
  /\ backfills' = [backfills EXCEPT ![b].at = "pricing", ![b].rate = RateAt(backfills[b].now)]
  /\ UNCHANGED <<month, clock, rates, typed, refresh, fetched, homeKnown, charge, closes>>

\* What the run makes of the charge, marked as an estimate.
Estimate(b) ==
  PriceCharge(charge.stop, backfills[b].mapped, backfills[b].rate, "backfill-estimate")

\* Not one that awaits an invoice, and not to say what the row said already.
Worthwhile(b) ==
  /\ backfills[b].basis \in {"home", "unknown"}
  /\ ~(Estimate(b).rate = None /\ Estimate(b).basis = backfills[b].basis)

\* A dry run writes nothing; a row that was replaced is not found.
BackfillPrices(b) ==
  /\ backfills[b].at = "pricing"
  /\ IF Worthwhile(b) /\ backfills[b].apply /\ backfills[b].id = charge.id
     THEN charge' = [charge EXCEPT !.is = Estimate(b)] /\ backfills' = [Overtaken EXCEPT ![b] = Finished]
     ELSE charge' = charge /\ backfills' = [backfills EXCEPT ![b] = Finished]
  /\ UNCHANGED <<month, clock, rates, typed, refresh, fetched, homeKnown, closes>>

PricingNext ==
  \/ Passes \/ TypesRate
  \/ RefreshReads \/ RefreshAnswers \/ RefreshInserts \/ RefreshFails
  \/ ChargeStarts \/ ChargeCloses
  \/ BackfillLists \/ \E b \in DOMAIN backfills : BackfillReads(b) \/ BackfillPrices(b)

PricingSpec == PricingInit /\ [][PricingNext]_pricingVars

-----------------------------------------------------------------------------
(* Properties.                                                             *)

\* The variables have the values the code gives them.
PricingTypes ==
  /\ clock \in DayLength..(DayLength + month.instants)
  /\ \A r \in rates : r.price % Scale = 0 /\ r.source \in Sources
  /\ charge.is.basis \in {None, "home", "pending", "unknown"}
  /\ charge.is.source \in Sources \cup {None, "backfill-estimate"}

\* A price that names a rate's source is the price of such a rate that had begun when the
\* charge began (pipeline.ts:791-799), and there is a source and a home basis exactly where
\* there is a figure (pricing.ts:117-127).
MeasuresAreMeasures ==
  /\ charge.is.source \in Sources =>
       \E r \in rates : /\ r.source = charge.is.source /\ r.price = charge.is.rate
                        /\ r.from <= charge.start
  /\ (charge.is.rate = None) = (charge.is.source = None)
  /\ charge.is.rate # None => charge.is.basis = "home"

\* Two fetched rates in a row differ (urdb.ts:152-160), unless the column cannot hold what was
\* published: then every fetch makes a row.
FetchesDiffer ==
  \A r, s \in {q \in rates : q.source = "urdb"} :
     r.from < s.from /\ r.price = s.price /\ s.exact =>
       \E q \in rates : q.source = "urdb" /\ r.from < q.from /\ q.from < s.from

\* What was fetched never takes the place of an override that was in force when the fetch began
\* (urdb.ts:130-147); one typed while it was under way it may.
OverrideStands ==
  Overridden(RateAt(clock)) /\ ~Overridden(RateAt(clock)') => ~Overridden(refresh.saw)

\* A row that names a source, or awaits an invoice, is not written over (backfill-costs.ts:19-27):
\* but by the same close done again, or by a run that listed the row before it came to say so.
RowsSettled ==
  charge.stage = "closed" /\ charge'.id = charge.id /\ charge'.is # charge.is =>
    \/ closes' # closes \/ \E b \in Running : backfills[b].stale /\ backfills'[b] = Finished
    \/ charge.is.source = None /\ charge.is.basis # "pending"

\* The prices that matter to a bill: a charge keeps what was known when it closed.
PricingSound ==
  [][MeasuresAreMeasures' /\ FetchesDiffer' /\ OverrideStands /\ RowsSettled]_pricingVars

=============================================================================
