------------------------------ MODULE Readings ------------------------------
(***************************************************************************)
(* From the frames a car sends to the rows of the sample table: the vendor *)
(* profiles and decoders (apps/ingest/src/profiles, packages/rivian/src/   *)
(* normalise.ts, packages/tesla/src/normalise.ts), the accumulator         *)
(* (apps/ingest/src/pipeline.ts) and the flush timer's clock               *)
(* (flush-clock.ts).                                                       *)
(*                                                                         *)
(* A Rivian frame is stamped by the connector, and each of its properties  *)
(* by the car, but for the charging stream and the cloud's own word, which *)
(* carry no time; a subscription sends again what the cloud holds.  A      *)
(* Tesla message has one field and no time at all.  A frame whose          *)
(* transaction fails is delivered again, after others.                     *)
(*                                                                         *)
(* The slots are one or two of each window and of each rule.  Abstracted:  *)
(* units, and which texts are numbers (a speed below 0 cannot be read);      *)
(* a car's clock that is ahead, and a stamp that cannot be read; sessions; *)
(* restarts, which Ingest models.                                          *)
(***************************************************************************)
EXTENDS Integers, Sequences, FiniteSets

CONSTANTS
  Quiet, MaxInterval,     \* QUIET_PERIOD_MS, MAX_SAMPLE_INTERVAL_MS
  Volatile, Stale, Level, \* VOLATILE_STALE_MS, STALE_VALUE_MS, RIVIAN_LEVEL_STALE_MS
  Nothing,
  Logs                    \* vendor, properties, and how much of each thing happens (bounds)

RivianSlots == {"mode", "online", "gear", "speed", "charger", "plug", "power", "energy"}
TeslaSlots == {"mode", "gear", "speed", "charger", "plug", "power", "energy", "dcPower", "dcEnergy",
               "rail"}
Slots == RivianSlots \cup TeslaSlots
Properties == Slots \ {"rail"}

ASSUME ReadingsAssumption ==
  /\ {Quiet, MaxInterval, Volatile, Stale, Level} \subseteq Nat \ {0} /\ Nothing \notin Int
  /\ Logs \subseteq [vendor : {"tesla", "rivian"}, props : SUBSET Properties,
                     instants : Nat, changes : Nat, resends : Nat, failures : Nat, backlog : Nat, lag : Nat]

VARIABLES
  log,
  hour,        \* the time, as everybody has it
  cloud,       \* what the vendor holds of each property: its value, since when, which change
  said,        \* changes so far
  resent,      \* subscriptions made again
  inbox,       \* frames accepted and not handled
  undone,      \* frames whose transaction failed, to be delivered again
  acc,         \* the accumulator: slots, arrivals, newestAt, pendingSince
  skew,        \* how far behind the newest frame was seen to be
  written,     \* the last sample: its time, the slots it was made of, its columns
  \* what a reader of the frames handled so far knows
  told,        \* of each slot: the latest change, when it was observed, first told and last heard
  sign,        \* when they last showed that a charge goes on
  overdue,     \* a frame was handled after a newer one
  handledAt    \* when the last frame was handled

readingsVars == <<log, hour, cloud, said, resent, inbox, undone, acc, skew, written, told, sign,
                  overdue, handledAt>>

Newer(a, b) == IF a > b THEN a ELSE b
Has(f, s) == s \in DOMAIN f
Put(f, g) == [s \in DOMAIN f \cup DOMAIN g |-> IF Has(g, s) THEN g[s] ELSE f[s]]
Or(f, s, otherwise) == IF Has(f, s) THEN f[s] ELSE otherwise

-----------------------------------------------------------------------------
(* The profiles.                                                           *)

Rivian == log.vendor = "rivian"

VolatileSlots == {"speed", "power", "dcPower"}
ChargeStateSlots == {"charger", "plug", "rail"}
PowerSlots == {"power", "dcPower"}
EnergySlots == {"energy", "dcEnergy"}

\* staleWindowFor: a Rivian level is true until contradicted, but not a charge's own values.
StaleWindow(s) ==
  IF s \in VolatileSlots THEN Volatile
  ELSE IF ~Rivian \/ s \in ChargeStateSlots \cup EnergySlots THEN Stale
  ELSE Level

\* What a property can say.
Words(p) ==
  CASE p = "mode" -> {"awake", "asleep"}
    [] p = "online" -> {"online", "offline"}
    [] p = "gear" -> {"P", "D", "unnamed"} \cup (IF Rivian THEN {} ELSE {"off"})
    [] p = "speed" -> {0, 1} \cup (IF Rivian THEN {-1} ELSE {})
    [] p = "charger" -> {"charging", "complete"} \cup (IF Rivian THEN {"connecting"} ELSE {})
    [] p = "plug" -> {"connected", "disconnected"}
    [] p \in PowerSlots -> {0, 1}
    [] p \in EnergySlots -> {0, 1, 2}

\* The streams a property is on.
StreamsOf(p) ==
  IF ~Rivian \/ p \in {"mode", "gear", "speed", "plug"} THEN {"state"}
  ELSE IF p = "charger" THEN {"state", "charging"}
  ELSE IF p = "online" THEN {"state", "cloud"} ELSE {"charging"}

\* The selector: a position that has no name is an explicit null, a Tesla that is off is in Park.
GearOf(word) == IF word = "unnamed" THEN "null" ELSE IF word = "off" THEN "P" ELSE word

\* The slots a Rivian's property fills: a car that sleeps is in Park, and a speed that cannot be
\* one is not read.
RivianReads(p, v) ==
  IF p = "gear" THEN [gear |-> GearOf(v)]
  ELSE IF p = "mode" /\ v = "asleep" THEN [mode |-> v, gear |-> "P"]
  ELSE IF p = "speed" /\ v < 0 THEN <<>>
  ELSE [s \in {p} |-> v]

\* A Tesla's: positive power claims its rail.
TeslaReads(p, v) ==
  IF p = "gear" THEN [gear |-> GearOf(v)]
  ELSE IF p \in PowerSlots /\ v > 0
  THEN Put([s \in {p} |-> v], [rail |-> IF p = "power" THEN "ac" ELSE "dc"])
  ELSE [s \in {p} |-> v]

Reads(p, v) == IF Rivian THEN RivianReads(p, v) ELSE TeslaReads(p, v)

\* Whether the car dates what a frame says of a property.
Dated(f, p) == Rivian /\ f.stream = "state" /\ p # "online"

TooOld(f, p, ms) ==
  Dated(f, p) /\ \E s \in DOMAIN Reads(p, f.says[p].value) : ms - f.says[p].at >= StaleWindow(s)

\* What the frame says of a slot, by property.
Said(f, s, ms) ==
  {[by |-> p, value |-> Reads(p, f.says[p].value)[s], arrival |-> ~Dated(f, p),
    observed |-> IF Dated(f, p) THEN f.says[p].at ELSE ms] :
     p \in {q \in DOMAIN f.says : s \in DOMAIN Reads(q, f.says[q].value) /\ ~TooOld(f, q, ms)}}

\* Collector: of two properties that fill one slot the later observed, the selector on a tie.
Winner(all) ==
  CHOOSE c \in all : \A d \in all :
    \/ d = c
    \/ d.observed < c.observed
    \/ d.observed = c.observed /\ c.by = "gear"

RivianDecoded(f, ms) == [s \in {t \in Slots : Said(f, t, ms) # {}} |-> Winner(Said(f, s, ms))]

\* One field in a message, and no time of its own.
TeslaDecoded(f) ==
  LET p == CHOOSE p \in DOMAIN f.says : TRUE
      reads == TeslaReads(p, f.says[p].value)
  IN [s \in DOMAIN reads |-> [by |-> p, value |-> reads[s], arrival |-> FALSE, observed |-> Nothing]]

Decoded(f, ms) == IF Rivian THEN RivianDecoded(f, ms) ELSE TeslaDecoded(f)

-----------------------------------------------------------------------------
(* The accumulator.                                                        *)

Empty == [slots |-> <<>>, arrivals |-> <<>>, newestAt |-> Nothing, pendingSince |-> Nothing]

Equals(a, c, s) == Has(a.slots, s) /\ a.slots[s].value = c.value

\* An older observation than the one held, or the same one again.
Superseded(a, c, s) ==
  /\ c.observed # Nothing /\ Has(a.slots, s) /\ a.slots[s].observed # Nothing
  /\ \/ c.observed < a.slots[s].observed
     \/ c.observed = a.slots[s].observed /\ Equals(a, c, s)

\* Mutant: what has run out is forgotten with its slot.
NeverRemembered(a, c, s, ms) == FALSE

\* What the stream said last, and not too long ago.
Remembered(a, c, s, ms) ==
  /\ Has(a.arrivals, s) /\ a.arrivals[s].value = c.value
  /\ ms - a.arrivals[s].seenAt < StaleWindow(s)

Heard(a, d) == {s \in DOMAIN d : d[s].arrival /\ ~Superseded(a, d[s], s)}
Repeated(a, d, ms) == {s \in Heard(a, d) : Remembered(a, d[s], s, ms) \/ Equals(a, d[s], s)}
Landing(a, d, ms) == {s \in DOMAIN d : ~Superseded(a, d[s], s)} \ Repeated(a, d, ms)

\* Mutant: a charge's word is renewed by its repetition.
AnyRefreshed(a, d, ms) == {s \in Repeated(a, d, ms) : Equals(a, d[s], s)}

\* A held value that is said again lasts as long again, but for the words of a charge.
Refreshed(a, d, ms) == {s \in Repeated(a, d, ms) \ ChargeStateSlots : Equals(a, d[s], s)}

\* Positive power, or a counter above where it stood.
ShowsCharging(a, d, ms) ==
  \/ \E s \in Landing(a, d, ms) \cap PowerSlots : d[s].value > 0
  \/ \E s \in Landing(a, d, ms) \cap EnergySlots :
       Has(a.slots, s) /\ d[s].value > a.slots[s].value

\* apply: the slots once the frame is in.
Applied(a, d, ms) ==
  LET lands == [s \in Landing(a, d, ms) |->
                  [value |-> d[s].value, observed |-> d[s].observed,
                   at |-> IF d[s].observed = Nothing THEN ms ELSE d[s].observed]]
      again == [s \in Refreshed(a, d, ms) |->
                  [a.slots[s] EXCEPT !.at = Newer(@, d[s].observed), !.observed = d[s].observed]]
      now == Put(Put(a.slots, again), lands)
  IN [s \in DOMAIN now |-> IF s \in ChargeStateSlots /\ ShowsCharging(a, d, ms)
                           THEN [now[s] EXCEPT !.at = ms] ELSE now[s]]

Apply(a, d, ms) ==
  LET landed == Landing(a, d, ms) # {}
  IN [slots |-> Applied(a, d, ms),
      arrivals |-> Put(a.arrivals, [s \in Heard(a, d) |-> [value |-> d[s].value, seenAt |-> ms]]),
      newestAt |-> IF landed THEN ms ELSE a.newestAt,
      pendingSince |-> IF landed /\ a.pendingSince = Nothing THEN ms ELSE a.pendingSince]

\* due.
Due(a, now) ==
  a.pendingSince # Nothing /\ (now - a.newestAt >= Quiet \/ now - a.pendingSince >= MaxInterval)

\* take: what has run out is dropped.
Kept(a) ==
  LET current == {s \in DOMAIN a.slots : a.newestAt - a.slots[s].at < StaleWindow(s)}
  IN [s \in current |-> a.slots[s]]
AfterTake(a) == [a EXCEPT !.slots = Kept(a), !.pendingSince = Nothing]

-----------------------------------------------------------------------------
(* From the slots to the columns of a row.                                 *)

Values(kept) == [s \in DOMAIN kept |-> kept[s].value]

\* rivianStateToSample: offline wins, a cable that is out wins, a car in Park does not move.
RivianRow(v) ==
  [powerState |-> IF Or(v, "online", "online") = "offline" THEN "offline" ELSE Or(v, "mode", "null"),
   chargeState |-> IF Or(v, "plug", "null") = "disconnected" THEN "disconnected"
                   ELSE IF Or(v, "charger", "null") \in {"charging", "complete"} THEN v["charger"]
                   ELSE Or(v, "plug", "null"),
   speed |-> IF Or(v, "gear", "null") = "P" /\ Has(v, "speed") THEN 0 ELSE Or(v, "speed", Nothing),
   gear |-> Or(v, "gear", "null"),
   power |-> Or(v, "power", Nothing), energy |-> Or(v, "energy", Nothing)]

\* coalescePower: the rail that carries the larger.
Coalesced(ac, dc) == IF ac = Nothing \/ (dc # Nothing /\ dc > ac) THEN dc ELSE ac

\* chooseEnergy: the counter of the rail that carried power, or the only one there is.
ChosenEnergy(rail, ac, dc) ==
  IF rail = "ac" \/ (rail = "none" /\ dc = Nothing) THEN ac
  ELSE IF rail = "dc" \/ ac = Nothing THEN dc ELSE Nothing

\* teslaStateToSample: the detailed word before the basic one.
TeslaRow(v) ==
  [powerState |-> Or(v, "mode", "null"),
   chargeState |-> Or(v, "charger", Or(v, "plug", "null")),
   speed |-> Or(v, "speed", Nothing), gear |-> Or(v, "gear", "null"),
   power |-> Coalesced(Or(v, "power", Nothing), Or(v, "dcPower", Nothing)),
   energy |-> ChosenEnergy(Or(v, "rail", "none"), Or(v, "energy", Nothing),
                           Or(v, "dcEnergy", Nothing))]

Sample(a) ==
  LET v == Values(Kept(a))
  IN [ts |-> a.newestAt, slots |-> v, row |-> IF Rivian THEN RivianRow(v) ELSE TeslaRow(v)]

-----------------------------------------------------------------------------

NotTold == [change |-> 0, value |-> Nothing, at |-> 0, first |-> 0, heard |-> 0]

ReadingsInit ==
  /\ log \in Logs
  /\ hour = 0 /\ said = 0 /\ resent = 0
  /\ cloud = [p \in log.props |-> [value |-> Nothing, at |-> 0, change |-> 0]]
  /\ inbox = <<>> /\ undone = {} /\ acc = Empty /\ skew = 0
  /\ written = [ts |-> Nothing, slots |-> <<>>, row |-> <<>>]
  /\ told = [s \in Slots |-> NotTold] /\ sign = 0 /\ overdue = FALSE /\ handledAt = 0

worker == <<acc, skew, written, told, sign, overdue, handledAt>>

TimePasses ==
  /\ hour < log.instants /\ hour' = hour + 1
  /\ \A i \in DOMAIN inbox : hour - inbox[i].stamp < log.lag
  /\ UNCHANGED <<log, cloud, said, resent, inbox, undone, worker>>

Frame(where, held, props) == [stream |-> where, stamp |-> hour, says |-> [p \in props |-> held[p]]]

\* Two properties that fill one slot do not change in one instant.
Apart(p, v) ==
  \A q \in {r \in log.props \ {p} : cloud[r].change > 0 /\ cloud[r].at = hour} :
    DOMAIN Reads(p, v) \cap DOMAIN Reads(q, cloud[q].value) = {}

\* A property changes, and is sent on one of its streams, on all, or on none while nobody listens.
CarSays(p) ==
  /\ said < log.changes /\ said' = said + 1 /\ Len(inbox) < log.backlog
  /\ \E v \in Words(p) : /\ cloud[p].change = 0 \/ (v # cloud[p].value /\ cloud[p].at < hour)
                         /\ Apart(p, v)
                         /\ cloud' = [cloud EXCEPT ![p] = [value |-> v, at |-> hour,
                                                           change |-> said + 1]]
  /\ \E order \in {<<>>} \cup {<<s>> : s \in StreamsOf(p)}
                  \cup {<<s, t>> : s \in StreamsOf(p), t \in StreamsOf(p) \ {"state"}} :
       /\ \A i, j \in DOMAIN order : i # j => order[i] # order[j]
       /\ inbox' = inbox \o [i \in DOMAIN order |-> Frame(order[i], cloud', {p})]
  /\ UNCHANGED <<log, hour, resent, undone, worker>>

\* A subscription, made again after a silence: the cloud sends what it holds.
Resends(where) ==
  /\ Rivian /\ resent < log.resends /\ resent' = resent + 1 /\ Len(inbox) < log.backlog
  /\ LET props == {p \in log.props : where \in StreamsOf(p) /\ cloud[p].change > 0}
     IN props # {} /\ inbox' = Append(inbox, Frame(where, cloud, props))
  /\ UNCHANGED <<log, hour, cloud, said, undone, worker>>

-----------------------------------------------------------------------------
(* The worker.                                                             *)

\* The stamp: the connector's, or for a Tesla the arrival here.
Stamp(f) == IF Rivian THEN f.stamp ELSE hour

Delivered(f) ==
  \/ inbox # <<>> /\ f = Head(inbox) /\ inbox' = Tail(inbox) /\ undone' = undone
  \/ f \in undone /\ undone' = undone \ {f} /\ inbox' = inbox

\* Mutant: the timer asks the clock on the wall.
WallClock(f) == 0

\* FlushClock.observe.
Behind(f) == hour - Stamp(f)

\* What a reader of the frame learns of a slot: the latest change that it tells.
Learns(f, s) ==
  LET of == {p \in DOMAIN f.says : s \in DOMAIN Reads(p, f.says[p].value)}
      p == CHOOSE p \in of : \A q \in of : f.says[q].change <= f.says[p].change
      ms == Stamp(f)
      heard == IF Dated(f, p) THEN told[s].heard ELSE Newer(told[s].heard, ms)
  IN IF of = {} THEN told[s]
     ELSE IF f.says[p].change <= told[s].change THEN [told[s] EXCEPT !.heard = heard]
     ELSE [change |-> f.says[p].change, value |-> Reads(p, f.says[p].value)[s],
           at |-> f.says[p].at, first |-> ms, heard |-> heard]

\* Whether it shows that energy flows: news of it, or its repetition after a silence.
Charges(f) ==
  \E s \in {"charger"} \cup PowerSlots \cup EnergySlots :
    LET now == Learns(f, s)
    IN /\ s \in DOMAIN f.says
       /\ \/ now.change # told[s].change \/ ~Rivian
          \/ Stamp(f) - told[s].heard >= StaleWindow(s)
       /\ IF s = "charger" THEN now.value = "charging"
          ELSE now.value > 0 /\ (s \in EnergySlots => told[s].change > 0)

\* handle: what is due is written before the frame is applied.
Handles(f) ==
  LET ms == Stamp(f)
  IN /\ Delivered(f)
     /\ written' = IF Due(acc, ms) THEN Sample(acc) ELSE written
     /\ acc' = Apply(IF Due(acc, ms) THEN AfterTake(acc) ELSE acc, Decoded(f, ms), ms)
     /\ skew' = Behind(f) /\ handledAt' = hour
     /\ told' = [s \in Slots |-> Learns(f, s)]
     /\ sign' = IF Charges(f) THEN ms ELSE sign
     /\ overdue' = (overdue \/ f \in undone)
     /\ UNCHANGED <<log, hour, cloud, said, resent>>

\* The transaction fails: the accumulator is as it was, the timer's clock is not.
HandleFails ==
  /\ inbox # <<>> /\ Cardinality(undone) < log.failures
  /\ undone' = undone \cup {Head(inbox)} /\ inbox' = Tail(inbox)
  /\ skew' = Behind(Head(inbox)) /\ handledAt' = hour
  /\ UNCHANGED <<log, hour, cloud, said, resent, acc, written, told, sign, overdue>>

\* The timer.
Flushes ==
  /\ Due(acc, hour - skew)
  /\ written' = Sample(acc) /\ acc' = AfterTake(acc)
  /\ UNCHANGED <<log, hour, cloud, said, resent, inbox, undone, skew, told, sign, overdue, handledAt>>

ReadingsNext ==
  \/ TimePasses \/ HandleFails \/ Flushes
  \/ \E p \in log.props : CarSays(p)
  \/ \E where \in {"state", "charging", "cloud"} : Resends(where)
  \/ \E f \in undone \cup {inbox[i] : i \in DOMAIN inbox} : Handles(f)

ReadingsSpec == ReadingsInit /\ [][ReadingsNext]_readingsVars

-----------------------------------------------------------------------------
(* Properties.                                                             *)

ReadingsTypeOK ==
  /\ log \in Logs /\ hour \in 0..log.instants /\ said \in 0..log.changes /\ resent \in 0..log.resends
  /\ \A s \in DOMAIN acc.slots : s \in Slots /\ acc.slots[s].at \in 0..hour
  /\ \A s \in DOMAIN acc.arrivals : acc.arrivals[s].seenAt \in 0..hour
  /\ acc.pendingSince # Nothing => acc.newestAt # Nothing
  /\ skew \in 0..hour /\ handledAt \in 0..hour /\ sign \in 0..hour

Emits == written' # written

\* Until when what was told of a slot counts from.
Since(s) == IF Rivian /\ s \notin {"power", "energy", "online"} THEN told[s].at ELSE told[s].heard

Current(s, ts) == told[s].change > 0 /\ told[s].first <= ts /\ ts - Since(s) < StaleWindow(s)

\* A redelivered message overtakes newer ones, but for a level that the car dates.
Outrun(s) == overdue /\ ~(Rivian /\ s \in {"mode", "gear"})

\* A word that the charging stream repeats while the other stream has said another.
Swallowed(s) == s = "charger" /\ Has(acc.arrivals, s) /\ acc.arrivals[s].value = told[s].value

\* Whatever the order in which frames, repetitions and expiries met, a sample has of each slot the
\* latest value that the car told, if and only if it is still within its window (pipeline.ts:201-345,
\* 388-403; normalise.ts:544-625).  It says that a charge goes on only so long after the car last
\* showed it, that a Rivian moves only out of Park, and a Tesla's energy is the counter of the rail
\* that last carried power, or the only one known (normalise.ts:395-467).
SamplesTrue ==
  Emits =>
    LET new == written' IN
       /\ \A s \in Slots : Outrun(s) \/ Swallowed(s) \/
            /\ Has(new.slots, s) => told[s].change > 0 /\ new.slots[s] = told[s].value
            /\ Current(s, new.ts) => Has(new.slots, s)
            /\ s \notin ChargeStateSlots /\ Has(new.slots, s) => Current(s, new.ts)
       /\ new.row.chargeState = "charging" => overdue \/ new.ts - sign < Stale
       /\ Rivian /\ new.row.speed \notin {Nothing, 0} => overdue \/ told["gear"].value # "P"
       /\ ~Rivian /\ ~overdue /\ {"energy", "dcEnergy"} \subseteq DOMAIN new.slots =>
            IF Has(new.slots, "rail")
            THEN new.row.energy = told[IF told["rail"].value = "ac" THEN "energy" ELSE "dcEnergy"].value
            ELSE new.row.energy = Nothing

\* A frame that repeats what was said does not make a sample, however often it comes and whatever
\* has run out meanwhile (pipeline.ts:155-199).
OnlyNews ==
  \A f \in undone \cup {inbox[i] : i \in DOMAIN inbox} :
       Handles(f) /\ acc'.pendingSince # Nothing
         /\ (acc'.newestAt # acc.newestAt \/ acc.pendingSince = Nothing)
       => \/ ~Rivian \/ overdue'
          \/ \E s \in Slots :
               \/ told'[s].change > told[s].change
               \/ told'[s].heard > told[s].heard /\ Stamp(f) - told[s].heard >= StaleWindow(s)
               \/ Has(f.says, s) /\ Dated(f, s) /\ s = "charger" /\ f.says[s].at > acc.slots[s].at

\* The timer does not cut a burst in two because the frames are old (flush-clock.ts:1-25): it does
\* only if the worker stood still in the middle of it.
BurstsWhole ==
  Flushes /\ inbox # <<>> =>
       LET next == Stamp(Head(inbox))
       IN \/ next - acc.newestAt >= Quiet \/ next - acc.pendingSince >= MaxInterval
          \/ hour > handledAt \/ overdue

\* From frames to samples nothing is made up, kept too long, repeated or cut in two
\* (pipeline.ts, normalise.ts, flush-clock.ts).
ReadingsFaithful == [][SamplesTrue /\ OnlyNews /\ BurstsWhole]_readingsVars
=============================================================================
