------------------------------- MODULE Battery -------------------------------
(***************************************************************************)
(* The health of the battery: what a charge is found to have put into it   *)
(* (packages/core/src/engine/metrics.ts), the capacity that follows        *)
(* (battery.ts), the car's own measurement, both written by the worker in  *)
(* the transaction of a sample (apps/ingest/src/pipeline.ts) to one row a  *)
(* day (packages/db/src/repo/battery.ts), through failed transactions,     *)
(* restarts and a reprocess, and the page that compares the days           *)
(* (apps/web/src/lib/server/queries.ts).                                   *)
(*                                                                         *)
(* A message says when it is stamped, whether the car charges and, each if *)
(* it says it: the charge in percent, the counter of energy added in kWh,  *)
(* the pack's full energy, what remains of it, the range; and, which       *)
(* nobody is told, the energy put in since the plug.  A sample is what the *)
(* accumulator holds when the message is its burst: what was said before   *)
(* is carried for a time.                                                  *)
(*                                                                         *)
(* Abstracted: drives, whose energy is not measured; pauses of a charge;   *)
(* the two days a resume looks back at most; floats (an estimate is in     *)
(* hundredths of a kWh, a confidence in thousandths, a loss in tenths of a *)
(* percent).                                                               *)
(***************************************************************************)
EXTENDS Integers, Sequences, SequencesExt, FiniteSets

CONSTANTS
  Null,
  DayTime,      \* the length of a day
  CarryTime,    \* STALE_VALUE_MS
  Lives         \* the messages there will be, how long the make's levels are carried, how much
                \* later a message sent again is stamped (0 if it keeps its stamp), and how much
                \* goes wrong (bounds)

Tracked == {"soc", "counter", "pack", "remains", "range"}

ASSUME BatteryAssumption ==
  /\ DayTime \in Nat \ {0} /\ CarryTime \in Nat \ {0}
  /\ \A l \in Lives :
       /\ l.mishaps \in Nat /\ l.reruns \in Nat /\ l.levels \in Nat /\ l.levels >= CarryTime /\ l.delay \in Nat
       /\ l.messages \in Seq([
            at : Nat, charging : BOOLEAN, soc : 0..100 \cup {Null}, counter : Nat \cup {Null},
            pack : Nat \cup {Null}, remains : Nat \cup {Null}, range : Nat \cup {Null}, given : Nat])

VARIABLES
  life,
  handled,      \* messages of it the worker is done with
  late,         \* how much later than that the rest is stamped
  tape,         \* the messages as they are on the tape
  pipeline,     \* the worker's memory: the accumulator, the points of the open charge and the
                \* start of its row (Null once that is deleted), the day last measured
  openSince,    \* the start of the open row of a charge
  health,       \* battery_health_sample, by day
  \* what the rows of the days owe to the charges and to the car
  found,        \* closes that gave an estimate: day, when the charge began, confidence
  due,          \* days of which a sample had the car's measurement
  blinded,      \* days the worker has measured and a reprocess has cleared
  doubled,      \* a message is on the tape at two stamps
  mishaps, reruns

batteryVars ==
  <<life, handled, late, tape, pipeline, openSince, health, found, due, blinded, doubled, mishaps,
    reruns>>

DayAt(t) == t \div DayTime + 1
LastMoment == IF life.messages = <<>> THEN 0 ELSE Last(life.messages).at + life.mishaps * life.delay
DaysOf == 1..DayAt(LastMoment)
NoHealth == [est |-> Null, conf |-> Null, measured |-> Null, range |-> Null]
NoWord == [value |-> Null, at |-> 0]
NoMemory == [acc |-> [f \in Tracked |-> NoWord], points |-> <<>>, row |-> Null, measured |-> 0]

BatteryInit ==
  /\ life \in Lives /\ handled = 0 /\ late = 0 /\ tape = <<>>
  /\ pipeline = NoMemory /\ openSince = Null
  /\ health = [d \in DaysOf |-> NoHealth]
  /\ found = {} /\ due = {} /\ blinded = {} /\ doubled = FALSE /\ mishaps = 0 /\ reruns = 0

Nearest(n, d) == (2 * n + d) \div (2 * d)

-----------------------------------------------------------------------------
(* The accumulator.                                                        *)

\* apply: of a field the message says, its word.
Absorbed(acc, m) ==
  [f \in Tracked |-> IF m[f] = Null THEN acc[f] ELSE [value |-> m[f], at |-> m.at]]

\* staleWindowFor: a Rivian's levels are carried for longer than a charge's counter.
Window(f) == IF f = "counter" THEN CarryTime ELSE life.levels

Carried(word, f, t) == IF t - word.at >= Window(f) THEN Null ELSE word.value

\* take, and toSample.
SampleOf(acc, m) ==
  [at |-> m.at, charging |-> m.charging, given |-> m.given,
   soc |-> Carried(acc.soc, "soc", m.at), counter |-> Carried(acc.counter, "counter", m.at),
   pack |-> Carried(acc.pack, "pack", m.at), remains |-> Carried(acc.remains, "remains", m.at),
   range |-> Carried(acc.range, "range", m.at)]

-----------------------------------------------------------------------------
(* A charge that closes.                                                   *)

Told(points, f) == SelectSeq(points, LAMBDA p : p[f] # Null)
FirstOf(points, f) == IF Told(points, f) = <<>> THEN Null ELSE Head(Told(points, f))[f]
LastOf(points, f) == IF Told(points, f) = <<>> THEN Null ELSE Last(Told(points, f))[f]

\* Mutant: the opening value is always subtracted.
Difference(points) == LastOf(points, "counter") - FirstOf(points, "counter")

\* The counter's rise; a counter that went back was zeroed, and is the energy itself.
Added(points) ==
  LET first == FirstOf(points, "counter")
      last == LastOf(points, "counter")
  IN IF last >= first THEN last - first ELSE last

\* summariseSession, of a charge.
Summary(points) ==
  [energy |-> IF Told(points, "counter") = <<>> THEN Null ELSE Added(points),
   startSoc |-> FirstOf(points, "soc"), endSoc |-> LastOf(points, "soc")]

MinSpan == 20
FullSpan == 80

\* estimateCapacity: nothing from a narrow charge, or from no energy.
EstimateCapacity(s) ==
  LET span == IF Null \in {s.startSoc, s.endSoc} THEN 0 ELSE s.endSoc - s.startSoc
  IN IF s.energy = Null \/ span < MinSpan \/ s.energy = 0 THEN Null
     ELSE [est |-> Nearest(s.energy * 10000, span),
           conf |-> IF span >= FullSpan THEN 1000 ELSE Nearest(span * 1000, FullSpan)]

\* Mutant: NULL < confidence is not true either, and the row of a measured day stays without.
Surer(row, e) == row = NoHealth \/ (row.conf # Null /\ row.conf < e.conf)

\* The update's condition.
Replaces(row, e) == row.conf = Null \/ row.conf < e.conf

\* upsertBatteryHealth.
UpsertHealth(rows, on, e) ==
  IF Replaces(rows[on], e) THEN [rows EXCEPT ![on].est = e.est, ![on].conf = e.conf] ELSE rows

-----------------------------------------------------------------------------
(* A sample in its transaction: st is the memory and what it has written.  *)

\* ratedRangeAtFull: from half a pack up, in tenths of a kilometre.
RangeAtFull(s) ==
  IF s.remains = Null \/ s.range = Null \/ s.range = 0
     \/ 2 * s.remains < s.pack \/ s.remains > s.pack
  THEN Null ELSE Nearest(s.range * s.pack * 10, s.remains)

\* recordMeasuredCapacity: what the car says now, and a range only in place of none.
RecordMeasured(rows, s) ==
  [rows EXCEPT ![DayAt(s.at)].measured = s.pack,
               ![DayAt(s.at)].range = IF RangeAtFull(s) = Null THEN @ ELSE RangeAtFull(s)]

Measurable(s) == s.pack \notin {Null, 0}

\* measurePack: the first of the day that is one.
MeasurePack(st, s) ==
  IF ~Measurable(s) \/ st.measured = DayAt(s.at) THEN st
  ELSE [st EXCEPT !.rows = RecordMeasured(@, s), !.measured = DayAt(s.at)]

\* recordHealth, on the day the charge ended.
RecordHealth(st, points) ==
  LET e == EstimateCapacity(Summary(points))
      on == DayAt(Last(points).at)
  IN IF e = Null THEN st
     ELSE [st EXCEPT !.rows = UpsertHealth(@, on, e),
                     !.found = @ \cup {[day |-> on, began |-> Head(points).at, conf |-> e.conf,
                                        est |-> e.est]}]

\* finish, of a charge.
FinishCharge(st) ==
  [RecordHealth(st, st.points) EXCEPT
     !.ended = @ \cup {st.points}, !.points = <<>>, !.row = Null,
     !.open = IF @ = st.row THEN Null ELSE @]

\* A charge begins: an open row is adopted.
OpenCharge(st, s) ==
  LET start == IF st.open = Null THEN s.at ELSE st.open
  IN [st EXCEPT !.points = <<s>>, !.row = start, !.open = start]

\* The sample that shows that it stopped is its last point.
Segment(st, s) ==
  IF st.points = <<>> THEN (IF s.charging THEN OpenCharge(st, s) ELSE st)
  ELSE LET longer == [st EXCEPT !.points = Append(@, s)]
       IN IF s.charging THEN longer ELSE FinishCharge(longer)

\* emit and applySample, of a burst that is this message.
ApplySample(st, m) ==
  LET acc == Absorbed(st.acc, m)
      s == SampleOf(acc, m)
      owes == IF Measurable(s) THEN {DayAt(s.at)} \ blinded ELSE {}
  IN Segment(MeasurePack([st EXCEPT !.acc = acc, !.due = @ \cup owes], s), s)

\* The memory, and the database it writes to.
Stand(memory) ==
  [acc |-> memory.acc, points |-> memory.points, row |-> memory.row, measured |-> memory.measured,
   open |-> openSince, rows |-> health, found |-> found, due |-> due, ended |-> {}]
Memory(st) == [acc |-> st.acc, points |-> st.points, row |-> st.row, measured |-> st.measured]
Writes(st) == openSince' = st.open /\ health' = st.rows /\ found' = st.found /\ due' = st.due

Remaining == handled < Len(life.messages)
NextMessage == [life.messages[handled + 1] EXCEPT !.at = @ + late]
OnTape(m) == tape # <<>> /\ Last(tape) = m
Taped(m) == IF OnTape(m) THEN tape ELSE Append(tape, m)

\* The row of its charge was deleted: a point on it violates its foreign key.
Refused == pipeline.points # <<>> /\ pipeline.row = Null

HandlesSample ==
  /\ Remaining /\ ~Refused
  /\ handled' = handled + 1 /\ tape' = Taped(NextMessage)
  /\ LET st == ApplySample(Stand(pipeline), NextMessage)
     IN Writes(st) /\ pipeline' = Memory(st)
  /\ UNCHANGED <<life, late, blinded, doubled, mishaps, reruns>>

Mishap == mishaps < life.mishaps /\ mishaps' = mishaps + 1

\* Mutant: the memory of having measured outlives the rollback.
NotRestored(snapshot, st) == [snapshot EXCEPT !.measured = st.measured]

\* restore.
Restored(snapshot, st) == snapshot

\* attempt fails: nothing is written, or the COMMIT landed and its answer did not.  The message
\* is sent again.
SampleFails ==
  /\ Remaining /\ ~Refused /\ Mishap
  /\ late' = late + life.delay
  /\ LET st == ApplySample(Stand(pipeline), NextMessage)
     IN /\ pipeline' = Restored(pipeline, st)
        /\ \/ Writes(st) /\ tape' = Taped(NextMessage) /\ doubled' = (doubled \/ life.delay > 0)
           \/ UNCHANGED <<tape, openSince, health, found, due, doubled>>
  /\ UNCHANGED <<life, handled, blinded, reruns>>

-----------------------------------------------------------------------------
(* Restarts and a reprocess.                                               *)

\* The tape, and the one message more that may be on it and in no sample.
Tapes == {tape} \cup (IF Remaining THEN {Taped(NextMessage)} ELSE {})

\* The messages of a tape from some time on, through an accumulator that holds nothing.
Replayed(st, messages, from) ==
  FoldLeft(ApplySample, st, SelectSeq(messages, LAMBDA m : m.at >= from))

\* resume, over rows of its own (DryStore).
Replay(messages, from) ==
  Replayed([Stand(NoMemory) EXCEPT !.rows = [d \in DaysOf |-> NoHealth], !.open = Null], messages, from)

\* resumeWindowStart.
WindowStart(now) ==
  LET first == IF openSince = Null \/ now < openSince THEN now ELSE openSince
  IN IF first < CarryTime THEN 0 ELSE first - CarryTime

\* matchFor, of an open row and a session of the replay.
Stands(points) == openSince # Null /\ Head(points).at <= openSince

\* reconcile: the row of a charge that ended is closed by the replay's points; whoever replayed
\* has written no day, and a sample that is written here measures nothing.
Reconciled(replay) ==
  LET own == {p \in replay.ended : Stands(p) /\ openSince <= Last(p).at}
  IN IF (replay.points # <<>> /\ Stands(replay.points)) \/ own = {} THEN Stand(NoMemory)
     ELSE RecordHealth(Stand(NoMemory), CHOOSE p \in own : TRUE)

\* A worker starts and finds this tape.  A message that it does not know to be sent again is done
\* with; one that is stamped anew is handled again, if its PUBACK was not sent.
StartsOn(messages) ==
  LET again == Remaining /\ messages # <<>> /\ Last(messages) = NextMessage
  IN /\ tape' = messages
     /\ \/ handled' = (IF again THEN handled + 1 ELSE handled) /\ UNCHANGED <<late, doubled>>
        \/ again /\ life.delay > 0 /\ late' = late + life.delay /\ doubled' = TRUE
           /\ UNCHANGED handled

Resumes ==
  /\ Mishap
  /\ \E messages \in Tapes, now \in {m.at : m \in ToSet(tape)} \cup {LastMoment} :
       LET replay == Replay(messages, WindowStart(now))
           start == IF replay.points = <<>> THEN Null ELSE Head(replay.points).at
           st == Reconciled(replay)
       IN /\ messages # <<>> /\ Last(messages).at <= now
          /\ StartsOn(messages)
          /\ pipeline' = [acc |-> replay.acc, points |-> replay.points, row |-> start, measured |-> 0]
          /\ Writes([st EXCEPT !.open = start])
  /\ blinded' = {}
  /\ UNCHANGED <<life, reruns>>

\* The tape could not be replayed: the worker knows nothing, and an open row is adopted later.
StartsBlind ==
  /\ Mishap /\ pipeline' = NoMemory /\ blinded' = {}
  /\ \E messages \in Tapes : StartsOn(messages)
  /\ UNCHANGED <<life, openSince, health, found, due, reruns>>

\* The days that deleteDerived clears: both ends are cast to the day they fall in.
DaysWithin(from, to) == {d \in DaysOf : DayAt(from) <= d /\ d < DayAt(to)}
DaysCleared(rows, from, to) == [d \in DaysOf |-> IF d \in DaysWithin(from, to) THEN NoHealth ELSE rows[d]]

\* streamRaw, of the window.
TapeWithin(messages, from, to) == SelectSeq(messages, LAMBDA m : from <= m.at /\ m.at < to)

\* A close whose charge, and all it could have carried from before, is in the window, or whose
\* day is not cleared.  None is told by a tape that has a message twice.
Replayable(f, from, to) ==
  f.day \in DaysWithin(from, to) => ~doubled /\ from + life.levels <= f.began + 1

\* The days of which the tape says the measurement.
Measured(messages) == {DayAt(m.at) : m \in {n \in ToSet(messages) : Measurable(n)}}

\* replayWindow, in one transaction: deleteDerived, and the tape again, by a pipeline of its own.
\* An open row outside the window is refused.
Reprocesses(from, to) ==
  /\ reruns < life.reruns /\ reruns' = reruns + 1
  /\ from < to
  /\ openSince # Null => from <= openSince /\ openSince < to
  /\ \E messages \in Tapes :
       LET window == TapeWithin(messages, from, to)
           cleared == DaysWithin(from, to)
           clean == [Stand(NoMemory) EXCEPT
                       !.rows = DaysCleared(@, from, to), !.open = Null,
                       !.found = {f \in @ : Replayable(f, from, to)},
                       !.due = (@ \ cleared) \cup Measured(window)]
           st == Replayed(clean, window, from)
           unseen == cleared \ Measured(window)
       IN /\ Writes([st EXCEPT !.due = clean.due]) /\ tape' = messages
          /\ blinded' = (blinded \ Measured(window)) \cup (unseen \cap {pipeline.measured})
  /\ pipeline' = IF pipeline.row # Null /\ from <= pipeline.row /\ pipeline.row < to
                 THEN [pipeline EXCEPT !.row = Null] ELSE pipeline
  /\ UNCHANGED <<life, handled, late, doubled, mishaps>>

\* --from and --to: midnights, and between any two messages.
Moments ==
  {m.at : m \in ToSet(tape)} \cup {DayTime * (d - 1) : d \in DaysOf} \cup {DayTime * DayAt(LastMoment)}

BatteryNext ==
  \/ HandlesSample \/ SampleFails
  \/ Resumes \/ StartsBlind
  \/ \E from, to \in Moments : Reprocesses(from, to)

BatterySpec == BatteryInit /\ [][BatteryNext]_batteryVars

-----------------------------------------------------------------------------
(* The page, over the days from..to - 1.                                   *)

Trusted == 500

\* selectBaseline and selectMeasuredBaseline: the best there ever was, of those trusted.
BestOf(values) == IF values = {} THEN Null ELSE CHOOSE v \in values : \A w \in values : w <= v
Baseline(rows) ==
  BestOf({rows[d].est : d \in {e \in DOMAIN rows : rows[e].conf # Null /\ rows[e].conf >= Trusted}})
MeasuredBaseline(rows) ==
  BestOf({rows[d].measured : d \in {e \in DOMAIN rows : rows[e].measured # Null}})

\* Mutant: the latest row of the window, whatever it holds.
LatestRow(rows, from, to, field) ==
  LET days == {d \in DOMAIN rows : from <= d /\ d < to /\ rows[d] # NoHealth}
  IN IF days = {} THEN Null ELSE rows[CHOOSE d \in days : \A e \in days : e <= d][field]

\* latestWith.
LatestWith(rows, from, to, field) ==
  LET days == {d \in DOMAIN rows : from <= d /\ d < to /\ rows[d][field] # Null}
  IN IF days = {} THEN Null ELSE rows[CHOOSE d \in days : \A e \in days : e <= d][field]

\* lossPct.
LossPct(base, value) ==
  IF base = Null \/ value = Null THEN Null
  ELSE IF value >= base THEN 0 ELSE Nearest((base - value) * 1000, base)

\* getBatteryHealth.
Tiles(rows, from, to) ==
  LET latest == LatestWith(rows, from, to, "est")
  IN [baseline |-> Baseline(rows), latest |-> latest, loss |-> LossPct(Baseline(rows), latest)]
MeasuredTiles(rows, from, to) ==
  LET latest == LatestWith(rows, from, to, "measured")
  IN [baseline |-> MeasuredBaseline(rows), latest |-> latest,
      loss |-> LossPct(MeasuredBaseline(rows), latest)]

-----------------------------------------------------------------------------

\* The variables have the values the code gives them.
BatteryTypes ==
  /\ life \in Lives /\ handled \in 0..Len(life.messages) /\ late \in 0..life.mishaps * life.delay
  /\ \A i \in 2..Len(tape) : tape[i - 1].at < tape[i].at
  /\ DOMAIN pipeline.acc = Tracked
  /\ \A p \in ToSet(pipeline.points) : \E m \in ToSet(tape) : p.at = m.at
  /\ pipeline.measured \in DaysOf \cup {0}
  /\ openSince # Null => \E m \in ToSet(tape) : m.at = openSince
  /\ DOMAIN health = DaysOf
  /\ \A d \in DaysOf : /\ (health[d].est = Null) <=> (health[d].conf = Null)
                       /\ \A f \in DOMAIN NoHealth : health[d][f] \in Nat \cup {Null}
  /\ due \subseteq DaysOf /\ blinded \subseteq DaysOf
  /\ mishaps \in 0..life.mishaps /\ reruns \in 0..life.reruns

\* Whenever the charge would close, its energy (metrics.ts, summariseSession) is not negative and
\* not more than the car took since it was plugged in, whatever the counter began at and whatever
\* of an earlier charge is carried.
EnergyHonest ==
  LET p == pipeline.points
  IN p # <<>> /\ Told(p, "counter") # <<>> => Summary(p).energy \in 0..Last(p).given

\* Of the charges that ended on a day, the row holds the most confident (repo/battery.ts,
\* upsertBatteryHealth), however often and in whatever order they were written.  A reprocess that
\* clears the day has to find it again, if it began early enough to have heard all that the
\* charge carried, and if no message is on the tape twice (Replayable).
BestKept ==
  \A d \in DaysOf :
    /\ \A f \in found : f.day = d => health[d].conf # Null /\ health[d].conf >= f.conf
    /\ health[d].est # Null => \E f \in found : f.day = d /\ f.est = health[d].est /\ f.conf = health[d].conf

\* A day has the car's measurement if a sample of it had one that the worker wrote (pipeline.ts,
\* measurePack), whatever failed between; and after a reprocess that cleared it, if a message in
\* the window said it on that day.  What only a restart wrote (pipeline.ts:609) is not promised,
\* nor what the worker leaves out because it remembers the day that was cleared (blinded).
MeasurementKept ==
  /\ \A d \in due : health[d].measured # Null
  /\ pipeline.measured \in DaysOf \ blinded => health[pipeline.measured].measured # Null

Without(rows, fields) == [d \in DOMAIN rows |-> [f \in DOMAIN NoHealth |-> IF f \in fields THEN Null ELSE rows[d][f]]]

\* The page's two series do not disturb each other (queries.ts, getBatteryHealth): the tiles of
\* each are what they would be had the other never been written, and a loss is between nothing
\* and all of it.
TilesApart ==
  \A from \in DaysOf, to \in {d + 1 : d \in DaysOf} :
    LET tiles == Tiles(health, from, to)
    IN /\ tiles = Tiles(Without(health, {"measured", "range"}), from, to)
       /\ MeasuredTiles(health, from, to) = MeasuredTiles(Without(health, {"est", "conf"}), from, to)
       /\ tiles.loss \in 0..1000 \cup {Null}

\* What the page says of the battery is what its charges and its own words showed (pipeline.ts,
\* recordHealth and measurePack; queries.ts, getBatteryHealth).
BatterySound == EnergyHonest /\ BestKept /\ MeasurementKept /\ TilesApart

=============================================================================
