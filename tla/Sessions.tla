------------------------------ MODULE Sessions ------------------------------
(***************************************************************************)
(* The rows of the session table under one ingest worker: what it writes   *)
(* as samples are emitted (applySample, finish), what a restarted worker   *)
(* makes of the rows it finds (resume, reconcile), and reprocess, which    *)
(* rebuilds them (apps/ingest/src/pipeline.ts, store.ts, reprocess.ts,     *)
(* packages/db/src/repo/sessions.ts), over Segmenter.                      *)
(*                                                                         *)
(* A message is a burst of its own and carries every field; its sample is  *)
(* emitted by the next message, or by the flush.  Ingest has the road to   *)
(* the tape; here a transaction commits, fails, or commits without an      *)
(* answer, and the last two leave the message with the broker.             *)
(***************************************************************************)
EXTENDS Segmenter, FiniteSets, FiniteSetsExt

CONSTANTS
  Scenarios,    \* what a behaviour is made of (bound): readings, steps, messages, faults;
                \* restamps: a message has no time but that of its arrival, and is not sent
                \* again after the time until (bound)
  Slack         \* MAX_SAMPLE_INTERVAL_MS

Reading ==
  [charge : {"charging", "stopped", "over", Null}, speed : Nat \cup {Null},
   gear : {"P", "D", "R", "N", Null}, odo : {"none", "flat", "up"}]

Sample ==
  [ts : Nat, charge : {"charging", "stopped", "over", Null}, speed : Nat \cup {Null},
   gear : {"P", "D", "R", "N", Null}, odo : Nat \cup {Null}]

\* What the worker has in memory.
OpenSegment ==
  [kind : {"drive", "charge"}, start : Nat, last : Sample, still : Nat \cup {Null},
   paused : Sample \cup {Null}]
Memory ==
  [seg : [open : OpenSegment \cup {Null}, lastTs : Nat \cup {Null}], id : Nat \cup {Null},
   points : Seq(Sample)]

ASSUME SessionsAssumption ==
  /\ Slack \in Nat
  /\ \A c \in Scenarios : /\ c.readings \subseteq Reading /\ c.steps \subseteq Nat \ {0}
                           /\ c.messages \in Nat /\ c.faults \in Nat
                           /\ c.restamps \in BOOLEAN /\ c.until \in Nat
  /\ Null \notin {"drive", "charge"}
  /\ Null \notin Nat /\ Null \notin Sample /\ Null \notin OpenSegment /\ Null \notin Memory

VARIABLES
  scenario, clock, odo, faults,
  \* the broker
  owed,         \* messages that were not acknowledged, to be sent again
  \* the database
  tape, samples,
  rows,         \* id -> row; a deleted one is "gone"
  \* the worker
  mem,          \* segmenter, openId, openPoints; Null when it is down
  pending,      \* the burst in the accumulator
  \* what happened
  ahead,        \* a COMMIT without an answer has not been made up for
  astray        \* why the rows and the tape may tell different stories: "blind",
                \* "overtaken", "doubled" (a message is on the tape at two stamps), "beside"
                \* (a worker was rebuilt under), "partial" and "cut" (rebuilt from, or up to,
                \* some time in the middle of the tape)

vars == <<scenario, clock, odo, faults, owed, tape, samples, rows, mem, pending, ahead, astray>>
world == <<scenario, clock, odo>>
database == <<tape, samples, rows>>

Blank == [seg |-> NoSegment, id |-> Null, points |-> <<>>]

Init ==
  /\ scenario \in Scenarios
  /\ clock = 0 /\ odo = 0 /\ faults = 0
  /\ owed = {} /\ tape = {} /\ samples = {} /\ rows = <<>>
  /\ mem = Blank /\ pending = Null /\ ahead = FALSE /\ astray = {}

Fault == faults < scenario.faults /\ faults' = faults + 1

-----------------------------------------------------------------------------
(* The rows: packages/db/src/repo/sessions.ts.  Each of these is rows, or   *)
(* rows and an id.                                                         *)

\* Mutant: a row that is closed counts as open.
OpenOrClosed(r) == {i \in DOMAIN r : r[i].status \in {"open", "closed"}}

Open(r) == {i \in DOMAIN r : r[i].status = "open"}

Row(kind, start) == [kind |-> kind, start |-> start, points |-> {}, status |-> "open"]

\* openSession: a new row, or the open one of that kind.
OpenSession(r, kind, start) ==
  LET same == {i \in Open(r) : r[i].kind = kind} IN
  IF same = {} THEN [rows |-> Append(r, Row(kind, start)), id |-> Len(r) + 1]
  ELSE [rows |-> r, id |-> CHOOSE i \in same : TRUE]

AppendPoint(r, i, s) == [r EXCEPT ![i].points = @ \cup {s.ts}]

\* closeSession, with attachCost and recordHealth in the same transaction.
CloseSession(r, i) == [r EXCEPT ![i].status = IF @ = "gone" THEN "gone" ELSE "closed"]

\* endedAt: its last point.
EndedAt(row) == IF row.points = {} THEN row.start ELSE Max(row.points)

\* The row is deleted.  What it was is kept for the replay's rows, which are not.
DiscardSession(r, i) == [r EXCEPT ![i].status = "gone"]

AbandonSession(r, i) == [r EXCEPT ![i].status = "abandoned"]

ResetSession(r, i, start, stamps) == [r EXCEPT ![i].start = start, ![i].points = stamps]

\* finish, of a row that has these points in memory.
Finish(r, i, kind, points) ==
  IF kind = "drive" /\ WentNowhere(points) THEN DiscardSession(r, i) ELSE CloseSession(r, i)

-----------------------------------------------------------------------------
(* A sample in the transaction: w is [rows, mem, ok], ok until a statement  *)
(* is refused.                                                             *)

\* A point on a row that is gone violates its foreign key.
PutPoint(w, s) ==
  [rows |-> AppendPoint(w.rows, w.mem.id, s),
   mem |-> [w.mem EXCEPT !.points = Append(@, s)],
   ok |-> w.ok /\ w.rows[w.mem.id].status # "gone"]

EndRow(w, e) ==
  LET last == w.mem.points
      v == IF last = <<>> \/ e.sample.ts > Last(last).ts THEN PutPoint(w, e.sample) ELSE w
  IN [v EXCEPT !.rows = Finish(@, v.mem.id, e.kind, v.mem.points),
               !.mem.id = Null, !.mem.points = <<>>]

OnEvent(w, e) ==
  IF e.type = "start"
    THEN LET o == OpenSession(w.rows, e.kind, e.sample.ts)
         IN [w EXCEPT !.rows = o.rows, !.mem.id = o.id, !.mem.points = <<>>]
  ELSE IF w.mem.id = Null THEN w
  ELSE IF e.type = "point" THEN PutPoint(w, e.sample)
  ELSE EndRow(w, e)

OnEvents(w, events) ==
  LET after[n \in 0..Len(events)] == IF n = 0 THEN w ELSE OnEvent(after[n - 1], events[n])
  IN after[Len(events)]

\* applySample.
ApplySample(w, s) ==
  LET stepped == Step(w.mem.seg, s)
  IN OnEvents([w EXCEPT !.mem.seg = stepped.state], stepped.events)

\* The samples of S, each at its time.
ApplyAll(w, S) ==
  LET upTo[t \in 0..clock] ==
        LET before == IF t = 0 THEN w ELSE upTo[t - 1]
            due == {s \in S : s.ts = t}
        IN IF due = {} THEN before ELSE ApplySample(before, CHOOSE s \in due : TRUE)
  IN upTo[clock]

\* emit: the burst that is pending, if there is one.
Emitted == IF pending = Null THEN [rows |-> rows, mem |-> mem, ok |-> TRUE]
           ELSE ApplySample([rows |-> rows, mem |-> mem, ok |-> TRUE], pending)

EmittedSample == IF pending = Null THEN {} ELSE {pending}

-----------------------------------------------------------------------------
(* Messages.                                                               *)

\* The values of a burst that the accumulator knows already, or newer ones of.
Known(m) ==
  LET newest == IF pending # Null THEN pending.ts ELSE mem.seg.lastTs
  IN newest # Null /\ m.ts <= newest

\* Mutant: a message whose burst is pending is not taped.
HandleUntaped(m, was) ==
  /\ Emitted.ok /\ ~Known(m)
  /\ samples' = samples \cup EmittedSample
  /\ rows' = Emitted.rows /\ mem' = Emitted.mem
  /\ pending' = m /\ ahead' = FALSE
  /\ UNCHANGED <<tape, astray>>

\* A message that is on the tape is taped again, at another stamp.
Doubles(m, was) == IF was # m /\ was \in tape THEN {"doubled"} ELSE {}

\* Message m is handled before one that is owed and is older, or will be when it comes;
\* one that will be stamped anew is so only if it is on the tape and not in memory.
Overtakes(m, was) ==
  IF \E o \in owed \ {was} : o.ts < m.ts /\ (scenario.restamps => o \in tape /\ ~Known(o))
    THEN {"overtaken"} ELSE {}

\* The transaction of message m, which the broker may have as was, from before: the
\* tape, the sample that is due, and its fields.  An older message than the
\* accumulator's newest is taped, and that is all.
HandleCommits(m, was) ==
  /\ Emitted.ok \/ Known(m)
  /\ tape' = tape \cup {m}
  /\ IF Known(m)
       THEN /\ UNCHANGED <<samples, rows, mem, pending, ahead>>
            /\ astray' = astray \cup (IF m \in tape THEN {} ELSE {"overtaken"})
       ELSE /\ samples' = samples \cup EmittedSample
            /\ rows' = Emitted.rows /\ mem' = Emitted.mem
            /\ pending' = m
            /\ ahead' = FALSE
            /\ astray' = astray \cup Overtakes(m, was) \cup Doubles(m, was)

\* It is acknowledged; or the PUBACK is lost, which a make with stamps of its own
\* does not notice: the message will be known.
Handled(m, was) ==
  /\ HandleCommits(m, was)
  /\ \/ owed' = owed \ {was} /\ UNCHANGED faults
     \/ scenario.restamps /\ Fault /\ owed' = (owed \ {was}) \cup {m}

\* It is rolled back, by a fault or a foreign key, and not acknowledged.
HandleFails(m, was) ==
  /\ \/ Fault
     \/ ~Emitted.ok /\ ~Known(m) /\ UNCHANGED faults
  /\ owed' = owed \cup {was}
  /\ UNCHANGED <<database, mem, pending, ahead, astray>>

\* It is committed, and the memory is rolled back.
HandleUnanswered(m, was) ==
  /\ Fault
  /\ Emitted.ok /\ ~Known(m)
  /\ tape' = tape \cup {m}
  /\ samples' = samples \cup EmittedSample /\ rows' = Emitted.rows
  /\ owed' = (owed \ {was}) \cup {m}
  /\ ahead' = TRUE
  /\ astray' = astray \cup Doubles(m, was)
  /\ UNCHANGED <<mem, pending>>

Handle(m, was) == Handled(m, was) \/ HandleFails(m, was) \/ HandleUnanswered(m, was)

Stamped(reading, at) ==
  [ts |-> at, charge |-> reading.charge, speed |-> reading.speed, gear |-> reading.gear,
   odo |-> IF reading.odo = "none" THEN Null ELSE IF reading.odo = "up" THEN odo + 1 ELSE odo]

\* A new message, d after the last.
Message(reading, d) ==
  /\ mem # Null
  /\ Cardinality(tape \cup owed) < scenario.messages
  /\ clock' = clock + d
  /\ odo' = IF reading.odo = "up" THEN odo + 1 ELSE odo
  /\ LET m == Stamped(reading, clock + d) IN Handle(m, m)
  /\ UNCHANGED scenario

\* The clock that stamps steps back: a message from before the last sample, on a make
\* that gives no time of its own for a value.
ClockStepsBack(reading) ==
  /\ mem # Null /\ pending = Null /\ samples # {}
  /\ Cardinality(tape \cup owed) < scenario.messages
  /\ Fault
  /\ LET m == Stamped(reading, clock - 1) IN
       /\ \A s \in tape \cup owed : s.ts # m.ts
       /\ tape' = tape \cup {m}
       /\ pending' = m
  /\ astray' = astray \cup {"overtaken"}
  /\ UNCHANGED <<world, owed, samples, rows, mem, ahead>>

\* After a reconnect the broker sends what it owes: the connector's envelope has its
\* stamp from before.
Redeliver(m) ==
  /\ mem # Null /\ m \in owed /\ ~scenario.restamps
  /\ Handle(m, m)
  /\ UNCHANGED world

\* makeMessageHandler stamps a message when it arrives, and so again (receivedAt).
RedeliverRestamped(o, d) ==
  /\ mem # Null /\ o \in owed /\ scenario.restamps /\ clock + d <= scenario.until
  /\ Handle([o EXCEPT !.ts = clock + d], o)
  /\ clock' = clock + d
  /\ UNCHANGED <<scenario, odo>>

-----------------------------------------------------------------------------
(* The flush, and the end of the process.                                  *)

\* The timer finds the burst quiet, or the shutdown forces it.
Flush ==
  /\ mem # Null /\ pending # Null
  /\ Emitted.ok
  /\ samples' = samples \cup EmittedSample /\ rows' = Emitted.rows
  /\ \/ mem' = Emitted.mem /\ pending' = Null /\ ahead' = FALSE /\ UNCHANGED faults
     \/ Fault /\ ahead' = TRUE /\ UNCHANGED <<mem, pending>>
  /\ UNCHANGED <<world, owed, tape, astray>>

\* The process ends, after its last flush or without it.
Dies ==
  /\ mem # Null
  /\ Fault
  /\ mem' = Null /\ pending' = Null /\ ahead' = FALSE
  /\ UNCHANGED <<world, owed, database, astray>>

-----------------------------------------------------------------------------
(* The restart.                                                            *)

\* The whole tape through a pipeline of its own, over rows of its own (DryStore).
Replay == ApplyAll([rows |-> <<>>, mem |-> Blank, ok |-> TRUE], tape)

\* The samples at these stamps, in order: the n-th has n - 1 before it.
SamplesAt(stamps) ==
  LET S == {s \in tape : s.ts \in stamps}
  IN [n \in 1..Cardinality(S) |->
        CHOOSE s \in S : Cardinality({r \in S : r.ts < s.ts}) = n - 1]

Distance(a, b) == IF a < b THEN b - a ELSE a - b

\* Mutant: the last one of the row's kind, whenever it was.
MatchKind(dry, row) ==
  LET fit == {i \in DOMAIN dry : dry[i].kind = row.kind}
  IN IF fit = {} THEN Null ELSE Max(fit)

\* matchFor: the replayed session a row stands for.  Same kind, its span around the
\* row's start, the nearest of several.
MatchFor(dry, row) ==
  LET fit == {i \in DOMAIN dry :
                /\ dry[i].kind = row.kind
                /\ dry[i].start - Slack <= row.start
                /\ dry[i].status = "open" \/ row.start <= EndedAt(dry[i])}
      off(i) == Distance(dry[i].start, row.start)
  IN IF fit = {} THEN Null
     ELSE CHOOSE i \in fit :
            \A j \in fit : off(i) < off(j) \/ (off(i) = off(j) /\ i <= j)

Stamps(points) == {p.ts : p \in ToSet(points)}

\* reconcile, an open row: carried on, closed as the replay has it, or abandoned.
Settle(replay, i) ==
  LET match == MatchFor(replay.rows, rows[i])
      as == replay.rows[match]
  IN IF match # Null /\ match = replay.mem.id THEN rows[i]
     ELSE IF match # Null /\ as.status # "open"
       THEN Finish(ResetSession(rows, i, as.start, as.points),
                   i, rows[i].kind, SamplesAt(as.points))[i]
     ELSE AbandonSession(rows, i)[i]

Settled(replay) ==
  [i \in DOMAIN rows |-> IF i \in Open(rows) THEN Settle(replay, i) ELSE rows[i]]

\* The row that is carried on: the last by its start of those that stand for what runs.
CarriedOn(replay) ==
  LET mine == {i \in Open(rows) : MatchFor(replay.rows, rows[i]) = replay.mem.id}
  IN IF replay.mem.id = Null \/ mine = {} THEN Null
     ELSE CHOOSE i \in mine : \A j \in mine : rows[j].start <= rows[i].start

\* Mutant: the row that is carried on keeps the points it has.
CarriedAsIs(replay, w) ==
  IF replay.mem.id = Null THEN w
  ELSE LET s == replay.rows[replay.mem.id]
       IN IF w.id = Null THEN OpenSession(w.rows, s.kind, s.start) ELSE w

\* The session that still runs: its row, made if there is none, becomes the replay's.
Carried(replay, w) ==
  IF replay.mem.id = Null THEN w
  ELSE LET s == replay.rows[replay.mem.id]
           o == IF w.id = Null THEN OpenSession(w.rows, s.kind, s.start) ELSE w
       IN [o EXCEPT !.rows = ResetSession(@, o.id, s.start, Stamps(replay.mem.points))]

Reconciled(replay) == Carried(replay, [rows |-> Settled(replay), id |-> CarriedOn(replay)])

\* The replay ends with a forced flush, and its sample is written.
Flushed == {s \in tape : \A t \in tape : t.ts <= s.ts}

ResumeWarm ==
  /\ mem = Null
  /\ LET replay == Replay
         w == Reconciled(replay)
     IN /\ rows' = w.rows
        /\ mem' = [replay.mem EXCEPT !.id = w.id]
  /\ samples' = samples \cup Flushed
  /\ UNCHANGED <<world, faults, owed, tape, pending, ahead, astray>>

\* resumeOrStartCold: the resume fails, or its COMMIT is not answered.
StartCold ==
  /\ mem = Null
  /\ Fault
  /\ \/ rows' = Reconciled(Replay).rows /\ samples' = samples \cup Flushed
     \/ UNCHANGED <<rows, samples>>
  /\ mem' = Blank
  /\ astray' = astray \cup {"blind"}
  /\ UNCHANGED <<world, owed, tape, pending, ahead>>

-----------------------------------------------------------------------------
(* reprocess, of everything from some time on.                             *)

\* deleteDerived: the rows that start in the window.
Without(from, to) ==
  [i \in DOMAIN rows |-> IF rows[i].start \in from..to - 1 THEN [rows[i] EXCEPT !.status = "gone"]
                         ELSE rows[i]]

\* parseArgs, and openOutsideWindow refuses: the replay would adopt such a row.
MayRebuild(from, to) ==
  from < to /\ tape # {} /\ \A i \in Open(rows) : rows[i].start \in from..to - 1

Beyond(to) == \E s \in tape : s.ts >= to

\* replayWindow, in one transaction.  A worker that runs is not told.
Reprocess(from, to) ==
  /\ MayRebuild(from, to)
  /\ Fault
  /\ LET window == {s \in tape : s.ts \in from..to - 1}
         replay == ApplyAll([rows |-> Without(from, to), mem |-> Blank, ok |-> TRUE], window)
     IN /\ replay.ok
        /\ rows' = replay.rows
        /\ samples' = {s \in samples : s.ts \notin from..to - 1} \cup window
  /\ astray' = (IF from = 0 /\ ~Beyond(to) THEN {}
                ELSE astray \cup (IF Beyond(to) THEN {"cut"} ELSE {"partial"}))
                 \cup (IF mem = Null THEN {} ELSE {"beside"})
  /\ UNCHANGED <<world, owed, tape, mem, pending, ahead>>

\* --from and --to: a stamp of the tape stands for the times up to it.
Window == (({0} \cup {s.ts : s \in tape}) \X ({s.ts : s \in tape} \cup {clock + 1}))

Rebuilds == \E w \in Window : Reprocess(w[1], w[2])

-----------------------------------------------------------------------------
Next ==
  \/ \E r \in scenario.readings, d \in scenario.steps : Message(r, d)
  \/ \E r \in scenario.readings : ClockStepsBack(r)
  \/ \E m \in owed : Redeliver(m)
  \/ \E o \in owed, d \in scenario.steps : RedeliverRestamped(o, d)
  \/ Flush \/ Dies \/ ResumeWarm \/ StartCold
  \/ Rebuilds

Spec == Init /\ [][Next]_vars

-----------------------------------------------------------------------------
TypeOK ==
  /\ DOMAIN rows = 1..Len(rows)
  /\ \A i \in DOMAIN rows :
       /\ rows[i].kind \in {"drive", "charge"}
       /\ rows[i].status \in {"open", "closed", "abandoned", "gone"}
       /\ rows[i].points \subseteq {s.ts : s \in tape}
  /\ samples \subseteq tape
  /\ mem = Null \/ mem.id = Null \/ mem.id \in DOMAIN rows
  /\ pending = Null \/ pending \in tape

Kept == {i \in DOMAIN rows : rows[i].status # "gone"}

In(s, kind) == \E i \in Kept : rows[i].kind = kind /\ s.ts \in rows[i].points

ChargeTold(s) == Charging(s) => In(s, "charge")

DriveTold(s) == ~Charging(s) /\ s.speed # Null /\ s.speed > NowhereSpeed => In(s, "drive")

\* The rows have followed the tape, or have been rebuilt from some time on while no
\* worker ran.
Clean == astray \subseteq {"partial"}

\* pipeline.ts, sessions.ts: whatever fails, restarts or is rebuilt, a sample that
\* charges is a point of some charge and one that drives fast of some drive.  Not
\* promised: a session that only a replay shows and that has ended (reconcile writes it
\* nowhere), because a message had overtaken another, or was taped twice at two stamps; and
\* rows that a worker fills or closes by a memory which is not theirs (after a blind start,
\* beside a rebuild).  A row such a worker adopted can hold two of the replay's sessions:
\* reconcile gives it back to the first of them, and the second, which has ended, is
\* written nowhere.  Nor is it after a rebuild whose --to cuts a session in two: the part
\* from there on is in no row.
NothingLost == Clean => \A s \in samples : ChargeTold(s) /\ DriveTold(s)

\* The samples from a to b, in order.
Between(a, b) == SamplesAt(a..b)

Hole(q) == \E k \in 2..Len(q) : q[k].ts - q[k - 1].ts > Gap

Moves(q, k) == Motion(q[k], IF k = 1 THEN Null ELSE q[k - 1]) = "moving"

\* From sample a to sample b the car stood for the time that ends a drive.
Stood(q, a, b) ==
  /\ a < b /\ q[b].ts - q[a].ts >= DriveEnd
  /\ Motion(q[a], IF a = 1 THEN Null ELSE q[a - 1]) = "stationary"
  /\ \A k \in a..b - 1 : ~Moves(q, k) /\ ~InGear(q[k])

\* It was plugged in without charging for the time that ends a charge.
Paused(q, a, b) ==
  /\ a < b /\ q[b].ts - q[a].ts >= Resume
  /\ \A k \in a..b - 1 : ~Charging(q[k])

Closed == {i \in Kept : rows[i].status = "closed"}

\* segmenter.ts: no drive runs through a hole, a long stop or a charge, no charge
\* through a hole, a long pause or an unplugging, and no two sessions overlap (they
\* may share a sample), through any restarts that could replay.
SegmentsApart ==
  astray = {} =>
    /\ \A i \in Closed :
         LET q == Between(rows[i].start, EndedAt(rows[i]))
             inside == 1..Len(q) - 1
         IN /\ ~Hole(q)
            /\ rows[i].kind = "drive" =>
                 /\ \A k \in inside : ~Charging(q[k])
                 /\ \A a, b \in inside : ~Stood(q, a, b)
                 /\ \A a \in inside : Stood(q, a, Len(q)) => Charging(q[Len(q)])
            /\ rows[i].kind = "charge" =>
                 /\ \A k \in inside : q[k].charge # "over"
                 /\ \A a, b \in DOMAIN q : ~Paused(q, a, b)
    /\ \A i, j \in Kept :
         i < j => EndedAt(rows[i]) <= rows[j].start \/ EndedAt(rows[j]) <= rows[i].start

\* segmenter.ts: and none is cut in two without one of those reasons.
SegmentsUncut ==
  astray = {} =>
    \A i, j \in Kept :
      rows[i].kind = rows[j].kind /\ rows[i].start < rows[j].start =>
        LET q == Between(rows[i].start, rows[j].start) IN
        \/ Hole(q)
        \/ rows[i].kind = "drive" /\ \E k \in DOMAIN q : Charging(q[k])
        \/ rows[i].kind = "drive" /\ \E a, b \in DOMAIN q : Stood(q, a, b)
        \/ rows[i].kind = "charge" /\ \E a, b \in DOMAIN q : Paused(q, a, b)
        \/ rows[i].kind = "charge"
             /\ \E h, k \in DOMAIN q :
                  /\ h <= k /\ ~Charging(q[k])
                  /\ q[k].charge = "over" \/ Motion(q[k], q[h]) = "moving"

\* A session is one trip or one charge, the whole of it and no more (segmenter.ts, pipeline.ts).
SegmentsSound == SegmentsApart /\ SegmentsUncut

\* pipeline.ts: between transactions the memory's session is the one open row, with
\* the same start and points, and no resume has to abandon a row.  The exception is a
\* COMMIT without an answer that has not been made up for.
OpenIsRunning ==
  Clean =>
    /\ \A i \in DOMAIN rows : rows[i].status # "abandoned"
    /\ Cardinality(Open(rows)) <= 1
    /\ mem # Null /\ ~ahead =>
         /\ Open(rows) = {mem.id} \ {Null}
         /\ \A i \in Open(rows) :
              /\ rows[i].start = mem.seg.open.start
              /\ rows[i].points = {p.ts : p \in ToSet(mem.points)}

\* sessions.ts: history is not rewritten: a closed row stays as it is, except where
\* reprocess rebuilds it.
ClosedStay ==
  [][\/ \A i \in Closed : rows'[i] = rows[i]
     \/ Rebuilds]_vars
=============================================================================
