-------------------------------- MODULE History --------------------------------
(***************************************************************************)
(* What the pages make of the drives on record: the list that is read a    *)
(* page at a time while the worker and a reprocess write                   *)
(* (apps/web/src/lib/server/queries.ts, listSessions;                      *)
(* lib/components/PaginatedSessions.svelte), the totals of a window        *)
(* (periodStats), and the series that are thinned for a chart.             *)
(*                                                                         *)
(* An instant is a number; the bounds of a filter are instants or Nil.   *)
(* Ids are given in no order (they are random UUIDs). Charges have the     *)
(* same list of their own.                                                 *)
(*                                                                         *)
(* Abstracted: the columns of a row but its start, its end and its         *)
(* distance; a page load is one step, its query and its rendering.         *)
(***************************************************************************)
EXTENDS Integers, Sequences, SequencesExt, FiniteSets, FiniteSetsExt

CONSTANTS
  Garage,       \* vehicles
  Ids,          \* session ids, numbers
  Horizon,      \* the last instant
  PageSize,
  Nil,
  MaxPoints,    \* the longest series looked at
  Evenings      \* the drives on record, the filters there are, and how often what happens (bounds)

Limited == {"drives", "looks", "asks", "moves", "jumps", "reprocesses"}

ASSUME HistoryAssumption ==
  /\ Horizon \in Nat /\ PageSize \in Nat \ {0} /\ MaxPoints \in Nat /\ Ids \subseteq Nat
  /\ Nil \notin Nat /\ Nil \notin [at : Nat, id : Nat]
  /\ \A e \in Evenings :
       /\ e.filters \subseteq (0..Horizon \cup {Nil}) \X (0..Horizon \cup {Nil})
       /\ e.record \in Seq([car : Garage, id : Ids])
       /\ \A i, j \in DOMAIN e.record : e.record[i].id = e.record[j].id => i = j
       /\ \A f \in Limited : e[f] \in Nat

VARIABLES
  evening,
  sessionRows,  \* the drives on record
  spent,        \* ids given so far
  view,         \* the component of the browser tab: its props, its state
  request,      \* its loadMore in flight, and the page once the server has answered
  \* what happened
  stayed,       \* rows on record ever since the list was seeded
  counts

historyVars == <<evening, sessionRows, spent, view, request, stayed, counts>>

Instants == 0..Horizon
Bounds == Instants \cup {Nil}
Counted(f) == counts[f] < evening[f] /\ counts' = [counts EXCEPT ![f] = @ + 1]
KeyOf(row) == [at |-> row.at, id |-> row.id]
Nowhere == [car |-> Nil, from |-> Nil, to |-> Nil, list |-> <<>>, cursor |-> Nil,
            loading |-> FALSE, failed |-> FALSE, mixed |-> FALSE]

HistoryInit ==
  /\ evening \in Evenings
  /\ sessionRows = {[id |-> evening.record[i].id, car |-> evening.record[i].car, at |-> i - 1,
                     open |-> FALSE, km |-> i] : i \in DOMAIN evening.record}
  /\ spent = {r.id : r \in sessionRows} /\ view = Nowhere /\ request = Nil /\ stayed = {}
  /\ counts = [f \in Limited |-> 0]

-----------------------------------------------------------------------------
(* The queries.                                                            *)

\* Mutant: a drive at the end of a window is in it, and in the next.
WithinBoth(at, from, to) == (from = Nil \/ at >= from) /\ (to = Nil \/ at <= to)

Within(at, from, to) == (from = Nil \/ at >= from) /\ (to = Nil \/ at < to)

\* The row-value comparison (started_at, id) < ($, $).
Before(k, l) == k.at < l.at \/ (k.at = l.at /\ k.id < l.id)

\* A row's place is after those it is before.
NewestFirst(rows) ==
  [n \in 1..Cardinality(rows) |->
     CHOOSE r \in rows : Cardinality({s \in rows : Before(r, s)}) = n - 1]

\* The rows one query reads, one more than the page has.
Probed(rows, car, from, to, cursor) ==
  LET after == {r \in rows : r.car = car /\ Within(r.at, from, to) /\ (cursor = Nil \/ Before(r, cursor))}
      all == NewestFirst(after)
  IN SubSeq(all, 1, Min({Len(all), PageSize + 1}))

\* Mutant: the cursor names the probe, which nobody was shown.
CursorOfProbe(read) == IF Len(read) > PageSize THEN KeyOf(Last(read)) ELSE Nil

NextCursor(read) == IF Len(read) > PageSize THEN KeyOf(read[PageSize]) ELSE Nil

\* listSessions.
ListSessions(rows, car, from, to, cursor) ==
  LET read == Probed(rows, car, from, to, cursor)
  IN [sessions |-> SubSeq(read, 1, Min({Len(read), PageSize})), next |-> NextCursor(read)]

\* periodStats, of drives: null for the sum of nothing.
PeriodStats(rows, car, from, to) ==
  LET done == {r \in rows : r.car = car /\ ~r.open /\ Within(r.at, from, to)}
  IN [drives |-> Cardinality(done),
      km |-> IF done = {} THEN Nil ELSE MapThenSumSet(LAMBDA r : r.km, done)]

-----------------------------------------------------------------------------
(* The worker and the reprocess.                                           *)

LatestStart(car) == Max({r.at : r \in {s \in sessionRows : s.car = car}} \cup {-1})
OpenOf(car) == {r \in sessionRows : r.car = car /\ r.open}
Records(rows) == sessionRows' = rows /\ stayed' = stayed \cap {KeyOf(r) : r \in rows}
Fresh(n) == {s \in SUBSET (Ids \ spent) : Cardinality(s) = n}

\* openSession: one open drive a car, after all the others, at the next instant that counts.
DriveOpens(car) ==
  /\ OpenOf(car) = {} /\ Counted("drives")
  /\ \E at \in {LatestStart(car) + 1} \cap Instants, id \in Ids \ spent :
       /\ Records(sessionRows \cup {[id |-> id, car |-> car, at |-> at, open |-> TRUE, km |-> 0]})
       /\ spent' = spent \cup {id}
  /\ UNCHANGED <<evening, view, request>>

\* closeSession, or discardSession of a drive that went nowhere.
DriveEnds(row) ==
  /\ row \in sessionRows /\ row.open
  /\ \E kept \in {{}, {[row EXCEPT !.open = FALSE, !.km = 1 + row.at]}} :
       Records((sessionRows \ {row}) \cup kept)
  /\ UNCHANGED <<evening, spent, view, request, counts>>

\* resetSession, of the reconcile after a restart.
DriveMoves(row) ==
  /\ row \in sessionRows /\ row.open /\ Counted("moves")
  /\ \E at \in Instants :
       /\ \A r \in sessionRows \ {row} : r.car = row.car => at > r.at
       /\ Records((sessionRows \ {row}) \cup {[row EXCEPT !.at = at]})
  /\ UNCHANGED <<evening, spent, view, request>>

\* A reprocess: one transaction deletes the drives of a window and writes what it finds of them
\* under new ids.
Rewrites(car) ==
  /\ Counted("reprocesses")
  /\ \E from \in Instants :
       LET gone == {r \in sessionRows : r.car = car /\ r.at >= from}
       IN \E back \in SUBSET gone : \E ids \in Fresh(Cardinality(back)) :
            /\ gone # {}
            /\ \E id \in [back -> ids] :
                 /\ \A r, s \in back : id[r] = id[s] => r = s
                 /\ Records((sessionRows \ gone) \cup {[r EXCEPT !.id = id[r]] : r \in back})
            /\ spent' = spent \cup ids
  /\ UNCHANGED <<evening, view, request>>

-----------------------------------------------------------------------------
(* The browser.                                                            *)

\* parseSessionQuery: a range is not upside down.
Filters == {f \in evening.filters : f[1] = Nil \/ f[2] = Nil \/ f[1] <= f[2]}

\* The page load and its component, made anew for every filter: what an older one asked is nobody's.
LoadsDrives ==
  /\ Counted("looks")
  /\ \E car \in Garage, f \in Filters :
       LET first == ListSessions(sessionRows, car, f[1], f[2], Nil)
       IN /\ view' = [Nowhere EXCEPT !.car = car, !.from = f[1], !.to = f[2],
                                     !.list = first.sessions, !.cursor = first.next]
          /\ stayed' = {KeyOf(r) : r \in {s \in sessionRows : s.car = car /\ Within(s.at, f[1], f[2])}}
  /\ request' = Nil
  /\ UNCHANGED <<evening, sessionRows, spent>>

\* A jump through the browser's history to the drives of another car with the same filter: the
\* key has not changed, and the component is given the other car with the list it has.
Jumps ==
  /\ view.car # Nil /\ Counted("jumps")
  /\ \E car \in Garage \ {view.car} : view' = [view EXCEPT !.car = car, !.mixed = TRUE]
  /\ UNCHANGED <<evening, sessionRows, spent, request, stayed>>

\* loadMore.
LoadMore ==
  /\ ~view.loading /\ view.cursor # Nil /\ Counted("asks")
  /\ view' = [view EXCEPT !.loading = TRUE, !.failed = FALSE]
  /\ request' = [car |-> view.car, cursor |-> view.cursor, page |-> Nil]
  /\ UNCHANGED <<evening, sessionRows, spent, stayed>>

\* GET /api/v1/vehicles/[id]/sessions.
ServerAnswers ==
  /\ request # Nil /\ request.page = Nil
  /\ request' = [request EXCEPT !.page =
                   ListSessions(sessionRows, request.car, view.from, view.to, request.cursor)]
  /\ UNCHANGED <<evening, sessionRows, spent, view, stayed, counts>>

\* The answer, or an error.
Settles ==
  /\ request # Nil /\ request' = Nil
  /\ \/ /\ request.page # Nil
        /\ view' = [view EXCEPT !.list = @ \o request.page.sessions, !.cursor = request.page.next,
                                !.loading = FALSE]
     \/ view' = [view EXCEPT !.failed = TRUE, !.loading = FALSE]
  /\ UNCHANGED <<evening, sessionRows, spent, stayed, counts>>

HistoryNext ==
  \/ \E car \in Garage : DriveOpens(car) \/ Rewrites(car)
  \/ \E row \in sessionRows : DriveEnds(row) \/ DriveMoves(row)
  \/ LoadsDrives \/ Jumps \/ LoadMore \/ ServerAnswers \/ Settles

HistorySpec == HistoryInit /\ [][HistoryNext]_historyVars

-----------------------------------------------------------------------------
(* A series thinned for a chart: the indexes that are left of it.          *)

CeilDiv(n, d) == (n + d - 1) \div d

\* planDecimation.
PlanDecimation(total, cap) ==
  IF total <= cap THEN [step |-> 1, downsampled |-> FALSE]
  ELSE [step |-> CeilDiv(total, cap), downsampled |-> TRUE]

\* Mutant: the last row is kept only if the stride meets it.
SampledByStride(total, cap) == {n \in 0..(total - 1) : n % Max({1, CeilDiv(total, cap)}) = 0}

\* The SQL of getSessionDetail and of getSampleSeries.
Sampled(total, cap) ==
  {n \in 0..(total - 1) : n % Max({1, CeilDiv(total, cap)}) = 0 \/ n = total - 1}

\* chart.ts, decimate, of n rows: Math.round rounds a half up.
Decimate(n, most) ==
  IF n <= most THEN [i \in 1..n |-> i - 1]
  ELSE [i \in 1..most |->
          IF i = most THEN n - 1
          ELSE (2 * (i - 1) * (n - 1) + (most - 1)) \div (2 * (most - 1))]

-----------------------------------------------------------------------------

\* The variables have the values the code gives them.
HistoryTypes ==
  /\ evening \in Evenings
  /\ \A r \in sessionRows : r.id \in spent /\ r.car \in Garage /\ r.at \in Instants /\ r.open \in BOOLEAN /\ r.km \in Nat
  /\ \A car \in Garage : Cardinality(OpenOf(car)) <= 1
  /\ spent \subseteq Ids
  /\ view.loading <=> (request # Nil)
  /\ \A f \in DOMAIN counts : counts[f] \in 0..evening[f]

Shown == ToSet(view.list)

\* Whatever is written between the pages of a list, it is in order, and no row that stayed is
\* repeated or left out of what it has reached (queries.ts, listSessions; "pagination is stable
\* regardless of what arrives"); but for a list that was carried over to another car.
ListStable ==
  ~view.mixed =>
    /\ \A i \in 1..(Len(view.list) - 1) : Before(view.list[i + 1], view.list[i])
    /\ \A r \in Shown : r.car = view.car /\ Within(r.at, view.from, view.to)
    /\ \A k \in stayed : view.cursor = Nil \/ ~Before(k, view.cursor) => k \in {KeyOf(r) : r \in Shown}

\* The page that is all the pages read so far and the one behind them, read at the same moment.
PageAfter(car, from, to, read) ==
  IF read.next = Nil THEN read
  ELSE LET p == ListSessions(sessionRows, car, from, to, read.next)
       IN [sessions |-> read.sessions \o p.sessions, next |-> p.next]

Pages(car, from, to) ==
  LET most == Cardinality(sessionRows)
      read[n \in 0..most] == IF n = 0 THEN ListSessions(sessionRows, car, from, to, Nil)
                             ELSE PageAfter(car, from, to, read[n - 1])
  IN read[most].sessions

Plus(n, m) == IF n = Nil THEN m ELSE IF m = Nil THEN n ELSE n + m

\* The windows of the list and of the totals are the same, and consecutive ones tile: the totals
\* are those of the closed rows of the list, and no drive is in two windows or in none.
WindowsTile ==
  \A car \in Garage, f \in Filters :
    LET from == f[1]
        to == f[2]
        whole == PeriodStats(sessionRows, car, from, to)
        pages == Pages(car, from, to)
    IN /\ whole.drives = Cardinality({i \in DOMAIN pages : ~pages[i].open})
       /\ \A mid \in Instants :
            Within(mid, from, to) =>
              LET early == PeriodStats(sessionRows, car, from, mid)
                  late == PeriodStats(sessionRows, car, mid, to)
              IN whole.drives = early.drives + late.drives /\ whole.km = Plus(early.km, late.km)

\* A thinned series still spans what it was thinned from, with even gaps, and is said to be thinned
\* exactly when it is (queries.ts, planDecimation; chart.ts, decimate). The last row may be one
\* more than the cap.
SeriesSpans ==
  \A total \in 1..MaxPoints, cap \in 2..MaxPoints :
    LET kept == Sampled(total, cap)
        plan == PlanDecimation(total, cap)
        drawn == Decimate(total, cap)
    IN /\ {0, total - 1} \subseteq kept /\ Cardinality(kept) <= cap + 1
       /\ \A n \in 0..(total - 1) : \E k \in kept : n - k \in 0..(plan.step - 1)
       /\ plan.downsampled <=> kept # 0..(total - 1)
       /\ drawn[1] = 0 /\ Last(drawn) = total - 1 /\ Len(drawn) = Min({total, cap})
       /\ \A i \in 1..(Len(drawn) - 1) : drawn[i] < drawn[i + 1]

\* What a page shows of the history is what is on record (queries.ts, PaginatedSessions.svelte).
HistorySound == ListStable /\ WindowsTile /\ SeriesSpans

=============================================================================
