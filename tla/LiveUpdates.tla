----------------------------- MODULE LiveUpdates -----------------------------
(***************************************************************************)
(* How a change of a car reaches an open page: the notification the ingest *)
(* worker's transaction issues (apps/ingest/src/store.ts, packages/db/src/ *)
(* repo/notify.ts), the LISTEN connection (packages/db/src/listen.ts), the *)
(* hub (apps/web/src/lib/server/live.ts, notify-listener.ts), the stream   *)
(* (routes/api/v1/stream/+server.ts) and the browser's end of it           *)
(* (lib/live.svelte.ts).                                                   *)
(*                                                                         *)
(* What a page shows of a car is the time of the sample it holds, as a     *)
(* number.  Postgres delivers a notification to who is listening when the  *)
(* transaction commits, or to nobody.  A query is asked, reads, and is     *)
(* answered at three moments.  Abstracted: the lengths of the waits, and   *)
(* heartbeats, but for the stream that is open and silent.                 *)
(***************************************************************************)
EXTENDS Integers, Sequences, FiniteSets

CONSTANTS
  Vehicles,
  ProbeAfter,   \* PROBE_AFTER_FAILURES
  MaxStreams,   \* streams there can be (bound)
  Days          \* changes, lost connections, failed queries, streams opened, sessions over (bounds)

ASSUME DaysAssumption ==
  /\ IsFiniteSet(Vehicles) /\ Vehicles # {} /\ {MaxStreams, ProbeAfter} \subseteq Nat \ {0}
  /\ Days \subseteq [commits : Nat, drops : Nat, failures : Nat, streams : 1..MaxStreams,
                     expires : BOOLEAN]

VARIABLES
  day,
  newest,       \* the newest sample of each car in the database
  notices,      \* notifications under way to the LISTEN connection
  \* the listener
  generation, mine,     \* and the generation of the latest client
  link,         \* "idle", "connecting" or "up": the latest client
  echoes,       \* events that clients given up on still emit, by generation
  reconnects,   \* scheduled calls of connect
  \* the hub
  subscribers, inFlight,
  fleets,       \* queries for every car, under way
  \* the streams and the tab
  stream,       \* what each stream is
  wire,         \* frames under way on it
  source,       \* the stream the tab listens to, 0 for none
  retries,      \* scheduled calls of the tab's connect
  watchdog,     \* it is armed
  misses,       \* failures in a row, up to PROBE_AFTER_FAILURES
  signedIn, shown,
  \* what happened
  failed,       \* queries that failed
  lost          \* cars a query failed for since they last changed

liveVars == <<day, newest, notices, generation, mine, link, echoes, reconnects, subscribers, inFlight,
          fleets, stream, wire, source, retries, watchdog, misses, signedIn, shown, failed, lost>>

listener == <<generation, mine, link, echoes, reconnects>>
hub == <<subscribers, inFlight, fleets>>
tab == <<source, retries, watchdog, misses, signedIn, shown>>
outcome == <<day, failed, lost>>

Unread == 0
Streams == 1..MaxStreams
Free == {s \in 1..day.streams : stream[s] = "none"}
Blank == [v \in Vehicles |-> Unread]
Idle == [busy |-> FALSE, read |-> Unread, pending |-> FALSE]

LiveInit ==
  /\ day \in Days
  /\ newest = [v \in Vehicles |-> 1] /\ notices = [v \in Vehicles |-> 0]
  /\ generation = 0 /\ mine = 0 /\ link = "idle" /\ echoes = <<>> /\ reconnects = 0
  /\ subscribers = {} /\ inFlight = [v \in Vehicles |-> Idle] /\ fleets = {}
  /\ stream = [s \in Streams |-> "none"] /\ wire = [s \in Streams |-> <<>>]
  /\ source = 0 /\ retries = 1 /\ watchdog = FALSE /\ misses = 0
  /\ signedIn = TRUE /\ shown = Blank
  /\ failed = 0 /\ lost = {}

Fails == failed < day.failures /\ failed' = failed + 1

-----------------------------------------------------------------------------
(* The database.                                                           *)

\* A transaction that lands a sample notifies who listens (pgRunner).
Commit(v) ==
  /\ newest[v] <= day.commits
  /\ newest' = [newest EXCEPT ![v] = @ + 1]
  /\ notices' = IF link = "up" THEN [notices EXCEPT ![v] = @ + 1] ELSE notices
  /\ lost' = lost \ {v}
  /\ UNCHANGED <<listener, hub, stream, wire, tab, day, failed>>

-----------------------------------------------------------------------------
(* The listener.                                                           *)

\* Mutant: every event of any client counts.
AnyOwner(g) == TRUE

\* Only the latest client that has not failed may act.
Owns(g) == g = generation

\* connect: a new client under a new generation.
Connects ==
  /\ reconnects > 0
  /\ reconnects' = reconnects - 1
  /\ generation' = generation + 1 /\ mine' = generation + 1 /\ link' = "connecting"
  /\ UNCHANGED <<newest, notices, echoes, hub, stream, wire, tab, outcome>>

\* resync: the fleet to everyone, if there is anyone.
Ask(to) ==
  LET n == CHOOSE k \in 0..Cardinality(fleets) : \A f \in fleets : f.n # k
  IN fleets \cup {[to |-> to, read |-> Blank, n |-> n]}

\* LISTEN is issued, and the page catches up with what was not notified.
Listens ==
  /\ link = "connecting" /\ link' = "up"
  /\ fleets' = IF subscribers = {} THEN fleets ELSE Ask(0)
  /\ UNCHANGED <<newest, notices, generation, mine, echoes, reconnects, subscribers, inFlight,
                 stream, wire, tab, outcome>>

\* fail: the generation moves on, and one reconnect is scheduled.
Failure(g) ==
  IF Owns(g) THEN generation' = generation + 1 /\ reconnects' = reconnects + 1
  ELSE UNCHANGED <<generation, reconnects>>

\* The connection is lost: the first of its two errors; the second and the end follow.
Drops ==
  /\ link \in {"connecting", "up"} /\ Len(echoes) < day.drops
  /\ link' = "idle" /\ notices' = [v \in Vehicles |-> 0]
  /\ echoes' = Append(echoes, [of |-> mine, left |-> 2])
  /\ Failure(mine)
  /\ UNCHANGED <<newest, mine, hub, stream, wire, tab, outcome>>

Echo ==
  /\ \E i \in DOMAIN echoes :
       /\ echoes[i].left > 0
       /\ echoes' = [echoes EXCEPT ![i].left = @ - 1]
       /\ Failure(echoes[i].of)
  /\ UNCHANGED <<newest, notices, mine, link, hub, stream, wire, tab, outcome>>

-----------------------------------------------------------------------------
(* The hub.                                                                *)

\* pump: one query in flight for a car, and at most one more owed.
Pump(v) ==
  inFlight' = IF inFlight[v].busy THEN [inFlight EXCEPT ![v].pending = TRUE]
              ELSE [inFlight EXCEPT ![v] = [Idle EXCEPT !.busy = TRUE]]

\* handle: nobody is asked for when nobody watches.
Notified(v) ==
  /\ notices[v] > 0 /\ notices' = [notices EXCEPT ![v] = @ - 1]
  /\ IF subscribers = {} THEN UNCHANGED inFlight ELSE Pump(v)
  /\ UNCHANGED <<newest, listener, subscribers, fleets, stream, wire, tab, outcome>>

QueryReads(v) ==
  /\ inFlight[v].busy /\ inFlight[v].read = Unread
  /\ inFlight' = [inFlight EXCEPT ![v].read = newest[v]]
  /\ UNCHANGED <<newest, notices, listener, subscribers, fleets, stream, wire, tab, outcome>>

\* Mutant: a frame is put on a stream that the other end has left.
SentAnyway(frames, to) == [s \in Streams |-> IF s \in to THEN wire[s] \o frames ELSE wire[s]]

\* A write to a stream that the other end has left is swallowed.
Sent(frames, to) ==
  [s \in Streams |-> IF s \in to /\ stream[s] = "open" THEN wire[s] \o frames ELSE wire[s]]

\* What is owed once a query is over.
Again(v) == IF inFlight[v].pending THEN [Idle EXCEPT !.busy = TRUE] ELSE Idle

\* broadcast, and the query that is owed.
QueryAnswers(v) ==
  /\ inFlight[v].read # Unread
  /\ wire' = Sent(<<[of |-> v, ts |-> inFlight[v].read]>>, subscribers)
  /\ inFlight' = [inFlight EXCEPT ![v] = Again(v)]
  /\ UNCHANGED <<newest, notices, listener, subscribers, fleets, stream, tab, outcome>>

\* A failed query is a dropped update.
QueryFails(v) ==
  /\ inFlight[v].busy /\ Fails
  /\ lost' = lost \cup {v}
  /\ inFlight' = [inFlight EXCEPT ![v] = Again(v)]
  /\ UNCHANGED <<newest, notices, listener, subscribers, fleets, stream, wire, tab, day>>

FleetReads ==
  /\ \E f \in fleets :
       /\ f.read = Blank
       /\ fleets' = (fleets \ {f}) \cup {[f EXCEPT !.read = newest]}
  /\ UNCHANGED <<newest, notices, listener, subscribers, inFlight, stream, wire, tab, outcome>>

\* resync sends to everyone there is by now, snapshot to the one that asked.
FleetAnswers ==
  /\ \E f \in fleets :
       /\ f.read # Blank /\ fleets' = fleets \ {f}
       /\ \E order \in {q \in [1..Cardinality(Vehicles) -> Vehicles] :
                          \A i, j \in DOMAIN q : i # j => q[i] # q[j]} :
            wire' = Sent([i \in DOMAIN order |-> [of |-> order[i], ts |-> f.read[order[i]]]],
                         IF f.to = 0 THEN subscribers ELSE {f.to})
  /\ UNCHANGED <<newest, notices, listener, subscribers, inFlight, stream, tab, outcome>>

FleetFails ==
  /\ Fails
  /\ \E f \in fleets : fleets' = fleets \ {f}
  /\ lost' = Vehicles
  /\ UNCHANGED <<newest, notices, listener, subscribers, inFlight, stream, wire, tab, day>>

-----------------------------------------------------------------------------
(* The stream and the tab.                                                 *)

\* Mutant: a new stream waits for the next change.
OpensBare(s) ==
  /\ stream[s] = "asked" /\ signedIn
  /\ stream' = [stream EXCEPT ![s] = "open"]
  /\ subscribers' = subscribers \cup {s}
  /\ reconnects' = IF generation = 0 /\ reconnects = 0 THEN 1 ELSE reconnects
  /\ UNCHANGED <<newest, notices, generation, mine, link, echoes, inFlight, fleets, wire, tab, outcome>>

\* GET: the first stream starts the listener; a subscriber, then its snapshot.
Opens(s) ==
  /\ stream[s] = "asked" /\ signedIn
  /\ stream' = [stream EXCEPT ![s] = "open"]
  /\ subscribers' = subscribers \cup {s}
  /\ fleets' = Ask(s)
  /\ reconnects' = IF generation = 0 /\ reconnects = 0 THEN 1 ELSE reconnects
  /\ UNCHANGED <<newest, notices, generation, mine, link, echoes, inFlight, wire, tab, outcome>>

\* A 401 once the session is over, a 503 while the database cannot be reached.
Refuses(s) ==
  /\ stream[s] = "asked"
  /\ IF signedIn THEN Fails ELSE failed' = failed
  /\ stream' = [stream EXCEPT ![s] = "closed"]
  /\ UNCHANGED <<newest, notices, listener, hub, wire, tab, day, lost>>

\* The connection dies: what is on it is lost, and the tab may hear of it or not.
Dies(s) ==
  /\ stream[s] = "open" /\ Free # {}
  /\ \E how \in {"closed", "silent"} : stream' = [stream EXCEPT ![s] = how]
  /\ wire' = [wire EXCEPT ![s] = <<>>]
  /\ UNCHANGED <<newest, notices, listener, hub, tab, outcome>>

\* cancel, whenever the server learns that the other end is gone.
Cancelled(s) ==
  /\ s \in subscribers /\ stream[s] # "open"
  /\ subscribers' = subscribers \ {s}
  /\ UNCHANGED <<newest, notices, listener, inFlight, fleets, stream, wire, tab, outcome>>

Left == [s \in Streams |-> IF s = source THEN "closed" ELSE stream[s]]

Emptied == [s \in Streams |-> IF s = source THEN <<>> ELSE wire[s]]

\* connect: the old source is closed, a new one made.
TabConnects ==
  /\ retries > 0 /\ retries' = retries - 1
  /\ \E s \in Free :
       /\ \A t \in Free : s <= t
       /\ source' = s
       /\ stream' = [Left EXCEPT ![s] = "asked"]
  /\ wire' = Emptied
  /\ watchdog' = TRUE
  /\ UNCHANGED <<newest, notices, listener, hub, misses, signedIn, shown, outcome>>

\* onFailure: close, and connect again after a wait.
OnFailure ==
  /\ stream' = Left /\ wire' = Emptied /\ source' = 0
  /\ retries' = retries + 1
  /\ misses' = IF misses < ProbeAfter THEN misses + 1 ELSE misses

\* The error event of a connection that closed.
TabErrors ==
  /\ source # 0 /\ stream[source] = "closed"
  /\ OnFailure
  /\ UNCHANGED <<newest, notices, listener, hub, watchdog, signedIn, shown, outcome>>

\* 45 s without a heartbeat: the stream is silent, or there is none.
WatchdogFires ==
  /\ watchdog /\ watchdog' = FALSE
  /\ source = 0 \/ (source # 0 /\ stream[source] \in {"silent", "closed"})
  /\ retries < Cardinality(Free)
  /\ OnFailure
  /\ UNCHANGED <<newest, notices, listener, hub, signedIn, shown, outcome>>

\* Mutant: whatever arrives is shown.
Latest(old, ts) == ts

\* Never backwards in time.
Later(old, ts) == IF ts < old THEN old ELSE ts

\* The vehicle event.
Receives ==
  /\ source # 0 /\ wire[source] # <<>>
  /\ wire' = [wire EXCEPT ![source] = Tail(@)]
  /\ LET f == Head(wire[source]) IN shown' = [shown EXCEPT ![f.of] = Later(@, f.ts)]
  /\ misses' = 0
  /\ UNCHANGED <<newest, notices, listener, hub, stream, source, retries, watchdog, signedIn,
                 outcome>>

SessionEnds ==
  /\ signedIn /\ day.expires /\ signedIn' = FALSE
  /\ UNCHANGED <<newest, notices, listener, hub, stream, wire, source, retries, watchdog,
                 misses, shown, outcome>>

\* checkSession: refused often enough, a tab asks whether it is signed out, and leaves.
Redirected ==
  /\ misses = ProbeAfter /\ ~signedIn /\ source = 0
  /\ signedIn' = TRUE /\ misses' = 0 /\ shown' = Blank
  /\ UNCHANGED <<newest, notices, listener, hub, stream, wire, source, retries, watchdog,
                 outcome>>

-----------------------------------------------------------------------------

LiveNext ==
  \/ Connects \/ Listens \/ Drops \/ Echo \/ FleetReads \/ FleetAnswers \/ FleetFails
  \/ TabConnects \/ TabErrors \/ WatchdogFires \/ Receives \/ SessionEnds \/ Redirected
  \/ \E v \in Vehicles : Commit(v) \/ Notified(v) \/ QueryReads(v) \/ QueryAnswers(v) \/ QueryFails(v)
  \/ \E s \in Streams : Opens(s) \/ Refuses(s) \/ Dies(s) \/ Cancelled(s)

\* Timers fire and queries are answered; nothing has to fail, change or die.
LiveFairness ==
  /\ WF_liveVars(Connects) /\ WF_liveVars(Listens) /\ WF_liveVars(FleetReads) /\ WF_liveVars(FleetAnswers)
  /\ WF_liveVars(TabConnects) /\ WF_liveVars(TabErrors) /\ WF_liveVars(WatchdogFires) /\ WF_liveVars(Receives)
  /\ \A v \in Vehicles : WF_liveVars(Notified(v)) /\ WF_liveVars(QueryReads(v)) /\ WF_liveVars(QueryAnswers(v))
  /\ \A s \in Streams : WF_liveVars(Opens(s))

LiveSpec == LiveInit /\ [][LiveNext]_liveVars /\ LiveFairness

-----------------------------------------------------------------------------
(* Properties.                                                             *)

\* The variables have the values the code gives them.
LiveTypes ==
  /\ \A v \in Vehicles : shown[v] <= newest[v] /\ inFlight[v].read <= newest[v]
  /\ mine <= generation /\ subscribers \subseteq Streams
  /\ \A s \in Streams : wire[s] # <<>> => stream[s] = "open"
  /\ \A f \in fleets : f.to \in Streams \cup {0}

\* One dropped connection starts one reconnect (listen.ts:88-96), though it emits three
\* events: once a stream has been opened the listener is never without a client or a
\* scheduled reconnect, and never has two.
OneReconnect ==
  generation > 0 \/ reconnects > 0 => reconnects + (IF mine = generation /\ mine > 0 THEN 1 ELSE 0) = 1

\* What an open page shows becomes what the database has (live.ts:58-59, live.svelte.ts:
\* 167-176), through drops of the LISTEN connection, streams that die, and answers that
\* overtake one another, unless the query that would have told it failed.
Converges ==
  <>[](\A v \in Vehicles : source # 0 /\ stream[source] = "open" /\ v \notin lost
                             => shown[v] = newest[v])

=============================================================================
