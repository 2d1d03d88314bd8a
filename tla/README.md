# ev-app in TLA+

ev-app records what two makes of car say of themselves and draws driving and charging history
from it. This directory holds TLA+ models of its moving parts, the TLC runs that check them on
small instances, and TLAPS proofs of what matters most for instances of every size. Source paths
below are relative to the repository (in `PROJECT.json` they carry the prefix `src/`).

```
 Tesla car ─ fleet-telemetry ─┐                 ┌─ ev-ingest (tesla)  ─┐
                              ├─ Mosquitto ─────┤                      ├─ Postgres ─ ev-web ─ browser
 Rivian cloud ─ ev-rivian ────┘  (QoS 1,        └─ ev-ingest (rivian) ─┘   LISTEN/     (SSE)
                                  durable session)                          NOTIFY
```

* **ev-ingest** (`apps/ingest`, one process per make) handles each MQTT message in one transaction:
  the *tape* (`raw_message`, everything received, kept for ever), any *sample* that is due, the
  latest fields, and the session (drive or charge) the sample belongs to. It acknowledges a
  message only after the COMMIT, and rebuilds its memory from the tape when it starts.
* **ev-rivian** (`apps/rivian`) holds one websocket session with Rivian, on a credential the web
  page stores, and publishes what comes over it.
* **ev-web** (`apps/web`) serves pages, a live stream, and the sign-in flows of both makes.
* **packages/** hold what they share: `core` (segmentation, metrics), `db` (repositories,
  migrations, notifications), `rivian` and `tesla` (decoding and HTTP).

## Inventory

State, operations, what is hard, and what makes each part correct. The last column names the
module.

| part | state | operations | hard | correct when | module |
|---|---|---|---|---|---|
| MQTT link of ev-ingest (`mqtt.ts`) | what the broker owes, one message in the handler | accept, send again, hand over, discard, acknowledge | crash or lost PUBACK between COMMIT and broker; a failed handler withholds the PUBACK and does nothing else | nothing is let go before it is on the tape; everything usable gets there | `Ingest`, `DurableTape` |
| Pipeline (`pipeline.ts`) | one promise chain, pending burst, ensured months, session cursor | handle, flush, resume, snapshot, restore | a job that fails half-way, a COMMIT without an answer, a replay whose bursts differ, caches of DDL | memory and tape agree between transactions; no burst is lost | `Ingest`, `Sessions` |
| Accumulator, profiles, decoders, flush clock (`pipeline.ts`, `profiles/`, `normalise.ts`, `flush-clock.ts`) | a slot per field with its stamps, what arrived last, the skew | apply, due, take, observe | repetitions, expiries, undated words and redelivered frames in any order; a backlog that moves the clock | a sample has what the car last said, for as long as that counts | `Readings` |
| Segmenter (`packages/core/src/engine`) | the open segment | step | gaps, pauses, resumptions in any order | segments are disjoint, whole, and lose no sample | `Segmenter` |
| Session rows (`packages/db/src/repo/sessions.ts`) | open and closed rows | open, adopt, abandon, reset, discard, close | restarts that find rows the replay does not know; a lost COMMIT answer | one open row at most, never two for one segment | `Sessions` |
| Battery (`battery.ts`, `metrics.ts`) | a row a day, the day last measured | record, measure, compare | the same day measured twice, a counter not zeroed at the plug, restarts | the row is what the car showed | `Battery` |
| Pricing (`pricing.ts`, `urdb.ts`, `rates.ts`, `backfill-costs.ts`) | rates, basis and cost of a charge | type a rate, fetch one, price at close, backfill | a script and a daily fetch beside a worker and an operator | a price that was decided is not undone | `Pricing` |
| Reprocess (`reprocess.ts`) | - | delete and rebuild from the tape | a worker running beside it | the result is that of one replay | `Sessions`, `Battery`, `Pricing` |
| Connector lifecycle (`connector.ts`, `backoff.ts`, `store.ts`) | state, epoch, stamp, token, timers, socket, backoff, status row | poll, start, find the vehicle, connect, back off, sign out, stop | every continuation may be overtaken; restarts inside a wait | one session at a time, never a stalled one, no call inside a wait, a refused session stays refused | `Connector` |
| Websocket and errors (`socket.ts`, `errors.ts`), the calls' retry and slow tasks | readyState, phase, ack timer, verdict; an error's codes | classify, retry once, open, ack, ping, close | timers, close frames, errors and the caller's own close in any order | the verdict of a dead session is heard and never made up; one ending | `Socket` |
| Subscription plan (`subscriptions.ts`) | live subscriptions, searches, waves, timers, dropped list | plan, rejected, ended, renew, reprobe, discover | rejections, renewals and probes in any order | no property forgotten or asked for twice; a search ends | `SubscriptionPlan` |
| Queue and publisher (`queue.ts`, `publisher.ts`) | frames, byte count, the frame that is out | push, overflow, publish, retry, drain, end | answers late or twice, drops in the middle of a publish, a broker that hangs the shutdown | order kept, every loss counted, every hole followed by a renewal | `Publisher`, `LossyFifo` |
| Notification and live hub (`listen.ts`, `live.ts`, `live.svelte.ts`) | connection generation; queries in flight; subscribers; what a tab shows | notify, reconnect, resync, snapshot, watch | answers that overtake one another, missed notifications, silent streams | a page ends with the newest state | `LiveUpdates` |
| Rivian sign-in (`rivian-auth.ts`, `rivian-pending.ts`) | the pending code, the credential row | start, verify, sign out | a code that expires, is replaced or cleared while its answer is awaited; a pod replaced | the row opens the account it names; a sign-out is a sign-out | `SignIn`; the row as it is read: `Connector` |
| Tesla consent (`tesla-flow.ts`, `telemetry.ts`) | state cookie, held token, telemetry status | consent, call back, check, push | requests beside one another, lost answers, a car that changes | what is recorded was seen, what is sent was needed | `Consent` |
| Lists and statistics (`queries.ts`, `PaginatedSessions.svelte`, `chart.ts`) | the pages read so far | page, filter, total, thin | rows written and rebuilt between two pages | nothing skipped or repeated | `History` |
| Web authentication; configuration and metrics; migrations; tables of signals | none, or run once | - | - | - | not modelled |

## The modules

| module | models | extends or instances |
|---|---|---|
| `DurableTape` | what ingest promises of the tape | |
| `Ingest` | one worker, its broker session, its transactions and restarts | `DurableTape` as `Promise` |
| `MCIngest` | definitions for TLC | `Ingest` |
| `IngestProofs` | types, acknowledgements, months, the refinement of `DurableTape`; memory and tape, and that no burst is dropped | `Ingest`, `InductionFacts` |
| `InductionFacts` | induction over the naturals, in the form the proofs need | |
| `Segmenter` | one step of the segmenter, as an operator | |
| `Sessions` | the session rows under a worker, its restarts and reprocess | `Segmenter` |
| `SessionsProofs` | types, closed rows, what a sample applied twice does | `Sessions`, `InductionFacts` |
| `SessionsReplayProofs` | theorems about rows, memory and replays of the tape | `SessionsProofs` |
| `LossyFifo` | what the road from the Rivian socket to the broker promises | |
| `Publisher` | queue, publisher, renewal, shutdown | `LossyFifo` as `Fifo` |
| `PublisherProofs` | theorems about it, with its refinement of `LossyFifo` | `Publisher`, `InductionFacts` |
| `Connector` | the connector's lifecycle, backoff and status row | |
| `ConnectorProofs` | theorems about it | `Connector` |
| `SubscriptionPlan` | groups, waves, bisection, probes, the saved list | |
| `SubscriptionPlanProofs` | theorems about it | `SubscriptionPlan` |
| `LiveUpdates` | from a commit to an open page | |
| `SignIn`, `Consent` | the two settings pages and the requests behind them | |
| `Pricing`, `Readings`, `Battery`, `History`, `Socket` | see the inventory | |
| `MCPublisher`, `MCConnector`, `MCSessions`, `MCSubscriptionPlan` | instances for TLC | their module |
| `MCParts` | the eight parts that share no state, each explored by itself | the eight modules |
| `PartsProofs` | theorems about six of the eight | `LiveUpdates`, `Pricing`, `SignIn`, `Consent`, `History`, `Socket`, `InductionFacts` |

`PROJECT.json` maps each definition to the lines it models.

### Ingest

*State.* `owed`, `wire` and `acks` are the broker's durable session and the connection;
`handling` is the message whose handler has not called back (mqtt.js hands over one at a time);
`chain` is the promise chain of `Pipeline.locked`, whose head runs; `tx`, `staged` and `snap` are
the head's transaction, what it would commit, and what `Pipeline.attempt` would restore; `mem` is
the pipeline's memory (rows absorbed, rows pending, months ensured); `db` is what is committed.

*Actions.* A job has two visible steps: it begins (`BeginHandle`, `BeginFlush`), when its
statements run and change the memory, and it ends (`Commit`, `Rollback`, `CommitUnanswered`), when
the memory is kept or restored, the handler is answered and the PUBACK sent or withheld.
`HandleWork` is the transaction in the order of the code: month, tape row, the sample that is due,
and only then this message's fields. A sample shows all the accumulator holds (`Emit`); the pending
burst says when it is due and stamps it. `Crash` may fall anywhere, also with a COMMIT on its way.
`ResumeWarm` replays the tape and writes what its final flush emits; `StartCold` is
`resumeOrStartCold` giving up. `Shutdown` queues the forced flush behind whatever waits.

*Abstracted.* A message's fields (its tape row stands for them; `Readings` has them), sessions
(`Sessions`), the cursor, which nothing reads. Time is the month of a row and two flags: did the
worker find its burst overdue (`due`), and would a replay (`gap`)? `Overdue` ties the two together:
both measure a burst by the same stamps and differ only where the bursts differ. One vehicle; the
resume window is the whole tape; a slot past its staleness window is not dropped.

### Segmenter and Sessions

*State.* `mem` is the worker's memory (the segmenter's state, `openId`, `openPoints`), `pending`
its burst, `rows` the session table (a deleted row is kept as "gone"), `tape` and `samples` the
database, `owed` what the broker will send again. `ahead` and `astray` are ghosts: a COMMIT without
an answer has not been made up for; and why the rows may tell another story than the tape.

*Actions.* `Step` (in `Segmenter`) is `step` of segmenter.ts whole: what it opens, appends and ends
for one sample. A message is one transaction: the sample of the burst before it, its steps, its
rows (`applySample`, `finish`), and the tape; it commits, fails, or commits without an answer. What
was not acknowledged is sent again: with its own stamp where the connector's envelope has one
(`Redeliver`), and stamped anew where the worker stamps what arrives (`RedeliverRestamped`, Tesla,
`mqtt.ts:222`), where a message that is on the tape already becomes a second row and a second sample;
there a lost PUBACK is enough (`Handled`). `resume` replays and `reconcile` adopts, resets, abandons or
opens rows by `matchFor`; a blind start adopts the open row it finds. `Reprocess` is one transaction,
over any window of `--from` and `--to`, beside a worker that may be running.

*Abstracted.* A message is a burst of its own and carries every field; the resume window is the
whole tape; energy, price and health are in `Pricing` and `Battery`. `reconcile`'s
loop over the open rows is no loop here: what becomes of one does not depend on the others (`Settle`),
but for the row that is carried on, the last of those that stand for what runs (`CarriedOn`).

### Publisher

*State.* `queue` and `bytes` (queue.ts), `inFlight`, `retry`, `phase`, `force` (publisher.ts and
its shutdown), and what connector.ts keeps for a renewal: `renewPending`, `queueEmpty`,
`renewTimer`, `recent`. `received` and `last` are the broker's side; `answered` are calls that may
call back a second time; `gap` is a ghost: a frame was dropped and no snapshot asked for since.

*Actions.* `Enqueue` is `#enqueue` whole: push, drop the oldest until the rest fits, count, pump.
The broker's `Arrives` and the client's `Ack` or `Fail` are separate, since an answer can be lost
after the frame was taken; `AnswersAgain` is the late second answer. `MaybeRenew` is called from
where the code calls it: the emptied queue and its own timer. `Stop`, `DrainEnds`, `ClientEnds`
and `GraceEnds` are the shutdown with its two limits of five seconds.

*Abstracted.* Frames are numbers with a size; limits are "at any time".

### Connector

*State.* The credential `row` and status row (`saved`) in the database; `state`, `stamp`
(`#credentialMs`), `token`, `epoch`, `timers`, `socket`; the backoff (`attempt`, `reconnect`); the
status writer (`loaded`, `dirty`, `writer`, `outgoing`, `late`). `tasks` is the heart: every await
that has not returned, with the epoch it was made in. `owed`, `recorded`, `dead`, `misled` and
`behind` are ghosts that the properties speak of.

*Actions.* One per continuation: a poll's five outcomes, the four awaits of `#starting`, the calls
of `#acquire`, `#authed` and `#findVehicle` with their refusals and failures, the socket's events,
the timers, and the status writer. An answer whose epoch has passed is dropped (`Superseded`),
except where the code does not look: the catch of the credential read, and the unsealed token, which
is stored before the epoch is checked (`UnsealedLate`). Of the app session (`#app`), which is stored
the same way, nothing is kept.

*Time* is counted in the backoff's floor of 30 s and stored as what is *left* of each wait, so
that nothing grows. Jitter is one unit or none. The 15 s between polls, and the hour between
looks for a vehicle, are "at any time".

*A late status write.* `withinTimeout` gives up on a write after 10 s without cancelling it. Such
a write may land after a newer one (`LateWriteLands`), and the row then shows an older state until
something changes. The code has no defence against this, so `StatusTells` exempts it by name
(`behind = "overtaken"`).

### SubscriptionPlan

*State.* Of the plan: `known`, `dropped`, `unavailable`, `live`, the subscribe `wave`, the wave that
waits for its canary (`pending`), the `searches` (Lineage objects), `faulted` and `exhausted` keys. Of
the connector: `timers` (what waits to be subscribed), and the dropped list as it is `loaded`,
`kept`, `carried` and `saved`. `owed` and `overtaken` are ghosts. Of Rivian: `bad` properties, and
whether the documents themselves are refused (`broken`).

*Actions.* `Answer` is the server's word on one subscription: a frame, or a refusal, which is
`#onError` whole: the canary's verdict, a wave completed, a group split, a property dropped, a group
exhausted. `Fire` is the timer of `#resubscribeLater`. `RenewAll`, `Reprobe`, `Ended`, `Discover`,
`Open` and `SocketEnds` are the operations of the same name; `StartPlan`, `LoadSaved`,
`WriteStatus`, `Halt` and `Crash` are what the connector does around the list.

*Abstracted.* Time is the order in which windows close and timers fire, with what the lengths force
(a bisection's 30 s outlast the 20 s of a wave; a canary's window outlasts the probes of its wave and
not the probes of those). A key nobody remembers is given out again. What `initial()` resets is reset
when the socket goes. A list is written at once (a late write is `Connector`'s). The wording of
`last_error`, and how long a backoff lasts, are left out.

### Socket

*State.* `caller` is the asker (connector or sign-in page), `answer` its last failed call, `message`
what a page was told; `readyState`, `dropped`, `frame`, `failure`, `phase`, `ackTimer` and `promise`
are the closure of `openSocket`; `sent`, `calls` and `why` are what was sent and told; `task` is one
of the slow HTTP tasks; `letGo` and `asksAtEnd` are ghosts.

*Actions.* A call fails with a status and a body of codes, is classified (`keepCodes`, the getters
of errors.ts, `messageFor` of the pages), and retried once with a new CSRF token (`#authed`). Then
the websocket: its opening, the ack, frames, pings, the deadline, the server's close frame and the
event that follows, errors, the ack timer, the caller's close. One connection per behaviour: the next
is `Connector`'s. The `ws` package is external: an error comes once, and never after a close frame.

### LiveUpdates

*State.* `newest` is the newest sample of each car; `notices` are on their way; `generation`, `link`,
`echoes` and `reconnects` are the listener (an event of a client that was given up on is an echo);
`inFlight`, `fleets` and `subscribers` the hub; `stream` and `wire` the streams; `source`,
`retries`, `watchdog`, `misses`, `signedIn` and `shown` the browser tab.

*Actions.* A commit that writes a sample notifies; a query is asked, reads and is answered in three
steps, so that answers overtake one another; a drop of the LISTEN connection emits its events one by
one; a stream dies without a word, is refused when the session has ended, or is cancelled; the tab
errors, waits, probes its session after some failures, and connects again.

*Abstracted.* What a page shows of a car is the time of the sample it holds. The lengths of waits;
heartbeats, but for the stream that is open and silent.

### SignIn and Consent

*SignIn.* `posts` are the requests, each at one of its awaits; `waiting` is the half-made sign-in
in the pod's memory; `credential` the row, with the account it names and the account it opens;
`codeTokens` what Rivian issued; `page` what each tab shows. Every await of `signIn`, `submitOtp` and
`signOut` is an action; an attempt falls due, a token expires, an answer is lost, a tab is reloaded
(its request goes on), and a pod is replaced, perhaps with another key.

*Consent.* `consents`, `flowCookie` and `teslaToken` are the OAuth flow; `car` is the configuration
the car has and whether it has applied it; `acts` are checks and pushes, each at one of its awaits;
`status` is the cached row. Building, comparing and preflight are operators over small
configurations, with the echo Tesla makes of one. The car changes, consent is withdrawn, and an
answer or a write is lost at any point; a pod that restarts in the middle is an answer lost.

### Pricing, Readings, Battery, History

*Pricing.* `rates` (typed and fetched rows), `refresh` (the fetch at its awaits), `charge` (one
session row), `backfills` (runs of the script at theirs). A price is rounded to its column. Only the
rate a row was priced at is kept, not the product; currencies are left out; a typed date is a
midnight.

*Readings.* `cloud` is what the vendor holds, `inbox` and `undone` are frames accepted and frames
whose transaction failed, `acc` the accumulator, `skew` the flush clock's, `written` the last sample.
`told` and `sign` are ghosts: what a reader of the same frames would know. `apply`, `due` and `take`
are operators; slots are one or two of each window and of each rule of the two makes. Left out:
units, a car's clock that is ahead, stamps that cannot be read, sessions, restarts.

*Battery.* `tape` has the messages, each of which says some of the charge, the counter, the pack, what
remains of it and the range; `pipeline` is the accumulator, the points of the open charge, the start of
its row and the day last measured; `openSince` the open row, `health` the table, by day. A sample is
what the accumulator holds of a message and of what was said before, as long as that is carried
(`SampleOf`). A message commits, fails, or commits without an answer, and is then stamped anew or not; a
restart replays the tape of its window and reconciles, or starts blind. A reprocess takes any `--from`
and `--to`: it clears the days that both ends are cast to, and replays the *messages* between through an
accumulator that holds nothing, so that what the worker carried in from before is missing. `found` (the
closes that gave an estimate), `due` (the days a sample measured), `blinded` and `doubled` are ghosts.
The page's tiles are operators. Left out: the energy of a drive, pauses of a charge, the two days a
resume looks back at most, the interval by which `matchFor` is generous, and floats. Whether the car
charges is said by every message.

*History.* `sessionRows`, and the `view` of one browser tab: its props and what PaginatedSessions has
loaded. A page load is one step. Rows are opened, closed, discarded and rebuilt between two pages;
the tab follows links and jumps in its history. Decimation and the windows of the totals are
operators, checked over all small inputs.

## The runs

| run | instance | shows |
|---|---|---|
| `ingest` | 3 messages, one unusable, 2 months, 2 jobs waiting, 2 faults; 1.4 M states | `AckedIsTaped`, `MemoryMatchesTape`, `BurstCovered`, `EnsuredMonthsExist`, and that `Ingest` implements `DurableTape` (`KeepsPromise`) |
| `ingest_live` | 2 messages, one without fields, 2 faults; 63 k states | `TapedUnlessItStands`: every usable message is taped in the end, if no connection stands for ever |
| `ingest_stand` | 1 message, 1 fault | *violated:* `EventuallyTaped`, the same without the proviso |
| `ingest_cut` | 3 messages, 2 faults | *violated:* `CrashedBurstWritten` |
| `publisher` | 4 frames of 1, 2 or 4 under a cap of 3, 2 failures; 280 k states | `LossesCounted`, `NeverIdle`, `GapFilled`, `ShutdownEnds`, and that it implements `LossyFifo` (`ImplementsFifo`) |
| `connector` | 2 sign-ins, waits up to 2, 2 failures of Rivian; 2.0 M states | `OneDriver`, `BackoffKept`, `DeadNeverRetried` |
| `connector_faults` | 1 sign-in, 1 failure of Rivian, 1 of the database, 1 stop or crash; 370 k states | `StatusTells`, `CredentialActedOn`, `SignOutHeard`, `BackoffEnds` |
| `connector_restart` | 2 sign-ins, 1 failure, 1 end | *violated:* `BackoffSurvivesRestart` |
| `connector_stale` | 2 sign-ins, 1 failure of each kind | *violated:* `StaleNeverActs` |
| `sessions` | 6 scenarios of 3 or 4 messages of up to 8 kinds, up to 2 faults, in two of them messages are stamped anew; 1.8 M states | `NothingLost`, `SegmentsSound`, `OpenIsRunning`, `ClosedStay` |
| `plan` | 5 scenarios of 3 or 4 properties in groups of two; 206 k states | `NoneForgotten`, `NoneTwice`, `ListKept`, `SearchEnds` |
| `parts` | eight parts that share no state, one at a time; 806 k states | `OneReconnect` and `Converges` (`LiveUpdates`), `SignInSound`, `ConsentSound`, `PricingSound`, `CarTold` (`Readings` and `Battery`), `HistorySound`, `SocketSound` |

Every passing run but `connector` and `ingest_live` also checks a type invariant.

What the less obvious names say:

* `NothingLost`: a sample that charges is a point of some charge, one that drives fast of some
  drive, except where a worker had rows that were not its own, where messages had overtaken others or
  are on the tape twice, or where a rebuild ended inside a session (below). `SegmentsSound`: a session is one trip or one charge, the whole of it and no more, against a
  definition of holes, stops and pauses over the samples themselves. `OpenIsRunning`: between
  transactions the memory's session is the one open row, with its start and points.
* `NoneForgotten`: while a socket is up every property is subscribed, waiting to be, or dropped with
  a day on which it is tried again. `NoneTwice`: none is asked for twice. `ListKept`: what was found
  and recorded is not lost from the row. `SearchEnds`: once the documents are fine for good, every
  property Rivian still has flows.
* `Converges`: an open page shows in the end what the database has. `OneReconnect`: never two clients
  or reconnects of the listener, and never none.
* `SignInSound`: the Rivian row opens the account it names, no session is obtained that the pod
  cannot keep, no spent attempt is kept, a sign-out that ran alone leaves nothing. `ConsentSound`: a
  Tesla push is recorded if and only if Tesla took one, and sent if and only if the car lacked
  something and could apply it; no token is held with a refresh token behind it.
* `PricingSound`: a charge keeps the price known when it closed; two fetched rates in a row differ; an
  override that was in force when a fetch began is not displaced; a settled row is not written over.
* `CarTold` is of two parts. `ReadingsFaithful`: a sample has of each slot the latest value told, if
  and only if it still counts; a repetition makes no sample; a burst is not cut because its frames are
  old. `BatterySound`, after every step: the energy of a charge is between nothing and what went in,
  however its counter began; a day keeps its most confident estimate and the car's measurement, and a
  reprocess finds again those that the tape of its window can give; the page's two series do not disturb
  each other.
* `HistorySound`: a list stays in order, with nothing that stayed skipped or repeated, whatever is
  written between its pages; the totals of a window are of the closed drives of its pages, and windows
  that meet tile; a thinned series spans what it was thinned from, with even gaps.
* `SocketSound` has two halves. `AnswersRead`: what a failed call's body says, and no more, decides
  whether it is made again, and what the page is told. `OneConnection`: the verdict of a dead session
  is heard and never made up; a connection ends once, last, and is told of until then; a lifecycle
  that has ended makes no more calls.

### Why the bounds are enough

* *Ingest.* Two messages make a burst and a third makes a later one, so that a burst can be cut,
  overdue, replayed and redelivered; one is unusable, so that the road around the tape is taken. Two
  faults are needed for the interesting pairs: a COMMIT without an answer and then a crash, a lost
  PUBACK and then a failed transaction. Two months are one boundary, which is all the cache of
  partitions can get wrong. A second job in the chain is all a head can find behind it.
* *Publisher.* With a cap of 3, sizes 1, 2 and 4 give a queue of several frames, of two, one push
  that drops two, and a frame larger than the cap. Four frames leave room for a drop while one
  is out and two wait. Two failures: one in the answer and one in the retry, or the pump.
* *Connector.* Overtaking needs two lifecycles, so two sign-ins (with any number of sign-outs
  between); a backoff inside a backoff needs two failures, and a cap of two floors lets the wait
  grow once and jitter matter. Database failures and restarts are checked with one sign-in only,
  for the size of the state space: what a failed read of one lifecycle does to another is
  `connector_stale`.
* *Sessions.* One scenario has every kind of reading (charging, plugged, unplugged, fast, crawling,
  parked, waiting in gear, silent, rolling) in four messages and no fault; three have fewer kinds
  and one or two faults: an unanswered COMMIT and then a restart, or a restart beside a rebuild; two
  are of a make that stamps anew what is sent again, up to a time that leaves room for a stop before it. Steps of one,
  three and five units fall on each side of the stop that ends a drive, the pause that ends a charge,
  and the hole.
* *SubscriptionPlan.* Groups of two are what a bisection halves; two groups make a wave that has to
  be told from two bad fields. Each scenario has the events that interact: documents that break and
  are mended, a field bad from the first and one that retires, subscriptions that end, and the
  connector stopping or crashing around a list it cannot read. A key nobody remembers is given out
  again; a step that needs more keys than are left would wait (`KeysLeft`), but with `MaxKey` = 11 two
  are free in every state of the run.
* *LiveUpdates.* One car, since queries of two cars share nothing but the hub's maps; two changes
  overtake one another, and a second stream is what a tab opens after one has died. A drop
  of the LISTEN connection and a failed query are explored on days of their own.
* *SignIn* has three requests from one tab that may be reloaded (so that they overlap), two accounts
  and two pods. *Consent* has three requests with one consent, or two with two, or two beside a car
  that changes.
* *Pricing.* Two prices, one of which the column cannot hold; a day of two instants, so that a
  midnight, an instant after it and the next are told apart. *Readings* has nine logs: two or three
  slots whose rules interact, three or four hours (past both stale windows), a failed transaction or a
  backlog. *Battery* lives are two charges between parked messages, the second on the first day or
  over its midnight, that begin without a word of the charge in percent, so that it is carried; the
  levels are carried for a quarter of a day, as a counter is, or longer, as a Rivian's are; two mishaps and
  a reprocess from and to any message or midnight. No charge puts in exactly what the counter of an
  earlier one showed: `metrics.ts:57` would call that no energy. *History* has four drives and pages of two, so that a page ends inside the list;
  decimation is checked for every series and cap up to 12. *Socket* has every pair of codes, and
  those behind the cap of two (eight in the code).

### Fairness, and what justifies it

* *Ingest.* The container restarts the process (weakly fair `ResumeWarm`, `Exit`), the event loop
  runs what is queued, the broker sends what it owes on a connection that lasts. Steps a lost
  connection disables again and again (`Connect`, `Receive`, `Discard`, `AckArrives`) are
  strongly fair. A transaction ends. Nothing makes a connection end, which is what
  `ingest_stand` is about. Faults are bounded: a database that never commits satisfies nothing.
* *Publisher.* The process's own timers fire, a socket that is down is connected again, a client
  told to close at once calls back. Nothing is asked of the broker: `ShutdownEnds` holds with one
  that never answers, and `GapFilled` names its condition (`[]<>(inFlight = {})`).
* *Connector.* Each call answers or reaches its timeout, which every one of them has; timers
  fire and time passes; polls go on; a process told to stop exits and is started again. The status
  writer has no fairness: no liveness property needs it.
* *SubscriptionPlan.* Rivian answers each subscription, timers fire, a day passes, and a socket
  that ended is opened again (which `Connector` shows of the rest of the process).
* *LiveUpdates* (weak fairness in `MCParts`). Postgres delivers, queries answer or fail, scheduled
  calls are made, and a browser reports a dead stream or its watchdog does. No fairness is asked of
  drops, failures, or the car.

### Deadlock

`Connector` is checked for deadlock: it polls for ever. `Ingest` stops when all messages are
settled and the bounds are used up, `Publisher` when the process has exited, and `Sessions`,
`SubscriptionPlan` and the parts when their bounded events are used up: their configurations say
`CHECK_DEADLOCK FALSE`. That they do not stop *earlier* is what the liveness properties and
`NeverIdle` say.

## What the runs found

Four have runs of their own:

* **A stale answer acts** (`connector_stale`). `#starting` checks its epoch after a credential
  read that succeeds, and not in its catch (`connector.ts:515`), which clears the stamp of whatever
  lifecycle runs by then. The next poll tears a healthy session down. `CredentialActedOn` still
  holds, and `DeadNeverRetried` holds of everything else: it exempts this by name (`misled`).
* **A restart can cut a backoff short** (`connector_restart`). `#enter` erases `backoff_until`
  with the next state (`connector.ts:1251`) while the wait lives on in memory. A sign-in inside the
  wait, and a restart after it, find nothing to honour. The top-level README says that a restart
  does not cut a backoff short.
* **A failed message waits for a reconnect** (`ingest_stand`). A handler that throws withholds
  the PUBACK; the broker sends again only when the connection does. `metrics.ts:84` says they
  "will be redelivered".
* **A crash can drop a burst** (`ingest_cut`). `resume` writes the burst that is pending when the
  *replay* ends. The replay's burst can be older than the crashed worker's (a COMMIT without an
  answer left a row out of the worker's memory, or a restart's own flush had emitted the beginning),
  and then the 30 s ceiling can fall, in the replay only, at a last message that decodes to nothing:
  the replay emits there, where nothing is kept, and ends with nothing pending. What the worker held
  is in no sample until the car says something more, and never if that replaces it.
  `pipeline.ts:575` says that burst is written.

The others are what the properties exempt or do not ask, the exemptions each by the name of a ghost:

* *Connector.* A token can outlive its sign-out. `#starting` stores the unsealed token before it looks at
  its epoch (`connector.ts:527`, `542`): a sign-out while the credential is unsealed leaves the token
  behind, though `connector.ts:1393` says of `#halt` that the session is forgotten. `SignOutHeard`
  therefore speaks of calls, timers and the socket, and not of the token; `CredentialActedOn` asks that
  the credential's own token is there once its lifecycle goes on.
* *Sessions.* After a blind start the worker adopts the open drive it finds, judges "went nowhere" by
  its own points only, and may delete a real trip (`blind`). Or the row it adopted comes to hold two
  sessions of the replay's: the next `resume` resets it to the first, and the second, which has ended,
  is written nowhere (`pipeline.ts:623-654`). Under a worker beside which a reprocess
  ran, the id it holds may be another row's or none's (`beside`). A session that only a replay shows,
  and that has ended, is written nowhere by `reconcile` (`overtaken`, `doubled`). A rebuild whose `--to`
  falls inside a session deletes its row and rebuilds it up to there; the rest is in no row (`cut`), and
  after one whose `--from` does, the rows are of two replays (`partial`; of these `SegmentsSound` says
  nothing). And a drive discarded in a
  transaction whose COMMIT got no answer is gone when the message comes again: `appendPoint` then
  meets no row, and every retry fails until a restart.
* *Sessions, stamped anew.* A message sent again can be a sample of its own. `samples.ts:62` rests on "the second delivery writes
  nothing", and the pipeline's test says that everything derived is deduplicated. That holds of a message
  that keeps its stamp. A Tesla message is stamped when it arrives (`mqtt.ts:222`): after a lost PUBACK or
  COMMIT answer it is a second sample, at a later time. Put between a stop and the drive that follows,
  it can carry a drive on through a stop that ends one (`doubled`).
* *SubscriptionPlan.* A wave that is judged after one of its first probes' own probes was subscribed
  cannot withdraw it, and a property may be asked for twice (`overtaken`; the comment at
  `subscriptions.ts:533` covers the first probes). A group judged bad in every property is only
  retried whole until the next socket (`InExhausted`).
* *LiveUpdates.* A query that fails loses its update until the next sample (`lost`). "Never go
  backwards" (`live.svelte.ts:144`) does not protect a change with the same sample time.
* *SignIn.* A sign-out while a sign-in is under way may be followed by the row it saves (`alone`). An
  attempt whose token is spent is kept when the answer that said so is lost (`unheard`).
* *Consent.* `push/+server.ts` says a blocker or an already-applied configuration writes nothing to
  the database; `telemetry.ts:337-366` records both. Two checks that overlap may leave the older
  observation in the row that is called the newest (`telemetry-status.ts:96`).
* *Pricing.* A rate typed while a fetch is under way is outranked by the fetched row, which is dated
  now where typed rates are dated at midnight; `urdb.ts:206` says the reverse. A published price
  with more digits than the column makes a row at every fetch (`exact`). Two runs of the
  backfill, or a close done again, may write over a row that has come to name a source (`stale`). A
  reprocess prices its charges anew.
* *Readings.* A redelivered message without the car's own stamp overtakes newer ones (`Outrun`), so a
  replay of the tape is not always what the live worker wrote, as `pipeline.ts:170` has it. A change
  back to the word the charging stream last repeated is swallowed (`Swallowed`).
* *Battery, rebuilt.* A reprocess can lose a measurement. The worker measures a day from a pack energy it carries
  over midnight; a reprocess from that midnight on clears the day, and its accumulator has never heard
  the value. `battery.ts:77` says that re-writing the same value makes a reprocess idempotent. What is
  promised is what the tape of the window can give.
* *Battery.* `reconcile` writes a sample and never its measurement (`pipeline.ts:847` has the two
  committed together), so that only a day that a handled sample measured is promised one (`due`). A
  reprocess whose `--from` is later than a charge's plug, less the time its values are carried, finds
  a narrower charge or none, and the estimate of a day it has cleared may be gone for good, also that of
  the morning when `--from` is noon: the day is cleared whole (`sessions.ts:197`; `Replayable`). A worker
  that has measured the day such a reprocess cleared does not measure it again (`blinded`), and one whose
  charge's row it deleted and did not rebuild is refused every sample until it is restarted (`Refused`).
  No estimate is promised of a tape that has a message at two stamps (`doubled`). After a restart a day
  is measured again, with a later value.
* *History.* The list of drives is keyed by its filter and not by its car: a jump in the browser's
  history between two cars keeps the first car's list and pages on with the second's id (`mixed`). A
  thinned series may have one row more than the cap.
* *Socket.* The ack timer may run out between the server's close frame and the close event, and
  then the verdict of a dead session is told as a missing ack, and retried. Codes behind the eighth
  are not read. The slow tasks go on calling Rivian during a backoff, though `reconnectAt` is called
  the earliest next call of any kind (`connector.ts:298`).

## What is proved

The eight proof modules hold for every value of the constants that satisfies the named assumption of
the module (`ConstantsAssumption` and the like), and assume nothing else. An assumption says what the
constants range over, that a value that stands for "none" is none of the others, and that the bounds
are numbers; TLC evaluates each in the runs. Two say more: `SubscriptionPlan` has a key for every
property at least, and knows of the catalogue's properties before the ones it discovers.

| theorem | states, of every behaviour |
|---|---|
| `IngestProofs`: `TypeCorrect`, `AckedSafe`, `MonthsExist` | `TypeOK`, `AckedIsTaped`, `EnsuredMonthsExist` |
| `IngestProofs`: `PromiseKept` | `Promise!Spec`: `Ingest` implements `DurableTape` |
| `IngestProofs`: `MemoryIsTape`, `NoBurstDropped` | `MemoryMatchesTape`, `BurstCovered` |
| `PublisherProofs`: `TypesKept`, `NeverStops`, `AllLossesCounted` | `TypeOK`, `NeverIdle`, `LossesCounted` |
| `PublisherProofs`: `FifoImplemented` | `Fifo!Spec`: `Publisher` implements `LossyFifo` |
| `ConnectorProofs`: `TypesKept`, `DrivenByOne`, `RowTells` | `TypeOK`, `OneDriver`, `StatusTells` |
| `ConnectorProofs`: `NoneTooSoon`, `DeadStayDead` | the action properties `BackoffKept`, `DeadNeverRetried` |
| `SessionsProofs`: `TypesHold`, `ClosedRowsStay` | `TypeOK`, the action property `ClosedStay` |
| `SessionsProofs`: `SampleTwice` | a sample applied again after an unanswered COMMIT changes nothing |
| `SessionsReplayProofs`: `OpenRowRuns`, `SamplesAreTold` | `OpenIsRunning`, `NothingLost` |
| `SessionsReplayProofs`: `SegmentsHold` | `SegmentsSound` |
| `SubscriptionPlanProofs`: `TypesKept`, `RowKeepsDropped` | `TypeOK`, `ListKept` |
| `SubscriptionPlanProofs`: `NoFieldForgotten`, `NoFieldTwice` | `NoneForgotten`, `NoneTwice` |
| `PartsProofs`: `ReconnectsOnce` | `OneReconnect` of `LiveUpdates` |
| `PartsProofs`: `PricesHold` | the action property `PricingSound` |
| `PartsProofs`: `AccountsHold`, `PushesHold`, `HeardAsSaid` | `SignInSound`, `ConsentSound`, `SocketSound` |
| `PartsProofs`: `HistoryHolds` | `HistorySound` |

*Ingest.* `AckedIsTaped` is not inductive: that a message which leaves `owed` is taped rests on its
PUBACK having been sent after its COMMIT. The invariant `IInv` adds: acknowledgements on their way
are of taped or unusable messages (`AcksSafe`); a transaction belongs to the head of the chain, and
there is one `handle` job exactly while a message is handled (`ChainInv`); what is staged extends the
committed tape by the message being handled, or by nothing (`StagedInv`); pending rows are on the
tape, so that the sample's stamp is defined (`PendingInv`); a connection that is down carries nothing
(`LinkInv`). There is one lemma per action. The refinement follows step by step from the same
invariant: a commit is `Record`, `AckArrives` is `Release`, all else is `Accept` or a stutter.
`EnsuredMonthsExist` needs `MonthsInv` beside it: the snapshot's months exist in what is committed,
and the memory's in what is staged, so that a rollback, which takes the partitions away, restores a
memory that knows of none of them.

*The burst.* `BurstInv` speaks of the memory a rollback would restore and of the one a commit would
keep, at once. What the open transaction made of them is what it made of the tape (`GrownInv`). What
the memory has absorbed is the tape but for what the broker will send again (`AbsorbedInv`): a COMMIT
without an answer leaves a tape that is ahead of the memory by a message that is still owed. What the
worker has in hand will be sent again or is in a burst already (`HandInv`). And until a crash cuts a
burst short, all that was absorbed is sampled, pending or sent again (`CleanInv`).

*Publisher.* Queue and frame that is out are a *road* (`Road`): the frame that is out is older than
every queued one, the queue ascends, the byte count is the sum of its frames, and what is behind the
frame that is out, or was put back, fits the cap or is one frame (`Snug`). The rest says where the
broker is on it: of what is owed it has heard of the oldest at most, and then heard that last
(`HeardInOrder`); and no more frames were made than are heard, owed or counted (`Accounted`). `Total`
is a fold; `SumsExist` shows by induction that the prefix sums it stands for exist. The refinement
maps a push to `Make`, with the set of the frames it drops; the broker's receipt, the
acknowledgement and the end of the drain are the abstract steps, all else is a stutter.

*Connector.* `Driven` says that a call of the current epoch, a timer, or the socket carries the
lifecycle on, exactly one of them or, where a state rests, none. It is inductive because no call is of
an epoch that has not begun (`Epochs`), so that a new epoch silences them all. `Paid` is the wait that
is owed, waited for by the clock, every timer and every call that reaches Rivian. `Mourned` says that
what a poll in flight, or the row, would bring back of a refused sign-in is the stamp the connector
already has; it needs `Polled`, the order of stamps. `Told` is of the status row.

*Sessions.* The rows and the memory are compared with the *replay*: `Dry(T, t)`, what the tape up to
`t` comes to when it is applied to no rows (`DryOk`: a row for each session, no two with one start, the
last of them the one in memory if it is open). The invariant has five parts. `Typed`: stamps tell
samples apart, and memory and rows are of the tape. `Unclosed`: if the row in memory is closed, the
sample still pending closed it, in a transaction whose answer was lost; `ClosedStay` follows, since
that sample, applied again, closes it with the same points. `Together`: the memory is that of the replay
up to its newest sample; what is newer is pending or owed; the rows are right for the memory
(`Sound`), or are those that the pending sample made of rows that were (`Redone`); while no worker
runs, the replay has the session that the open row stands for, with at least its points (`Meets`).
`Told`: every sample that wants to be in a session is in one. `Faithful`: the rows mirror the replay's (below). The heart is `SampleTwice`, that `Redone` heals: the
segmenter says one of five things of a sample (`SaysNothing`, `SaysPoint`, `SaysEnd`, `SaysStart`,
`SaysTurn`), and each, said again, finds its own work done. The other is a resume: the row of the
session that was open has the start of exactly one of the replay's sessions, so `MatchFor` finds
it, whatever `Slack` is, and nothing is abandoned; if that session has ended in the replay, the row
gets its points. A rebuild from some time on leaves rows of two replays, so that `Together` and `Told`
need more of it (`Along`): the replay of a part never runs ahead of the replay of the whole, what is open
in it is open there, from no later on and with all its points, and so the row it leaves open is the one
the next resume carries on. `TypesHold` and `ClosedRowsStay` hold astray or not.

A message that is sent again keeps its stamp or gets a new one. In the second case the memory has
not absorbed it and the tape has it at most once, or the tape has it at two stamps, and then `doubled`
says so; what is owed and on the tape is always newer than the memory (`Ordered`), so that a stamp
given later never comes between two others.

`SegmentsHold` speaks of all the rows, so it needs all of them to be the replay's, where `OpenRowRuns`
needed only the open one. It has two halves. The first is of the replay alone, and by induction over
its samples (`CutHolds`): of a session under way the samples say so far what the segmenter remembers of
it (`SoFar`: since when the car stands, which sample paused the charge), and when it ends they say
why, so that the session is whole (`Whole`) and up to the next start there is a reason (`Reason`). The
second is of the rows (`Mirrored`): each that is not deleted is a session of the replay, with no point
the replay lacks and, once closed, with the same points; no two are of one session. A sample that is
applied to both keeps that (`MirrorStep`); one whose COMMIT had no answer has already been written
(`RedoneAgain`); a later message adds sessions but changes none that is closed (`DryClosed`); and what a
resume or a rebuild makes of the open row, or of the whole tape, is the replay's again
(`ReconciledMirrors`, `RebuiltMirrors`). `MirrorCuts` puts the halves together: a row that is closed has
the replay's points and so its cut, and one that is open starts where the replay's does.

Two proof attempts found the model's exemptions wrong. A message older than
the accumulator's newest, taped for the first time, did not count as `overtaken`; but the replay has
its sample, and the rows do not. And `NothingLost` still claimed charges after a blind start, which is false with one fault
more than the run has (the adopted row with two sessions, above). It no longer does.

*SubscriptionPlan.* `ListKept` needs only the list (`Recorded`). `NoneForgotten` needs the shape of
the whole plan (`IInv`). Its heart is that a verdict loses nothing: a probe asks for no property that
the groups of its wave (`Waves`), or the group of its search (`SearchesInv`), do not have, so that
when it is withdrawn and the group asked for again, all its properties are. That holds of every
subscription that is spoken of, live, waiting, or remembered (`Mentioned`), because a new key is one
that nothing remembers. `NoneTwice` needs `Once` on top of it. That a group asked for again meets
nothing that asks for the same is `Covered`: while every probe of a wave is still spoken of, a refused
group has no property that is not one of its probes' or dropped by the wave, and what withdraws the
probes takes back the drops. It rests on a key telling its subscription (`KeyTells`), on every timer
being one that can be withdrawn and none doubled (`Single`), and on each dropped name being blamed by
one wave or one search alone (`Blamed`): else one search's amnesty would free what another has found.
The exception, `overtaken`, is exactly the verdict that finds a probe's timer gone.

*The parts.* Each has an invariant in `PartsProofs`. `ListenerInv`: a client that is heard is no newer
than the last one made. `PricingInv`: a fetch remembers the newest fetched row (nothing but itself
could add one); a run that nothing overtook has the charge as it is. `SignInInv`: a token
just issued is known to the request it was issued to and to nobody else, a pod without the key has
only sign-outs under way, and beside a sign-out that is alone there is neither request nor attempt.
`ConsentInv`: what each request saw, built and sent, and that an accepted configuration is on record
unless a request still owes it. `SocketInv`: how promise, phase, caller and readyState go together; an
ending is the last thing said; a verdict is the frame's. Beside it `AnsweredInv`, for which
`KeptIsSaid` shows what `keepCodes` keeps of a body of any length, whatever the cap: all it says and
nothing else, unless it says more than the cap. `ClassedAsSaid` then reads the classes of errors.ts off
the body. (The proof found `AnswersRead` too strict as it first stood: a wrong current password is
told by its code alone, whatever the reason.)

*History.* `HistoryInv` says that the list is what has been read, down to the cursor (`ListReads`); that
a key which stayed is of a row that still belongs in it (`ListStays`); and of an answer on its way,
that it has all that stayed between its two cursors (`ListAsks`). It needs the rows to be in order by
their keys, so ids told apart, but of the instants nothing: a drive that is moved is another key. A
list that was carried over to another car is exempt, and stays so until the next page load. `PageIs` is
the query: in order, of rows behind the cursor, none left out of what it has reached, which is what
fetching one row more than the page is for. Its counterpart `PagesEnd` reads all the pages at one
moment: each has a row more than the ones before, so that there is a last. The totals follow by a
bijection from the closed entries of the pages to the rows of the window (`ListIsTotal`) and by the sum
over two sets with nothing in common (`KmOfBoth`). `SeriesSpans` is arithmetic: rounding up covers the
series with at most a cap of strides, and a stride of at least one in the drawn series never meets the
same index twice (`SampledSpans`, `DecimateSpans`).

*Induction.* The library's induction theorems take an operator, which the provers cannot instantiate.
`InductionFacts` states the same of a *set* of naturals (least member, and zero with every successor),
from well-founded minimality, and so a fold or a recursive function can be reasoned about after all,
at the price of showing first that the function exists. `Total`, `KeepCodes`, and in `Sessions` the events of a sample (`OnEvents`)
and the replay (`ApplyAll`), and in `History` the sum of the distances (`Km`) and the pages (`Pages`) are
done so. tlapm cannot look into `SortSeq`, which is why `SamplesAt` and `NewestFirst` sort by counting.

*Only model-checked.* All liveness (`TapedUnlessItStands`, `GapFilled`, `ShutdownEnds`,
`CredentialActedOn`, `SignOutHeard`, `BackoffEnds`, `SearchEnds`, `Converges`): TLAPS has neither fairness nor ENABLED
here. `CarTold`: the accumulator and the battery's days are
folds over sequences of records, which `InductionFacts` could reach as it does `ApplyAll`; that the energy
of a charge is honest also rests on what its samples may show, which is data of the instance. `PartsTypes`, the
types of all the parts at once, some of them those modules'.

## What is not modelled, and why

* Units, the tables of fields, configuration, metrics, SQL text, layout: data, without interleaving.
* Stateless web authentication, and migrations (run once, under an advisory lock).
* `giveUpPendingCharges`, `hasPendingCharges`, `pendingChargesSince`, `deriveIdles` and the cursor's
  reader: nothing calls them but tests.
* Protobuf decoding and the Parallax dump, which keeps no state.
* Across the modules: `Sessions` has no values, `Readings` no restarts, `Ingest` no fields. What
  connects them is the tape, which each has, and the order of the chain, which `Ingest` has.
* Several vehicles: a worker has one, every query names it, and `vehicle-guard.ts` refuses at startup
  an id that belongs to another car.

## Plan

Done: all modules of the inventory, and the theorems above. What remains are theorems:

1. `Battery` and `Readings`: their operators, one lemma each, and `CarTold`.
