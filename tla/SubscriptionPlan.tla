--------------------------- MODULE SubscriptionPlan ---------------------------
(***************************************************************************)
(* What the Rivian connector is subscribed to, and what it does when       *)
(* Rivian says no: apps/rivian/src/subscriptions.ts, and the parts of      *)
(* connector.ts that own the waiting and the saved list of dropped fields. *)
(*                                                                         *)
(* A property is a number, in the order the plan lists them.  A            *)
(* subscription is its key (`state:n' is n) and the properties it asks     *)
(* for, none for the seven that have nothing to bisect.  A key is only     *)
(* ever compared, so one that nothing remembers is given out again; an id  *)
(* is what tells two live subscriptions of one key apart.                  *)
(*                                                                         *)
(* Time is the order in which windows close and timers fire, with what the *)
(* lengths force: a probe waits 30 s, longer than the 20 s of a wave, and  *)
(* the 30 s of the canary outlast the probes of its wave but not the       *)
(* probes of those.                                                        *)
(***************************************************************************)
EXTENDS Integers, FiniteSets

CONSTANTS
  Names,        \* the properties of the catalogue, and those discovery can find
  Fixed,        \* keys of subscriptions with nothing to bisect
  GroupSize,    \* MAX_GROUP_SIZE
  MaxKey,       \* keys of state groups (bound)
  Scenarios     \* a catalogue, what is refused at first, and what happens at most how often

CanaryProperty == 1
Canary == -1

Events == {"break", "mend", "retire", "end", "renew", "drop", "find", "halt", "crash",
           "unread", "write"}

ASSUME ConstantsAssumption ==
  /\ Names \subseteq Nat \ {0} /\ IsFiniteSet(Names)
  /\ Fixed \subseteq {-2, -3, -4, -5, -6, -7, -8}
  /\ GroupSize \in Nat \ {0} /\ MaxKey \in Nat /\ Cardinality(Names) <= MaxKey
  /\ Scenarios \subseteq [catalogue : SUBSET Names, fixed : SUBSET Fixed, bad : SUBSET Names,
                          broken : BOOLEAN, limit : [Events -> Nat]]
  /\ \A s \in Scenarios :
       /\ CanaryProperty \in s.catalogue
       /\ \A n \in s.catalogue, f \in Names \ s.catalogue : n < f

VARIABLES
  \* Rivian
  scenario, spent,
  bad,          \* properties the schema no longer has
  broken,       \* the documents themselves are refused
  \* the plan
  running,      \* there is a plan
  known,        \* #properties
  dropped, unavailable,
  live,         \* #live, and whether the server has been heard from under the id
  wave, pending,
  searches,     \* the Lineage objects, each with the keys #lineages has for it
  faulted, exhausted,
  \* the connector
  socket,
  timers,       \* what waits to be subscribed; `held' when #waiting names the timer
  loaded, kept, carried,    \* #loaded, #dropped, #carried
  saved,        \* dropped_properties in the status row
  \* what happened
  owed,         \* names written to the row, and not taken back since
  overtaken     \* a wave was judged after one of its probes was subscribed

server == <<scenario, spent, bad, broken>>
search == <<wave, pending, searches, faulted, exhausted>>
lists == <<running, known, loaded, kept, carried, saved>>
vars == <<server, running, known, dropped, unavailable, live, search, socket, timers,
          loaded, kept, carried, saved, owed, overtaken>>

Catalogue == scenario.catalogue
Found == Names \ Catalogue
Keys == 0..MaxKey

Sub(key, props) == [key |-> key, props |-> props]

NoWave == [groups |-> {}, refused |-> {}, probes |-> {}, dropped |-> {}]

KeysOf(subs) == {s.key : s \in subs}

Spend(event) ==
  /\ spent[event] < scenario.limit[event]
  /\ spent' = [spent EXCEPT ![event] = @ + 1]

Init ==
  /\ scenario \in Scenarios /\ spent = [e \in Events |-> 0]
  /\ bad = scenario.bad /\ broken = scenario.broken
  /\ running = FALSE /\ known = {} /\ dropped = {} /\ unavailable = {} /\ live = {}
  /\ wave = NoWave /\ pending = NoWave /\ searches = {} /\ faulted = {} /\ exhausted = {}
  /\ socket = FALSE /\ timers = {}
  /\ loaded = FALSE /\ kept = {} /\ carried = {} /\ saved = {}
  /\ owed = {} /\ overtaken = FALSE

-----------------------------------------------------------------------------
(* Rivian.                                                                 *)

Refuses(sub) == sub.props # {} /\ (broken \/ sub.props \cap bad # {})

Break ==
  /\ ~broken /\ Spend("break") /\ broken' = TRUE
  /\ UNCHANGED <<scenario, bad, dropped, unavailable, live, search, lists, socket, timers,
                 owed, overtaken>>

Mend ==
  /\ broken /\ Spend("mend") /\ broken' = FALSE
  /\ UNCHANGED <<scenario, bad, dropped, unavailable, live, search, lists, socket, timers,
                 owed, overtaken>>

Retire ==
  /\ Spend("retire")
  /\ \E n \in Names \ {CanaryProperty} :
       bad' = IF n \in bad THEN bad \ {n} ELSE bad \cup {n}
  /\ UNCHANGED <<scenario, broken, dropped, unavailable, live, search, lists, socket, timers,
                 owed, overtaken>>

-----------------------------------------------------------------------------
(* Keys, groups and timers.                                                *)

\* #stateGroup numbers a group with a key that nothing remembers.
Remembered ==
  KeysOf({l.sub : l \in live}) \cup KeysOf({t.sub : t \in timers})
    \cup faulted \cup exhausted
    \cup (UNION {KeysOf(w.groups) \cup w.probes : w \in {wave, pending}})
    \cup (UNION {{s.group.key} \cup s.keys : s \in searches})

Unused == Keys \ Remembered

\* Bound: the keys do not run out.
KeysLeft(n) == Cardinality(Unused) >= n

\* The n-th key that is free, counting from 0.
Free(n) == CHOOSE k \in Unused : Cardinality({j \in Unused : j < k}) = n

Rank(n, names) == Cardinality({m \in names : m < n})

\* groupProperties: runs of at most GroupSize.
Groups(names) == {{n \in names : Rank(n, names) \div GroupSize = i} :
                    i \in {Rank(n, names) \div GroupSize : n \in names}}

\* The first half takes the odd one.
FirstHalf(props) == {n \in props : 2 * Rank(n, props) < Cardinality(props)}

\* A number that no record of `among' for this subscription has.
Twin(sub, among) ==
  CHOOSE i \in 0..Cardinality(among) :
    /\ \A r \in among : r.sub = sub => r.id # i
    /\ \A j \in 0..(i - 1) : \E r \in among : r.sub = sub /\ r.id = j

\* activate: live under a fresh id.
Activate(subs, among) ==
  among \cup {[sub |-> s, id |-> Twin(s, among), heard |-> FALSE] : s \in subs}

Forget(keys, among) ==
  {IF t.sub.key \in keys THEN [t EXCEPT !.held = FALSE] ELSE t : t \in among}

\* #resubscribeLater: #waiting names the last timer of a key.
Later(subs, why, among) ==
  Forget(KeysOf(subs), among)
    \cup {[sub |-> s, id |-> Twin(s, among), why |-> why, held |-> TRUE] : s \in subs}

\* Mutant: nothing is withdrawn.
CancelNone(keys, among) == among

\* #cancelWaiting: stops the timer that #waiting names.
Cancel(keys, among) == {t \in among : ~(t.sub.key \in keys /\ t.held)}

-----------------------------------------------------------------------------
(* A rejection (#onError with a validation failure, and SubscriptionPlan.  *)
(* rejected).                                                              *)

\* The server refuses what it has not been heard from under.
Refused(l) == socket /\ l \in live /\ ~l.heard /\ Refuses(l.sub)

\* Nothing to search: the canary outside its moment, or a group already judged.
RetryOnly(l) ==
  /\ Refused(l)
  /\ \/ l.sub.key \in faulted \cup exhausted /\ pending' = pending
     \/ l.sub.key = Canary /\ Canary \notin faulted /\ pending = NoWave /\ pending' = NoWave
  /\ live' = live \ {l}
  /\ timers' = Later({l.sub}, "backoff", timers)
  /\ UNCHANGED <<server, dropped, unavailable, wave, searches, faulted, exhausted, lists,
                 socket, owed, overtaken>>

\* Mutant: only the canary is retried.
CanaryOnly(groups) == Later({Sub(Canary, {CanaryProperty})}, "backoff", Cancel(pending.probes, timers))

\* The probes are withdrawn, and the groups and the canary retried.
Withdrawn(groups) ==
  Later(groups \cup {Sub(Canary, {CanaryProperty})}, "backoff", Cancel(pending.probes, timers))

\* #documentFault: the canary is refused within its window.
Verdict(l) ==
  /\ Refused(l) /\ l.sub.key = Canary /\ Canary \notin faulted /\ pending # NoWave
  /\ live' = live \ {l}
  /\ searches' = {[s EXCEPT !.keys = @ \ pending.probes] :
                    s \in {r \in searches : ~ r.keys \subseteq pending.probes}}
  /\ dropped' = dropped \ pending.dropped
  /\ owed' = owed \ pending.dropped
  /\ faulted' = faulted \cup KeysOf(pending.groups) \cup {Canary} \cup pending.probes
  /\ timers' = Withdrawn(pending.groups)
  /\ overtaken' = (overtaken \/ \E k \in pending.probes : k \notin KeysOf({t.sub : t \in timers}))
  /\ pending' = NoWave
  /\ UNCHANGED <<server, unavailable, wave, exhausted, lists, socket>>

\* A subscription with no properties is left alone for a day.
RefuseFixed(l) ==
  /\ socket /\ l \in live /\ ~l.heard /\ l.sub.props = {} /\ broken
  /\ live' = live \ {l}
  /\ unavailable' = unavailable \cup {l.sub.key}
  /\ UNCHANGED <<server, dropped, search, lists, socket, timers, owed, overtaken>>

\* The search this rejection belongs to, if one is under way.
SearchOf(key) == {s \in searches : key \in s.keys}

\* The rejection is to be searched, not only retried.
Searched(l) == Refused(l) /\ l.sub.key \notin faulted \cup exhausted \cup {Canary}

\* waveFor, and what rejected does with the result: the last group asks for the canary.
InWave(l, probes, names) ==
  LET with == [wave EXCEPT !.refused = @ \cup {l.sub.key}, !.probes = @ \cup probes,
                           !.dropped = @ \cup names]
      complete == with.refused = KeysOf(wave.groups)
  IN  IF l.sub \notin wave.groups THEN live' = live \ {l} /\ UNCHANGED <<wave, pending>>
      ELSE /\ wave' = IF complete THEN NoWave ELSE with
           /\ pending' = IF complete THEN with ELSE pending
           /\ live' = IF complete THEN Activate({Sub(Canary, {CanaryProperty})}, live \ {l})
                      ELSE live \ {l}

\* #search: a group is halved, and its halves are probed after 30 s.
Split(l) ==
  LET first == Sub(Free(0), FirstHalf(l.sub.props))
      second == Sub(Free(1), l.sub.props \ FirstHalf(l.sub.props))
      probes == {first.key, second.key}
  IN  /\ Searched(l) /\ Cardinality(l.sub.props) > 1 /\ KeysLeft(2)
      /\ searches' = IF SearchOf(l.sub.key) = {}
                     THEN searches \cup {[group |-> l.sub, keys |-> probes, rejected |-> {}]}
                     ELSE {IF l.sub.key \in s.keys THEN [s EXCEPT !.keys = @ \cup probes] ELSE s :
                             s \in searches}
      /\ timers' = Later({first, second}, "bisect", timers)
      /\ InWave(l, probes, {})
      /\ UNCHANGED <<server, dropped, unavailable, faulted, exhausted, lists, socket, owed,
                     overtaken>>

\* The group's every property but those of this rejection has been rejected alone.
Completes(l, s) == s.rejected \cup l.sub.props = s.group.props

\* #search: a property refused alone is dropped.
Drop(l) ==
  /\ Searched(l) /\ Cardinality(l.sub.props) = 1
  /\ \A s \in SearchOf(l.sub.key) : ~Completes(l, s)
  /\ searches' = {IF l.sub.key \in s.keys THEN [s EXCEPT !.rejected = @ \cup l.sub.props] ELSE s :
                    s \in searches}
  /\ dropped' = dropped \cup l.sub.props
  /\ InWave(l, {}, l.sub.props)
  /\ UNCHANGED <<server, unavailable, faulted, exhausted, lists, socket, timers, owed, overtaken>>

\* #search: every property was refused, so none is to blame.
Exhaust(l) ==
  /\ Searched(l) /\ Cardinality(l.sub.props) = 1
  /\ \E s \in SearchOf(l.sub.key) :
       /\ Completes(l, s)
       /\ searches' = searches \ {s}
       /\ dropped' = dropped \ s.rejected /\ owed' = owed \ s.rejected
       /\ exhausted' = exhausted \cup {s.group.key}
       /\ timers' = Later({s.group}, "backoff", timers)
  /\ live' = live \ {l}
  /\ UNCHANGED <<server, unavailable, wave, pending, faulted, lists, socket, overtaken>>

-----------------------------------------------------------------------------
(* The rest of the socket's life.                                          *)

\* Mutant: a frame proves nothing of the groups judged already.
StillFaulted == faulted

\* documentAccepted: what was judged is searched when it is refused again.
Accepted == {}

\* #onNext: a state frame shows that the documents are fine (documentAccepted).
Frame(l) ==
  /\ socket /\ l \in live /\ (l.heard \/ ~Refuses(l.sub))
  /\ live' = (live \ {l}) \cup {[l EXCEPT !.heard = TRUE]}
  /\ IF l.sub.props = {} THEN UNCHANGED <<wave, pending, faulted>>
     ELSE wave' = NoWave /\ pending' = NoWave /\ faulted' = Accepted
  /\ UNCHANGED <<server, dropped, unavailable, searches, exhausted, lists, socket, timers,
                 owed, overtaken>>

\* #onComplete, and #onError with anything else.
Ended(l) ==
  /\ socket /\ l \in live /\ Spend("end")
  /\ live' = live \ {l}
  /\ timers' = Later({l.sub}, "backoff", timers)
  /\ UNCHANGED <<scenario, bad, broken, dropped, unavailable, search, lists, socket, owed,
                 overtaken>>

\* renewAll: every live subscription under a fresh id.
RenewAll ==
  /\ socket /\ Spend("renew")
  /\ live' = {[l EXCEPT !.heard = FALSE] : l \in live}
  /\ UNCHANGED <<scenario, bad, broken, dropped, unavailable, search, lists, socket, timers,
                 owed, overtaken>>

\* A probe of a probe of the wave waits longer than the canary's window.
Outlasts(t) ==
  /\ t.why = "bisect" /\ t.sub.key \notin pending.probes
  /\ \E s \in SearchOf(t.sub.key) : s.group \in pending.groups

\* The timer of #resubscribeLater.
Fire(t) ==
  /\ t \in timers
  /\ timers' = Forget({t.sub.key}, timers \ {t})
  /\ live' = Activate({t.sub}, live)
  /\ wave' = IF t.sub.key \in wave.probes THEN NoWave ELSE wave
  /\ pending' = IF Outlasts(t) THEN NoWave ELSE pending
  /\ UNCHANGED <<server, dropped, unavailable, searches, faulted, exhausted, lists, socket,
                 owed, overtaken>>

\* 20 s since the first rejection of the wave.
WaveLapses ==
  /\ wave.refused # {} /\ wave' = NoWave
  /\ UNCHANGED <<server, dropped, unavailable, live, pending, searches, faulted, exhausted,
                 lists, socket, timers, owed, overtaken>>

\* More than 30 s since the wave was complete: its probes have been subscribed by then.
CanaryLapses ==
  /\ pending # NoWave
  /\ pending.probes \cap KeysOf({t.sub : t \in timers}) = {}
  /\ pending' = NoWave
  /\ UNCHANGED <<server, dropped, unavailable, live, wave, searches, faulted, exhausted,
                 lists, socket, timers, owed, overtaken>>

\* LINEAGE_WINDOW_MS: five minutes without a rejection, longer than a probe waits.
SearchLapses ==
  /\ \E s \in searches :
       /\ \A t \in timers : t.why = "bisect" => t.sub.key \notin s.keys
       /\ searches' = searches \ {s}
  /\ UNCHANGED <<server, dropped, unavailable, live, wave, pending, faulted, exhausted,
                 lists, socket, timers, owed, overtaken>>

\* A name's day is over long after the search that dropped it.
Due(n) ==
  /\ n \in dropped /\ n \notin wave.dropped \cup pending.dropped
  /\ \A s \in searches : n \notin s.rejected

\* #reprobe: a dropped property is tried again, alone.
Reprobe(n) ==
  /\ socket /\ Due(n) /\ KeysLeft(1)
  /\ dropped' = dropped \ {n} /\ owed' = owed \ {n}
  /\ live' = Activate({Sub(Free(0), {n})}, live)
  /\ UNCHANGED <<server, unavailable, search, lists, socket, timers, overtaken>>

ReprobeFixed(k) ==
  /\ socket /\ k \in unavailable
  /\ unavailable' = unavailable \ {k}
  /\ live' = Activate({Sub(k, {})}, live)
  /\ UNCHANGED <<server, dropped, search, lists, socket, timers, owed, overtaken>>

-----------------------------------------------------------------------------
(* The lifecycle, and the saved list.                                      *)

\* addProperties, and #applySchema that activates what it answers.
Discover ==
  /\ running /\ Spend("find") /\ ~ Found \subseteq known /\ KeysLeft(Cardinality(Found \ known))
  /\ known' = known \cup Found
  /\ LET groups == {Sub(Free(Rank(CHOOSE n \in g : TRUE, Found \ known) \div GroupSize), g) :
                      g \in Groups(Found \ known)}
     IN  live' = IF socket THEN Activate(groups, live) ELSE live
  /\ UNCHANGED <<scenario, bad, broken, running, dropped, unavailable, search, socket, timers,
                 loaded, kept, carried, saved, owed, overtaken>>

\* #connect on the acknowledgement, and initial(): it starts over.
Open ==
  LET names == known \ dropped
      groups == {Sub(Rank(CHOOSE n \in g : TRUE, names) \div GroupSize, g) : g \in Groups(names)}
      fixed == {Sub(k, {}) : k \in scenario.fixed \ unavailable}
  IN  /\ running /\ ~socket
      /\ socket' = TRUE
      /\ live' = Activate(groups \cup fixed, {})
      /\ wave' = IF Cardinality(groups) >= 2 THEN [NoWave EXCEPT !.groups = groups] ELSE NoWave
      /\ pending' = NoWave /\ searches' = {} /\ faulted' = {} /\ exhausted' = {}
      /\ UNCHANGED <<server, dropped, unavailable, lists, timers, owed, overtaken>>

\* #dropConnection.  What initial() resets is reset here: nothing looks at it between.
Disconnected ==
  /\ socket' = FALSE /\ live' = {} /\ timers' = {}
  /\ wave' = NoWave /\ pending' = NoWave /\ searches' = {} /\ faulted' = {} /\ exhausted' = {}
  /\ overtaken' = FALSE

SocketEnds ==
  /\ socket /\ Spend("drop") /\ Disconnected
  /\ UNCHANGED <<scenario, bad, broken, dropped, unavailable, lists, owed>>

\* #droppedForRow
Row == carried \cup (IF running THEN dropped ELSE kept)

\* Mutant: only the names the catalogue and discovery know.
Listed == Catalogue \cup known

\* A dropped name is a known name, though the catalogue and discovery do not mention it.
Known == Catalogue \cup known \cup kept

\* #newPlan: from the catalogue and the list as far as it is known.
StartPlan ==
  /\ ~running
  /\ IF loaded THEN spent' = spent ELSE Spend("unread")
  /\ running' = TRUE
  /\ known' = Known
  /\ dropped' = kept /\ unavailable' = {} /\ carried' = {}
  /\ UNCHANGED <<scenario, bad, broken, live, search, socket, timers, loaded, kept, saved, owed,
                 overtaken>>

\* Mutant: a list read while a plan runs is thrown away.
ReadTooLate == carried

\* A list read while a plan runs is carried beside the plan's own.
ReadLate == saved

\* #loadSaved
LoadSaved ==
  /\ ~loaded /\ loaded' = TRUE
  /\ IF running THEN carried' = ReadLate /\ kept' = kept
     ELSE kept' = saved \cup kept /\ carried' = carried
  /\ UNCHANGED <<server, running, known, dropped, unavailable, live, search, socket, timers,
                 saved, owed, overtaken>>

\* #writeStatus, as far as the list goes: any change of state or minute of frames asks for one.
WriteStatus ==
  /\ loaded /\ Spend("write")
  /\ saved' = Row
  /\ owed' = owed \cup (IF running THEN dropped ELSE kept)
  /\ UNCHANGED <<scenario, bad, broken, running, known, dropped, unavailable, live, search,
                 socket, timers, loaded, kept, carried, overtaken>>

\* #halt: the list is kept for the next plan.
Halt ==
  /\ running /\ Spend("halt") /\ Disconnected
  /\ running' = FALSE
  /\ kept' = Row /\ carried' = {} /\ dropped' = {} /\ unavailable' = {}
  /\ UNCHANGED <<scenario, bad, broken, known, loaded, saved, owed>>

\* The process ends, and another starts.
Crash ==
  /\ Spend("crash") /\ Disconnected
  /\ running' = FALSE /\ loaded' = FALSE
  /\ known' = {} /\ kept' = {} /\ carried' = {} /\ dropped' = {} /\ unavailable' = {}
  /\ UNCHANGED <<scenario, bad, broken, saved, owed>>

-----------------------------------------------------------------------------

\* What the server answers to the subscription with this key.
Answer(k) ==
  \E l \in live : l.sub.key = k /\ (\/ RetryOnly(l) \/ Verdict(l) \/ RefuseFixed(l) \/ Split(l)
                                    \/ Drop(l) \/ Exhaust(l) \/ Frame(l))

Fires(k) == \E t \in timers : t.sub.key = k /\ Fire(t)

AllKeys == Keys \cup {Canary} \cup Fixed

Next ==
  \/ Break \/ Mend \/ Retire
  \/ \E k \in AllKeys : Answer(k) \/ Fires(k)
  \/ \E l \in live : Ended(l)
  \/ RenewAll \/ WaveLapses \/ CanaryLapses \/ SearchLapses
  \/ \E n \in Names : Reprobe(n)
  \/ \E k \in Fixed : ReprobeFixed(k)
  \/ Discover \/ Open \/ SocketEnds
  \/ StartPlan \/ LoadSaved \/ WriteStatus \/ Halt \/ Crash

\* The server answers, timers fire, the connector comes back, and a day passes.
Fairness ==
  /\ \A k \in AllKeys : WF_vars(Answer(k)) /\ WF_vars(Fires(k))
  /\ \A n \in Names : WF_vars(Reprobe(n))
  /\ WF_vars(Open) /\ WF_vars(StartPlan) /\ WF_vars(LoadSaved) /\ WF_vars(SearchLapses)

Spec == Init /\ [][Next]_vars /\ Fairness

-----------------------------------------------------------------------------
(* Properties.                                                             *)

Asked == {l.sub : l \in live} \cup {t.sub : t \in timers}

\* The variables have the values the code gives them.
TypeOK ==
  /\ dropped \subseteq known /\ known \subseteq Names /\ kept \cup carried \cup saved \subseteq Names
  /\ \A s \in Asked : s.key \in AllKeys /\ s.props \subseteq known
  /\ \A s \in Asked : s.props = {} <=> s.key \in Fixed
  /\ faulted \subseteq Keys \cup {Canary} /\ exhausted \subseteq Keys
  /\ \A s \in searches : s.rejected \subseteq s.group.props
  /\ \A w \in {wave, pending} : w.refused \subseteq KeysOf(w.groups)

\* The plan never forgets a field (subscriptions.ts:523-571, connector.ts:979): while a
\* socket is up, every property is subscribed, waiting to be, or dropped with a day on
\* which it is tried again, whatever was refused, withdrawn, ended or judged meanwhile.
NoneForgotten ==
  socket => \A n \in known : n \in dropped \/ \E s \in Asked : n \in s.props /\ s.key # Canary

\* No field is asked for twice (subscriptions.ts:534-535, connector.ts:979): a withdrawn
\* probe and the group it came from are never both wanted, and no timer is left behind
\* that subscribes a group again.  Not so once a wave is judged after one of its
\* probes has been subscribed, which can no longer be withdrawn.
NoneTwice ==
  overtaken \/
    /\ \A a, b \in Asked : a # b /\ Canary \notin {a.key, b.key} => a.props \cap b.props = {}
    /\ \A s \in Asked : s.key # Canary =>
         Cardinality({l \in live : l.sub = s}) + Cardinality({t \in timers : t.sub = s}) = 1
    /\ \A s \in Asked : s.key # Canary => s.props \cap dropped = {}

\* What a search has found and the row has recorded is not lost from the row
\* (connector.ts:1279-1285, 1324-1326), though the list be unread, the plan replaced or the
\* process restarted, until the plan itself takes the name back.
ListKept == owed \subseteq saved

\* Subscribed, in a selection the server has taken or will take.
Flows(n) ==
  \E l \in live : /\ n \in l.sub.props /\ l.sub.key # Canary
                  /\ l.heard \/ l.sub.props \cap bad = {}

\* Its group has been judged bad in every property, and is only retried whole.
InExhausted(n) == \E s \in Asked : n \in s.props /\ s.key \in exhausted /\ s.props \cap bad # {}

\* A search ends (subscriptions.ts:28-35): once the documents are fine for good, every
\* field Rivian still has is subscribed, beside no field that silences it, unless its
\* group was judged bad as a whole, which only the next socket forgives.
SearchEnds ==
  <>[](broken \/ \A n \in known \ bad : Flows(n) \/ InExhausted(n))

=============================================================================
