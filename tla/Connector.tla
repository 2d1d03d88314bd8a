------------------------------ MODULE Connector ------------------------------
(***************************************************************************)
(* The Rivian connector's lifecycle (apps/rivian/src/connector.ts): one    *)
(* session with Rivian, begun and ended by what the database says of the   *)
(* credential, retried on one backoff, and reported in one status row.     *)
(*                                                                         *)
(* Everything it does is a continuation of some await, and any of them can *)
(* be overtaken: a task here is a call that has not answered yet, with the *)
(* epoch it was made in.  The process can be stopped or crash at any step, *)
(* and is then started again.                                              *)
(*                                                                         *)
(* Time is counted in the backoff's floor (30 s), and kept as what is left *)
(* of each wait.  Abstracted: the subscription plan, the frames and their  *)
(* road to the broker (module Publisher), the slow HTTP tasks, which never *)
(* change the state, error texts, and the 15 s between polls.              *)
(***************************************************************************)
EXTENDS Integers, FiniteSets

CONSTANTS
  MaxSignIns,   \* times the user signs in (bound)
  Cap,          \* the longest wait, in floors
  MaxFailures,  \* Rivian calls and sockets that fail (bound)
  MaxBlips,     \* database calls that fail, and rows that do not open (bound)
  MaxEnds       \* stops and crashes of the process (bound)

SignIn == 1..MaxSignIns
None == 0
Undecided == -1   \* credentialMs = undefined: the next successful poll decides

ASSUME ConstantsAssumption ==
  /\ MaxSignIns \in Nat /\ Cap \in Nat \ {0}
  /\ MaxFailures \in Nat /\ MaxBlips \in Nat /\ MaxEnds \in Nat

VARIABLES
  \* the database
  row,        \* the credential: the sign-in that wrote it, or None
  signIns,    \* sign-ins so far
  unreadable, \* those whose sealed credential does not open
  saved,      \* the status row
  \* the lifecycle
  state,
  stamp,      \* #credentialMs
  token,      \* the sign-in whose session token is held, or None
  epoch,
  stopped,
  poll,       \* the answer to the poll that is out, if one is
  tasks,      \* calls that have not answered
  timers,     \* session timers: what is left of each, and what it resumes
  socket,     \* a socket is up (and acknowledged)
  flowing,    \* it has sent a frame
  \* the backoff
  attempt,
  reconnect,  \* what is left until #reconnectAt
  \* the status writer
  until,      \* what is left of #backoffUntil
  loaded, dirty,
  writer,     \* "idle", "loading" the saved row, or "writing"
  outgoing,   \* the row being written, if one is
  late,       \* rows whose write was given up on, and may still land
  \* what happened
  failures, blips, ends,
  owed,       \* what is left of the waits this process's failures asked for
  recorded,   \* what is left of the waits the status row has ever shown
  dead,       \* stamps whose session Rivian refused (in this process)
  misled,     \* a stale task cleared the stamp
  behind      \* why the saved row may be old: "no", "failed", "overtaken"

db == <<row, signIns, unreadable, saved>>
session == <<token, epoch, timers, socket, flowing>>
shown == <<state, until, dirty>>
clock == <<attempt, reconnect, owed, recorded>>
ghost == <<owed, recorded>>
writing == <<loaded, writer, outgoing, late, behind>>
past == <<failures, blips, ends, dead, misled>>
vars == <<row, signIns, unreadable, saved, state, stamp, token, epoch, stopped, poll, tasks,
          timers, socket, flowing, attempt, reconnect, until, loaded, dirty, writer,
          outgoing, late, failures, blips, ends, owed, recorded, dead, misled, behind>>

Resting == {"signed_out", "unauthenticated", "credential_invalid"}
Active == {"starting", "finding_vehicle", "waiting_for_vehicle", "connecting",
           "subscribed", "backing_off"}
State == Resting \cup Active

RivianCall == {"csrf", "info", "csrf2", "info2", "open"}
Op == {"status", "credential", "unseal"} \cup RivianCall
Wait == 0..Cap
Task == [op : Op, epoch : Nat, got : SignIn \cup {None}]
Timer == [left : Wait, then : {"acquire", "connect", "look"}]
StatusRow == [state : State, until : Wait]

Larger(a, b) == IF a < b THEN b ELSE a
Smaller(a, b) == IF a < b THEN a ELSE b

\* Backoff.next: the floor doubled for every attempt, up to a floor of jitter,
\* capped.
Waits(a) == {Smaller(Cap, 2^a + jitter) : jitter \in {0, 1}}

\* Attempts past the one that reaches the cap make no difference.
NextAttempt(a) == IF 2^a < Cap THEN a + 1 ELSE a

Row == [state |-> state, until |-> until]

Init ==
  /\ row = None /\ signIns = 0 /\ unreadable = {}
  /\ saved = [state |-> "signed_out", until |-> 0]
  /\ state = "signed_out" /\ stamp = Undecided /\ token = None
  /\ epoch = 0 /\ stopped = FALSE
  /\ poll = {} /\ tasks = {} /\ timers = {}
  /\ socket = FALSE /\ flowing = FALSE
  /\ attempt = 0 /\ reconnect = 0
  /\ until = 0 /\ loaded = FALSE /\ dirty = FALSE
  /\ writer = "idle" /\ outgoing = {} /\ late = {}
  /\ failures = 0 /\ blips = 0 /\ ends = 0
  /\ owed = 0 /\ recorded = 0 /\ dead = {} /\ misled = FALSE /\ behind = "failed"

Failure == failures < MaxFailures /\ failures' = failures + 1
Blip == blips < MaxBlips /\ blips' = blips + 1
End == ends < MaxEnds /\ ends' = ends + 1

-----------------------------------------------------------------------------
(* The user, at the web page.                                              *)

SignsIn ==
  /\ signIns < MaxSignIns
  /\ signIns' = signIns + 1
  /\ row' = signIns + 1
  /\ \/ UNCHANGED <<unreadable, blips>>
     \/ Blip /\ unreadable' = unreadable \cup {signIns + 1}
  /\ UNCHANGED <<saved, shown, stamp, stopped, poll, tasks, session, clock, writing,
                 failures, ends, dead, misled>>

SignsOut ==
  /\ row # None
  /\ row' = None
  /\ UNCHANGED <<signIns, unreadable, saved, shown, stamp, stopped, poll, tasks, session,
                 clock, writing, past>>

-----------------------------------------------------------------------------
(* The pieces of a step.                                                   *)

Alive(t) == t.epoch = epoch /\ ~stopped

Call(op, e, got) == [op |-> op, epoch |-> e, got |-> got]

\* A task's answer: it is out no more, and the next call of its lifecycle is.
Answer(t, next) == tasks' = (tasks \ {t}) \cup next

\* Mutant: the state changes, and nobody writes it down.
EnterQuietly(s, left) ==
  /\ state' = s
  /\ until' = IF s = "backing_off" THEN left ELSE 0
  /\ UNCHANGED dirty

\* #enter: a state, and a status write asked for.
Enter(s, left) ==
  /\ state' = s
  /\ until' = IF s = "backing_off" THEN left ELSE 0
  /\ dirty' = TRUE

\* Mutant: the timers of a lifecycle outlive it.
HaltLeavesTimers ==
  /\ epoch' = epoch + 1
  /\ UNCHANGED timers
  /\ socket' = FALSE /\ flowing' = FALSE
  /\ token' = None

\* #halt and #dropConnection: nothing of the lifecycle acts again.
Halt ==
  /\ epoch' = epoch + 1
  /\ timers' = {}
  /\ socket' = FALSE /\ flowing' = FALSE
  /\ token' = None

\* Mutant: a new lifecycle starts with a clean slate.
Forgiven ==
  /\ attempt' = 0 /\ reconnect' = 0
  /\ UNCHANGED <<owed, recorded>>

\* #halt keeps the backoff.
Kept == UNCHANGED clock

\* Mutant: the wait is announced, and no timer ends it.
BackOffUntimed(then) ==
  /\ \E w \in Waits(attempt) :
       /\ attempt' = NextAttempt(attempt)
       /\ reconnect' = Larger(reconnect, w)
       /\ owed' = Larger(owed, w)
       /\ Enter("backing_off", w)
  /\ UNCHANGED <<token, epoch, timers, recorded>>

\* #backOff: the next wait, then resume.
BackOff(then) ==
  /\ \E w \in Waits(attempt) :
       /\ attempt' = NextAttempt(attempt)
       /\ reconnect' = Larger(reconnect, w)
       /\ owed' = Larger(owed, w)
       /\ Enter("backing_off", w)
       /\ timers' = timers \cup {[left |-> w, then |-> then]}
  /\ UNCHANGED <<token, epoch, recorded>>

\* Mutant: a dead session is a failure like any other.
DeadBacksOff ==
  /\ BackOff("acquire")
  /\ socket' = FALSE /\ flowing' = FALSE
  /\ dead' = dead \cup {stamp}

\* #unauthenticated: final until the credential changes.
Unauthenticated ==
  /\ Halt /\ Kept
  /\ Enter("unauthenticated", 0)
  /\ dead' = dead \cup {stamp}

-----------------------------------------------------------------------------
(* The credential poll, and what it begins and ends.                       *)

PollReads ==
  /\ ~stopped /\ poll = {}
  /\ poll' = {row}
  /\ UNCHANGED <<db, shown, stamp, stopped, tasks, session, clock, writing, past>>

\* A failed poll changes nothing.
PollFails ==
  /\ poll # {}
  /\ Blip
  /\ poll' = {}
  /\ UNCHANGED <<db, shown, stamp, stopped, tasks, session, clock, writing,
                 failures, ends, dead, misled>>

\* #onStamp: nothing new, or too late.
PollSame ==
  /\ poll # {}
  /\ stopped \/ stamp \in poll
  /\ poll' = {}
  /\ UNCHANGED <<db, shown, stamp, stopped, tasks, session, clock, writing, past>>

\* Mutant: the state says signed out, and the session goes on.
SignedOutInName ==
  /\ stamp' = None
  /\ UNCHANGED session /\ Kept
  /\ Enter("signed_out", 0)

\* A successful query that found no row is the user signing out.
SignedOut ==
  /\ stamp' = None
  /\ Halt /\ Kept
  /\ Enter("signed_out", 0)

PollSignedOut ==
  /\ ~stopped
  /\ None \in poll /\ stamp # None
  /\ poll' = {}
  /\ SignedOut
  /\ UNCHANGED <<db, stopped, tasks, writing, past>>

\* #onStamp: a stamp other than the one acted on starts over (#begin).
PollChanged ==
  /\ ~stopped
  /\ \E v \in poll \ {None, stamp} : stamp' = v
  /\ poll' = {}
  /\ Halt /\ Kept
  /\ Enter("starting", 0)
  /\ tasks' = tasks \cup {Call("status", epoch + 1, None)}
  /\ UNCHANGED <<db, stopped, writing, past>>

-----------------------------------------------------------------------------
(* #starting: the saved status, the credential, the key.                   *)

\* The saved backoff, read once, and only ever moving #reconnectAt on.
Load ==
  /\ loaded' = TRUE
  /\ reconnect' = IF loaded THEN reconnect ELSE Larger(reconnect, saved.until)

\* Read or not, the credential is read next.
StatusRead ==
  \E t \in tasks :
    /\ t.op = "status"
    /\ \/ Load /\ UNCHANGED blips
       \/ ~loaded /\ Blip /\ UNCHANGED <<loaded, reconnect>>
    /\ Answer(t, IF Alive(t) THEN {Call("credential", epoch, row)} ELSE {})
    /\ UNCHANGED <<db, shown, stamp, stopped, poll, session, attempt, ghost,
                   writer, outgoing, late, behind, failures, ends, dead, misled>>

CredentialRead ==
  \E t \in tasks :
    /\ t.op = "credential" /\ Alive(t) /\ t.got # None
    /\ Answer(t, {Call("unseal", epoch, t.got)})
    /\ UNCHANGED <<db, shown, stamp, stopped, poll, session, clock, writing, past>>

CredentialGone ==
  \E t \in tasks :
    /\ t.op = "credential" /\ Alive(t) /\ t.got = None
    /\ SignedOut
    /\ Answer(t, {})
    /\ UNCHANGED <<db, stopped, poll, writing, past>>

\* Mutant: the stamp is not cleared, and the next poll sees nothing new.
CredentialFailsForGood ==
  \E t \in tasks :
    /\ t.op = "credential"
    /\ Blip
    /\ Answer(t, {})
    /\ UNCHANGED <<db, shown, stamp, stopped, poll, session, clock, writing, failures,
                   ends, dead, misled>>

\* Left to the next poll.  The catch does not look at the epoch: a lifecycle that
\* has ended clears the stamp of the one that replaced it.
CredentialFails ==
  \E t \in tasks :
    /\ t.op = "credential"
    /\ Blip
    /\ stamp' = Undecided
    /\ misled' = (misled \/ (t.epoch # epoch /\ ~stopped))
    /\ Answer(t, {})
    /\ UNCHANGED <<db, shown, stopped, poll, session, clock, writing, failures, ends, dead>>

\* A credential that does not open waits for a new one.
Unopened ==
  \E t \in tasks :
    /\ t.op = "unseal" /\ Alive(t) /\ t.got \in unreadable
    /\ Enter("credential_invalid", 0)
    /\ Answer(t, {})
    /\ UNCHANGED <<db, stamp, stopped, poll, session, clock, writing, past>>

\* Mutant: the clock the failures share is not consulted.
NothingOwed == FALSE

\* #acquire, in a lifecycle that starts inside a backoff.
MustWait == reconnect > 0

\* It is waited out.
WaitOut(t) ==
  /\ Enter("backing_off", reconnect)
  /\ timers' = timers \cup {[left |-> reconnect, then |-> "acquire"]}
  /\ Answer(t, {})

\* #acquire: the first call to Rivian.
CallCsrf(rest) ==
  /\ IF state # "starting" THEN Enter("starting", 0) ELSE UNCHANGED shown
  /\ tasks' = rest \cup {Call("csrf", epoch, None)}

Unsealed ==
  \E t \in tasks :
    /\ t.op = "unseal" /\ Alive(t) /\ t.got \notin unreadable
    /\ token' = t.got
    /\ IF MustWait THEN WaitOut(t) ELSE CallCsrf(tasks \ {t}) /\ UNCHANGED timers
    /\ UNCHANGED <<db, stamp, stopped, poll, epoch, socket, flowing, clock, writing, past>>

\* A stale answer does not act: the epoch is checked after every await.
Superseded ==
  \E t \in tasks :
    /\ ~Alive(t) /\ t.op # "status"
    /\ t.op = "unseal" => t.got \in unreadable
    /\ Answer(t, {})
    /\ UNCHANGED <<db, shown, stamp, stopped, poll, session, clock, writing, past>>

\* But the unsealed token is assigned before it is checked: what a lifecycle that
\* has ended unsealed is put back, over what #halt or a later lifecycle left.
UnsealedLate ==
  \E t \in tasks :
    /\ ~Alive(t) /\ t.op = "unseal" /\ t.got \notin unreadable
    /\ token' = t.got
    /\ Answer(t, {})
    /\ UNCHANGED <<db, shown, stamp, stopped, poll, epoch, timers, socket, flowing, clock,
                   writing, past>>

-----------------------------------------------------------------------------
(* The vehicle and the socket.                                             *)

\* #findVehicle, which asks again hourly without leaving waiting_for_vehicle.
AskVehicle(rest) ==
  /\ IF state # "waiting_for_vehicle" THEN Enter("finding_vehicle", 0) ELSE UNCHANGED shown
  /\ tasks' = rest \cup {Call("info", epoch, None)}

\* #connect.
Connect(rest) ==
  /\ Enter("connecting", 0)
  /\ tasks' = rest \cup {Call("open", epoch, None)}

CsrfMade ==
  \E t \in tasks :
    /\ t.op = "csrf" /\ Alive(t)
    /\ AskVehicle(tasks \ {t})
    /\ UNCHANGED <<db, stamp, stopped, poll, session, clock, writing, past>>

\* #authed: refused once, a fresh app session is made and the call repeated.
RefusedOnce ==
  \E t \in tasks :
    /\ t.op = "info" /\ Alive(t)
    /\ Answer(t, {Call("csrf2", epoch, None)})
    /\ UNCHANGED <<db, shown, stamp, stopped, poll, session, clock, writing, past>>

CsrfRemade ==
  \E t \in tasks :
    /\ t.op = "csrf2" /\ Alive(t)
    /\ Answer(t, {Call("info2", epoch, None)})
    /\ UNCHANGED <<db, shown, stamp, stopped, poll, session, clock, writing, past>>

\* Refused twice: the session is dead.
RefusedTwice ==
  \E t \in tasks :
    /\ t.op = "info2" /\ Alive(t)
    /\ Unauthenticated
    /\ Answer(t, {})
    /\ UNCHANGED <<db, stopped, stamp, poll, writing, failures, blips, ends, misled>>

\* Any other failure of a call before the socket: back off, and start over.
HttpFails ==
  \E t \in tasks :
    /\ t.op \in RivianCall \ {"open"} /\ Alive(t)
    /\ Failure
    /\ BackOff("acquire")
    /\ Answer(t, {})
    /\ UNCHANGED <<db, stamp, stopped, poll, socket, flowing, writing, blips, ends, dead, misled>>

VehicleFound ==
  \E t \in tasks :
    /\ t.op \in {"info", "info2"} /\ Alive(t)
    /\ Connect(tasks \ {t})
    /\ UNCHANGED <<db, stamp, stopped, poll, session, clock, writing, past>>

\* Not on the account: looked for again in an hour (here, at any time).
VehicleMissing ==
  \E t \in tasks :
    /\ t.op \in {"info", "info2"} /\ Alive(t)
    /\ IF state # "waiting_for_vehicle" THEN Enter("waiting_for_vehicle", 0)
                                        ELSE UNCHANGED shown
    /\ timers' = timers \cup {[left |-> 0, then |-> "look"]}
    /\ Answer(t, {})
    /\ UNCHANGED <<db, stamp, stopped, poll, token, epoch, socket, flowing, clock, writing,
                   past>>

Opened ==
  \E t \in tasks :
    /\ t.op = "open" /\ Alive(t)
    /\ socket' = TRUE /\ flowing' = FALSE
    /\ Enter("subscribed", 0)
    /\ Answer(t, {})
    /\ UNCHANGED <<db, stamp, stopped, poll, token, epoch, timers, clock, writing, past>>

\* #socketEnded, of an open that failed, or a socket that closed before #connect
\* saw it: refused as unauthenticated, or a failure like any other.
OpenFails ==
  \E t \in tasks :
    /\ t.op = "open" /\ Alive(t)
    /\ Answer(t, {})
    /\ \/ Unauthenticated /\ UNCHANGED failures
       \/ Failure /\ BackOff("connect") /\ UNCHANGED <<socket, flowing, dead>>
    /\ UNCHANGED <<db, stamp, stopped, poll, writing, blips, ends, misled>>

\* The first frame after a connect is what proves the connection works.
FirstFrame ==
  /\ socket /\ ~flowing
  /\ flowing' = TRUE
  /\ attempt' = 0
  /\ dirty' \in {dirty, TRUE}   \* last_frame_at is written once a minute
  /\ UNCHANGED <<db, state, until, stamp, stopped, poll, tasks, token, epoch, timers, socket,
                 reconnect, ghost, writing, past>>

\* #socketEnded, of a live socket.
SocketCloses ==
  /\ socket
  /\ Failure
  /\ socket' = FALSE /\ flowing' = FALSE
  /\ BackOff("connect")
  /\ UNCHANGED <<db, stamp, stopped, poll, tasks, writing, blips, ends, dead, misled>>

\* The socket, or one subscription on it, is refused as unauthenticated.
SessionRefused ==
  /\ socket
  /\ Unauthenticated
  /\ UNCHANGED <<db, stamp, stopped, poll, tasks, writing, failures, blips, ends, misled>>

TimerFires ==
  \E t \in timers :
    /\ t.left = 0
    /\ timers' = timers \ {t}
    /\ CASE t.then = "acquire" -> CallCsrf(tasks)
         [] t.then = "connect" -> Connect(tasks)
         [] t.then = "look" -> AskVehicle(tasks)
    /\ UNCHANGED <<db, stamp, stopped, poll, token, epoch, socket, flowing, clock, writing,
                   past>>

-----------------------------------------------------------------------------
(* The status writer: one write at a time, each of the latest row.         *)

\* The saved row has never been read: it is, before the first write.
WriterReads ==
  /\ ~stopped /\ writer = "idle" /\ dirty /\ ~loaded
  /\ dirty' = FALSE
  /\ writer' = "loading"
  /\ UNCHANGED <<db, state, until, stamp, stopped, poll, tasks, session, clock, loaded,
                 outgoing, late, behind, past>>

WriterHasRead ==
  /\ writer = "loading"
  /\ Load
  /\ writer' = "writing"
  /\ outgoing' = {Row}
  /\ UNCHANGED <<db, shown, stamp, stopped, poll, tasks, session, attempt, ghost, late,
                 behind, past>>

\* Skipped, rather than sent with a list that is only a guess.
WriterReadFails ==
  /\ writer = "loading" /\ ~loaded
  /\ Blip
  /\ writer' = "idle"
  /\ behind' = "failed"
  /\ UNCHANGED <<db, shown, stamp, stopped, poll, tasks, session, clock, loaded, outgoing,
                 late, failures, ends, dead, misled>>

WriterWrites ==
  /\ ~stopped /\ writer = "idle" /\ dirty /\ loaded
  /\ dirty' = FALSE
  /\ writer' = "writing"
  /\ outgoing' = {Row}
  /\ UNCHANGED <<db, state, until, stamp, stopped, poll, tasks, session, clock, loaded, late,
                 behind, past>>

\* The row lands.
Land(r) ==
  /\ saved' = r
  /\ recorded' = Larger(recorded, r.until)

WriteLands ==
  /\ writer = "writing"
  /\ \E r \in outgoing : Land(r)
  /\ writer' = "idle" /\ outgoing' = {}
  /\ behind' = "no"
  /\ UNCHANGED <<row, signIns, unreadable, shown, stamp, stopped, poll, tasks, session,
                 attempt, reconnect, owed, loaded, late, past>>

\* Refused, or given up on after 10 s: then it may still land.
WriteFails ==
  /\ writer = "writing"
  /\ Blip
  /\ writer' = "idle" /\ outgoing' = {}
  /\ late' \in {late, late \cup outgoing}
  /\ behind' = "failed"
  /\ UNCHANGED <<db, shown, stamp, stopped, poll, tasks, session, clock, loaded,
                 failures, ends, dead, misled>>

LateWriteLands ==
  /\ \E r \in late : Land(r) /\ late' = late \ {r}
  /\ behind' = IF behind = "no" THEN "overtaken" ELSE behind
  /\ UNCHANGED <<row, signIns, unreadable, shown, stamp, stopped, poll, tasks, session,
                 attempt, reconnect, owed, loaded, writer, outgoing, past>>

-----------------------------------------------------------------------------
(* Time, and the process.                                                  *)

\* Mutant: a wait that is over goes on.
OneLess(n) == n - 1

Less(n) == IF n = 0 THEN 0 ELSE n - 1
LessRow(r) == [r EXCEPT !.until = Less(r.until)]

Tick ==
  /\ \/ reconnect > 0 \/ recorded > 0 \/ until > 0 \/ saved.until > 0
     \/ \E t \in timers : t.left > 0
  /\ reconnect' = Less(reconnect)
  /\ owed' = Less(owed) /\ recorded' = Less(recorded)
  /\ until' = Less(until)
  /\ saved' = LessRow(saved)
  /\ outgoing' = {LessRow(r) : r \in outgoing}
  /\ late' = {LessRow(r) : r \in late}
  /\ timers' = {[left |-> Less(t.left), then |-> t.then] : t \in timers}
  /\ UNCHANGED <<row, signIns, unreadable, state, dirty, stamp, stopped, poll, tasks, token, epoch,
                 socket, flowing, attempt, loaded, writer, behind, past>>

\* SIGTERM: the timers stop and the socket is no longer read (#stop).
Stop ==
  /\ ~stopped
  /\ End
  /\ stopped' = TRUE
  /\ epoch' = epoch + 1
  /\ timers' = {}
  /\ socket' = FALSE
  /\ UNCHANGED <<db, shown, stamp, poll, tasks, token, flowing, clock, writing, failures,
                 blips, dead, misled>>

\* The process ends and the next one starts.  A write on its way may still land.
Restart ==
  /\ \E r \in {saved} \cup outgoing \cup late : Land(r)
  /\ state' = "signed_out" /\ stamp' = Undecided /\ token' = None
  /\ epoch' = 0 /\ stopped' = FALSE
  /\ poll' = {} /\ tasks' = {} /\ timers' = {}
  /\ socket' = FALSE /\ flowing' = FALSE
  /\ attempt' = 0 /\ reconnect' = 0 /\ owed' = 0
  /\ until' = 0 /\ loaded' = FALSE /\ dirty' = FALSE
  /\ writer' = "idle" /\ outgoing' = {} /\ late' = {}
  /\ dead' = {} /\ misled' = FALSE /\ behind' = "failed"
  /\ UNCHANGED <<row, signIns, unreadable, failures, blips>>

Exit == stopped /\ Restart /\ UNCHANGED ends

Crash == End /\ Restart

-----------------------------------------------------------------------------
Next ==
  \/ SignsIn \/ SignsOut
  \/ PollReads \/ PollFails \/ PollSame \/ PollSignedOut \/ PollChanged
  \/ StatusRead \/ CredentialRead \/ CredentialGone \/ CredentialFails
  \/ Unopened \/ Unsealed \/ Superseded \/ UnsealedLate
  \/ CsrfMade \/ RefusedOnce \/ CsrfRemade \/ RefusedTwice \/ HttpFails
  \/ VehicleFound \/ VehicleMissing
  \/ Opened \/ OpenFails \/ FirstFrame \/ SocketCloses \/ SessionRefused
  \/ TimerFires
  \/ WriterReads \/ WriterHasRead \/ WriterReadFails \/ WriterWrites
  \/ WriteLands \/ WriteFails \/ LateWriteLands
  \/ Tick \/ Stop \/ Exit \/ Crash

Spec == Init /\ [][Next]_vars

\* Every call answers or times out, timers fire, polls go on, and a process that
\* was stopped exits and is started again.
Fairness ==
  /\ WF_vars(PollReads)
  /\ WF_vars(PollFails \/ PollSame \/ PollSignedOut \/ PollChanged)
  /\ WF_vars(StatusRead)
  /\ WF_vars(CredentialRead \/ CredentialGone \/ CredentialFails)
  /\ WF_vars(Unopened \/ Unsealed)
  /\ WF_vars(Superseded \/ UnsealedLate)
  /\ WF_vars(CsrfMade \/ CsrfRemade \/ HttpFails)
  /\ WF_vars(RefusedOnce \/ RefusedTwice \/ VehicleFound \/ VehicleMissing \/ HttpFails)
  /\ WF_vars(Opened \/ OpenFails)
  /\ WF_vars(TimerFires) /\ WF_vars(Tick)
  /\ WF_vars(Exit)

FairSpec == Spec /\ Fairness

-----------------------------------------------------------------------------
TypeOK ==
  /\ row \in SignIn \cup {None} /\ signIns \in 0..MaxSignIns
  /\ unreadable \subseteq SignIn
  /\ saved \in StatusRow
  /\ state \in State /\ stamp \in SignIn \cup {None, Undecided}
  /\ token \in SignIn \cup {None} /\ epoch \in Nat /\ stopped \in BOOLEAN
  /\ poll \subseteq SignIn \cup {None}
  /\ tasks \subseteq Task /\ timers \subseteq Timer
  /\ socket \in BOOLEAN /\ flowing \in BOOLEAN
  /\ attempt \in Nat /\ reconnect \in Wait /\ until \in Wait
  /\ loaded \in BOOLEAN /\ dirty \in BOOLEAN
  /\ writer \in {"idle", "loading", "writing"}
  /\ outgoing \subseteq StatusRow /\ late \subseteq StatusRow
  /\ failures \in Nat /\ blips \in Nat /\ ends \in Nat
  /\ owed \in Wait /\ recorded \in Wait
  /\ dead \subseteq SignIn \cup {None, Undecided} /\ misled \in BOOLEAN
  /\ behind \in {"no", "failed", "overtaken"}

\* What will carry the lifecycle on: its call that is out, its timer, its socket.
Drivers ==
  Cardinality({t \in tasks : Alive(t)}) + Cardinality(timers)
    + Cardinality({s \in {socket} : s})

\* Rule 3 of connector.ts: however polls, answers, closes and timers interleave,
\* a lifecycle is carried on by exactly one thing (never two sessions at once, and
\* never a lifecycle nothing will move again, unless the next poll is to begin
\* another), and a state that rests has nothing left running.
OneDriver ==
  ~stopped =>
    /\ Drivers <= 1
    /\ state \in Resting => Drivers = 0
    /\ state \in Active /\ stamp # Undecided => Drivers = 1

\* The steps that begin a session: an app session is asked for, or a socket.
Begins ==
  \E t \in tasks' \ tasks : t.op \in {"csrf", "open"}

\* Rule 2: nothing reconnects faster than the backoff, whatever failed, and
\* whatever sign-ins and sign-outs came between.
BackoffKept == [][Begins => owed = 0]_vars

\* README.md:507 ``A restart does not cut a backoff short'': nor any restart.
BackoffSurvivesRestart == [][Begins => recorded = 0]_vars

\* connector.ts:725 ``only a changed credential starts it again'': no session is begun
\* for a stamp whose session Rivian has refused.
DeadNeverRetried == [][Begins /\ ~misled => stamp' \notin dead]_vars

\* connector.ts:56 ``a stale answer never acts'': not even on the stamp.
StaleNeverActs == ~misled

\* Once the writer has nothing to do, and unless its last write failed or an older
\* one it had given up on landed after it, the page's row is the state.
StatusTells == writer = "idle" /\ ~dirty /\ behind = "no" => saved = Row

\* A new credential is acted on, whatever fails on the way: its lifecycle gets past
\* unsealing it, on its token, or it is reported as unusable or refused.
CredentialActedOn ==
  \A k \in SignIn :
    row = k ~> \/ row # k
               \/ /\ stamp = k /\ token = k /\ ~stopped
                  /\ \A t \in tasks : Alive(t) => t.op \in RivianCall
               \/ stamp = k /\ state \in {"credential_invalid", "unauthenticated"}

\* A sign-out ends everything: no socket, no call and no timer that would act.
\* (The token may be left: connector.ts:527 stores it before the epoch is looked at.)
SignOutHeard ==
  row = None ~> \/ row # None
                \/ /\ ~socket /\ timers = {}
                   /\ \A t \in tasks : ~Alive(t)

\* No backoff lasts for ever.
BackoffEnds == state = "backing_off" ~> state # "backing_off"
=============================================================================
