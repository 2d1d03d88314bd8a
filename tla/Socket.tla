------------------------------- MODULE Socket -------------------------------
(***************************************************************************)
(* One call to Rivian after another, up to a websocket and its end         *)
(* (packages/rivian/src/errors.ts, apps/rivian/src/socket.ts, and what     *)
(* connector.ts and rivian-auth.ts do with what these two tell them). An   *)
(* error is a status and a few codes; of a websocket the caller is told    *)
(* how it ended. The question is whether the one verdict that is never to  *)
(* be retried, a dead session, is always heard, and never made up.         *)
(*                                                                         *)
(* The ws package is external: readyState is its own field, a server's     *)
(* close frame arrives before the `close' event, and an error only once.   *)
(***************************************************************************)
EXTENDS Naturals, Sequences, SequencesExt, FiniteSets

CONSTANTS
  Unsaid,     \* no status, no reason, no close frame
  MaxCodes,   \* MAX_CODES
  Bodies,     \* the lists of [code, reason] a response may carry, "?" not shaped like a code
  MaxFrames,  \* bound: frames heard, and messages sent
  MaxAsks     \* bound: calls of the slow task

ASSUME SocketAssumption ==
  /\ MaxCodes \in Nat \ {0} /\ MaxFrames \in Nat /\ MaxAsks \in Nat
  /\ \A b \in Bodies : b \in Seq([code : STRING, reason : STRING \cup {Unsaid}])
  /\ Unsaid \notin {"unauthenticated", "rate_limited", "wrong credentials"}
  /\ Unsaid \notin [code : {"auth", "other"}, word : {"unauthenticated", "rate_limited", Unsaid}]

VARIABLES
  purpose,    \* what is being asked of Rivian: "session", "password" or "code"
  caller,     \* what the asker makes of it
  answer,     \* the last answer that was a failure
  message,    \* what a page was told of it
  readyState, \* ws.readyState, "idle" before the constructor
  dropped,    \* the TCP connection is destroyed
  frame,      \* the close frame the server sent
  failure,    \* failure
  phase,      \* phase
  ackTimer,   \* ackTimer is armed
  promise,    \* how openSocket's promise stands
  seen,       \* the code that awaits it has run
  sent,       \* the messages sent
  calls,      \* the handlers called
  why,        \* the reason an ending was told with
  letGo,      \* what had been heard at the caller's own close()
  task,       \* a slow task: "none", "due", "calling", "remaking" its app session, "calling again"
  asks,       \* the calls to Rivian the slow task has made
  asksAtEnd   \* how many there were when the lifecycle ended

httpVars == <<purpose, answer, message>>
wsVars == <<readyState, dropped, frame, failure>>
openVars == <<phase, ackTimer, promise>>
toldVars == <<sent, calls, why, letGo, seen>>
slowVars == <<task, asks, asksAtEnd>>
socketVars == <<httpVars, caller, wsVars, openVars, toldVars, slowVars>>

-----------------------------------------------------------------------------
(* Errors: errors.ts, and what is said of one.                              *)

KeptEntry(e) == IF e.reason = "?" THEN [e EXCEPT !.reason = Unsaid] ELSE e

\* Mutant: the list is cut before equal entries are collapsed.
KeepFirst(input) ==
  LET add(kept, e) == IF e.code = "?" \/ Contains(kept, KeptEntry(e)) THEN kept
                      ELSE Append(kept, KeptEntry(e))
  IN FoldLeft(add, <<>>, SubSeq(input, 1, IF Len(input) < MaxCodes THEN Len(input) ELSE MaxCodes))

\* keepCodes, one entry: not one that is not shaped like a code, nor one that is kept already,
\* nor one too many.
Keep(kept, e) ==
  IF e.code = "?" \/ Len(kept) >= MaxCodes \/ Contains(kept, KeptEntry(e)) THEN kept
  ELSE Append(kept, KeptEntry(e))

\* keepCodes: after n entries of the input.
KeepCodes(input) ==
  LET kept[n \in 0..Len(input)] == IF n = 0 THEN <<>> ELSE Keep(kept[n - 1], input[n])
  IN kept[Len(input)]

Says(e, code) == \E c \in ToSet(e.codes) : c.code = code

RateLimited(e) == e.status = 429 \/ Says(e, "RATE_LIMIT")
ValidationFailed(e) == Says(e, "GRAPHQL_VALIDATION_FAILED")
Locked(e) == Says(e, "SESSION_MANAGER_ERROR")

OtpReasons == {"INVALID_OTP", "OTP_TOKEN_EXPIRED"}

BadCredentials(e) ==
  \/ Says(e, "BAD_CURRENT_PASSWORD")
  \/ \E c \in ToSet(e.codes) : c.code = "BAD_USER_INPUT" /\ c.reason \notin OtpReasons

BadOtp(e) ==
  \/ Contains(e.codes, [code |-> "BAD_USER_INPUT", reason |-> "INVALID_OTP"])
  \/ Contains(e.codes, [code |-> "UNAUTHENTICATED", reason |-> "OTP_TOKEN_EXPIRED"])

\* Mutant: a 401 is a dead session whatever it carries.
AnyRefusal(e) == Says(e, "UNAUTHENTICATED") \/ e.status = 401

Unauthenticated(e) ==
  \/ Says(e, "UNAUTHENTICATED")
  \/ /\ e.status = 401
     /\ ~RateLimited(e) /\ ~ValidationFailed(e) /\ ~BadCredentials(e) /\ ~BadOtp(e) /\ ~Locked(e)

\* toRivianApiError: a 2xx that says nothing is given a code of this client's own.
ToRivianApiError(http, body) ==
  LET codes == KeepCodes(body)
  IN [status |-> http,
      codes |-> IF codes = <<>> /\ http = 200
                THEN <<[code |-> "UNCODED_ERROR", reason |-> Unsaid]>> ELSE codes]

\* Mutant: the password is looked at first.
PasswordFirst(e, step) ==
  IF BadCredentials(e) THEN "wrong credentials"
  ELSE IF Locked(e) THEN "locked" ELSE IF RateLimited(e) THEN "rate limited"
  ELSE IF step = "code" /\ BadOtp(e) THEN "wrong code" ELSE "Rivian error"

\* messageFor
MessageFor(e, step) ==
  CASE Locked(e) -> "locked"
    [] ~Locked(e) /\ RateLimited(e) -> "rate limited"
    [] OTHER -> IF step = "code" /\ (BadOtp(e) \/ BadCredentials(e)) THEN "wrong code"
                ELSE IF step = "password" /\ BadCredentials(e) THEN "wrong credentials"
                ELSE "Rivian error"

-----------------------------------------------------------------------------
(* The calls before there is a socket.                                      *)

SocketInit ==
  /\ purpose \in {"session", "password", "code"}
  /\ caller = "asking" /\ answer = Unsaid /\ message = Unsaid
  /\ readyState = "idle" /\ dropped = FALSE /\ frame = Unsaid /\ failure = FALSE
  /\ phase = "awaiting_ack" /\ ackTimer = FALSE /\ promise = "pending" /\ seen = FALSE
  /\ sent = <<>> /\ calls = <<>> /\ why = Unsaid /\ letGo = Unsaid
  /\ task = "none" /\ asks = 0 /\ asksAtEnd = Unsaid

\* #authed: a call refused as unauthenticated is made once more, on a fresh app session; a
\* sign-in's call is not, and its page is told.
CallFails(http, body) ==
  LET e == ToRivianApiError(http, body) IN
  /\ caller \in {"asking", "asking again"}
  /\ answer' = [status |-> http, body |-> body]
  /\ IF purpose # "session"
     THEN caller' = "answered" /\ message' = MessageFor(e, purpose)
     ELSE /\ caller' = IF ~Unauthenticated(e) THEN "backing off"
                       ELSE IF caller = "asking" THEN "refused" ELSE "dead"
          /\ UNCHANGED message
  /\ UNCHANGED <<purpose, wsVars, openVars, toldVars, slowVars>>

\* createCsrf, which may fail in its turn.
FreshSession ==
  /\ caller = "refused"
  /\ caller' \in {"asking again", "backing off"} /\ answer' = Unsaid
  /\ UNCHANGED <<purpose, message, wsVars, openVars, toldVars, slowVars>>

\* openSocket, called with the vehicle found; the slow tasks have made their first calls.
OpensSocket ==
  /\ caller \in {"asking", "asking again"} /\ purpose = "session"
  /\ caller' = "opening" /\ readyState' = "connecting" /\ ackTimer' = TRUE
  /\ task' = "calling" /\ asks' = 1 /\ UNCHANGED asksAtEnd
  /\ UNCHANGED <<httpVars, dropped, frame, failure, phase, promise, toldVars>>

Alive == caller \notin {"dead", "gone"}

\* #halt, when a step ends the lifecycle: the timers of its tasks are cleared.
Lifecycle ==
  LET ends == Alive /\ caller' \in {"dead", "gone"} IN
  /\ task' = IF ends /\ task = "due" THEN "none" ELSE task
  /\ asksAtEnd' = IF ends THEN asks ELSE asksAtEnd
  /\ UNCHANGED asks

-----------------------------------------------------------------------------
(* The slow tasks: #startSlowTasks, #every, each call through #authed.      *)

TaskDue == IF Alive THEN "due" ELSE "none"

TaskStarts ==
  /\ task = "due" /\ asks < MaxAsks
  /\ task' = "calling" /\ asks' = asks + 1
  /\ UNCHANGED <<httpVars, caller, wsVars, openVars, toldVars, asksAtEnd>>

\* Mutant: the refused call is repeated for a lifecycle that has ended.
TaskPersists ==
  \/ /\ task = "calling" /\ asks < MaxAsks
     /\ task' = "remaking" /\ asks' = asks + 1
     /\ UNCHANGED <<httpVars, caller, wsVars, openVars, toldVars, asksAtEnd>>
  \/ /\ task \in {"calling", "calling again"} /\ task' = TaskDue
     /\ UNCHANGED <<httpVars, caller, wsVars, openVars, toldVars, asks, asksAtEnd>>

\* A refusal is answered with a fresh app session while the lifecycle lives; anything else, a
\* second refusal too, is logged and the next call is a period away.
TaskAnswered ==
  \/ /\ task = "calling" /\ Alive /\ asks < MaxAsks
     /\ task' = "remaking" /\ asks' = asks + 1
     /\ UNCHANGED <<httpVars, caller, wsVars, openVars, toldVars, asksAtEnd>>
  \/ /\ task \in {"calling", "calling again"} /\ task' = TaskDue
     /\ UNCHANGED <<httpVars, caller, wsVars, openVars, toldVars, asks, asksAtEnd>>

\* Mutant: a task refused twice ends the lifecycle.
TaskStopsAll ==
  /\ task = "remaking" /\ Alive
  /\ task' = "none" /\ caller' = "dead" /\ asksAtEnd' = asks
  /\ IF caller = "holds"
     THEN phase' = "over" /\ letGo' = calls /\ readyState' = "closing"
     ELSE UNCHANGED <<phase, letGo, readyState>>
  /\ UNCHANGED <<httpVars, dropped, frame, failure, ackTimer, promise, sent, calls, why, seen,
                 asks>>

TaskRemade ==
  /\ task = "remaking"
  /\ \/ Alive /\ asks < MaxAsks /\ task' = "calling again" /\ asks' = asks + 1
     \/ task' = TaskDue /\ UNCHANGED asks
  /\ UNCHANGED <<httpVars, caller, wsVars, openVars, toldVars, asksAtEnd>>

-----------------------------------------------------------------------------
(* The socket: ws's events.                                                 *)

\* send, which a socket that is not open ignores.
Sends(m) == sent' = IF readyState = "open" THEN Append(sent, m) ELSE sent

WsOpens ==
  /\ readyState = "connecting"
  /\ readyState' = "open" /\ sent' = Append(sent, "connection_init")
  /\ UNCHANGED <<httpVars, caller, dropped, frame, failure, openVars, calls, why, letGo, seen,
                 slowVars>>

CanRead == readyState \in {"open", "closing"} /\ frame = Unsaid /\ ~dropped

\* Mutant: the socket that is closed goes on telling what arrives.
LetsGoOfWire ==
  /\ readyState' = IF readyState = "open" THEN "closing" ELSE readyState
  /\ letGo' = calls' /\ UNCHANGED phase

\* socket.close(): the phase first.
Closes ==
  /\ phase' = "over" /\ letGo' = calls'
  /\ readyState' = IF readyState = "open" THEN "closing" ELSE readyState

\* Mutant: the timer goes on after the ack.
AckKeepsTimer ==
  /\ CanRead /\ phase = "awaiting_ack"
  /\ phase' = "acked" /\ promise' = "resolved" /\ UNCHANGED ackTimer
  /\ UNCHANGED <<httpVars, caller, wsVars, toldVars, slowVars>>

AckArrives ==
  /\ CanRead /\ phase = "awaiting_ack"
  /\ ackTimer' = FALSE /\ phase' = "acked" /\ promise' = "resolved"
  /\ UNCHANGED <<httpVars, caller, wsVars, toldVars, slowVars>>

\* Mutant: a ping is answered before the ack as well, and told as data.
PingIsNews ==
  /\ CanRead /\ phase # "over" /\ Len(calls) < MaxFrames
  /\ calls' = Append(calls, "data") /\ Sends("pong")
  /\ UNCHANGED <<httpVars, caller, wsVars, openVars, why, letGo, seen, slowVars>>

PingArrives ==
  /\ CanRead /\ phase = "acked" /\ Len(sent) <= MaxFrames
  /\ Sends("pong")
  /\ UNCHANGED <<httpVars, caller, wsVars, openVars, calls, why, letGo, seen, slowVars>>

\* A next frame, or a complete.
DataArrives ==
  /\ CanRead /\ phase = "acked" /\ Len(calls) < MaxFrames
  /\ calls' = Append(calls, "data")
  /\ UNCHANGED <<httpVars, caller, wsVars, openVars, sent, why, letGo, seen, slowVars>>

ErrorVerdicts == {Unauthenticated(ToRivianApiError(Unsaid, body)) : body \in Bodies}

\* An error frame, and #onError: the session's verdict is looked for on any id, and stops
\* everything. A socket the connector does not hold yet is closed when it gets it.
ErrorArrives ==
  /\ CanRead /\ phase = "acked" /\ Len(calls) < MaxFrames
  /\ \E dead \in ErrorVerdicts :
       /\ calls' = Append(calls, IF dead THEN "refusal" ELSE "error")
       /\ caller' = IF dead /\ caller \in {"opening", "holds"} THEN "dead" ELSE caller
       /\ IF dead /\ caller = "holds" THEN Closes ELSE UNCHANGED <<phase, letGo, readyState>>
  /\ Lifecycle
  /\ UNCHANGED <<httpVars, dropped, frame, failure, ackTimer, promise, sent, why, seen>>

\* A close code is the protocol's (4401, 4403) or another; of the words only the first count.
CloseFrames == [code : {"auth", "other"}, word : {"unauthenticated", "rate_limited", Unsaid}]

ServerCloses ==
  /\ CanRead
  /\ frame' \in CloseFrames /\ readyState' = "closing"
  /\ UNCHANGED <<httpVars, caller, dropped, failure, openVars, toldVars, slowVars>>

\* The connection is lost, with an error event or without; `terminate' ends what is left of it.
WsDrops ==
  /\ readyState = "connecting" \/ CanRead
  /\ dropped' = TRUE /\ readyState' = "closing"
  /\ failure' \in IF readyState = "connecting" THEN {TRUE} ELSE BOOLEAN
  /\ UNCHANGED <<httpVars, caller, frame, openVars, toldVars, slowVars>>

AckTimeout ==
  /\ ackTimer /\ ackTimer' = FALSE
  /\ IF phase = "awaiting_ack"
     THEN /\ phase' = "over" /\ promise' = "no_ack"
          /\ dropped' = TRUE /\ readyState' = "closing"
     ELSE UNCHANGED <<phase, promise, dropped, readyState>>
  /\ UNCHANGED <<httpVars, caller, frame, failure, toldVars, slowVars>>

\* closeReasonOf
CloseReasonOf(word) == word

\* Mutant: the words are read before the code.
WordsFirst ==
  IF frame = Unsaid THEN IF failure THEN "error" ELSE "closed"
  ELSE IF frame.word # Unsaid THEN CloseReasonOf(frame.word)
  ELSE IF frame.code = "auth" THEN "unauthenticated" ELSE "closed"

Reason ==
  LET verdict == IF frame = Unsaid THEN Unsaid
                 ELSE IF frame.code = "auth" THEN "unauthenticated" ELSE CloseReasonOf(frame.word)
  IN IF verdict # Unsaid THEN verdict ELSE IF failure THEN "error" ELSE "closed"

\* #socketEnded: a dead session is final, every other ending a backoff; what it holds it closes.
EndsFor(reason) == IF reason = "unauthenticated" THEN "dead" ELSE "backing off"

\* The close event: the one place an ending is told from, to the promise or to onClose.
WsCloses ==
  /\ readyState = "closing" /\ readyState' = "closed"
  /\ ackTimer' = FALSE
  /\ phase' = "over"
  /\ promise' = IF phase = "awaiting_ack" THEN Reason ELSE promise
  /\ IF phase = "acked"
     THEN /\ calls' = Append(calls, "ending") /\ why' = Reason
          /\ caller' = IF caller \in {"opening", "holds"} THEN EndsFor(Reason) ELSE caller
          /\ letGo' = IF caller = "holds" THEN calls' ELSE letGo
     ELSE UNCHANGED <<calls, why, caller, letGo>>
  /\ Lifecycle
  /\ UNCHANGED <<httpVars, dropped, frame, failure, sent, seen>>

-----------------------------------------------------------------------------
(* The caller: connector.ts.                                                *)

\* Mutant: an ending that came first is overlooked.
HoldsAnyway ==
  /\ promise # "pending" /\ ~seen /\ seen' = TRUE
  /\ UNCHANGED <<calls, why, letGo, phase, readyState>>
  /\ caller' = IF promise = "resolved" THEN "holds" ELSE EndsFor(promise)
  /\ Sends("subscribe")
  /\ Lifecycle
  /\ UNCHANGED <<httpVars, dropped, frame, failure, ackTimer, promise>>

\* The code behind `await openSocket', in #connect: a socket that was overtaken is closed, one
\* that is wanted is subscribed on.
Awakes ==
  /\ promise # "pending" /\ ~seen /\ seen' = TRUE
  /\ UNCHANGED <<calls, why>>
  /\ IF promise # "resolved"
     THEN /\ caller' = IF caller = "opening" THEN EndsFor(promise) ELSE caller
          /\ UNCHANGED <<sent, letGo, phase, readyState>>
     ELSE IF caller = "opening"
     THEN caller' = "holds" /\ Sends("subscribe") /\ UNCHANGED <<letGo, phase, readyState>>
     ELSE Closes /\ UNCHANGED <<caller, sent>>
  /\ Lifecycle
  /\ UNCHANGED <<httpVars, dropped, frame, failure, ackTimer, promise>>

\* A renewal: complete, and subscribe again.
Renews ==
  /\ caller = "holds" /\ Len(sent) <= MaxFrames
  /\ sent' = IF readyState = "open" THEN sent \o <<"complete", "subscribe">> ELSE sent
  /\ UNCHANGED <<httpVars, caller, wsVars, openVars, calls, why, letGo, seen, slowVars>>

\* A sign-out, a new credential or a shutdown: what is held is closed, what is not is closed
\* when it comes.
StopsIt ==
  /\ caller \in {"opening", "holds", "backing off"} /\ readyState # "idle" /\ caller' = "gone"
  /\ UNCHANGED calls
  /\ IF caller = "holds" THEN Closes ELSE UNCHANGED <<phase, letGo, readyState>>
  /\ Lifecycle
  /\ UNCHANGED <<httpVars, dropped, frame, failure, ackTimer, promise, sent, why, seen>>

SocketNext ==
  \/ \E s \in {Unsaid, 200, 400, 401, 429}, b \in Bodies : CallFails(s, b)
  \/ FreshSession \/ OpensSocket
  \/ WsOpens \/ AckArrives \/ PingArrives \/ DataArrives \/ ErrorArrives
  \/ ServerCloses \/ WsDrops \/ AckTimeout \/ WsCloses
  \/ Awakes \/ Renews \/ StopsIt
  \/ TaskStarts \/ TaskAnswered \/ TaskRemade

SocketSpec == SocketInit /\ [][SocketNext]_socketVars

-----------------------------------------------------------------------------

\* Every variable has a value of its kind.
SocketTypes ==
  /\ purpose \in {"session", "password", "code"}
  /\ caller \in {"asking", "refused", "asking again", "answered", "opening", "holds", "dead",
                 "backing off", "gone"}
  /\ readyState \in {"idle", "connecting", "open", "closing", "closed"}
  /\ {dropped, failure, ackTimer, seen} \subseteq BOOLEAN
  /\ frame \in CloseFrames \cup {Unsaid}
  /\ phase \in {"awaiting_ack", "acked", "over"}
  /\ task \in {"none", "due", "calling", "remaking", "calling again"} /\ asks \in 0..MaxAsks
  /\ promise \in {"pending", "resolved", "no_ack", "closed", "error", "rate_limited",
                  "unauthenticated"}

\* What an answer says, looked at whole: the entries shaped like a code.
Entries(body) == {KeptEntry(e) : e \in {x \in ToSet(body) : x.code # "?"}}
Cut(body) == Cardinality(Entries(body)) > MaxCodes

\* The entries some class of error claims, a dead session's aside.
Claimed(entries) ==
  {e \in entries : \/ e.code \in {"RATE_LIMIT", "GRAPHQL_VALIDATION_FAILED", "BAD_CURRENT_PASSWORD",
                                  "SESSION_MANAGER_ERROR"}
                   \/ e.code = "BAD_USER_INPUT" /\ e.reason # "OTP_TOKEN_EXPIRED"}

MeansDead(a) ==
  \/ \E e \in Entries(a.body) : e.code = "UNAUTHENTICATED"
  \/ a.status = 401 /\ Claimed(Entries(a.body)) = {}

\* A failed call is taken for a dead session when Rivian said so or answered a bare 401, in
\* whatever order and company its codes came, and for nothing else; a page is told its password
\* is wrong only by an answer that says so and says nothing of a lock, a throttle or the code.
\* Not of an answer with more codes than are kept: those behind the cut are not read.
AnswersRead ==
  answer # Unsaid /\ ~Cut(answer.body) =>
    LET saidCodes == {e.code : e \in Entries(answer.body)} IN
    /\ caller \in {"refused", "dead"} => MeansDead(answer)
    /\ caller = "backing off" => ~MeansDead(answer)
    /\ message = "wrong credentials" =>
         /\ purpose = "password" /\ saidCodes \cap {"RATE_LIMIT", "SESSION_MANAGER_ERROR"} = {}
         /\ \E e \in Entries(answer.body) :
              \/ e.code = "BAD_CURRENT_PASSWORD"
              \/ e.code = "BAD_USER_INPUT" /\ e.reason \notin OtpReasons

\* What the socket was told of its session before anyone let go of it.
ClosedDead == frame # Unsaid /\ (frame.code = "auth" \/ frame.word = "unauthenticated")

\* The verdict of a dead session that the server closes with is acted on, before the ack and
\* after it; and a socket makes none up. The exception: the ack timer runs out between the close
\* frame and the close event, and the verdict is never told.
DeadHeard ==
  readyState # "idle" =>
    /\ caller = "dead" => ClosedDead \/ Contains(calls, "refusal")
    /\ caller = "backing off" /\ ClosedDead => promise = "no_ack"
    /\ why = "rate_limited" => frame.code = "other" /\ frame.word = "rate_limited"

\* Of one connection: first it is awaited, with a deadline; then it is heard, its ending last and
\* once, and nothing after the caller's own close; and when it is closed nobody goes on waiting
\* for it or holding it.
OneEnding ==
  /\ readyState # "idle" /\ promise = "pending" => ackTimer
  /\ phase # "awaiting_ack" => ~ackTimer
  /\ calls # <<>> => promise = "resolved"
  /\ \A i \in DOMAIN calls : calls[i] = "ending" => i = Len(calls)
  /\ letGo # Unsaid => calls = letGo
  /\ readyState = "closed" => promise # "pending" /\ (seen => caller \notin {"opening", "holds"})
  /\ \A i \in DOMAIN sent : sent[i] = "connection_init" <=> i = 1
  /\ caller \in {"dead", "gone"} /\ seen /\ promise = "resolved" => phase = "over"

\* Of a lifecycle that has ended, by a dead session or a sign-out, no call is made to Rivian:
\* the slow tasks that were at work give up at their next step.
SilentAfter == asksAtEnd # Unsaid => asks = asksAtEnd

\* A dead session is heard of and never made up, of each connection there is one ending, and
\* nothing is asked once the lifecycle is over (socket.ts, openSocket; connector.ts, #connect,
\* #socketEnded and #authed).
OneConnection == DeadHeard /\ OneEnding /\ SilentAfter

\* What Rivian answers and what its socket says are taken for what they are (errors.ts, socket.ts,
\* connector.ts).
SocketSound == AnswersRead /\ OneConnection

=============================================================================
