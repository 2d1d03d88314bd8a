-------------------------------- MODULE Consent --------------------------------
(***************************************************************************)
(* The Tesla consent and what it is for: the flow that ends in an access   *)
(* token held in the memory of the pod (settings/telemetry/connect and     *)
(* callback, apps/web/src/lib/server/tesla-flow.ts, tesla-session.ts), and *)
(* the two buttons that use it, Check and Push (telemetry.ts), with the    *)
(* configuration they build and compare (packages/tesla/src/telemetry-     *)
(* config.ts, telemetry-preflight.ts) and the cached row                   *)
(* (packages/db/src/repo/telemetry-status.ts).                             *)
(*                                                                         *)
(* One operator, one browser with as many tabs as it likes, one car.       *)
(* Consents are numbered as they are asked for; a token has the number of  *)
(* its consent.  Tesla takes a configuration, and the car applies it later. *)
(***************************************************************************)
EXTENDS Integers, Sequences, FiniteSets

CONSTANTS
  Catalogue,     \* field names, each with its interval and its delta, Absent for none
  Withheld,      \* names the Fleet API does not know
  FieldRules,    \* fields with the least delta the Fleet API accepts
  Absent,
  Trips          \* how many consents, requests and changes of the car there can be (bounds)

ASSUME ConsentAssumption ==
  /\ DOMAIN FieldRules \subseteq DOMAIN Catalogue /\ Absent \notin Int
  /\ \A f \in DOMAIN Catalogue : Catalogue[f] \in [interval : Nat, delta : Nat \cup {Absent}]
  /\ Trips \subseteq [consents : Nat, requests : Nat, changes : Nat]

VARIABLES
  trip,
  mount,         \* whether the telemetry CA file holds a certificate
  consents,      \* what became of each consent
  flowCookie,    \* the consent the browser's cookie is for, 0 for none
  teslaToken,    \* the token held: its consent, 0 for none, and whether it is due
  withdrawn,     \* consents Tesla no longer honours
  car,           \* the configuration it has, whether it is synced, whether it can apply one
  changes,
  acts,          \* the requests
  status,        \* the cached row: whether it is there, what was seen, whether a push is recorded
  accepted,      \* Tesla has taken a configuration
  untold         \* ... and its answer, or the write that records it, was lost

consentVars == <<trip, mount, consents, flowCookie, teslaToken, withdrawn, car, changes, acts, status,
                 accepted, untold>>

-----------------------------------------------------------------------------
(* The configuration.                                                      *)

Host == "ours"

\* buildTelemetryFields: a withheld name is not sent.
Fields == [f \in DOMAIN Catalogue \ Withheld |-> Catalogue[f]]

\* An absent delta is zero to the car.
Delta(field) == IF field.delta = Absent THEN 0 ELSE field.delta

\* buildTelemetryConfig refuses what Tesla would reject, or take and stop the stream by.
Buildable ==
  /\ mount /\ DOMAIN Fields # {}
  /\ \A f \in DOMAIN Fields \cap DOMAIN FieldRules :
        FieldRules[f] = 0 \/ (Fields[f].delta # Absent /\ Fields[f].delta >= FieldRules[f])

Desired == [host |-> Host, ca |-> TRUE, fields |-> Fields]

NoConfig == [host |-> "none", ca |-> FALSE, fields |-> <<>>]

\* What Tesla echoes of what it took: deltas that are zero come back as absent, or the reverse.
Echoes(config) ==
  {[config EXCEPT !.fields = [f \in DOMAIN @ |->
      IF Delta(@[f]) = 0 THEN [@[f] EXCEPT !.delta = d] ELSE @[f]]] : d \in {Absent, 0}}

\* Mutant: an absent delta and zero are different.
MatchesLiterally(applied) == applied = Desired

\* compareTelemetryConfig.
Matches(applied) ==
  /\ applied # NoConfig /\ applied.host = Host /\ applied.ca
  /\ DOMAIN applied.fields = DOMAIN Fields
  /\ \A f \in DOMAIN Fields : /\ applied.fields[f].interval = Fields[f].interval
                              /\ Delta(applied.fields[f]) = Delta(Fields[f])

\* What the car may have been given before: this configuration, one field less, a slower one,
\* or one without the certificate.
Others ==
  Echoes(Desired) \cup {[Desired EXCEPT !.ca = FALSE]}
    \cup {[Desired EXCEPT !.fields = [f \in DOMAIN @ \ {g} |-> @[f]]] : g \in DOMAIN Fields}
    \cup {[Desired EXCEPT !.fields[g].interval = @ + 1] : g \in DOMAIN Fields}

-----------------------------------------------------------------------------

NoToken == [consent |-> 0, due |-> FALSE]
Unseen == [config |-> NoConfig, synced |-> FALSE, able |-> FALSE]
Ended == [kind |-> "none", at |-> "over", token |-> 0, saw |-> Unseen, read |-> {}, sent |-> FALSE]

ConsentInit ==
  /\ trip \in Trips
  /\ mount \in BOOLEAN
  /\ consents = <<>> /\ flowCookie = 0 /\ teslaToken = NoToken /\ withdrawn = {}
  /\ car \in {Unseen, [Unseen EXCEPT !.able = TRUE]} /\ changes = 0
  /\ acts = <<>> /\ status = [there |-> FALSE, saw |-> Unseen, pushed |-> FALSE]
  /\ accepted = FALSE /\ untold = FALSE

ActAt(r, step) == acts[r].at = step
Advances(r, step) == acts' = [acts EXCEPT ![r].at = step]
Ends(r) == acts' = [acts EXCEPT ![r] = Ended]
Request(kind, step, token) ==
  /\ Len(acts) < trip.requests
  /\ acts' = Append(acts, [Ended EXCEPT !.kind = kind, !.at = step, !.token = token])

row == <<status, accepted, untold>>
outside == <<trip, mount, withdrawn, car, changes>>

-----------------------------------------------------------------------------
(* The consent.                                                            *)

\* GET connect: a new state, and the cookie is for it alone.
ConnectsTesla ==
  /\ Len(consents) < trip.consents
  /\ consents' = Append(consents, "asked") /\ flowCookie' = Len(consents) + 1
  /\ UNCHANGED <<teslaToken, acts, row, outside>>

OperatorAnswers(k) ==
  /\ consents[k] = "asked"
  /\ \E how \in {"approved", "denied"} : consents' = [consents EXCEPT ![k] = how]
  /\ UNCHANGED <<flowCookie, teslaToken, acts, row, outside>>

\* The state that came back is the one the cookie holds, and Tesla did not refuse.
StateHolds(k) == consents[k] # "denied" /\ flowCookie = k

\* GET callback, also when the browser asks for it again.  The cookie goes with the answer.
CallsBack(k) ==
  /\ consents[k] # "asked"
  /\ IF StateHolds(k) THEN Request("callback", "exchanging", k) /\ UNCHANGED flowCookie
     ELSE flowCookie' = 0 /\ UNCHANGED acts
  /\ UNCHANGED <<consents, teslaToken, row, outside>>

\* exchangeCode: a code is good once; a refresh token that was not asked for may come with it.
Exchanges(r) ==
  /\ ActAt(r, "exchanging")
  /\ \/ /\ consents[acts[r].token] = "approved"
        /\ \E what \in {"used", "standing"} : consents' = [consents EXCEPT ![acts[r].token] = what]
        /\ Advances(r, "exchanged")
        /\ UNCHANGED flowCookie
     \/ Ends(r) /\ flowCookie' = 0 /\ UNCHANGED consents
  /\ UNCHANGED <<teslaToken, row, outside>>

\* setTeslaToken, but never a token with a refresh token behind it.
TokenKept(r) ==
  /\ ActAt(r, "exchanged")
  /\ teslaToken' = IF consents[acts[r].token] = "used" THEN [consent |-> acts[r].token, due |-> FALSE]
                   ELSE teslaToken
  /\ flowCookie' = 0 /\ Ends(r)
  /\ UNCHANGED <<consents, row, outside>>

\* getTeslaToken: a token that is due is forgotten when it is read.
HeldToken == IF teslaToken.due THEN NoToken ELSE teslaToken

TokenDue ==
  /\ teslaToken # NoToken /\ ~teslaToken.due /\ teslaToken' = [teslaToken EXCEPT !.due = TRUE]
  /\ UNCHANGED <<consents, flowCookie, acts, row, outside>>

\* POST disconnect, or the page's load after the token is due.
Disconnects ==
  /\ teslaToken # NoToken /\ teslaToken' = NoToken
  /\ UNCHANGED <<consents, flowCookie, acts, row, outside>>

-----------------------------------------------------------------------------
(* Check and Push.                                                         *)

\* withTeslaSession: nothing without a consent.
Presses(kind) ==
  /\ HeldToken # NoToken /\ Request(kind, "listing", teslaToken.consent)
  /\ UNCHANGED <<consents, flowCookie, teslaToken, row, outside>>

Honoured(r) == acts[r].token \notin withdrawn

\* resolveVin: exactly one car.
ListsVehicles(r) ==
  /\ ActAt(r, "listing") /\ Honoured(r) /\ Advances(r, "reading")
  /\ UNCHANGED <<consents, flowCookie, teslaToken, row, outside>>

\* observe: the configuration and the fleet status are read side by side.
Observes(r) ==
  /\ ActAt(r, "reading") /\ Honoured(r)
  /\ \/ /\ "config" \notin acts[r].read
        /\ \E c \in IF car.config = NoConfig THEN {NoConfig} ELSE Echoes(car.config) :
             acts' = [acts EXCEPT ![r].read = @ \cup {"config"}, ![r].saw.config = c,
                                  ![r].saw.synced = car.synced]
     \/ /\ "status" \notin acts[r].read
        /\ acts' = [acts EXCEPT ![r].read = @ \cup {"status"}, ![r].saw.able = car.able]
  /\ UNCHANGED <<consents, flowCookie, teslaToken, row, outside>>

\* A push is sent to a car that can apply it and does not have it already.
Needed(saw) == saw.able /\ ~(Matches(saw.config) /\ saw.synced)

\* The vehicle's row is found, and a push is judged.  What cannot be built is not sent.
Judges(r) ==
  /\ ActAt(r, "reading") /\ acts[r].read = {"config", "status"}
  /\ IF acts[r].kind = "push" /\ acts[r].saw.able /\ ~Buildable THEN Ends(r)
     ELSE Advances(r, IF acts[r].kind = "push" /\ Needed(acts[r].saw) THEN "sending"
                      ELSE "recording")
  /\ UNCHANGED <<consents, flowCookie, teslaToken, row, outside>>

\* setTelemetryConfig: Tesla takes it, or skips the car.
TeslaTakes(r) ==
  /\ ActAt(r, "sending") /\ Honoured(r)
  /\ \/ /\ Advances(r, "taken")
        /\ car' = [car EXCEPT !.config = Desired, !.synced = FALSE] /\ accepted' = TRUE
     \/ Advances(r, "skipped") /\ UNCHANGED <<car, accepted>>
  /\ UNCHANGED <<trip, mount, consents, flowCookie, teslaToken, withdrawn, changes, status, untold>>

\* A configuration that was skipped is not a push.
Taken(r) ==
  /\ IF ActAt(r, "taken") THEN acts' = [acts EXCEPT ![r].at = "recording", ![r].sent = TRUE]
     ELSE ActAt(r, "skipped") /\ Ends(r)
  /\ UNCHANGED <<consents, flowCookie, teslaToken, row, outside>>

\* A call that fails; a 401 drops the token, whichever is held by now.
TeslaFails(r) ==
  /\ acts[r].at \in {"listing", "reading", "sending", "taken"}
  /\ teslaToken' = IF Honoured(r) \/ ActAt(r, "taken") THEN teslaToken ELSE NoToken
  /\ untold' = (untold \/ ActAt(r, "taken"))
  /\ Ends(r)
  /\ UNCHANGED <<consents, flowCookie, status, accepted, outside>>

\* recordTelemetryCheck leaves the push alone; recordTelemetryPush goes with it, in one transaction.
Recorded(r) == [there |-> TRUE, saw |-> acts[r].saw, pushed |-> status.pushed \/ acts[r].sent]

RecordsAct(r) ==
  /\ ActAt(r, "recording")
  /\ status' = Recorded(r) /\ Ends(r)
  /\ UNCHANGED <<consents, flowCookie, teslaToken, accepted, untold, outside>>

RecordingFails(r) ==
  /\ ActAt(r, "recording")
  /\ status' \in {status, Recorded(r)} /\ untold' = (untold \/ acts[r].sent) /\ Ends(r)
  /\ UNCHANGED <<consents, flowCookie, teslaToken, accepted, outside>>

-----------------------------------------------------------------------------
(* Outside.                                                                *)

\* The car applies what it was sent, somebody else configures it, or it becomes able or unable.
CarChanges ==
  /\ changes < trip.changes /\ changes' = changes + 1
  /\ \/ car.config # NoConfig /\ car' = [car EXCEPT !.synced = TRUE]
     \/ \E c \in Others : car' = [car EXCEPT !.config = c, !.synced = TRUE]
     \/ car' = [car EXCEPT !.able = ~@]
  /\ UNCHANGED <<trip, mount, consents, flowCookie, teslaToken, withdrawn, acts, row>>

Withdraws(k) ==
  /\ consents[k] = "used" /\ k \notin withdrawn /\ withdrawn' = withdrawn \cup {k}
  /\ UNCHANGED <<trip, mount, consents, flowCookie, teslaToken, car, changes, acts, row>>

ConsentNext ==
  \/ ConnectsTesla \/ TokenDue \/ Disconnects \/ CarChanges
  \/ \E kind \in {"check", "push"} : Presses(kind)
  \/ \E k \in DOMAIN consents : OperatorAnswers(k) \/ CallsBack(k) \/ Withdraws(k)
  \/ \E r \in DOMAIN acts :
       \/ Exchanges(r) \/ TokenKept(r) \/ ListsVehicles(r) \/ Observes(r) \/ Judges(r)
       \/ TeslaTakes(r) \/ Taken(r) \/ TeslaFails(r) \/ RecordsAct(r) \/ RecordingFails(r)

ConsentSpec == ConsentInit /\ [][ConsentNext]_consentVars

-----------------------------------------------------------------------------
(* Properties.                                                             *)

\* The variables have the values the code gives them.
ConsentTypes ==
  /\ flowCookie \in 0..Len(consents) /\ teslaToken.consent \in 0..Len(consents)
  /\ withdrawn \subseteq DOMAIN consents /\ changes \in 0..trip.changes
  /\ status.saw.config \in {NoConfig, Desired} \cup Echoes(Desired)
                            \cup UNION {Echoes(c) : c \in Others}

\* A push is on record only if Tesla took one, and one that Tesla took is on record as soon as
\* its request ends, unless the answer or the write was lost (telemetry.ts:380-416), whatever
\* checks run beside it (telemetry-status.ts:83-98).
PushesOnRecord ==
  /\ status.pushed => accepted
  /\ accepted => status.pushed \/ untold \/ \E r \in DOMAIN acts : acts[r].sent \/ ActAt(r, "taken")

\* A push is sent if and only if the car that was seen lacks something of the configuration
\* and could apply it, whatever way Tesla echoes it (telemetry-config.ts:182-207).
PushesJudged ==
  \A r \in DOMAIN acts :
    LET had == acts[r].saw.config \in Echoes(Desired) \cup {Desired} /\ acts[r].saw.synced IN
    /\ acts[r].at \in {"sending", "taken"} => ~had /\ acts[r].saw.able /\ Buildable
    /\ acts[r].kind = "push" /\ ActAt(r, "recording") => acts[r].sent \/ had \/ ~acts[r].saw.able

\* No token with a refresh token behind it is held (callback/+server.ts:61-77), though
\* callbacks are repeated and consents overlap.
ConsentHeld == teslaToken # NoToken => consents[teslaToken.consent] = "used"

ConsentSound == PushesOnRecord /\ PushesJudged /\ ConsentHeld

=============================================================================
