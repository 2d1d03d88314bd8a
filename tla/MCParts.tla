------------------------------- MODULE MCParts -------------------------------
(***************************************************************************)
(* Parts of the system that have no state in common, and so need not       *)
(* be multiplied: each run of it explores one of them, and the others stay *)
(* as they began.                                                          *)
(***************************************************************************)
EXTENDS LiveUpdates, SignIn, Consent, Pricing, Readings, Battery, History,
        Socket

VARIABLE part

partsVars ==
  <<part, liveVars, signInVars, consentVars, pricingVars, readingsVars, batteryVars, historyVars,
    socketVars>>

LiveDays ==
  {[commits |-> 2, drops |-> 0, failures |-> 0, streams |-> 2, expires |-> FALSE],
   [commits |-> 1, drops |-> 1, failures |-> 0, streams |-> 1, expires |-> FALSE],
   [commits |-> 1, drops |-> 0, failures |-> 1, streams |-> 2, expires |-> FALSE],
   [commits |-> 0, drops |-> 0, failures |-> 0, streams |-> 2, expires |-> TRUE]}

FieldCatalogue ==
  [speed    |-> [interval |-> 1, delta |-> Absent],
   odometer |-> [interval |-> 2, delta |-> 1],
   new      |-> [interval |-> 1, delta |-> Absent]]
LeastDeltas == [odometer |-> 1]
ConsentTrips ==
  {[consents |-> 1, requests |-> 3, changes |-> 0], [consents |-> 1, requests |-> 2, changes |-> 1],
   [consents |-> 2, requests |-> 2, changes |-> 0]}

ChargeStops ==
  {[located |-> FALSE, near |-> TRUE,  fast |-> TRUE, types |-> {"tesla"}, energy |-> TRUE],
   [located |-> FALSE, near |-> FALSE, fast |-> TRUE, types |-> {}, energy |-> TRUE],
   [located |-> TRUE,  near |-> FALSE, fast |-> TRUE, types |-> {"tesla", "other"}, energy |-> FALSE]}
PricingMonths ==
  {[instants |-> 2, typed |-> 1, fetched |-> 2, closes |-> 1, backfills |-> 0],
   [instants |-> 1, typed |-> 1, fetched |-> 0, closes |-> 2, backfills |-> 1],
   [instants |-> 1, typed |-> 1, fetched |-> 0, closes |-> 1, backfills |-> 2]}

CarLog(vendor, props, hours, words, again, fail, most, wait) ==
  [vendor |-> vendor, props |-> props, instants |-> hours, changes |-> words,
   resends |-> again, failures |-> fail, backlog |-> most, lag |-> wait]
CarLogs ==
  {CarLog("rivian", {"mode", "gear"}, 2, 3, 1, 0, 2, 1),
   CarLog("rivian", {"gear", "speed"}, 3, 2, 1, 0, 2, 0),
   CarLog("rivian", {"charger", "power"}, 4, 2, 2, 0, 1, 0),
   CarLog("rivian", {"plug", "energy"}, 3, 2, 1, 0, 1, 0),
   CarLog("rivian", {"online"}, 4, 2, 2, 0, 2, 0),
   CarLog("rivian", {"power"}, 4, 2, 1, 1, 2, 2),
   CarLog("tesla", {"power", "charger", "mode"}, 2, 3, 0, 0, 1, 0),
   CarLog("tesla", {"gear", "speed"}, 3, 2, 0, 1, 1, 0),
   CarLog("tesla", {"energy", "dcEnergy", "dcPower"}, 2, 2, 0, 0, 1, 0)}

\* Of what the car says of its battery at time t: the range is told with the charge.
Shows(t, ch, soc, n, p, g) ==
  [at |-> t, charging |-> ch, soc |-> soc, counter |-> n, pack |-> p,
   remains |-> IF p = Null THEN Null ELSE 60, range |-> soc, given |-> g]
\* A charge: what the counter shows first, and whether it is zeroed behind that.  No charge puts
\* in exactly what the counter of an earlier one showed: the code calls that no energy.
ChargeLog(t, first, from, by, stale, zeroed) ==
  LET meter(k) == IF zeroed THEN k ELSE stale + k
  IN <<Shows(t, TRUE, first, stale, Null, 0),
       Shows(t + 1, TRUE, from + by, meter(by \div 2), Null, by \div 2),
       Shows(t + 2, FALSE, from + 2 * by, meter(by), Null, by)>>
ParkedLog(t, soc, p) == <<Shows(t, FALSE, soc, Null, p, 0)>>
CarLife(words, carried, later, wrong, again) ==
  [messages |-> words, levels |-> carried, delay |-> later, mishaps |-> wrong, reruns |-> again]
NoLife == CarLife(<<>>, CarryTime, 0, 0, 0)
\* Two charges, the second on the first day or over its midnight, that begin without a word of
\* the charge in percent: what their counters show, whether the pack is told between them, how
\* long the levels are carried (any two of these choices together).
TwoCharges(a, b, t, p, carried) ==
  CarLife(ParkedLog(0, 10, 90) \o ChargeLog(2, Null, 10, a[1], a[2], a[3]) \o ParkedLog(t - 1, 20, p)
            \o ChargeLog(t, Null, 20, b[1], b[2], b[3]) \o ParkedLog(t + 3, 80, 90), carried, 0, 2, 1)
Zeroed == <<20, 0, TRUE>>
ZeroedLate == <<30, 20, TRUE>>
GoesOn == <<30, 5, FALSE>>
FirstUnsaid == <<24, Null, TRUE>>
BatteryLives ==
  {NoLife, TwoCharges(Zeroed, GoesOn, 6, 91, 3), TwoCharges(ZeroedLate, FirstUnsaid, 11, 91, 3),
   TwoCharges(ZeroedLate, FirstUnsaid, 6, Null, 3), TwoCharges(ZeroedLate, GoesOn, 11, 91, 8),
   TwoCharges(Zeroed, FirstUnsaid, 6, Null, 8), TwoCharges(Zeroed, GoesOn, 11, Null, 8),
   \* a message sent again is stamped anew
   CarLife(ParkedLog(9, 10, 90) \o ChargeLog(10, Null, 10, 30, Null, TRUE)
             \o ParkedLog(13, 50, 91), 3, 1, 2, 1)}

Evening(cars, ids, filters, opened, looked, asked, restarts, jumped, rewrites) ==
  [record |-> [i \in DOMAIN ids |-> [car |-> cars[i], id |-> ids[i]]],
   filters |-> {<<Nil, Nil>>} \cup filters, drives |-> opened, looks |-> looked, asks |-> asked,
   moves |-> restarts, jumps |-> jumped, reprocesses |-> rewrites]
OneCar == <<1, 1, 1, 1>>
NoEvening == Evening(<<>>, <<>>, {}, 0, 0, 0, 0, 0, 0)
SomeEvenings ==
  {NoEvening,
   Evening(OneCar, <<4, 2, 5, 1>>, {<<1, 4>>, <<Nil, 4>>}, 2, 1, 2, 1, 0, 0),
   Evening(OneCar, <<3, 5, 1, 4>>, {<<1, Nil>>}, 1, 2, 2, 0, 0, 0),
   Evening(OneCar, <<4, 2, 5, 1>>, {}, 0, 1, 2, 0, 0, 1),
   Evening(<<1, 2, 1, 2, 1>>, <<4, 2, 5, 1, 3>>, {}, 0, 1, 1, 0, 1, 1)}

Entry(c, r) == [code |-> c, reason |-> r]
RivianEntries ==
  {Entry("UNAUTHENTICATED", Unsaid), Entry("UNAUTHENTICATED", "OTP_TOKEN_EXPIRED"),
   Entry("RATE_LIMIT", Unsaid), Entry("GRAPHQL_VALIDATION_FAILED", Unsaid),
   Entry("BAD_CURRENT_PASSWORD", "?"), Entry("BAD_USER_INPUT", "INVALID_OTP"),
   Entry("BAD_USER_INPUT", Unsaid), Entry("BAD_USER_INPUT", "OTP_TOKEN_EXPIRED"),
   Entry("SESSION_MANAGER_ERROR", Unsaid), Entry("INTERNAL", Unsaid), Entry("?", Unsaid)}
RivianBodies ==
  {<<>>} \cup {<<a>> : a \in RivianEntries} \cup {<<a, b>> : a, b \in RivianEntries}
    \cup {<<Entry("INTERNAL", Unsaid), Entry("INTERNAL", Unsaid), b>> : b \in RivianEntries}

\* Of the parts that are not explored, one initial state each.
PartsInit ==
  /\ part \in {"live", "signin", "consent", "pricing", "readings", "battery", "history", "socket"}
  /\ LiveInit /\ (part = "live" \/ day = CHOOSE d \in Days : TRUE)
  /\ SignInInit /\ (part = "signin" \/ sealKey = "usable")
  /\ ConsentInit
  /\ part = "consent" \/ (trip = (CHOOSE t \in Trips : TRUE) /\ mount /\ ~car.able)
  /\ PricingInit /\ (part = "pricing" \/ (month = (CHOOSE m \in Months : TRUE) /\ homeKnown))
  /\ ReadingsInit /\ (part = "readings" \/ log = CHOOSE l \in Logs : TRUE)
  /\ BatteryInit /\ (part = "battery" \/ life = NoLife)
  /\ HistoryInit /\ (part = "history" \/ evening = NoEvening)
  /\ SocketInit /\ (part = "socket" \/ purpose = "session")

PartsNext ==
  \/ part = "live" /\ LiveNext
     /\ UNCHANGED <<part, signInVars, consentVars, pricingVars, readingsVars,
                    batteryVars, historyVars, socketVars>>
  \/ part = "signin" /\ SignInNext
     /\ UNCHANGED <<part, liveVars, consentVars, pricingVars, readingsVars,
                    batteryVars, historyVars, socketVars>>
  \/ part = "consent" /\ ConsentNext
     /\ UNCHANGED <<part, liveVars, signInVars, pricingVars, readingsVars,
                    batteryVars, historyVars, socketVars>>
  \/ part = "pricing" /\ PricingNext
     /\ UNCHANGED <<part, liveVars, signInVars, consentVars, readingsVars,
                    batteryVars, historyVars, socketVars>>
  \/ part = "readings" /\ ReadingsNext
     /\ UNCHANGED <<part, liveVars, signInVars, consentVars, pricingVars,
                    batteryVars, historyVars, socketVars>>
  \/ part = "battery" /\ BatteryNext
     /\ UNCHANGED <<part, liveVars, signInVars, consentVars, pricingVars,
                    readingsVars, historyVars, socketVars>>
  \/ part = "history" /\ HistoryNext
     /\ UNCHANGED <<part, liveVars, signInVars, consentVars, pricingVars,
                    readingsVars, batteryVars, socketVars>>
  \/ part = "socket" /\ SocketNext
     /\ UNCHANGED <<part, liveVars, signInVars, consentVars, pricingVars,
                    readingsVars, batteryVars, historyVars>>

\* LiveFairness, where it is at work.
LiveStep(A) == part = "live" /\ A

PartsFairness ==
  /\ WF_liveVars(LiveStep(Connects)) /\ WF_liveVars(LiveStep(Listens))
  /\ WF_liveVars(LiveStep(FleetReads)) /\ WF_liveVars(LiveStep(FleetAnswers))
  /\ WF_liveVars(LiveStep(TabConnects)) /\ WF_liveVars(LiveStep(TabErrors))
  /\ WF_liveVars(LiveStep(WatchdogFires)) /\ WF_liveVars(LiveStep(Receives))
  /\ \A v \in Vehicles : /\ WF_liveVars(LiveStep(Notified(v)))
                         /\ WF_liveVars(LiveStep(QueryReads(v))) /\ WF_liveVars(LiveStep(QueryAnswers(v)))
  /\ \A s \in Streams : WF_liveVars(LiveStep(Opens(s)))

PartsSpec == PartsInit /\ [][PartsNext]_partsVars /\ PartsFairness

-----------------------------------------------------------------------------

\* The variables of every part have the values the code gives them.
PartsTypes ==
  CASE part = "live" -> LiveTypes
    [] part = "signin" -> SignInTypes
    [] part = "consent" -> ConsentTypes
    [] part = "pricing" -> PricingTypes
    [] part = "readings" -> ReadingsTypeOK
    [] part = "battery" -> BatteryTypes
    [] part = "history" -> HistoryTypes
    [] part = "socket" -> SocketTypes

\* What the car said is what its samples say and what its battery is judged by: nothing made up,
\* kept too long or lost (ReadingsFaithful), and the page says of the battery what its charges and
\* the car's own words showed, after every step: failed transactions, restarts and a reprocess
\* included (pipeline.ts, recordHealth and measurePack; queries.ts, getBatteryHealth: BatterySound).
CarTold == ReadingsFaithful /\ [][part = "battery" => BatterySound']_batteryVars

=============================================================================
