--------------------------- MODULE ConnectorProofs ---------------------------
(***************************************************************************)
(* Theorems about Connector, for every number of sign-ins, failures, stops *)
(* and crashes, and every cap of the backoff.                              *)
(***************************************************************************)
EXTENDS Connector, FiniteSetTheorems, TLAPS

-----------------------------------------------------------------------------
(* The inductive invariant.                                                *)

\* The calls that can still act.
Live == {t \in tasks : Alive(t)}

\* What carries the lifecycle on: nothing, one call, one timer, or the socket.
Idle == Live = {} /\ timers = {} /\ ~socket
ByCall == (\E t \in tasks : Live = {t}) /\ timers = {} /\ ~socket
ByTimer == Live = {} /\ (\E t \in timers : timers = {t}) /\ ~socket
BySocket == Live = {} /\ timers = {} /\ socket

\* No call is of a lifecycle that has not begun, so a new epoch silences them all.
Epochs == \A t \in tasks : t.epoch \in 0..epoch

Driven ==
  IF stopped THEN timers = {} /\ ~socket
  ELSE /\ Idle \/ ByCall \/ ByTimer \/ BySocket
       /\ state \in Resting => Idle
       /\ state \in Active /\ stamp # Undecided => ~Idle

\* The wait that is owed is waited: by the clock, by every timer, and before every
\* call to Rivian.
Paid ==
  /\ owed <= reconnect
  /\ \A t \in timers : owed <= t.left
  /\ socket => owed = 0
  /\ \A t \in Live : t.op \in RivianCall => owed = 0

\* A poll's answer is no older than the stamp acted on, and the row is the last sign-in's.
Polled ==
  /\ row \in {None, signIns}
  /\ stamp <= signIns
  /\ \A v \in poll : v # None => v <= signIns /\ stamp <= v
  /\ None \in poll /\ stamp \in SignIn => row # stamp

\* A stamp that was refused is not acted on, and whatever would bring it back to the
\* connector finds it to be the stamp it already has.
Mourned ==
  ~stopped /\ ~misled =>
    /\ ~Idle => stamp \in SignIn \ dead
    /\ dead \subseteq 1..signIns
    /\ \A v \in poll \cup {row} : v \in dead => stamp = v

\* A write under way is of the latest row, or another is asked for.
Told == writer = "writing" /\ ~dirty => outgoing = {Row}

-----------------------------------------------------------------------------
(* Types.                                                                  *)

LEMMA PowerOfTwo == ASSUME NEW a \in Nat PROVE 2^a \in Nat
<1>1. IsFiniteSet(1..a) /\ Cardinality(1..a) = a
  BY FS_Interval
<1>2. IsFiniteSet(SUBSET (1..a)) /\ Cardinality(SUBSET (1..a)) = 2^a
  BY <1>1, FS_SUBSET
<1> QED BY <1>2, FS_CardinalityType

LEMMA WaitsAreWaits == ASSUME NEW a \in Nat, NEW w \in Waits(a) PROVE w \in Wait
<1>1. PICK jitter \in {0, 1} : w = Smaller(Cap, 2^a + jitter)
  BY DEF Waits
<1> DEFINE p == 2^a
<1>2. p \in Nat
  BY PowerOfTwo
<1>3. w = Smaller(Cap, p + jitter)
  BY <1>1
<1> HIDE DEF p
<1> QED BY <1>1, <1>2, <1>3, ConstantsAssumption DEF Smaller, Wait

LEMMA NextAttemptType == ASSUME NEW a \in Nat PROVE NextAttempt(a) \in Nat
BY DEF NextAttempt

LEMMA WaitArithmetic ==
  /\ 0 \in Wait
  /\ \A a, b \in Wait : Larger(a, b) \in Wait /\ a <= Larger(a, b) /\ b <= Larger(a, b)
  /\ \A n \in Wait : Less(n) \in Wait
BY ConstantsAssumption DEF Wait, Larger, Less

LEMMA RowType == TypeOK => Row \in StatusRow
BY DEF TypeOK, Row, StatusRow

LEMMA LessRowType == ASSUME NEW r \in StatusRow PROVE LessRow(r) \in StatusRow
BY WaitArithmetic DEF LessRow, StatusRow

LEMMA LandType ==
  ASSUME TypeOK, NEW r \in StatusRow, Land(r)
  PROVE  saved' \in StatusRow /\ recorded' \in Wait
BY WaitArithmetic DEF Land, TypeOK, StatusRow

LEMMA CallType ==
  ASSUME NEW op \in Op, NEW e \in Nat, NEW got \in SignIn \cup {None}
  PROVE  Call(op, e, got) \in Task
BY DEF Call, Task

LEMMA BackOffType ==
  ASSUME TypeOK, NEW then \in {"acquire", "connect", "look"}, BackOff(then)
  PROVE  /\ attempt' \in Nat /\ reconnect' \in Wait /\ owed' \in Wait /\ recorded' \in Wait
         /\ state' \in State /\ until' \in Wait /\ dirty' \in BOOLEAN
         /\ timers' \subseteq Timer /\ token' \in SignIn \cup {None} /\ epoch' \in Nat
<1>1. PICK w \in Waits(attempt) :
        /\ attempt' = NextAttempt(attempt)
        /\ reconnect' = Larger(reconnect, w) /\ owed' = Larger(owed, w)
        /\ Enter("backing_off", w)
        /\ timers' = timers \cup {[left |-> w, then |-> then]}
  BY DEF BackOff
<1>2. w \in Wait
  BY WaitsAreWaits DEF TypeOK
<1>3. attempt' \in Nat
  BY <1>1, NextAttemptType DEF TypeOK
<1>4. reconnect' \in Wait /\ owed' \in Wait
  BY <1>1, <1>2, WaitArithmetic DEF TypeOK
<1>5. state' \in State /\ until' \in Wait /\ dirty' \in BOOLEAN
  BY <1>1, <1>2 DEF Enter, State, Active
<1>6. timers' \subseteq Timer
  BY <1>1, <1>2 DEF Timer, TypeOK
<1> QED BY <1>3, <1>4, <1>5, <1>6 DEF BackOff, TypeOK

LEMMA EnterType ==
  ASSUME NEW s \in State, NEW left \in Wait, Enter(s, left)
  PROVE  state' \in State /\ until' \in Wait /\ dirty' \in BOOLEAN
BY WaitArithmetic DEF Enter

LEMMA HaltType ==
  ASSUME TypeOK, Halt, Kept
  PROVE  /\ epoch' \in Nat /\ timers' \subseteq Timer /\ socket' \in BOOLEAN
         /\ flowing' \in BOOLEAN /\ token' \in SignIn \cup {None} /\ UNCHANGED clock
<1>1. epoch' \in Nat
  BY DEF TypeOK, Halt
<1>2. socket' \in BOOLEAN /\ flowing' \in BOOLEAN
  BY DEF Halt
<1>3. timers' \subseteq Timer /\ token' \in SignIn \cup {None}
  BY DEF Halt
<1> QED BY <1>1, <1>2, <1>3 DEF Kept

LEMMA UnauthenticatedType ==
  ASSUME TypeOK, Unauthenticated
  PROVE  /\ epoch' \in Nat /\ timers' \subseteq Timer /\ socket' \in BOOLEAN
         /\ flowing' \in BOOLEAN /\ token' \in SignIn \cup {None} /\ UNCHANGED clock
         /\ state' \in State /\ until' \in Wait /\ dirty' \in BOOLEAN
         /\ dead' \subseteq SignIn \cup {None, Undecided}
<1>1. "unauthenticated" \in State
  BY DEF State, Resting
<1>2. state' \in State /\ until' \in Wait /\ dirty' \in BOOLEAN
  BY <1>1, EnterType, WaitArithmetic DEF Unauthenticated
<1> QED BY <1>2, HaltType DEF Unauthenticated, TypeOK

-----------------------------------------------------------------------------
(* What each step leaves alone.                                            *)

LEMMA DbFrame ==
  Next =>
    \/ UNCHANGED db
    \/ SignsIn \/ SignsOut \/ WriteLands \/ LateWriteLands \/ Tick \/ Exit \/ Crash
BY Zenon DEF Next, PollReads, PollFails, PollSame, PollSignedOut, PollChanged,
  StatusRead, CredentialRead, CredentialGone, CredentialFails, Unopened, Unsealed,
  Superseded, UnsealedLate, CsrfMade, RefusedOnce, CsrfRemade, RefusedTwice, HttpFails, VehicleFound,
  VehicleMissing, Opened, OpenFails, FirstFrame, SocketCloses, SessionRefused,
  TimerFires, WriterReads, WriterHasRead, WriterReadFails, WriterWrites, WriteFails,
  Stop

LEMMA ShownFrame ==
  Next =>
    \/ UNCHANGED shown
    \/ PollSignedOut \/ PollChanged \/ CredentialGone \/ Unopened \/ Unsealed \/
      CsrfMade \/ RefusedTwice \/ HttpFails \/ VehicleFound \/ VehicleMissing \/ Opened
      \/ OpenFails \/ FirstFrame \/ SocketCloses \/ SessionRefused \/ TimerFires \/
      WriterReads \/ WriterWrites \/ Tick \/ Exit \/ Crash
BY Zenon DEF Next, SignsIn, SignsOut, PollReads, PollFails, PollSame, StatusRead,
  CredentialRead, CredentialFails, Superseded, UnsealedLate, RefusedOnce, CsrfRemade, WriterHasRead,
  WriterReadFails, WriteLands, WriteFails, LateWriteLands, Stop

LEMMA SessionFrame ==
  Next =>
    \/ UNCHANGED session
    \/ PollSignedOut \/ PollChanged \/ CredentialGone \/ Unsealed \/ UnsealedLate \/ RefusedTwice \/
      HttpFails \/ VehicleMissing \/ Opened \/ OpenFails \/ FirstFrame \/ SocketCloses
      \/ SessionRefused \/ TimerFires \/ Tick \/ Stop \/ Exit \/ Crash
BY Zenon DEF Next, SignsIn, SignsOut, PollReads, PollFails, PollSame, StatusRead,
  CredentialRead, CredentialFails, Unopened, Superseded, CsrfMade, RefusedOnce,
  CsrfRemade, VehicleFound, WriterReads, WriterHasRead, WriterReadFails, WriterWrites,
  WriteLands, WriteFails, LateWriteLands

LEMMA ClockFrame ==
  Next =>
    \/ UNCHANGED clock
    \/ PollSignedOut \/ PollChanged \/ CredentialGone \/ StatusRead \/ RefusedTwice \/
      HttpFails \/ OpenFails \/ FirstFrame \/ SocketCloses \/ SessionRefused \/
      WriterHasRead \/ WriteLands \/ LateWriteLands \/ Tick \/ Exit \/ Crash
BY Zenon DEF Next, SignsIn, SignsOut, PollReads, PollFails, PollSame, CredentialRead,
  CredentialFails, Unopened, Unsealed, Superseded, UnsealedLate, CsrfMade, RefusedOnce, CsrfRemade,
  VehicleFound, VehicleMissing, Opened, TimerFires, WriterReads, WriterReadFails,
  WriterWrites, WriteFails, Stop

LEMMA WritingFrame ==
  Next =>
    \/ UNCHANGED writing
    \/ StatusRead \/ WriterReads \/ WriterHasRead \/ WriterReadFails \/ WriterWrites \/
      WriteLands \/ WriteFails \/ LateWriteLands \/ Tick \/ Exit \/ Crash
BY Zenon DEF Next, SignsIn, SignsOut, PollReads, PollFails, PollSame, PollSignedOut,
  PollChanged, CredentialRead, CredentialGone, CredentialFails, Unopened, Unsealed,
  Superseded, UnsealedLate, CsrfMade, RefusedOnce, CsrfRemade, RefusedTwice, HttpFails, VehicleFound,
  VehicleMissing, Opened, OpenFails, FirstFrame, SocketCloses, SessionRefused,
  TimerFires, Stop

LEMMA PastFrame ==
  Next =>
    \/ UNCHANGED past
    \/ SignsIn \/ PollFails \/ StatusRead \/ CredentialFails \/ RefusedTwice \/
      HttpFails \/ OpenFails \/ SocketCloses \/ SessionRefused \/ WriterReadFails \/
      WriteFails \/ Stop \/ Exit \/ Crash
BY Zenon DEF Next, SignsOut, PollReads, PollSame, PollSignedOut, PollChanged,
  CredentialRead, CredentialGone, Unopened, Unsealed, Superseded, UnsealedLate, CsrfMade, RefusedOnce,
  CsrfRemade, VehicleFound, VehicleMissing, Opened, FirstFrame, TimerFires, WriterReads,
  WriterHasRead, WriterWrites, WriteLands, LateWriteLands, Tick

LEMMA PollsFrame ==
  Next =>
    \/ UNCHANGED <<stamp, stopped, poll>>
    \/ PollReads \/ PollFails \/ PollSame \/ PollSignedOut \/ PollChanged \/
      CredentialGone \/ CredentialFails \/ Stop \/ Exit \/ Crash
BY Zenon DEF Next, SignsIn, SignsOut, StatusRead, CredentialRead, Unopened, Unsealed,
  Superseded, UnsealedLate, CsrfMade, RefusedOnce, CsrfRemade, RefusedTwice, HttpFails, VehicleFound,
  VehicleMissing, Opened, OpenFails, FirstFrame, SocketCloses, SessionRefused,
  TimerFires, WriterReads, WriterHasRead, WriterReadFails, WriterWrites, WriteLands,
  WriteFails, LateWriteLands, Tick

LEMMA TasksFrame ==
  Next =>
    \/ UNCHANGED tasks
    \/ PollChanged \/ StatusRead \/ CredentialRead \/ CredentialGone \/ CredentialFails
      \/ Unopened \/ Unsealed \/ Superseded \/ UnsealedLate \/ CsrfMade \/ RefusedOnce \/ CsrfRemade \/
      RefusedTwice \/ HttpFails \/ VehicleFound \/ VehicleMissing \/ Opened \/ OpenFails
      \/ TimerFires \/ Exit \/ Crash
BY Zenon DEF Next, SignsIn, SignsOut, PollReads, PollFails, PollSame, PollSignedOut,
  FirstFrame, SocketCloses, SessionRefused, WriterReads, WriterHasRead, WriterReadFails,
  WriterWrites, WriteLands, WriteFails, LateWriteLands, Tick, Stop

-----------------------------------------------------------------------------
(* Every variable keeps its type.                                          *)

DbTypes ==
  /\ row \in SignIn \cup {None} /\ signIns \in 0..MaxSignIns
  /\ unreadable \subseteq SignIn
  /\ saved \in StatusRow

FlagTypes ==
  /\ stopped \in BOOLEAN /\ socket \in BOOLEAN /\ flowing \in BOOLEAN
  /\ loaded \in BOOLEAN /\ dirty \in BOOLEAN /\ misled \in BOOLEAN

ShownTypes == state \in State /\ until \in Wait

SessionTypes == token \in SignIn \cup {None} /\ epoch \in Nat /\ timers \subseteq Timer

TaskTypes == tasks \subseteq Task

PollTypes == stamp \in SignIn \cup {None, Undecided} /\ poll \subseteq SignIn \cup {None}

ClockTypes == attempt \in Nat /\ reconnect \in Wait /\ owed \in Wait /\ recorded \in Wait

WritingTypes ==
  /\ writer \in {"idle", "loading", "writing"}
  /\ outgoing \subseteq StatusRow /\ late \subseteq StatusRow
  /\ behind \in {"no", "failed", "overtaken"}

PastTypes ==
  /\ failures \in Nat /\ blips \in Nat /\ ends \in Nat
  /\ dead \subseteq SignIn \cup {None, Undecided}

LEMMA TypeParts ==
  TypeOK <=> /\ DbTypes /\ FlagTypes /\ ShownTypes /\ SessionTypes /\ TaskTypes /\ PollTypes
             /\ ClockTypes /\ WritingTypes /\ PastTypes
BY DEF TypeOK, DbTypes, FlagTypes, ShownTypes, SessionTypes, TaskTypes, PollTypes, ClockTypes,
       WritingTypes, PastTypes

LEMMA DbTyped == TypeOK /\ Next => DbTypes'
<1> SUFFICES ASSUME TypeOK, Next PROVE DbTypes'
  OBVIOUS
<1>1. CASE UNCHANGED db
  BY <1>1 DEF TypeOK, DbTypes, db
<1>2. CASE SignsIn
  <2>1. signIns' \in 0..MaxSignIns /\ row' = signIns' /\ row' \in SignIn
    BY <1>2, ConstantsAssumption DEF TypeOK, SignsIn, SignIn
  <2>2. unreadable' \subseteq SignIn
    BY <1>2, <2>1, Zenon DEF TypeOK, SignsIn
  <2>3. saved' \in StatusRow
    BY <1>2 DEF TypeOK, SignsIn
  <2> QED BY <2>1, <2>2, <2>3 DEF DbTypes
<1>3. CASE SignsOut
  BY <1>3 DEF TypeOK, DbTypes, SignsOut
<1>4. CASE WriteLands
  <2>1. saved' \in StatusRow
    BY <1>4, LandType DEF WriteLands, TypeOK
  <2> QED BY <1>4, <2>1 DEF TypeOK, DbTypes, WriteLands
<1>5. CASE LateWriteLands
  <2>1. saved' \in StatusRow
    BY <1>5, LandType DEF LateWriteLands, TypeOK
  <2> QED BY <1>5, <2>1 DEF TypeOK, DbTypes, LateWriteLands
<1>6. CASE Tick
  <2>1. saved' \in StatusRow
    BY <1>6, LessRowType DEF Tick, TypeOK
  <2> QED BY <1>6, <2>1 DEF TypeOK, DbTypes, Tick
<1>7. CASE Restart
  <2>1. saved' \in StatusRow
    BY <1>7, LandType DEF Restart, TypeOK
  <2> QED BY <1>7, <2>1 DEF TypeOK, DbTypes, Restart
<1> QED BY <1>1, <1>2, <1>3, <1>4, <1>5, <1>6, <1>7, DbFrame DEF Exit, Crash

LEMMA StoppedFlag == stopped \in BOOLEAN /\ Next => stopped' \in BOOLEAN
BY PollsFrame, Zenon DEF PollReads, PollFails, PollSame, PollSignedOut, PollChanged,
  CredentialGone, CredentialFails, Stop, Exit, Crash, Restart

LEMMA SocketFlag == socket \in BOOLEAN /\ Next => socket' \in BOOLEAN
BY SessionFrame, Zenon DEF session, PollSignedOut, PollChanged, CredentialGone,
  Unsealed, UnsealedLate, RefusedTwice, HttpFails, VehicleMissing, Opened, OpenFails,
  FirstFrame, SocketCloses, SessionRefused, TimerFires, Tick, Stop, Exit, Crash, Restart, Halt,
  SignedOut, Unauthenticated

LEMMA FlowingFlag == flowing \in BOOLEAN /\ Next => flowing' \in BOOLEAN
BY SessionFrame, Zenon DEF session, PollSignedOut, PollChanged, CredentialGone,
  Unsealed, UnsealedLate, RefusedTwice, HttpFails, VehicleMissing, Opened, OpenFails,
  FirstFrame, SocketCloses, SessionRefused, TimerFires, Tick, Stop, Exit, Crash, Restart, Halt,
  SignedOut, Unauthenticated

LEMMA LoadedFlag == loaded \in BOOLEAN /\ Next => loaded' \in BOOLEAN
BY WritingFrame, Zenon DEF writing, StatusRead, WriterReads, WriterHasRead,
  WriterReadFails, WriterWrites, WriteLands, WriteFails, LateWriteLands, Tick, Exit,
  Crash, Restart, Load

LEMMA MisledFlag == misled \in BOOLEAN /\ Next => misled' \in BOOLEAN
BY PastFrame, Zenon DEF past, SignsIn, PollFails, StatusRead, CredentialFails,
  RefusedTwice, HttpFails, OpenFails, SocketCloses, SessionRefused, WriterReadFails,
  WriteFails, Stop, Exit, Crash, Restart

\* A step that changes the state enters one, and asks for a write.
LEMMA ShownStep ==
  TypeOK /\ Next =>
    \/ UNCHANGED shown
    \/ \E s \in State, left \in Wait : Enter(s, left)
    \/ FirstFrame \/ WriterReads \/ WriterWrites \/ Tick \/ Exit \/ Crash
<1> SUFFICES ASSUME TypeOK, Next,
                    \A s \in State, left \in Wait : ~ Enter(s, left), ~ UNCHANGED shown
             PROVE  FirstFrame \/ WriterReads \/ WriterWrites \/ Tick \/ Exit \/ Crash
  BY Zenon
<1>1. 0 \in Wait /\ reconnect \in Wait
  BY WaitArithmetic DEF TypeOK
<1>2. ~ PollSignedOut /\ ~ CredentialGone
  BY <1>1 DEF PollSignedOut, CredentialGone, SignedOut, State, Resting
<1>3. ~ PollChanged /\ ~ Unopened /\ ~ Opened
  BY <1>1 DEF PollChanged, Unopened, Opened, State, Resting, Active
<1>4. ~ Unauthenticated
  BY <1>1 DEF Unauthenticated, State, Resting
<1>5. \A then : ~ BackOff(then)
  BY WaitsAreWaits DEF BackOff, TypeOK, State, Active
<1>6. \A rest : ~ CallCsrf(rest) /\ ~ AskVehicle(rest) /\ ~ Connect(rest)
  BY <1>1 DEF CallCsrf, AskVehicle, Connect, State, Active
<1>7. \A t : ~ WaitOut(t)
  BY <1>1 DEF WaitOut, State, Active
<1>8. ~ Unsealed /\ ~ TimerFires
  BY <1>6, <1>7 DEF Unsealed, TimerFires, Timer, TypeOK
<1>9. ~ CsrfMade /\ ~ VehicleFound /\ ~ VehicleMissing
  BY <1>1, <1>6 DEF CsrfMade, VehicleFound, VehicleMissing, State, Active
<1>10. ~ RefusedTwice /\ ~ HttpFails /\ ~ OpenFails /\ ~ SocketCloses /\ ~ SessionRefused
  BY <1>4, <1>5 DEF RefusedTwice, HttpFails, OpenFails, SocketCloses, SessionRefused
<1> QED BY <1>2, <1>3, <1>8, <1>9, <1>10, ShownFrame

LEMMA ShownTyped == TypeOK /\ Next => ShownTypes' /\ dirty' \in BOOLEAN
<1> SUFFICES ASSUME TypeOK, Next PROVE ShownTypes' /\ dirty' \in BOOLEAN
  OBVIOUS
<1>1. CASE UNCHANGED shown
  BY <1>1 DEF TypeOK, ShownTypes, shown
<1>2. CASE \E s \in State, left \in Wait : Enter(s, left)
  BY <1>2, EnterType DEF ShownTypes
<1>3. CASE FirstFrame \/ WriterReads \/ WriterWrites
  BY <1>3, Zenon DEF FirstFrame, WriterReads, WriterWrites, TypeOK, ShownTypes
<1>4. CASE Tick
  BY <1>4, WaitArithmetic DEF Tick, TypeOK, ShownTypes
<1>5. CASE Exit \/ Crash
  BY <1>5, WaitArithmetic DEF Exit, Crash, Restart, ShownTypes, State, Resting
<1> QED BY <1>1, <1>2, <1>3, <1>4, <1>5, ShownStep

LEMMA SessionTyped == TypeOK /\ Next => SessionTypes'
<1> SUFFICES ASSUME TypeOK, Next PROVE SessionTypes'
  OBVIOUS
<1>0. TypeOK => SessionTypes
  BY DEF TypeOK, SessionTypes
<1>1. CASE UNCHANGED session
  BY <1>0, <1>1 DEF SessionTypes, session
<1>2. CASE Halt /\ Kept
  BY <1>2, HaltType DEF SessionTypes
<1>3. CASE Unauthenticated
  BY <1>3, UnauthenticatedType DEF SessionTypes
<1>4. CASE \E then \in {"acquire", "connect"} : BackOff(then)
  BY <1>4, BackOffType DEF SessionTypes
<1>5. CASE Unsealed
  <2>1. PICK t \in tasks :
          /\ token' = t.got /\ epoch' = epoch
          /\ timers' = timers \cup {[left |-> reconnect, then |-> "acquire"]} \/ timers' = timers
    BY <1>5 DEF Unsealed, WaitOut
  <2>2. token' \in SignIn \cup {None}
    BY <2>1 DEF TypeOK, Task
  <2>3. timers' \subseteq Timer
    BY <2>1 DEF TypeOK, Timer
  <2> QED BY <1>0, <2>1, <2>2, <2>3 DEF SessionTypes
<1>51. CASE UnsealedLate
  <2>1. token' \in SignIn \cup {None} /\ UNCHANGED <<epoch, timers>>
    BY <1>51 DEF UnsealedLate, TypeOK, Task
  <2> QED BY <1>0, <2>1 DEF SessionTypes
<1>6. CASE VehicleMissing
  <2>1. timers' \subseteq Timer /\ UNCHANGED <<token, epoch>>
    BY <1>6, WaitArithmetic DEF VehicleMissing, TypeOK, Timer
  <2> QED BY <1>0, <2>1 DEF SessionTypes
<1>7. CASE Opened \/ FirstFrame
  BY <1>0, <1>7 DEF SessionTypes, Opened, FirstFrame
<1>8. CASE TimerFires
  BY <1>0, <1>8 DEF SessionTypes, TimerFires
<1>9. CASE Tick
  <2>1. timers' \subseteq Timer
    BY <1>9, WaitArithmetic DEF Tick, TypeOK, Timer
  <2> QED BY <1>0, <1>9, <2>1 DEF SessionTypes, Tick
<1>10. CASE Stop
  <2>1. epoch' \in Nat /\ timers' = {} /\ token' = token
    BY <1>10 DEF Stop, TypeOK
  <2> QED BY <1>0, <2>1 DEF SessionTypes
<1>11. CASE Exit \/ Crash
  BY <1>11 DEF SessionTypes, Exit, Crash, Restart
<1> QED
  BY <1>1, <1>2, <1>3, <1>4, <1>5, <1>51, <1>6, <1>7, <1>8, <1>9, <1>10, <1>11, SessionFrame
  DEF PollSignedOut, PollChanged, CredentialGone, SignedOut, RefusedTwice, HttpFails, OpenFails,
      SocketCloses, SessionRefused

LEMMA TasksTyped == TypeOK /\ Next => TaskTypes'
<1> SUFFICES ASSUME TypeOK, Next PROVE TaskTypes'
  OBVIOUS
<1>1. CASE tasks' \subseteq tasks
  BY <1>1 DEF TypeOK, TaskTypes
<1>2. CASE \E op \in Op, e \in {epoch, epoch + 1}, got \in SignIn \cup {None} :
             tasks' \subseteq tasks \cup {Call(op, e, got)}
  BY <1>2, CallType DEF TypeOK, TaskTypes
<1>3. /\ RivianCall \subseteq Op /\ {"status", "credential", "unseal"} \subseteq Op
      /\ None \in SignIn \cup {None} /\ row \in SignIn \cup {None}
  BY DEF Op, TypeOK
<1>4. CASE PollChanged
  BY <1>2, <1>3, <1>4 DEF PollChanged
<1>5. CASE StatusRead \/ CredentialRead
  <2>1. \A t \in tasks : t.got \in SignIn \cup {None}
    BY DEF TypeOK, Task
  <2> QED BY <1>1, <1>2, <1>3, <1>5, <2>1 DEF StatusRead, CredentialRead, Answer
<1>6. CASE CredentialGone \/ CredentialFails \/ Unopened \/ Superseded \/ UnsealedLate \/ RefusedTwice \/ HttpFails
             \/ VehicleMissing \/ Opened \/ OpenFails
  BY <1>1, <1>6, Zenon
  DEF CredentialGone, CredentialFails, Unopened, Superseded, UnsealedLate, RefusedTwice, HttpFails,
      VehicleMissing, Opened, OpenFails, Answer
<1>7. \A t : WaitOut(t) => tasks' \subseteq tasks
  BY DEF WaitOut, Answer
<1>8. \A t : CallCsrf(tasks \ {t}) \/ CallCsrf(tasks) =>
        tasks' \subseteq tasks \cup {Call("csrf", epoch, None)}
  BY DEF CallCsrf
<1>9. \A t : AskVehicle(tasks \ {t}) \/ AskVehicle(tasks) =>
        tasks' \subseteq tasks \cup {Call("info", epoch, None)}
  BY DEF AskVehicle
<1>10. \A t : Connect(tasks \ {t}) \/ Connect(tasks) =>
        tasks' \subseteq tasks \cup {Call("open", epoch, None)}
  BY DEF Connect
<1>11. CASE Unsealed
  BY <1>1, <1>2, <1>3, <1>7, <1>8, <1>11 DEF Unsealed, RivianCall
<1>12. CASE CsrfMade \/ VehicleFound
  BY <1>2, <1>3, <1>9, <1>10, <1>12 DEF CsrfMade, VehicleFound, RivianCall
<1>13. CASE RefusedOnce \/ CsrfRemade
  BY <1>2, <1>3, <1>13 DEF RefusedOnce, CsrfRemade, Answer, RivianCall
<1>14. CASE TimerFires
  BY <1>2, <1>3, <1>8, <1>9, <1>10, <1>14 DEF TimerFires, RivianCall, Timer, TypeOK
<1>15. CASE Exit \/ Crash
  BY <1>1, <1>15 DEF Exit, Crash, Restart
<1> QED
  BY <1>1, <1>4, <1>5, <1>6, <1>11, <1>12, <1>13, <1>14, <1>15, TasksFrame

LEMMA PollTyped == TypeOK /\ Next => PollTypes'
<1> SUFFICES ASSUME TypeOK, Next PROVE PollTypes'
  OBVIOUS
<1>1. CASE UNCHANGED <<stamp, stopped, poll>>
  BY <1>1 DEF TypeOK, PollTypes
<1>2. CASE PollReads \/ PollFails \/ PollSame
  BY <1>2 DEF PollReads, PollFails, PollSame, TypeOK, PollTypes
<1>3. CASE PollSignedOut \/ PollChanged \/ CredentialGone \/ CredentialFails
  BY <1>3 DEF PollSignedOut, PollChanged, CredentialGone, CredentialFails, SignedOut, TypeOK,
              PollTypes
<1>4. CASE Stop \/ Exit \/ Crash
  BY <1>4 DEF Stop, Exit, Crash, Restart, TypeOK, PollTypes
<1> QED BY <1>1, <1>2, <1>3, <1>4, PollsFrame

LEMMA ClockTyped == TypeOK /\ Next => ClockTypes'
<1> SUFFICES ASSUME TypeOK, Next PROVE ClockTypes'
  OBVIOUS
<1>0. TypeOK => ClockTypes
  BY DEF TypeOK, ClockTypes
<1>1. CASE UNCHANGED clock
  BY <1>0, <1>1 DEF ClockTypes, clock
<1>2. CASE \E then \in {"acquire", "connect"} : BackOff(then)
  BY <1>2, BackOffType DEF ClockTypes
<1>3. Load => reconnect' \in Wait
  BY WaitArithmetic DEF Load, TypeOK, StatusRow
<1>4. CASE StatusRead \/ WriterHasRead
  BY <1>0, <1>3, <1>4 DEF StatusRead, WriterHasRead, ClockTypes, ghost
<1>5. CASE FirstFrame
  BY <1>0, <1>5 DEF FirstFrame, ClockTypes, ghost
<1>6. CASE WriteLands
  BY <1>0, <1>6, LandType DEF WriteLands, ClockTypes, TypeOK
<1>7. CASE LateWriteLands
  BY <1>0, <1>7, LandType DEF LateWriteLands, ClockTypes, TypeOK
<1>8. CASE Tick
  BY <1>0, <1>8, WaitArithmetic DEF Tick, ClockTypes
<1>9. CASE Restart
  <2>1. recorded' \in Wait
    BY <1>9, LandType DEF Restart, TypeOK
  <2> QED BY <1>9, <2>1, WaitArithmetic DEF Restart, ClockTypes
<1> QED
  BY <1>1, <1>2, <1>4, <1>5, <1>6, <1>7, <1>8, <1>9, ClockFrame
  DEF PollSignedOut, PollChanged, CredentialGone, SignedOut, Kept, RefusedTwice, HttpFails,
      OpenFails, SocketCloses, SessionRefused, Unauthenticated, Exit, Crash

LEMMA WritingTyped == TypeOK /\ Next => WritingTypes'
<1> SUFFICES ASSUME TypeOK, Next PROVE WritingTypes'
  OBVIOUS
<1>0. TypeOK => WritingTypes
  BY DEF TypeOK, WritingTypes
<1>1. CASE UNCHANGED writing
  BY <1>0, <1>1 DEF WritingTypes, writing
<1>2. CASE StatusRead
  BY <1>0, <1>2 DEF WritingTypes, StatusRead
<1>3. CASE WriterReads \/ WriterReadFails
  BY <1>0, <1>3 DEF WritingTypes, WriterReads, WriterReadFails
<1>4. CASE WriterHasRead \/ WriterWrites
  BY <1>0, <1>4, RowType DEF WritingTypes, WriterHasRead, WriterWrites
<1>5. CASE WriteLands \/ WriteFails \/ LateWriteLands
  BY <1>0, <1>5 DEF WritingTypes, WriteLands, WriteFails, LateWriteLands
<1>6. CASE Tick
  BY <1>0, <1>6, LessRowType DEF WritingTypes, Tick
<1>7. CASE Exit \/ Crash
  BY <1>7 DEF WritingTypes, Exit, Crash, Restart
<1> QED BY <1>1, <1>2, <1>3, <1>4, <1>5, <1>6, <1>7, WritingFrame

LEMMA PastTyped == TypeOK /\ Next => PastTypes'
<1> SUFFICES ASSUME TypeOK, Next PROVE PastTypes'
  OBVIOUS
<1>0. /\ failures \in Nat /\ blips \in Nat /\ ends \in Nat
      /\ dead \subseteq SignIn \cup {None, Undecided}
  BY DEF TypeOK
<1>1. failures' \in Nat
  <2>1. failures' = failures \/ Failure
    BY PastFrame, Zenon
    DEF past, SignsIn, PollFails, StatusRead, CredentialFails, RefusedTwice, HttpFails, OpenFails,
        SocketCloses, SessionRefused, WriterReadFails, WriteFails, Stop, Exit, Crash, Restart
  <2> QED BY <1>0, <2>1 DEF Failure
<1>2. blips' \in Nat
  <2>1. blips' = blips \/ Blip
    BY PastFrame, Zenon
    DEF past, SignsIn, PollFails, StatusRead, CredentialFails, RefusedTwice, HttpFails, OpenFails,
        SocketCloses, SessionRefused, WriterReadFails, WriteFails, Stop, Exit, Crash, Restart
  <2> QED BY <1>0, <2>1 DEF Blip
<1>3. ends' \in Nat
  <2>1. ends' = ends \/ End
    BY PastFrame, Zenon
    DEF past, SignsIn, PollFails, StatusRead, CredentialFails, RefusedTwice, HttpFails, OpenFails,
        SocketCloses, SessionRefused, WriterReadFails, WriteFails, Stop, Exit, Crash, Restart
  <2> QED BY <1>0, <2>1 DEF End
<1>4. dead' \subseteq SignIn \cup {None, Undecided}
  <2>1. dead' = dead \/ Unauthenticated \/ dead' = {}
    BY PastFrame, Zenon
    DEF past, SignsIn, PollFails, StatusRead, CredentialFails, RefusedTwice, HttpFails, OpenFails,
        SocketCloses, SessionRefused, WriterReadFails, WriteFails, Stop, Exit, Crash, Restart
  <2> QED BY <1>0, <2>1, UnauthenticatedType
<1> QED BY <1>1, <1>2, <1>3, <1>4 DEF PastTypes

LEMMA TypesStep == TypeOK /\ [Next]_vars => TypeOK'
<1>1. TypeOK /\ Next => TypeOK'
  <2> SUFFICES ASSUME TypeOK, Next PROVE TypeOK'
    OBVIOUS
  <2>1. FlagTypes
    BY TypeParts
  <2>2. FlagTypes'
    BY <2>1, StoppedFlag, SocketFlag, FlowingFlag, LoadedFlag, MisledFlag, ShownTyped, Zenon
    DEF FlagTypes
  <2>3. /\ DbTypes' /\ ShownTypes' /\ SessionTypes' /\ TaskTypes' /\ PollTypes' /\ ClockTypes'
        /\ WritingTypes' /\ PastTypes'
    BY DbTyped, ShownTyped, SessionTyped, TasksTyped, PollTyped, ClockTyped, WritingTyped, PastTyped
  <2> QED
    BY <2>2, <2>3, Zenon
    DEF TypeOK, DbTypes, FlagTypes, ShownTypes, SessionTypes, TaskTypes, PollTypes, ClockTypes,
        WritingTypes, PastTypes
<1>2. TypeOK /\ UNCHANGED vars => TypeOK'
  BY DEF TypeOK, vars
<1> QED BY <1>1, <1>2

LEMMA TypesInit == Init => TypeOK
<1> SUFFICES ASSUME Init PROVE TypeOK
  OBVIOUS
<1>1. FlagTypes
  BY DEF Init, FlagTypes
<1>2. DbTypes /\ ShownTypes /\ PollTypes /\ ClockTypes
  BY ConstantsAssumption
  DEF Init, DbTypes, ShownTypes, PollTypes, ClockTypes, Wait, StatusRow, State, Resting
<1>3. SessionTypes /\ TaskTypes /\ WritingTypes /\ PastTypes
  BY DEF Init, SessionTypes, TaskTypes, WritingTypes, PastTypes
<1> QED BY <1>1, <1>2, <1>3, TypeParts

\* The connector's variables have the values the code gives them: no wait is longer than
\* the cap, whatever failed before it (Backoff.next).
THEOREM TypesKept == Spec => []TypeOK
BY TypesInit, TypesStep, PTL DEF Spec

-----------------------------------------------------------------------------
(* One driver.                                                             *)

LEMMA LifeFrame ==
  Next =>
    \/ UNCHANGED <<tasks, epoch, stopped, timers, socket, state, stamp>>
    \/ PollSignedOut \/ PollChanged \/ StatusRead \/ CredentialRead \/ CredentialGone
    \/ CredentialFails \/ Unopened \/ Unsealed \/ Superseded \/ UnsealedLate \/ CsrfMade \/ RefusedOnce
    \/ CsrfRemade \/ RefusedTwice \/ HttpFails \/ VehicleFound \/ VehicleMissing \/ Opened
    \/ OpenFails \/ SocketCloses \/ SessionRefused \/ TimerFires \/ Tick \/ Stop \/ Exit \/ Crash
BY Zenon
DEF Next, session, shown, SignsIn, SignsOut, PollReads, PollFails, PollSame, FirstFrame,
    WriterReads, WriterHasRead, WriterReadFails, WriterWrites, WriteLands, WriteFails,
    LateWriteLands

\* The call that can act is the one driver.
LEMMA Acting ==
  ASSUME TypeOK, Driven, NEW t \in tasks, Alive(t)
  PROVE  /\ Live = {t} /\ timers = {} /\ socket = FALSE /\ stopped = FALSE
         /\ ~ Idle /\ state \in Active
<1>1. t \in Live /\ stopped = FALSE
  BY Zenon DEF Live, Alive, TypeOK
<1>2. ~ Idle
  BY <1>1 DEF Idle
<1>3. ByCall
  BY <1>1, <1>2 DEF Driven, ByTimer, BySocket
<1>4. state \in Active
  BY <1>1, <1>2 DEF Driven, TypeOK, State
<1> QED BY <1>1, <1>2, <1>3, <1>4, Zenon DEF ByCall, TypeOK

\* Its answer leaves what it calls next.
LEMMA Answered ==
  ASSUME TypeOK, Driven, NEW t \in tasks, Alive(t), NEW next, \A c \in next : c.epoch = epoch,
         tasks' = (tasks \ {t}) \cup next, UNCHANGED <<epoch, stopped>>
  PROVE  Live' = next
<1>1. Live = {t} /\ stopped = FALSE
  BY Acting
<1>2. \A c : Alive(c)' <=> Alive(c)
  BY DEF Alive
<1>3. \A c \in next : Alive(c)
  BY <1>1 DEF Alive
<1> QED BY <1>1, <1>2, <1>3 DEF Live

\* A new epoch silences every call.
LEMMA Silenced ==
  ASSUME TypeOK, Epochs, epoch' = epoch + 1, NEW next, tasks' \subseteq tasks \cup next
  PROVE  Live' \subseteq next
<1>1. \A t \in tasks : t.epoch # epoch'
  BY DEF Epochs, TypeOK
<1> QED BY <1>1 DEF Live, Alive

LEMMA RestsThen ==
  ASSUME stopped' = FALSE, Live' = {}, timers' = {}, socket' = FALSE,
         state' \in Resting \/ stamp' = Undecided
  PROVE  Driven' /\ Idle'
BY DEF Driven, Idle, Resting, Active

LEMMA CallsThen ==
  ASSUME stopped' = FALSE, NEW c, Live' = {c}, timers' = {}, socket' = FALSE, state' \in Active
  PROVE  Driven'
<1>1. ByCall'
  BY DEF ByCall, Live
<1>2. ~ Idle'
  BY DEF Idle
<1>3. state' \notin Resting
  BY DEF Resting, Active
<1> QED BY <1>1, <1>2, <1>3 DEF Driven

LEMMA WaitsThen ==
  ASSUME stopped' = FALSE, Live' = {}, NEW m, timers' = {m}, socket' = FALSE, state' \in Active
  PROVE  Driven'
<1>1. ByTimer'
  BY DEF ByTimer
<1>2. ~ Idle'
  BY DEF Idle
<1>3. state' \notin Resting
  BY DEF Resting, Active
<1> QED BY <1>1, <1>2, <1>3 DEF Driven

LEMMA StreamsThen ==
  ASSUME stopped' = FALSE, Live' = {}, timers' = {}, socket' = TRUE, state' \in Active
  PROVE  Driven'
<1>1. BySocket'
  BY DEF BySocket
<1>2. ~ Idle'
  BY DEF Idle
<1>3. state' \notin Resting
  BY DEF Resting, Active
<1> QED BY <1>1, <1>2, <1>3 DEF Driven

LEMMA ActiveStates ==
  {"starting", "finding_vehicle", "waiting_for_vehicle", "connecting", "subscribed", "backing_off"}
    = Active
BY DEF Active

LEMMA HaltEnds ==
  ASSUME TypeOK, Epochs, Halt, tasks' \subseteq tasks
  PROVE  Live' = {} /\ timers' = {} /\ socket' = FALSE
<1>1. tasks' \subseteq tasks \cup {} /\ epoch' = epoch + 1
  BY DEF Halt
<1> QED BY <1>1, Silenced DEF Halt

LEMMA BackOffWaits ==
  ASSUME NEW then, BackOff(then), timers = {}
  PROVE  /\ \E m : timers' = {m}
         /\ state' \in Active /\ UNCHANGED epoch
BY ActiveStates DEF BackOff, Enter

\* A step of the connector's that has stopped.
LEMMA StoppedStep ==
  TypeOK /\ Driven /\ Next /\ stopped => Driven'
<1> SUFFICES ASSUME TypeOK, Driven, Next, stopped PROVE Driven'
  OBVIOUS
<1>1. timers = {} /\ socket = FALSE /\ stopped = TRUE
  BY Zenon DEF Driven, TypeOK
<1>2. \A t : ~ Alive(t)
  BY <1>1 DEF Alive
<1>3. CASE UNCHANGED <<stopped, timers, socket>>
  BY <1>1, <1>3 DEF Driven
<1>4. CASE Tick
  <2>1. timers' = {} /\ UNCHANGED <<stopped, socket>>
    BY <1>1, <1>4 DEF Tick
  <2> QED BY <1>1, <2>1 DEF Driven
<1>5. CASE Restart
  <2>1. Live' = {}
    BY <1>5 DEF Restart, Live
  <2> QED BY <1>5, <2>1, RestsThen DEF Restart, Resting
<1>6. CASE StatusRead \/ CredentialFails \/ Superseded \/ UnsealedLate
  BY <1>3, <1>6, Zenon DEF StatusRead, CredentialFails, Superseded, UnsealedLate, session
<1>7. /\ ~ PollSignedOut /\ ~ PollChanged /\ ~ CredentialRead /\ ~ CredentialGone /\ ~ Unopened
      /\ ~ Unsealed /\ ~ CsrfMade /\ ~ RefusedOnce /\ ~ CsrfRemade /\ ~ RefusedTwice
      /\ ~ HttpFails /\ ~ VehicleFound /\ ~ VehicleMissing /\ ~ Opened /\ ~ OpenFails
      /\ ~ SocketCloses /\ ~ SessionRefused /\ ~ TimerFires /\ ~ Stop
  BY <1>1, <1>2, Zenon
  DEF PollSignedOut, PollChanged, CredentialRead, CredentialGone, Unopened, Unsealed, CsrfMade,
      RefusedOnce, CsrfRemade, RefusedTwice, HttpFails, VehicleFound, VehicleMissing, Opened,
      OpenFails, SocketCloses, SessionRefused, TimerFires, Stop
<1> QED BY <1>3, <1>4, <1>5, <1>6, <1>7, LifeFrame, Zenon DEF Exit, Crash

LEMMA EpochsStep == TypeOK /\ Epochs /\ Next => Epochs'
<1> SUFFICES ASSUME TypeOK, Epochs, Next PROVE Epochs'
  OBVIOUS
<1>0. epoch \in Nat
  BY DEF TypeOK
<1>1. CASE tasks' \subseteq tasks /\ epoch' \in {epoch, epoch + 1}
  BY <1>0, <1>1 DEF Epochs
<1>2. CASE \E c : tasks' \subseteq tasks \cup {c} /\ c.epoch = epoch /\ epoch' = epoch
  BY <1>0, <1>2 DEF Epochs
<1>3. CASE PollChanged
  <2>1. epoch' = epoch + 1 /\ tasks' = tasks \cup {Call("status", epoch + 1, None)}
    BY <1>3 DEF PollChanged, Halt
  <2>2. Call("status", epoch + 1, None).epoch = epoch + 1
    BY DEF Call
  <2> QED BY <1>0, <2>1, <2>2 DEF Epochs
<1>4. CASE Exit \/ Crash
  BY <1>4 DEF Exit, Crash, Restart, Epochs
<1>5. \A op, got : Call(op, epoch, got).epoch = epoch
  BY DEF Call
<1>6. CASE PollSignedOut \/ CredentialGone \/ RefusedTwice \/ SessionRefused \/ Stop
  BY <1>1, <1>6
  DEF PollSignedOut, CredentialGone, RefusedTwice, SessionRefused, Stop, SignedOut, Unauthenticated,
      Halt, Answer
<1>7. CASE OpenFails
  BY <1>1, <1>7 DEF OpenFails, Unauthenticated, BackOff, Halt, Answer
<1>8. CASE CredentialFails \/ Unopened \/ Superseded \/ UnsealedLate \/ HttpFails \/ VehicleMissing \/ Opened
             \/ SocketCloses \/ Tick
  BY <1>1, <1>8
  DEF CredentialFails, Unopened, Superseded, UnsealedLate, HttpFails, VehicleMissing, Opened, SocketCloses, Tick,
      session, BackOff, Answer
<1>9. CASE StatusRead \/ CredentialRead \/ RefusedOnce \/ CsrfRemade
  BY <1>1, <1>2, <1>5, <1>9
  DEF StatusRead, CredentialRead, RefusedOnce, CsrfRemade, session, Answer
<1>10. \A t : WaitOut(t) => tasks' \subseteq tasks
  BY DEF WaitOut, Answer
<1>11. \A t : CallCsrf(tasks \ {t}) \/ CallCsrf(tasks) =>
         tasks' \subseteq tasks \cup {Call("csrf", epoch, None)}
  BY DEF CallCsrf
<1>12. \A t : AskVehicle(tasks \ {t}) \/ AskVehicle(tasks) =>
         tasks' \subseteq tasks \cup {Call("info", epoch, None)}
  BY DEF AskVehicle
<1>13. \A t : Connect(tasks \ {t}) \/ Connect(tasks) =>
         tasks' \subseteq tasks \cup {Call("open", epoch, None)}
  BY DEF Connect
<1>14. CASE Unsealed
  BY <1>1, <1>2, <1>5, <1>10, <1>11, <1>14 DEF Unsealed
<1>15. CASE CsrfMade \/ VehicleFound
  BY <1>2, <1>5, <1>12, <1>13, <1>15 DEF CsrfMade, VehicleFound, session
<1>16. CASE TimerFires
  BY <1>2, <1>5, <1>11, <1>12, <1>13, <1>16 DEF TimerFires, TypeOK, Timer
<1>17. CASE UNCHANGED <<tasks, epoch, stopped, timers, socket, state, stamp>>
  BY <1>1, <1>17
<1> QED
  BY <1>3, <1>4, <1>6, <1>7, <1>8, <1>9, <1>14, <1>15, <1>16, <1>17, LifeFrame, Zenon

\* What the answer of the one driver leaves: its next call, a timer, the socket, nothing.
LEMMA CallNext ==
  ASSUME TypeOK, Driven, NEW t \in tasks, Alive(t), NEW op, NEW got,
         tasks' = (tasks \ {t}) \cup {Call(op, epoch, got)},
         UNCHANGED <<epoch, stopped, timers, socket>>, state' \in Active
  PROVE  Driven'
<1>1. \A c \in {Call(op, epoch, got)} : c.epoch = epoch
  BY DEF Call
<1>2. Live' = {Call(op, epoch, got)}
  BY <1>1, Answered
<1> QED BY <1>2, Acting, CallsThen

LEMMA AnswerEnds ==
  ASSUME TypeOK, Driven, NEW t \in tasks, Alive(t), Answer(t, {}), UNCHANGED <<epoch, stopped>>
  PROVE  Live' = {}
<1> DEFINE next == {}
<1>1. tasks' = (tasks \ {t}) \cup next /\ \A c \in next : c.epoch = epoch
  BY DEF Answer
<1> QED BY <1>1, Answered

LEMMA CallRests ==
  ASSUME TypeOK, Driven, NEW t \in tasks, Alive(t), Answer(t, {}),
         UNCHANGED <<epoch, stopped, timers, socket>>, state' \in Resting
  PROVE  Driven'
BY AnswerEnds, Acting, RestsThen

LEMMA CallWaits ==
  ASSUME TypeOK, Driven, NEW t \in tasks, Alive(t), Answer(t, {}),
         UNCHANGED <<epoch, stopped, socket>>, NEW m, timers' = timers \cup {m}, state' \in Active
  PROVE  Driven'
<1>1. timers' = {m}
  BY Acting
<1> QED BY <1>1, AnswerEnds, Acting, WaitsThen

LEMMA CallBacksOff ==
  ASSUME TypeOK, Driven, NEW t \in tasks, Alive(t), Answer(t, {}),
         UNCHANGED <<stopped, socket>>, NEW then, BackOff(then)
  PROVE  Driven'
<1>1. PICK m : timers' = {m}
  BY Acting, BackOffWaits
<1>2. state' \in Active /\ epoch' = epoch
  BY Acting, BackOffWaits
<1> QED BY <1>1, <1>2, AnswerEnds, Acting, WaitsThen

LEMMA LifeHalts ==
  ASSUME TypeOK, Epochs, stopped' = FALSE, Halt, tasks' \subseteq tasks,
         state' \in Resting \/ stamp' = Undecided
  PROVE  Driven'
BY HaltEnds, RestsThen

LEMMA EnterState == ASSUME NEW s, NEW left, Enter(s, left) PROVE state' = s
BY DEF Enter

LEMMA RestingStates == Resting = {"signed_out", "unauthenticated", "credential_invalid"}
BY DEF Resting

\* The steps of a call that is out: one driver is replaced by the next.
LEMMA AskDriven ==
  ASSUME TypeOK, Driven,
         \/ CredentialRead \/ Unsealed \/ CsrfMade \/ RefusedOnce \/ CsrfRemade \/ VehicleFound
  PROVE  Driven'
<1>1. CASE CredentialRead
  <2>1. PICK t \in tasks : /\ Alive(t) /\ Answer(t, {Call("unseal", epoch, t.got)})
                           /\ UNCHANGED <<epoch, stopped, timers, socket, state>>
    BY <1>1, Zenon DEF CredentialRead, session, shown
  <2>2. state' \in Active
    BY <2>1, Acting
  <2> QED BY <2>1, <2>2, CallNext DEF Answer
<1>2. CASE Unsealed
  <2>1. PICK t \in tasks : /\ Alive(t) /\ UNCHANGED <<epoch, stopped, socket>>
                           /\ \/ WaitOut(t)
                              \/ CallCsrf(tasks \ {t}) /\ UNCHANGED timers
    BY <1>2, Zenon DEF Unsealed
  <2>2. CASE WaitOut(t)
    <3>1. state' \in Active
      BY <2>2, EnterState, ActiveStates DEF WaitOut
    <3> QED BY <2>1, <2>2, <3>1, CallWaits DEF WaitOut
  <2>3. CASE CallCsrf(tasks \ {t}) /\ UNCHANGED timers
    <3>1. state' \in Active
      BY <2>3, EnterState, ActiveStates DEF CallCsrf, shown
    <3> QED BY <2>1, <2>3, <3>1, CallNext DEF CallCsrf
  <2> QED BY <2>1, <2>2, <2>3
<1>3. CASE CsrfMade
  <2>1. PICK t \in tasks : /\ Alive(t) /\ AskVehicle(tasks \ {t})
                           /\ UNCHANGED <<epoch, stopped, timers, socket>>
    BY <1>3, Zenon DEF CsrfMade, session
  <2>2. state' \in Active
    BY <2>1, EnterState, ActiveStates DEF AskVehicle, shown
  <2> QED BY <2>1, <2>2, CallNext DEF AskVehicle
<1>4. CASE RefusedOnce
  <2>1. PICK t \in tasks : /\ Alive(t) /\ Answer(t, {Call("csrf2", epoch, None)})
                           /\ UNCHANGED <<epoch, stopped, timers, socket, state>>
    BY <1>4, Zenon DEF RefusedOnce, session, shown
  <2>2. state' \in Active
    BY <2>1, Acting
  <2> QED BY <2>1, <2>2, CallNext DEF Answer
<1>5. CASE CsrfRemade
  <2>1. PICK t \in tasks : /\ Alive(t) /\ Answer(t, {Call("info2", epoch, None)})
                           /\ UNCHANGED <<epoch, stopped, timers, socket, state>>
    BY <1>5, Zenon DEF CsrfRemade, session, shown
  <2>2. state' \in Active
    BY <2>1, Acting
  <2> QED BY <2>1, <2>2, CallNext DEF Answer
<1>6. CASE VehicleFound
  <2>1. PICK t \in tasks : /\ Alive(t) /\ Connect(tasks \ {t})
                           /\ UNCHANGED <<epoch, stopped, timers, socket>>
    BY <1>6, Zenon DEF VehicleFound, session
  <2>2. state' \in Active
    BY <2>1, EnterState, ActiveStates DEF Connect
  <2> QED BY <2>1, <2>2, CallNext DEF Connect
<1> QED BY <1>1, <1>2, <1>3, <1>4, <1>5, <1>6

LEMMA AnswerDriven ==
  ASSUME TypeOK, Epochs, Driven,
         \/ CredentialGone \/ Unopened \/ RefusedTwice \/ HttpFails \/ VehicleMissing \/ Opened
         \/ OpenFails
  PROVE  Driven'
<1>1. CASE CredentialGone
  <2>1. PICK t \in tasks : Alive(t) /\ Answer(t, {}) /\ SignedOut /\ UNCHANGED stopped
    BY <1>1, Zenon DEF CredentialGone
  <2>2. stopped' = FALSE /\ Halt /\ tasks' \subseteq tasks /\ state' \in Resting
    BY <2>1, Acting, EnterState, RestingStates DEF SignedOut, Answer
  <2> QED BY <2>2, LifeHalts
<1>2. CASE Unopened
  <2>1. PICK t \in tasks : /\ Alive(t) /\ Answer(t, {}) /\ Enter("credential_invalid", 0)
                           /\ UNCHANGED <<epoch, stopped, timers, socket>>
    BY <1>2, Zenon DEF Unopened, session
  <2>2. state' \in Resting
    BY <2>1, EnterState, RestingStates
  <2> QED BY <2>1, <2>2, CallRests
<1>3. CASE RefusedTwice
  <2>1. PICK t \in tasks : Alive(t) /\ Answer(t, {}) /\ Unauthenticated /\ UNCHANGED stopped
    BY <1>3, Zenon DEF RefusedTwice
  <2>2. stopped' = FALSE /\ Halt /\ tasks' \subseteq tasks /\ state' \in Resting
    BY <2>1, Acting, EnterState, RestingStates DEF Unauthenticated, Answer
  <2> QED BY <2>2, LifeHalts
<1>4. CASE HttpFails
  <2>1. PICK t \in tasks : /\ Alive(t) /\ Answer(t, {}) /\ BackOff("acquire")
                           /\ UNCHANGED <<stopped, socket>>
    BY <1>4, Zenon DEF HttpFails
  <2> QED BY <2>1, CallBacksOff
<1>5. CASE VehicleMissing
  <2>1. PICK t \in tasks : /\ Alive(t) /\ Answer(t, {}) /\ UNCHANGED <<epoch, stopped, socket>>
                           /\ timers' = timers \cup {[left |-> 0, then |-> "look"]}
                           /\ \/ Enter("waiting_for_vehicle", 0)
                              \/ UNCHANGED state
    BY <1>5, Zenon DEF VehicleMissing, shown
  <2>2. state' \in Active
    BY <2>1, Acting, EnterState, ActiveStates
  <2> QED BY <2>1, <2>2, CallWaits
<1>6. CASE Opened
  <2>1. PICK t \in tasks : /\ Alive(t) /\ Answer(t, {}) /\ UNCHANGED <<epoch, stopped, timers>>
                           /\ socket' = TRUE /\ Enter("subscribed", 0)
    BY <1>6, Zenon DEF Opened
  <2>2. state' \in Active
    BY <2>1, EnterState, ActiveStates
  <2> QED BY <2>1, <2>2, AnswerEnds, Acting, StreamsThen
<1>7. CASE OpenFails
  <2>1. PICK t \in tasks : /\ Alive(t) /\ Answer(t, {}) /\ UNCHANGED stopped
                           /\ \/ Unauthenticated
                              \/ BackOff("connect") /\ UNCHANGED socket
    BY <1>7, Zenon DEF OpenFails
  <2>2. CASE Unauthenticated
    <3>1. stopped' = FALSE /\ Halt /\ tasks' \subseteq tasks /\ state' \in Resting
      BY <2>1, <2>2, Acting, EnterState, RestingStates DEF Unauthenticated, Answer
    <3> QED BY <3>1, LifeHalts
  <2>3. CASE BackOff("connect") /\ UNCHANGED socket
    BY <2>1, <2>3, CallBacksOff
  <2> QED BY <2>1, <2>2, <2>3
<1> QED BY <1>1, <1>2, <1>3, <1>4, <1>5, <1>6, <1>7

\* The timer and the socket, too, are the one driver.
LEMMA TimerActing ==
  ASSUME TypeOK, Driven, NEW t \in timers
  PROVE  /\ timers = {t} /\ Live = {} /\ socket = FALSE /\ stopped = FALSE
         /\ ~ Idle /\ state \in Active
<1>1. stopped = FALSE /\ ~ Idle
  BY Zenon DEF Driven, TypeOK, Idle
<1>2. ByTimer
  BY <1>1 DEF Driven, ByCall, BySocket
<1>3. state \in Active
  BY <1>1 DEF Driven, TypeOK, State
<1> QED BY <1>1, <1>2, <1>3, Zenon DEF ByTimer, TypeOK

LEMMA SocketActing ==
  ASSUME TypeOK, Driven, socket
  PROVE  timers = {} /\ Live = {} /\ stopped = FALSE /\ ~ Idle /\ state \in Active
<1>1. stopped = FALSE /\ ~ Idle
  BY Zenon DEF Driven, TypeOK, Idle
<1>2. BySocket
  BY <1>1 DEF Driven, ByCall, ByTimer
<1>3. state \in Active
  BY <1>1 DEF Driven, TypeOK, State
<1> QED BY <1>1, <1>2, <1>3 DEF BySocket

\* Time passes for every timer alike.
LEMMA TickDriven == ASSUME TypeOK, Driven, stopped = FALSE, Tick PROVE Driven'
<1> DEFINE later(t) == [left |-> Less(t.left), then |-> t.then]
<1>1. /\ UNCHANGED <<tasks, epoch, stopped, socket, state, stamp>>
      /\ timers' = {later(t) : t \in timers}
  BY DEF Tick
<1>2. Live' = Live
  BY <1>1 DEF Live, Alive
<1>3. (timers = {} => timers' = {}) /\ (\A t : timers = {t} => timers' = {later(t)})
  BY <1>1
<1>4. /\ Idle => Idle'
      /\ ~ Idle => ~ Idle'
      /\ ByCall => ByCall'
      /\ ByTimer => ByTimer'
      /\ BySocket => BySocket'
  <2> HIDE DEF later
  <2>1. timers' = {} <=> timers = {}
    BY <1>1
  <2>2. ByTimer => ByTimer'
    BY <1>1, <1>2, <1>3 DEF ByTimer
  <2> QED BY <1>1, <1>2, <2>1, <2>2 DEF Idle, ByCall, BySocket
<1> QED BY <1>1, <1>4, Zenon DEF Driven

LEMMA DrivenStep == TypeOK /\ Epochs /\ Driven /\ Next => Driven'
<1> SUFFICES ASSUME TypeOK, Epochs, Driven, Next, stopped = FALSE PROVE Driven'
  BY StoppedStep DEF TypeOK
<1>1. CASE UNCHANGED <<tasks, epoch, stopped, timers, socket, state, stamp>>
  BY <1>1 DEF Driven, Idle, ByCall, ByTimer, BySocket, Live, Alive
<1>2. CASE PollSignedOut
  <2>1. Halt /\ UNCHANGED <<tasks, stopped>> /\ Enter("signed_out", 0)
    BY <1>2, Zenon DEF PollSignedOut, SignedOut
  <2>2. state' \in Resting
    BY <2>1, EnterState, RestingStates
  <2> QED BY <2>1, <2>2, LifeHalts
<1>3. CASE PollChanged
  <2> DEFINE c == Call("status", epoch + 1, None)
  <2>1. /\ Halt /\ stopped' = FALSE /\ Enter("starting", 0) /\ tasks' = tasks \cup {c}
    BY <1>3, Zenon DEF PollChanged
  <2>2. epoch' = epoch + 1 /\ timers' = {} /\ socket' = FALSE
    BY <2>1 DEF Halt
  <2>3. Live' \subseteq {c}
    BY <2>1, <2>2, Silenced
  <2>4. c \in Live'
    BY <2>1, <2>2 DEF Live, Alive, Call
  <2>5. state' \in Active
    BY <2>1, EnterState, ActiveStates
  <2>6. Live' = {c}
    BY <2>3, <2>4
  <2> QED BY <2>1, <2>2, <2>5, <2>6, CallsThen
<1>4. CASE StatusRead
  <2>1. PICK t \in tasks : /\ Answer(t, IF Alive(t) THEN {Call("credential", epoch, row)} ELSE {})
                           /\ UNCHANGED <<epoch, stopped, timers, socket, state, stamp>>
    BY <1>4, Zenon DEF StatusRead, session, shown
  <2>2. CASE Alive(t)
    <3>1. state' \in Active
      BY <2>1, <2>2, Acting
    <3> QED BY <2>1, <2>2, <3>1, CallNext DEF Answer
  <2>3. CASE ~ Alive(t)
    <3>1. Live' = Live
      BY <2>1, <2>3 DEF Answer, Live, Alive
    <3> QED BY <2>1, <3>1 DEF Driven, Idle, ByCall, ByTimer, BySocket, Live
  <2> QED BY <2>2, <2>3
<1>5. CASE CredentialFails
  <2>1. PICK t \in tasks : /\ Answer(t, {}) /\ stamp' = Undecided
                           /\ UNCHANGED <<epoch, stopped, timers, socket, state>>
    BY <1>5, Zenon DEF CredentialFails, session, shown
  <2>2. CASE Alive(t)
    BY <2>1, <2>2, AnswerEnds, Acting, RestsThen
  <2>3. CASE ~ Alive(t)
    <3>1. Live' = Live
      BY <2>1, <2>3 DEF Answer, Live, Alive
    <3> QED BY <2>1, <3>1 DEF Driven, Idle, ByCall, ByTimer, BySocket, Live
  <2> QED BY <2>2, <2>3
<1>6. CASE Superseded \/ UnsealedLate
  <2>1. PICK t \in tasks : /\ Answer(t, {}) /\ ~ Alive(t)
                           /\ UNCHANGED <<epoch, stopped, timers, socket, state, stamp>>
    BY <1>6, Zenon DEF Superseded, UnsealedLate, session, shown
  <2>2. Live' = Live
    BY <2>1 DEF Answer, Live, Alive
  <2> QED BY <2>1, <2>2 DEF Driven, Idle, ByCall, ByTimer, BySocket, Live
<1>7. CASE SocketCloses
  <2>1. /\ socket /\ socket' = FALSE /\ BackOff("connect") /\ UNCHANGED <<tasks, stopped>>
    BY <1>7, Zenon DEF SocketCloses
  <2>2. Live = {} /\ timers = {}
    BY <2>1, SocketActing
  <2>3. PICK m : timers' = {m}
    BY <2>1, <2>2, BackOffWaits
  <2>4. state' \in Active /\ UNCHANGED epoch
    BY <2>1, <2>2, BackOffWaits
  <2>5. Live' = {}
    BY <2>1, <2>2, <2>4 DEF Live, Alive
  <2> QED BY <2>1, <2>3, <2>4, <2>5, WaitsThen
<1>8. CASE SessionRefused
  <2>1. Unauthenticated /\ UNCHANGED <<tasks, stopped>>
    BY <1>8, Zenon DEF SessionRefused
  <2>2. Halt /\ state' \in Resting
    BY <2>1, EnterState, RestingStates DEF Unauthenticated
  <2> QED BY <2>1, <2>2, LifeHalts
<1>9. CASE TimerFires
  <2>1. PICK t \in timers :
          /\ timers' = timers \ {t} /\ UNCHANGED <<epoch, stopped, socket>>
          /\ CallCsrf(tasks) \/ Connect(tasks) \/ AskVehicle(tasks)
    BY <1>9 DEF TimerFires, TypeOK, Timer
  <2>2. timers' = {} /\ Live = {} /\ socket' = FALSE
    BY <2>1, TimerActing
  <2>3. PICK op : tasks' = tasks \cup {Call(op, epoch, None)}
    BY <2>1 DEF CallCsrf, Connect, AskVehicle
  <2>4. state' \in Active
    BY <2>1, EnterState, ActiveStates DEF CallCsrf, Connect, AskVehicle, shown
  <2>5. Live' = {Call(op, epoch, None)}
    BY <2>1, <2>2, <2>3 DEF Live, Alive, Call
  <2> QED BY <2>1, <2>2, <2>4, <2>5, CallsThen
<1>10. CASE Stop
  BY <1>10 DEF Stop, Driven
<1>11. CASE Restart
  <2>1. Live' = {}
    BY <1>11 DEF Restart, Live
  <2> QED BY <1>11, <2>1, RestsThen DEF Restart, Resting
<1> QED
  BY <1>1, <1>2, <1>3, <1>4, <1>5, <1>6, <1>7, <1>8, <1>9, <1>10, <1>11, AskDriven, AnswerDriven,
     TickDriven, LifeFrame, Zenon
  DEF Exit, Crash

LEMMA DriversCounted ==
  ASSUME TypeOK, Driven, stopped = FALSE
  PROVE  IF Idle THEN Drivers = 0 ELSE Drivers = 1
<1> DEFINE live == Cardinality(Live)
           waiting == Cardinality(timers)
           open == Cardinality({s \in {socket} : s})
<1>1. Drivers = live + waiting + open
  BY DEF Drivers, Live
<1>2. (Live = {} => live = 0) /\ \A t : Live = {t} => live = 1
  BY FS_EmptySet, FS_Singleton
<1>3. (timers = {} => waiting = 0) /\ \A t : timers = {t} => waiting = 1
  BY FS_EmptySet, FS_Singleton
<1>4. socket = FALSE => open = 0
  <2> SUFFICES ASSUME socket = FALSE PROVE open = 0
    OBVIOUS
  <2>1. {s \in {socket} : s} = {}
    OBVIOUS
  <2> QED BY <2>1, FS_EmptySet
<1>5. socket = TRUE => open = 1
  <2> SUFFICES ASSUME socket = TRUE PROVE open = 1
    OBVIOUS
  <2>1. {s \in {socket} : s} = {TRUE}
    OBVIOUS
  <2> QED BY <2>1, FS_Singleton
<1>6. Idle \/ ByCall \/ ByTimer \/ BySocket
  BY DEF Driven
<1>7. Idle => live = 0 /\ waiting = 0 /\ open = 0
  BY <1>2, <1>3, <1>4, Zenon DEF Idle, TypeOK
<1>8. ByCall => live = 1 /\ waiting = 0 /\ open = 0 /\ ~ Idle
  <2>1. ByCall => Live # {}
    BY DEF ByCall
  <2> QED BY <2>1, <1>2, <1>3, <1>4, Zenon DEF ByCall, Idle, TypeOK
<1>9. ByTimer => live = 0 /\ waiting = 1 /\ open = 0 /\ ~ Idle
  <2>1. ByTimer => timers # {}
    BY DEF ByTimer
  <2> QED BY <2>1, <1>2, <1>3, <1>4, Zenon DEF ByTimer, Idle, TypeOK
<1>10. BySocket => live = 0 /\ waiting = 0 /\ open = 1 /\ ~ Idle
  BY <1>2, <1>3, <1>5, Zenon DEF BySocket, Idle, TypeOK
<1> HIDE DEF live, waiting, open
<1> QED BY <1>1, <1>6, <1>7, <1>8, <1>9, <1>10

LEMMA DriverInit == Init => Epochs /\ Driven
BY DEF Init, Epochs, Driven, Idle, Live, Resting, Active

LEMMA DriverUnchanged == Epochs /\ Driven /\ UNCHANGED vars => Epochs' /\ Driven'
BY DEF vars, Epochs, Driven, Idle, ByCall, ByTimer, BySocket, Live, Alive

\* Rule 3 of connector.ts: a lifecycle is carried on by exactly one call, timer or socket,
\* however polls, answers, closes, timers, stops and restarts interleave: never by two, and by
\* none only where the state rests or the next poll begins another.
THEOREM DrivenByOne == Spec => []OneDriver
<1> DEFINE I == TypeOK /\ Epochs /\ Driven
<1>1. Init => I
  BY TypesInit, DriverInit
<1>2. I /\ [Next]_vars => I'
  BY TypesStep, EpochsStep, DrivenStep, DriverUnchanged
<1>3. I => OneDriver
  <2> SUFFICES ASSUME TypeOK, Driven, stopped = FALSE
               PROVE  /\ Drivers <= 1
                      /\ state \in Resting => Drivers = 0
                      /\ state \in Active /\ stamp # Undecided => Drivers = 1
    BY Zenon DEF OneDriver, TypeOK
  <2>1. IF Idle THEN Drivers = 0 ELSE Drivers = 1
    BY DriversCounted
  <2>2. /\ state \in Resting => Idle
        /\ state \in Active /\ stamp # Undecided => ~ Idle
    BY DEF Driven
  <2> QED BY <2>1, <2>2
<1> QED BY <1>1, <1>2, <1>3, PTL DEF Spec

-----------------------------------------------------------------------------
(* The backoff.                                                            *)

LEMMA PaidFrame ==
  Next =>
    \/ UNCHANGED <<tasks, epoch, stopped, timers, socket, reconnect, owed>>
    \/ PollSignedOut \/ PollChanged \/ StatusRead \/ CredentialRead \/ CredentialGone
    \/ CredentialFails \/ Unopened \/ Unsealed \/ Superseded \/ UnsealedLate \/ CsrfMade \/ RefusedOnce
    \/ CsrfRemade \/ RefusedTwice \/ HttpFails \/ VehicleFound \/ VehicleMissing \/ Opened
    \/ OpenFails \/ SocketCloses \/ SessionRefused \/ TimerFires \/ WriterHasRead \/ Tick \/ Stop
    \/ Exit \/ Crash
BY Zenon
DEF Next, session, clock, ghost, SignsIn, SignsOut, PollReads, PollFails, PollSame, FirstFrame,
    WriterReads, WriterReadFails, WriterWrites, WriteLands, WriteFails, LateWriteLands

\* Nothing is owed to a call that is let through.
LEMMA PaidBefore ==
  ASSUME TypeOK, Paid
  PROVE  /\ owed \in Wait /\ reconnect \in Wait /\ 0 <= owed
         /\ reconnect = 0 => owed = 0
         /\ \A t \in timers : t.left = 0 => owed = 0
         /\ \A t \in tasks : Alive(t) /\ t.op \in RivianCall => owed = 0
<1>1. owed \in Wait /\ reconnect \in Wait /\ owed <= reconnect
  BY DEF TypeOK, Paid
<1>2. 0 <= owed /\ (reconnect = 0 => owed = 0)
  BY <1>1, ConstantsAssumption DEF Wait
<1>3. \A t \in timers : t.left = 0 => owed = 0
  BY <1>1, ConstantsAssumption DEF Wait, Paid
<1> QED BY <1>1, <1>2, <1>3 DEF Paid, Live

LEMMA BackOffPaid ==
  ASSUME TypeOK, owed = 0, timers = {}, NEW then, BackOff(then), socket' = FALSE, Live' = {}
  PROVE  Paid'
<1>1. PICK w \in Waits(attempt) :
        /\ reconnect' = Larger(reconnect, w) /\ owed' = Larger(owed, w)
        /\ timers' = {[left |-> w, then |-> then]}
  BY DEF BackOff
<1>2. w \in Wait /\ reconnect \in Wait
  BY WaitsAreWaits DEF TypeOK
<1>3. owed' = w /\ owed' <= reconnect'
  BY <1>1, <1>2, ConstantsAssumption DEF Larger, Wait
<1>4. \A t \in timers' : owed' <= t.left
  BY <1>1, <1>2, <1>3, ConstantsAssumption DEF Wait
<1> QED BY <1>3, <1>4 DEF Paid

LEMMA PaidFree == TypeOK /\ owed = 0 => Paid
BY ConstantsAssumption DEF TypeOK, Paid, Wait, Timer

\* A step that may only move the clock on.
LEMMA PaidKept ==
  ASSUME TypeOK, Paid, owed' = owed, reconnect' \in Wait, reconnect <= reconnect',
         \A t \in timers' : t \in timers \/ t.left = reconnect,
         socket' => socket, \A t \in Live' : t \in Live \/ t.op \notin RivianCall
  PROVE  Paid'
<1>1. owed' <= reconnect'
  BY ConstantsAssumption DEF TypeOK, Paid, Wait
<1>2. \A t \in timers' : owed' <= t.left
  BY DEF Paid
<1>3. socket' => owed' = 0
  BY DEF Paid
<1>4. \A t \in Live' : t.op \in RivianCall => owed' = 0
  BY DEF Paid
<1> QED BY <1>1, <1>2, <1>3, <1>4 DEF Paid

LEMMA LiveGrows ==
  ASSUME UNCHANGED <<epoch, stopped>>, NEW next, tasks' \subseteq tasks \cup next
  PROVE  Live' \subseteq Live \cup next
BY DEF Live, Alive

LEMMA HaltPaid ==
  ASSUME TypeOK, Epochs, Paid, Halt, Kept, \A t \in tasks' : t \in tasks \/ t.op \notin RivianCall
  PROVE  Paid'
<1>1. /\ timers' = {} /\ socket' = FALSE /\ owed' = owed /\ reconnect' = reconnect
      /\ epoch' = epoch + 1
  BY DEF Halt, Kept, clock
<1>2. Live' \subseteq tasks' \ tasks
  <2>1. Live' \subseteq tasks' /\ tasks' \subseteq tasks \cup (tasks' \ tasks)
    BY DEF Live
  <2>2. Live' \subseteq tasks' \ tasks
    BY <1>1, <2>1, Silenced
  <2> QED BY <2>2
<1>3. reconnect \in Wait /\ reconnect <= reconnect
  BY ConstantsAssumption DEF TypeOK, Wait
<1> QED BY <1>1, <1>2, <1>3, PaidKept

LEMMA TickPaid == ASSUME TypeOK, Paid, Tick PROVE Paid'
<1>0. \A a, b \in Wait : a <= b => Less(a) <= Less(b)
  BY ConstantsAssumption DEF Wait, Less
<1>1. /\ owed' = Less(owed) /\ reconnect' = Less(reconnect)
      /\ timers' = {[left |-> Less(t.left), then |-> t.then] : t \in timers}
      /\ UNCHANGED <<tasks, epoch, stopped, socket>>
  BY DEF Tick
<1>2. owed' <= reconnect'
  BY <1>0, <1>1 DEF TypeOK, Paid
<1>3. \A t \in timers' : owed' <= t.left
  BY <1>0, <1>1 DEF TypeOK, Paid, Timer
<1>4. owed = 0 => owed' = 0
  BY <1>1 DEF Less
<1>5. Live' = Live
  BY <1>1 DEF Live, Alive
<1> QED BY <1>1, <1>2, <1>3, <1>4, <1>5 DEF Paid

LEMMA PaidStep == TypeOK /\ Epochs /\ Driven /\ Paid /\ Next => Paid'
<1> SUFFICES ASSUME TypeOK, Epochs, Driven, Paid, Next, owed' # 0 PROVE Paid'
  <2>1. TypeOK /\ Next => TypeOK'
    BY TypesStep
  <2>2. (TypeOK /\ owed = 0 => Paid)'
    BY PaidFree, PTL
  <2> QED BY <2>1, <2>2
<1>0. reconnect \in Wait /\ reconnect <= reconnect
  BY ConstantsAssumption DEF TypeOK, Wait
<1>1. CASE UNCHANGED <<tasks, epoch, stopped, timers, socket, reconnect, owed>>
  BY <1>1 DEF Paid, Live, Alive
<1>2. CASE PollSignedOut \/ CredentialGone
  <2>1. Halt /\ Kept /\ tasks' \subseteq tasks
    BY <1>2 DEF PollSignedOut, CredentialGone, SignedOut, Answer
  <2> QED BY <2>1, HaltPaid
<1>3. CASE PollChanged
  <2>1. Halt /\ Kept /\ tasks' \subseteq tasks \cup {Call("status", epoch + 1, None)}
    BY <1>3 DEF PollChanged
  <2>2. Call("status", epoch + 1, None).op \notin RivianCall
    BY DEF Call, RivianCall
  <2> QED BY <2>1, <2>2, HaltPaid
<1>4. CASE Unauthenticated /\ tasks' \subseteq tasks
  BY <1>4, HaltPaid DEF Unauthenticated
<1>5. Load => reconnect' \in Wait /\ reconnect <= reconnect'
  BY <1>0, WaitArithmetic DEF Load, TypeOK, StatusRow
<1>6. CASE StatusRead
  <2>1. /\ UNCHANGED <<epoch, stopped, timers, socket, owed>>
        /\ Load \/ reconnect' = reconnect
        /\ tasks' \subseteq tasks \cup {Call("credential", epoch, row)}
    BY <1>6 DEF StatusRead, session, ghost, Answer
  <2>2. Live' \subseteq Live \cup {Call("credential", epoch, row)}
    BY <2>1, LiveGrows
  <2>3. Call("credential", epoch, row).op \notin RivianCall
    BY DEF Call, RivianCall
  <2> QED BY <1>0, <1>5, <2>1, <2>2, <2>3, PaidKept
<1>7. CASE WriterHasRead
  <2>1. UNCHANGED <<epoch, stopped, timers, socket, owed, tasks>> /\ Load
    BY <1>7 DEF WriterHasRead, session, ghost
  <2>2. Live' = Live
    BY <2>1 DEF Live, Alive
  <2> QED BY <1>5, <2>1, <2>2, PaidKept
<1>8. CASE CredentialRead
  <2>1. PICK got : /\ UNCHANGED <<epoch, stopped, timers, socket, owed, reconnect>>
                   /\ tasks' \subseteq tasks \cup {Call("unseal", epoch, got)}
    BY <1>8 DEF CredentialRead, session, clock, Answer
  <2>2. Live' \subseteq Live \cup {Call("unseal", epoch, got)}
    BY <2>1, LiveGrows
  <2>3. Call("unseal", epoch, got).op \notin RivianCall
    BY DEF Call, RivianCall
  <2> QED BY <1>0, <2>1, <2>2, <2>3, PaidKept
<1>9. CASE CredentialFails \/ Unopened \/ Superseded \/ UnsealedLate
  <2>1. /\ UNCHANGED <<epoch, stopped, timers, socket, owed, reconnect>>
        /\ tasks' \subseteq tasks \cup {}
    BY <1>9 DEF CredentialFails, Unopened, Superseded, UnsealedLate, session, clock, Answer
  <2>2. Live' \subseteq Live \cup {}
    BY <2>1, LiveGrows
  <2> QED BY <1>0, <2>1, <2>2, PaidKept
<1>10. CASE Unsealed
  <2>1. PICK t \in tasks : /\ UNCHANGED <<epoch, stopped, socket, owed, reconnect>>
                           /\ \/ WaitOut(t)
                              \/ ~ MustWait
    BY <1>10 DEF Unsealed, clock
  <2>2. CASE ~ MustWait
    <3>1. reconnect = 0
      BY <1>0, <2>2, ConstantsAssumption DEF MustWait, Wait
    <3> QED BY <2>1, <3>1, PaidBefore
  <2>3. CASE WaitOut(t)
    <3>1. /\ timers' = timers \cup {[left |-> reconnect, then |-> "acquire"]}
          /\ tasks' \subseteq tasks \cup {}
      BY <2>3 DEF WaitOut, Answer
    <3>2. Live' \subseteq Live \cup {}
      BY <2>1, <3>1, LiveGrows
    <3> QED BY <1>0, <2>1, <3>1, <3>2, PaidKept
  <2> QED BY <2>1, <2>2, <2>3
<1>11. ~ CsrfMade /\ ~ RefusedOnce /\ ~ CsrfRemade /\ ~ VehicleFound /\ ~ VehicleMissing /\ ~ Opened
  <2>1. \A t \in tasks : Alive(t) /\ t.op \in {"csrf", "info", "csrf2", "info2", "open"} => owed = 0
    BY PaidBefore DEF RivianCall
  <2> QED BY <2>1
    DEF CsrfMade, RefusedOnce, CsrfRemade, VehicleFound, VehicleMissing, Opened, clock
<1>12. ~ TimerFires
  BY PaidBefore DEF TimerFires, clock
<1>13. CASE RefusedTwice \/ SessionRefused
  BY <1>4, <1>13 DEF RefusedTwice, SessionRefused, Answer
<1>14. CASE HttpFails
  <2>1. PICK t \in tasks : /\ Alive(t) /\ t.op \in RivianCall /\ Answer(t, {})
                           /\ BackOff("acquire") /\ UNCHANGED <<stopped, socket>>
    BY <1>14, Zenon DEF HttpFails
  <2>2. owed = 0 /\ timers = {} /\ socket' = FALSE /\ epoch' = epoch
    BY <2>1, PaidBefore, Acting DEF BackOff
  <2>3. Live' = {}
    BY <2>1, <2>2, AnswerEnds
  <2> QED BY <2>1, <2>2, <2>3, BackOffPaid
<1>15. CASE OpenFails
  <2>1. PICK t \in tasks : /\ Alive(t) /\ t.op \in RivianCall /\ Answer(t, {}) /\ UNCHANGED stopped
                           /\ \/ Unauthenticated
                              \/ BackOff("connect") /\ UNCHANGED socket
    BY <1>15 DEF OpenFails, RivianCall
  <2>2. CASE Unauthenticated
    BY <1>4, <2>1, <2>2 DEF Answer
  <2>3. CASE BackOff("connect") /\ UNCHANGED socket
    <3>1. owed = 0 /\ timers = {} /\ socket' = FALSE /\ epoch' = epoch
      BY <2>1, <2>3, PaidBefore, Acting DEF BackOff
    <3>2. Live' = {}
      BY <2>1, <3>1, AnswerEnds
    <3> QED BY <2>3, <3>1, <3>2, BackOffPaid
  <2> QED BY <2>1, <2>2, <2>3
<1>16. CASE SocketCloses
  <2>1. /\ socket /\ socket' = FALSE /\ BackOff("connect") /\ UNCHANGED <<tasks, stopped>>
    BY <1>16, Zenon DEF SocketCloses
  <2>2. owed = 0 /\ timers = {} /\ Live = {} /\ epoch' = epoch
    BY <2>1, SocketActing DEF BackOff, Paid
  <2>3. Live' = {}
    BY <2>1, <2>2 DEF Live, Alive
  <2> QED BY <2>1, <2>2, <2>3, BackOffPaid
<1>17. CASE Stop
  <2>1. /\ timers' = {} /\ socket' = FALSE /\ UNCHANGED <<owed, reconnect>>
        /\ Live' = {}
    BY <1>17 DEF Stop, clock, Live, Alive
  <2> QED BY <1>0, <2>1, PaidKept
<1>18. ~ Restart
  BY DEF Restart
<1> QED
  BY <1>1, <1>2, <1>3, <1>6, <1>7, <1>8, <1>9, <1>10, <1>11, <1>12, <1>13, <1>14, <1>15, <1>16,
     <1>17, <1>18, TickPaid, PaidFrame, Zenon
  DEF Exit, Crash

\* What begins a session: an unsealed credential that need not wait, a vehicle, a timer.
LEMMA BeginStep ==
  ASSUME TypeOK, Next, Begins
  PROVE  \/ VehicleFound \/ TimerFires
         \/ Unsealed /\ ~ MustWait
<1> SUFFICES ASSUME ~ VehicleFound, ~ TimerFires, Unsealed => MustWait PROVE FALSE
  OBVIOUS
<1>1. PICK c \in tasks' \ tasks : c.op \in {"csrf", "open"}
  BY DEF Begins
<1>2. ~ (tasks' \subseteq tasks)
  BY <1>1
<1>3. \A op, e, got : tasks' \subseteq tasks \cup {Call(op, e, got)} => op \in {"csrf", "open"}
  BY <1>1 DEF Call
<1>4. ~ PollChanged
  BY <1>3 DEF PollChanged
<1>5. ~ StatusRead /\ ~ CredentialRead /\ ~ RefusedOnce /\ ~ CsrfRemade
  BY <1>2, <1>3 DEF StatusRead, CredentialRead, RefusedOnce, CsrfRemade, Answer
<1>6. /\ ~ CredentialGone /\ ~ CredentialFails /\ ~ Unopened /\ ~ Superseded /\ ~ UnsealedLate /\ ~ RefusedTwice
      /\ ~ HttpFails /\ ~ VehicleMissing /\ ~ Opened /\ ~ OpenFails
  BY <1>2
  DEF CredentialGone, CredentialFails, Unopened, Superseded, UnsealedLate, RefusedTwice, HttpFails,
      VehicleMissing, Opened, OpenFails, Answer
<1>7. ~ CsrfMade
  BY <1>3 DEF CsrfMade, AskVehicle
<1>8. ~ Unsealed
  BY <1>2 DEF Unsealed, WaitOut, Answer
<1>9. ~ Exit /\ ~ Crash
  BY <1>1 DEF Exit, Crash, Restart
<1> QED BY <1>2, <1>4, <1>5, <1>6, <1>7, <1>8, <1>9, TasksFrame

\* Rule 2 of connector.ts: no step asks Rivian for an app session or a socket before every wait
\* that this process's failures asked for is over, whatever failed, and whatever sign-ins and
\* sign-outs came between (the clock that #halt keeps, connector.ts: #backOff, #acquire).
THEOREM NoneTooSoon == Spec => BackoffKept
<1> DEFINE I == TypeOK /\ Epochs /\ Driven /\ Paid
<1>1. Init => I
  <2>1. Init => Paid
    BY DEF Init, Paid, Live
  <2> QED BY <2>1, TypesInit, DriverInit
<1>2. I /\ [Next]_vars => I'
  <2>1. Paid /\ UNCHANGED vars => Paid'
    BY DEF Paid, Live, Alive, vars
  <2> QED BY <2>1, TypesStep, EpochsStep, DrivenStep, PaidStep, DriverUnchanged
<1>3. I /\ [Next]_vars => [Begins => owed = 0]_vars
  <2> SUFFICES ASSUME I, Next, Begins PROVE owed = 0
    OBVIOUS
  <2>1. CASE VehicleFound
    BY <2>1, PaidBefore DEF VehicleFound, RivianCall
  <2>2. CASE TimerFires
    BY <2>2, PaidBefore DEF TimerFires
  <2>3. CASE Unsealed /\ ~ MustWait
    <3>1. reconnect = 0
      BY <2>3, ConstantsAssumption DEF MustWait, TypeOK, Wait
    <3> QED BY <3>1, PaidBefore
  <2> QED BY <2>1, <2>2, <2>3, BeginStep
<1> QED BY <1>1, <1>2, <1>3, PTL DEF Spec, BackoffKept

-----------------------------------------------------------------------------
(* The dead.                                                               *)

LEMMA StampFrame ==
  Next =>
    \/ UNCHANGED <<row, signIns, stamp, poll, dead, misled>>
    \/ SignsIn \/ SignsOut \/ PollReads \/ PollFails \/ PollSame \/ PollSignedOut \/ PollChanged
    \/ CredentialGone \/ CredentialFails \/ RefusedTwice \/ OpenFails \/ SessionRefused
    \/ Exit \/ Crash
BY Zenon
DEF Next, db, past, StatusRead, CredentialRead, Unopened, Unsealed, Superseded, UnsealedLate, CsrfMade,
    RefusedOnce, CsrfRemade, HttpFails, VehicleFound, VehicleMissing, Opened, FirstFrame,
    SocketCloses, TimerFires, WriterReads, WriterHasRead, WriterReadFails, WriterWrites,
    WriteLands, WriteFails, LateWriteLands, Tick, Stop

LEMMA StampTypes ==
  TypeOK => /\ signIns \in Nat /\ row \in Int /\ stamp \in Int
            /\ \A v \in poll : v \in Int /\ (v # None => v \in SignIn)
            /\ \A v \in SignIn : v \in Int /\ 1 <= v
BY ConstantsAssumption DEF TypeOK, SignIn, None, Undecided

LEMMA PolledStep == TypeOK /\ Polled /\ Next => Polled'
<1> SUFFICES ASSUME TypeOK, Polled, Next PROVE Polled'
  OBVIOUS
<1>0. /\ signIns \in Nat /\ row \in Int /\ stamp \in Int
      /\ \A v \in poll : v \in Int
  BY StampTypes
<1> USE DEF None
<1>1. CASE UNCHANGED <<row, signIns, stamp, poll>>
  BY <1>1 DEF Polled
<1>2. CASE SignsIn
  <2>1. signIns' = signIns + 1 /\ row' = signIns + 1 /\ UNCHANGED <<stamp, poll>>
    BY <1>2 DEF SignsIn
  <2>2. row' # stamp /\ stamp <= signIns'
    BY <1>0, <2>1 DEF Polled
  <2>3. \A v \in poll : v # None => v <= signIns'
    BY <1>0, <2>1 DEF Polled
  <2> QED BY <2>1, <2>2, <2>3 DEF Polled
<1>3. CASE SignsOut
  <2>1. row' = None /\ UNCHANGED <<signIns, stamp, poll>>
    BY <1>3 DEF SignsOut
  <2> QED BY <2>1, StampTypes DEF Polled, SignIn
<1>4. CASE PollReads
  <2>1. poll' = {row} /\ UNCHANGED <<row, signIns, stamp>>
    BY <1>4 DEF PollReads, db
  <2>2. row # None => row <= signIns /\ stamp <= row
    BY <1>0 DEF Polled
  <2>3. row = None /\ stamp \in SignIn => row # stamp
    BY DEF SignIn
  <2> QED BY <2>1, <2>2, <2>3 DEF Polled
<1>5. CASE PollFails \/ PollSame
  <2>1. poll' = {} /\ UNCHANGED <<row, signIns, stamp>>
    BY <1>5 DEF PollFails, PollSame, db
  <2> QED BY <2>1 DEF Polled
<1>6. CASE PollSignedOut
  <2>1. poll' = {} /\ stamp' = None /\ UNCHANGED <<row, signIns>>
    BY <1>6 DEF PollSignedOut, SignedOut, db
  <2> QED BY <1>0, <2>1 DEF Polled
<1>7. CASE PollChanged
  <2>1. PICK v \in poll \ {None} : poll' = {} /\ stamp' = v /\ UNCHANGED <<row, signIns>>
    BY <1>7 DEF PollChanged, db
  <2> QED BY <2>1 DEF Polled
<1>8. CASE CredentialGone \/ CredentialFails
  <2>1. stamp' \in {None, Undecided} /\ UNCHANGED <<row, signIns, poll>>
    BY <1>8 DEF CredentialGone, CredentialFails, SignedOut, db
  <2>2. stamp' \in {0, -1} /\ stamp' \notin SignIn
    BY <2>1 DEF SignIn, Undecided
  <2>3. stamp' <= signIns'
    BY <1>0, <2>1, <2>2
  <2>4. \A v \in poll : v # None => 1 <= v
    BY StampTypes
  <2>5. \A v \in poll' : v # None => v <= signIns' /\ stamp' <= v
    BY <1>0, <2>1, <2>2, <2>4 DEF Polled
  <2> QED BY <2>1, <2>2, <2>3, <2>5 DEF Polled
<1>9. CASE RefusedTwice \/ OpenFails \/ SessionRefused
  BY <1>1, <1>9 DEF RefusedTwice, OpenFails, SessionRefused, db
<1>10. CASE Restart
  <2>1. poll' = {} /\ stamp' = Undecided /\ UNCHANGED <<row, signIns>>
    BY <1>10 DEF Restart
  <2> QED BY <1>0, <2>1 DEF Polled, Undecided
<1> QED
  BY <1>1, <1>2, <1>3, <1>4, <1>5, <1>6, <1>7, <1>8, <1>9, <1>10, StampFrame DEF Exit, Crash

\* Only a poll's answer begins a lifecycle.
LEMMA Stirs == TypeOK /\ Epochs /\ Driven /\ Next /\ Idle => Idle' \/ PollChanged
<1> SUFFICES ASSUME TypeOK, Epochs, Next, Idle PROVE Idle' \/ PollChanged
  OBVIOUS
<1>0. timers = {} /\ socket = FALSE /\ Live = {}
  BY Zenon DEF Idle, TypeOK
<1>1. \A t \in tasks : ~ Alive(t)
  BY <1>0 DEF Live
<1>2. CASE UNCHANGED <<epoch, stopped, timers, socket>> /\ tasks' \subseteq tasks
  BY <1>0, <1>2 DEF Idle, Live, Alive
<1>3. CASE UNCHANGED <<tasks, epoch, stopped, timers, socket, state, stamp>>
  BY <1>2, <1>3
<1>4. CASE StatusRead \/ CredentialFails \/ Superseded \/ UnsealedLate
  BY <1>1, <1>2, <1>4 DEF StatusRead, CredentialFails, Superseded, UnsealedLate, session, Answer
<1>5. CASE PollSignedOut \/ CredentialGone \/ RefusedTwice \/ SessionRefused
  <2>1. Halt /\ tasks' \subseteq tasks
    BY <1>5
    DEF PollSignedOut, CredentialGone, RefusedTwice, SessionRefused, SignedOut, Unauthenticated,
        Answer
  <2> QED BY <2>1, HaltEnds DEF Idle
<1>6. CASE Tick
  <2>1. timers' = {} /\ UNCHANGED <<tasks, epoch, stopped, socket>>
    BY <1>0, <1>6 DEF Tick
  <2> QED BY <1>0, <2>1 DEF Idle, Live, Alive
<1>7. CASE Stop
  BY <1>7 DEF Stop, Idle, Live, Alive
<1>8. CASE Restart
  BY <1>8 DEF Restart, Idle, Live
<1>9. /\ ~ CredentialRead /\ ~ Unopened /\ ~ Unsealed /\ ~ CsrfMade /\ ~ RefusedOnce /\ ~ CsrfRemade
      /\ ~ HttpFails /\ ~ VehicleFound /\ ~ VehicleMissing /\ ~ Opened /\ ~ OpenFails
      /\ ~ SocketCloses /\ ~ TimerFires
  BY <1>0, <1>1, Zenon
  DEF CredentialRead, Unopened, Unsealed, CsrfMade, RefusedOnce, CsrfRemade, HttpFails,
      VehicleFound, VehicleMissing, Opened, OpenFails, SocketCloses, TimerFires
<1> QED BY <1>3, <1>4, <1>5, <1>6, <1>7, <1>8, <1>9, LifeFrame, Zenon DEF Exit, Crash

LEMMA StopsForGood == Next => (stopped => stopped') \/ Restart
BY PollsFrame, Zenon
DEF PollReads, PollFails, PollSame, PollSignedOut, PollChanged, CredentialGone, CredentialFails,
    Stop, Exit, Crash

\* A session is refused to the lifecycle that asked: its stamp joins the dead.
LEMMA RefusedMourned ==
  ASSUME TypeOK, Epochs, Polled, Mourned, stopped = FALSE, ~ misled, ~ Idle, Unauthenticated,
         tasks' \subseteq tasks, UNCHANGED <<row, signIns, stamp, poll>>
  PROVE  Mourned'
<1>1. Idle' /\ dead' = dead \cup {stamp}
  BY HaltEnds DEF Unauthenticated, Idle
<1>2. stamp \in SignIn /\ dead \subseteq 1..signIns
  BY DEF Mourned
<1>3. stamp \in 1..signIns
  BY <1>2, StampTypes DEF Polled
<1>4. dead' \subseteq 1..signIns'
  BY <1>1, <1>2, <1>3
<1>5. \A v \in poll' \cup {row'} : v \in dead' => stamp' = v
  BY <1>1 DEF Mourned
<1> QED BY <1>1, <1>4, <1>5 DEF Mourned

LEMMA MournedStep ==
  TypeOK /\ Epochs /\ Driven /\ Polled /\ Mourned /\ Next => Mourned'
<1> SUFFICES ASSUME TypeOK, Epochs, Driven, Polled, Mourned, Next, ~ stopped', ~ misled'
             PROVE  Mourned'
  BY DEF Mourned
<1>1. CASE Restart
  <2>1. dead' = {} /\ Idle'
    BY <1>1 DEF Restart, Idle, Live
  <2> QED BY <2>1 DEF Mourned
<1> SUFFICES ASSUME ~ Restart PROVE Mourned'
  BY <1>1
<1>2. stopped = FALSE
  BY StopsForGood, Zenon DEF TypeOK
<1>3. ~ misled
  BY PastFrame, Zenon
  DEF past, SignsIn, PollFails, StatusRead, CredentialFails, RefusedTwice, HttpFails, OpenFails,
      SocketCloses, SessionRefused, WriterReadFails, WriteFails, Stop, Exit, Crash
<1>4. /\ ~ Idle => stamp \in SignIn \ dead
      /\ dead \subseteq 1..signIns
      /\ \A v \in poll \cup {row} : v \in dead => stamp = v
  BY <1>2, <1>3 DEF Mourned
<1>5. ASSUME UNCHANGED <<stamp, dead, signIns>>, ~ PollChanged,
             \A v \in poll' \cup {row'} : v \in poll \cup {row} \/ v \notin dead
      PROVE  Mourned'
  <2>1. ~ Idle' => ~ Idle
    BY <1>5, Stirs
  <2> QED BY <1>4, <1>5, <2>1 DEF Mourned
<1>6. CASE UNCHANGED <<row, signIns, stamp, poll, dead, misled>> /\ ~ PollChanged
  BY <1>5, <1>6
<1>7. CASE SignsIn
  <2>1. /\ signIns' = signIns + 1 /\ row' = signIns + 1 /\ dead' = dead
        /\ UNCHANGED <<stamp, poll, tasks, epoch, stopped, timers, socket>>
    BY <1>7 DEF SignsIn, session
  <2>2. Idle' <=> Idle
    BY <2>1 DEF Idle, Live, Alive
  <2>3. 1..signIns \subseteq 1..signIns + 1 /\ signIns + 1 \notin 1..signIns
    BY StampTypes
  <2> QED BY <1>4, <2>1, <2>2, <2>3 DEF Mourned
<1>8. CASE SignsOut
  <2>1. row' = None /\ UNCHANGED <<signIns, stamp, poll, dead>> /\ ~ PollChanged
    BY <1>8 DEF SignsOut, past, PollChanged
  <2>2. None \notin dead
    BY <1>4 DEF None
  <2> QED BY <1>5, <2>1, <2>2
<1>9. CASE PollReads \/ PollFails \/ PollSame
  <2>1. poll' \subseteq {row} /\ UNCHANGED <<row, signIns, stamp, dead>>
    BY <1>9 DEF PollReads, PollFails, PollSame, past, db
  <2>2. ~ PollChanged
    BY <2>1 DEF PollChanged
  <2> QED BY <1>5, <2>1, <2>2
<1>10. CASE PollSignedOut
  <2>1. /\ poll' = {} /\ stamp' = None /\ None \in poll /\ UNCHANGED <<row, signIns, dead>>
        /\ Halt /\ tasks' \subseteq tasks
    BY <1>10 DEF PollSignedOut, SignedOut, past, db
  <2>2. Idle'
    BY <2>1, HaltEnds DEF Idle
  <2>3. row \notin dead
    <3>1. row \in dead => stamp = row
      BY <1>4
    <3>2. row \in dead => row \in SignIn
      BY <1>4, ConstantsAssumption DEF SignIn, TypeOK
    <3> QED BY <2>1, <3>1, <3>2 DEF Polled
  <2> QED BY <1>4, <2>1, <2>2, <2>3 DEF Mourned
<1>11. CASE PollChanged
  <2>1. PICK v \in poll \ {None, stamp} :
          poll' = {} /\ stamp' = v /\ UNCHANGED <<row, signIns, dead>>
    BY <1>11 DEF PollChanged, past, db
  <2>2. v \in SignIn \ dead
    BY <1>4, <2>1, StampTypes
  <2>3. v <= signIns /\ stamp < v
    BY <2>1, StampTypes DEF Polled
  <2>4. row \notin dead
    <3>1. row \in dead => row = signIns /\ stamp = row
      BY <1>4, StampTypes DEF Polled, None
    <3> QED BY <2>2, <2>3, <3>1, StampTypes
  <2> QED BY <1>4, <2>1, <2>2, <2>4 DEF Mourned
<1>12. CASE CredentialGone
  <2>1. PICK t \in tasks :
          /\ Alive(t) /\ SignedOut /\ tasks' \subseteq tasks
          /\ UNCHANGED <<row, signIns, poll, dead>>
    BY <1>12 DEF CredentialGone, Answer, past, db
  <2>2. stamp' = None /\ Halt /\ stamp \notin dead
    BY <1>4, <2>1, Acting DEF SignedOut
  <2>3. Idle'
    BY <2>1, <2>2, HaltEnds DEF Idle
  <2> QED BY <1>4, <2>1, <2>2, <2>3 DEF Mourned
<1>13. CASE CredentialFails
  <2>1. PICK t \in tasks :
          /\ Answer(t, {}) /\ stamp' = Undecided /\ UNCHANGED <<row, signIns, poll, dead>>
          /\ UNCHANGED <<epoch, stopped, timers, socket>>
          /\ misled' = (misled \/ (t.epoch # epoch /\ ~stopped))
    BY <1>13, Zenon DEF CredentialFails, db, session
  <2>2. Alive(t)
    BY <1>2, <2>1 DEF Alive
  <2>3. stamp \notin dead /\ timers = {} /\ socket = FALSE
    BY <1>4, <2>2, Acting
  <2>4. Idle'
    BY <2>1, <2>2, <2>3, AnswerEnds DEF Idle
  <2> QED BY <1>4, <2>1, <2>3, <2>4 DEF Mourned
<1>14. CASE RefusedTwice
  <2>1. PICK t \in tasks : /\ Alive(t) /\ Unauthenticated /\ tasks' \subseteq tasks
                           /\ UNCHANGED <<row, signIns, stamp, poll>>
    BY <1>14 DEF RefusedTwice, Answer, db
  <2> QED BY <1>2, <1>3, <2>1, Acting, RefusedMourned
<1>15. CASE OpenFails
  <2>1. PICK t \in tasks : /\ Alive(t) /\ tasks' \subseteq tasks
                           /\ UNCHANGED <<row, signIns, stamp, poll>>
                           /\ Unauthenticated \/ UNCHANGED dead
    BY <1>15 DEF OpenFails, Answer, db
  <2>2. CASE Unauthenticated
    BY <1>2, <1>3, <2>1, <2>2, Acting, RefusedMourned
  <2>3. CASE UNCHANGED dead
    <3>1. ~ Idle
      BY <2>1, Acting
    <3> QED BY <1>4, <2>1, <2>3, <3>1 DEF Mourned
  <2> QED BY <2>1, <2>2, <2>3
<1>16. CASE SessionRefused
  <2>1. /\ socket /\ Unauthenticated /\ tasks' \subseteq tasks
        /\ UNCHANGED <<row, signIns, stamp, poll>>
    BY <1>16, Zenon DEF SessionRefused, db
  <2> QED BY <1>2, <1>3, <2>1, SocketActing, RefusedMourned
<1> QED
  BY <1>6, <1>7, <1>8, <1>9, <1>10, <1>11, <1>12, <1>13, <1>14, <1>15, <1>16, StampFrame, Zenon
  DEF Exit, Crash

\* connector.ts:725, ``only a changed credential starts it again'': while no stale answer has
\* cleared the stamp, a session is never begun for a sign-in whose session Rivian has refused,
\* whatever polls, sign-ins and sign-outs come between.
THEOREM DeadStayDead == Spec => DeadNeverRetried
<1> DEFINE I == TypeOK /\ Epochs /\ Driven /\ Polled /\ Mourned
<1>1. Init => I
  <2>1. Init => Polled /\ Mourned
    BY DEF Init, Polled, Mourned, Undecided, SignIn, None, Idle, Live
  <2> QED BY <2>1, TypesInit, DriverInit
<1>2. I /\ [Next]_vars => I'
  <2>1. Polled /\ Mourned /\ UNCHANGED vars => Polled' /\ Mourned'
    BY DEF Polled, Mourned, Idle, Live, Alive, vars
  <2> QED BY <2>1, TypesStep, EpochsStep, DrivenStep, PolledStep, MournedStep, DriverUnchanged
<1>3. I /\ [Next]_vars => [Begins /\ ~misled => stamp' \notin dead]_vars
  <2> SUFFICES ASSUME I, Next, Begins, ~ misled PROVE stamp' \notin dead
    BY Zenon
  <2>1. stamp' = stamp /\ ~ Idle /\ stopped = FALSE
    <3>1. CASE VehicleFound
      BY <3>1, Acting DEF VehicleFound
    <3>2. CASE TimerFires
      BY <3>2, TimerActing DEF TimerFires
    <3>3. CASE Unsealed
      BY <3>3, Acting DEF Unsealed
    <3> QED BY <3>1, <3>2, <3>3, BeginStep
  <2> QED BY <2>1 DEF Mourned
<1> QED BY <1>1, <1>2, <1>3, PTL DEF Spec, DeadNeverRetried

-----------------------------------------------------------------------------
(* The status row.                                                         *)

LEMMA WriterFrame ==
  Next =>
    \/ UNCHANGED <<writer, behind, outgoing, saved>>
    \/ WriterReads \/ WriterHasRead \/ WriterReadFails \/ WriterWrites \/ WriteLands \/ WriteFails
    \/ LateWriteLands \/ Tick \/ Exit \/ Crash
BY WritingFrame, DbFrame, Zenon DEF StatusRead, db, writing, SignsIn, SignsOut

LEMMA TellsStep == TypeOK /\ Told /\ StatusTells /\ Next => Told' /\ StatusTells'
<1> SUFFICES ASSUME TypeOK, Told, StatusTells, Next PROVE Told' /\ StatusTells'
  OBVIOUS
<1>1. CASE WriterReads \/ WriterReadFails \/ WriteFails
  <2>1. writer' # "writing" /\ (writer' = "idle" => behind' = "failed")
    BY <1>1 DEF WriterReads, WriterReadFails, WriteFails
  <2> QED BY <2>1 DEF Told, StatusTells
<1>2. CASE WriterHasRead \/ WriterWrites
  <2>1. writer' = "writing" /\ outgoing' = {Row} /\ UNCHANGED <<state, until>>
    BY <1>2 DEF WriterHasRead, WriterWrites, shown
  <2> QED BY <2>1 DEF Told, StatusTells, Row
<1>3. CASE WriteLands
  <2>1. PICK r \in outgoing : /\ saved' = r /\ writer = "writing" /\ writer' = "idle"
                              /\ UNCHANGED <<state, until, dirty>>
    BY <1>3 DEF WriteLands, Land, shown
  <2> QED BY <2>1 DEF Told, StatusTells, Row
<1>4. CASE LateWriteLands
  <2>1. behind' # "no" /\ UNCHANGED <<state, until, dirty, writer, outgoing>>
    BY <1>4 DEF LateWriteLands, shown
  <2> QED BY <2>1 DEF Told, StatusTells, Row
<1>5. CASE Tick
  <2>1. /\ saved' = LessRow(saved) /\ outgoing' = {LessRow(r) : r \in outgoing}
        /\ until' = Less(until) /\ UNCHANGED <<state, dirty, writer, behind>>
    BY <1>5 DEF Tick
  <2>2. Row' = LessRow(Row)
    BY <2>1 DEF Row, LessRow
  <2> QED BY <2>1, <2>2 DEF Told, StatusTells
<1>6. CASE Restart
  BY <1>6 DEF Restart, Told, StatusTells
<1>7. CASE UNCHANGED <<writer, behind, outgoing, saved>> /\ ~ Tick /\ ~ Restart
  <2>1. dirty' = TRUE \/ UNCHANGED <<dirty, state, until>>
    <3>1. ~ WriterReads /\ ~ WriterWrites
      BY <1>7 DEF WriterReads, WriterWrites
    <3>2. FirstFrame => dirty' = TRUE \/ UNCHANGED <<dirty, state, until>>
      BY DEF FirstFrame
    <3>3. \A s \in State, left \in Wait : Enter(s, left) => dirty' = TRUE
      BY DEF Enter
    <3> QED BY <1>7, <3>1, <3>2, <3>3, ShownStep, Zenon DEF shown, Exit, Crash
  <2> QED BY <1>7, <2>1 DEF Told, StatusTells, Row
<1> QED BY <1>1, <1>2, <1>3, <1>4, <1>5, <1>6, <1>7, WriterFrame DEF Exit, Crash

\* Once the writer has nothing to do, the page's row is the state, unless its last write failed
\* or one given up on landed after it: no interleaving of a state change with the row's read and
\* write loses the change (connector.ts: #persist).
THEOREM RowTells == Spec => []StatusTells
<1> DEFINE I == TypeOK /\ Told /\ StatusTells
<1>1. Init => I
  <2>1. Init => Told /\ StatusTells
    BY DEF Init, Told, StatusTells
  <2> QED BY <2>1, TypesInit
<1>2. I /\ [Next]_vars => I'
  <2>1. Told /\ StatusTells /\ UNCHANGED vars => Told' /\ StatusTells'
    BY DEF Told, StatusTells, Row, vars
  <2> QED BY <2>1, TypesStep, TellsStep
<1> QED BY <1>1, <1>2, PTL DEF Spec
=============================================================================
