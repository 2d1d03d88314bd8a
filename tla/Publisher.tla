------------------------------ MODULE Publisher ------------------------------
(***************************************************************************)
(* The road from the Rivian socket to the broker: the connector's queue    *)
(* (apps/rivian/src/queue.ts), its publisher (publisher.ts), and the parts *)
(* of connector.ts that fill the queue, answer an overflow with a renewal, *)
(* and shut all of it down.                                                *)
(*                                                                         *)
(* Frames are numbered in the order they are queued.  A call to the MQTT   *)
(* client is answered at any later time, or never, or twice; mqtt.js keeps *)
(* the frame through an outage and sends it again by itself.  Abstracted:  *)
(* what a frame says, the subscriptions a renewal renews, and time.        *)
(***************************************************************************)
EXTENDS Integers, Sequences, FiniteSets, SequencesExt

CONSTANTS
  Sizes,        \* bytes of a frame
  Cap,          \* QUEUE_CAP_BYTES
  MaxFrames,    \* frames queued (bound)
  MaxFailures   \* publishes that fail (bound)

ASSUME ConstantsAssumption ==
  /\ Sizes \subseteq Nat \ {0} /\ Sizes # {} /\ Cap \in Nat \ {0}
  /\ MaxFrames \in Nat /\ MaxFailures \in Nat

VARIABLES
  \* the queue
  queue, bytes,
  \* the publisher
  inFlight,     \* the frame the client has, if it has one
  retry,        \* a failed publish is to be tried again
  answered,     \* calls answered once, which may answer again
  phase,        \* "running", "draining", "ending" or "exited"
  force,        \* the client was told to close at once
  \* the connector
  socket,       \* a socket is up
  renewPending, queueEmpty, renewTimer,
  recent,       \* the last renewal was less than a minute ago
  \* what is counted
  published, dropped,
  \* the broker
  received, last,
  \* what happened
  made, failures,
  gap           \* a frame was dropped since the last snapshot was asked for

fifo == <<queue, bytes, inFlight, retry>>
renewal == <<socket, renewPending, queueEmpty, renewTimer, recent, gap>>
broker == <<received, last>>
vars == <<queue, bytes, inFlight, retry, answered, phase, force, socket, renewPending,
          queueEmpty, renewTimer, recent, published, dropped, received, last, made,
          failures, gap>>

Frame == [id : 1..MaxFrames, bytes : Sizes]

Total(q) ==
  LET sum[n \in 0..Len(q)] == IF n = 0 THEN 0 ELSE sum[n - 1] + q[n].bytes IN sum[Len(q)]

Ids(q) == {f.id : f \in ToSet(q)}

Owed == Ids(queue) \cup {f.id : f \in inFlight}

\* Mutant: the frame that is out is not counted.
LeftBehind == Len(queue)

\* #left: the frame that is out is owed too.
Left == Len(queue) + Cardinality(inFlight)

Init ==
  /\ queue = <<>> /\ bytes = 0 /\ inFlight = {} /\ retry = FALSE
  /\ answered = {} /\ phase = "running" /\ force = FALSE
  /\ socket = FALSE /\ renewPending = FALSE /\ queueEmpty = TRUE
  /\ renewTimer = FALSE /\ recent = FALSE
  /\ published = 0 /\ dropped = 0
  /\ received = {} /\ last = 0
  /\ made = 0 /\ failures = 0 /\ gap = FALSE

Failure == failures < MaxFailures /\ failures' = failures + 1

-----------------------------------------------------------------------------
(* The queue.                                                              *)

\* Mutant: one frame is dropped for one pushed.
OverflowByOne(q) == IF Total(q) > Cap /\ Len(q) > 1 THEN 1 ELSE 0

\* push: how many of the oldest are dropped for the rest to fit.  The newest never
\* is, whatever its size.
Overflow(q) ==
  CHOOSE k \in 0..Len(q) - 1 :
    /\ Total(SubSeq(q, k + 1, Len(q))) <= Cap \/ k = Len(q) - 1
    /\ \A j \in 0..k - 1 : Total(SubSeq(q, j + 1, Len(q))) > Cap

Without(q, k) == SubSeq(q, k + 1, Len(q))

-----------------------------------------------------------------------------
(* The publisher.                                                          *)

\* The client takes the head of q.
Hand(q, b) ==
  /\ inFlight' = {Head(q)} /\ retry' = FALSE
  /\ queue' = Tail(q) /\ bytes' = b - Head(q).bytes
  /\ UNCHANGED failures

\* It throws: the frame goes back, and is tried again in a second.
Throw(q, b) ==
  /\ Failure
  /\ inFlight' = {} /\ retry' = TRUE
  /\ queue' = q /\ bytes' = b

\* pump, of a queue q of b bytes.
Pump(q, b, out, waiting) ==
  IF phase \in {"running", "draining"} /\ out = {} /\ ~waiting /\ q # <<>>
    THEN Hand(q, b) \/ Throw(q, b)
    ELSE /\ queue' = q /\ bytes' = b /\ inFlight' = out /\ retry' = waiting
         /\ UNCHANGED failures

-----------------------------------------------------------------------------
(* The renewal.                                                            *)

\* #renewAll: every subscription is made anew, and with it comes a snapshot.
RenewAll ==
  /\ recent' = TRUE
  /\ renewPending' = FALSE
  /\ gap' = FALSE

\* Mutants: too soon, and the renewal is forgotten, or no timer tries again.
MaybeRenewOnce(empty, armed) ==
  /\ queueEmpty' = empty
  /\ renewTimer' = armed
  /\ IF renewPending /\ socket /\ empty
       THEN IF recent THEN renewPending' = FALSE /\ UNCHANGED <<recent, gap>> ELSE RenewAll
       ELSE UNCHANGED <<recent, renewPending, gap>>
  /\ UNCHANGED socket

MaybeRenewUntimed(empty, armed) ==
  /\ queueEmpty' = empty
  /\ renewTimer' = armed
  /\ IF renewPending /\ socket /\ empty /\ ~recent
       THEN RenewAll ELSE UNCHANGED <<recent, renewPending, gap>>
  /\ UNCHANGED socket

\* #maybeRenew: for a drop, with a socket up and the queue empty, once a minute at
\* most.  Too soon, and a timer tries again (armed: it is set already).
MaybeRenew(empty, armed) ==
  /\ queueEmpty' = empty
  /\ IF renewPending /\ socket /\ empty
       THEN IF recent
              THEN renewTimer' = TRUE /\ UNCHANGED <<recent, renewPending, gap>>
              ELSE RenewAll /\ renewTimer' = armed
       ELSE renewTimer' = armed /\ UNCHANGED <<recent, renewPending, gap>>
  /\ UNCHANGED socket

\* Nothing for a minute on a live socket (#armSilence).
SilenceRenews ==
  /\ socket
  /\ RenewAll
  /\ UNCHANGED <<fifo, answered, phase, force, socket, queueEmpty, renewTimer, published,
                 dropped, broker, made, failures>>

RenewTimerFires ==
  /\ renewTimer
  /\ MaybeRenew(queueEmpty, FALSE)
  /\ UNCHANGED <<fifo, answered, phase, force, published, dropped, broker, made, failures>>

MinutePasses ==
  /\ recent
  /\ recent' = FALSE
  /\ UNCHANGED <<fifo, answered, phase, force, socket, renewPending, queueEmpty, renewTimer,
                 published, dropped, broker, made, failures, gap>>

\* #connect subscribes to everything, which is a snapshot.
SocketUp ==
  /\ phase = "running" /\ ~socket
  /\ socket' = TRUE /\ gap' = FALSE
  /\ UNCHANGED <<fifo, answered, phase, force, renewPending, queueEmpty, renewTimer, recent,
                 published, dropped, broker, made, failures>>

\* #dropConnection.
SocketDown ==
  /\ socket
  /\ socket' = FALSE /\ renewPending' = FALSE /\ renewTimer' = FALSE
  /\ UNCHANGED <<fifo, answered, phase, force, queueEmpty, recent, published, dropped,
                 broker, made, failures, gap>>

-----------------------------------------------------------------------------
(* A frame, and what the client makes of it.                               *)

\* #enqueue, of a frame of b bytes.
Enqueue(b) ==
  /\ phase = "running" /\ made < MaxFrames
  /\ made' = made + 1
  /\ LET q == Append(queue, [id |-> made + 1, bytes |-> b])
         k == Overflow(q)
         freed == Total(SubSeq(q, 1, k))
     IN /\ dropped' = dropped + k
        /\ renewPending' = (renewPending \/ (k > 0 /\ socket))
        /\ gap' = (gap \/ k > 0)
        /\ Pump(Without(q, k), bytes + b - freed, inFlight, retry)
  /\ queueEmpty' = FALSE
  /\ UNCHANGED <<answered, phase, force, socket, renewTimer, recent, published, broker>>

\* The broker receives the frame that is out (again, if mqtt.js sent it again).
Arrives ==
  /\ phase # "exited"
  /\ \E f \in inFlight : received' = received \cup {f.id} /\ last' = f.id
  /\ UNCHANGED <<fifo, answered, phase, force, renewal, published, dropped, made, failures>>

\* #acknowledged.
Acknowledged ==
  /\ published' = published + 1
  /\ Pump(queue, bytes, {}, retry)
  /\ IF queue = <<>> THEN MaybeRenew(TRUE, renewTimer) ELSE UNCHANGED renewal
  /\ UNCHANGED <<phase, force, dropped, broker, made>>

Ack ==
  /\ phase # "exited"
  /\ \E f \in inFlight : f.id \in received /\ answered' = answered \cup {f.id}
  /\ Acknowledged

\* Mutant: the frame is put back, and its bytes are not.
FailUnweighed ==
  /\ phase # "exited"
  /\ Failure
  /\ \E f \in inFlight : queue' = <<f>> \o queue /\ answered' = answered \cup {f.id}
  /\ inFlight' = {}
  /\ retry' = (phase \in {"running", "draining"})
  /\ UNCHANGED <<bytes, phase, force, renewal, published, dropped, broker, made>>

\* #failed: back at the head, and tried again in a second.
Fail ==
  /\ phase # "exited"
  /\ Failure
  /\ \E f \in inFlight :
       /\ queue' = <<f>> \o queue /\ bytes' = bytes + f.bytes
       /\ answered' = answered \cup {f.id}
  /\ inFlight' = {}
  /\ retry' = (phase \in {"running", "draining"})
  /\ UNCHANGED <<phase, force, renewal, published, dropped, broker, made>>

\* Mutant: the second answer clears whatever is out by then.
AgainAcknowledges ==
  /\ \E i \in answered : answered' = answered \ {i}
  /\ Acknowledged

\* A call answers a second time, and is not listened to.
AnswersAgain ==
  /\ phase # "exited"
  /\ \E i \in answered : answered' = answered \ {i}
  /\ UNCHANGED <<fifo, phase, force, renewal, published, dropped, broker, made, failures>>

\* Mutant: the wait is over, and nobody pumps.
RetryIdly ==
  /\ retry
  /\ retry' = FALSE
  /\ UNCHANGED <<queue, bytes, inFlight, answered, phase, force, renewal, published, dropped,
                 broker, made, failures>>

Retry ==
  /\ retry
  /\ Pump(queue, bytes, inFlight, FALSE)
  /\ UNCHANGED <<answered, phase, force, renewal, published, dropped, broker, made>>

-----------------------------------------------------------------------------
(* The shutdown.                                                           *)

\* #stop: no more frames, no more timers, and the queue is drained.
Stop ==
  /\ phase = "running"
  /\ socket' = FALSE /\ renewTimer' = FALSE
  /\ phase' = "draining"
  /\ Pump(queue, bytes, inFlight, retry)
  /\ UNCHANGED <<answered, force, renewPending, queueEmpty, recent, gap, published, dropped,
                 broker, made>>

\* Mutant: the drain waits for every frame.
DrainPatiently ==
  /\ phase = "draining" /\ Left = 0
  /\ phase' = "ending"
  /\ UNCHANGED <<fifo, answered, force, renewal, published, dropped, broker, made, failures>>

\* Nothing is owed, or five seconds are over: what still is is counted, and the
\* client is ended, at once if a frame is out.
DrainEnds ==
  /\ phase = "draining"
  /\ dropped' = dropped + Left
  /\ phase' = "ending"
  /\ force' = (inFlight # {})
  /\ retry' = FALSE
  /\ UNCHANGED <<queue, bytes, inFlight, answered, renewal, published, broker, made, failures>>

\* The client has ended, and the process exits.
ClientEnds ==
  /\ phase = "ending"
  /\ phase' = "exited"
  /\ UNCHANGED <<fifo, answered, force, renewal, published, dropped, broker, made, failures>>

\* A graceful end that takes five seconds is not waited for.
GraceEnds == ~force /\ ClientEnds

-----------------------------------------------------------------------------
Next ==
  \/ \E b \in Sizes : Enqueue(b)
  \/ Arrives \/ Ack \/ Fail \/ AnswersAgain \/ Retry
  \/ SocketUp \/ SocketDown \/ SilenceRenews \/ RenewTimerFires \/ MinutePasses
  \/ Stop \/ DrainEnds \/ ClientEnds \/ GraceEnds

Spec == Init /\ [][Next]_vars

\* Timers fire, a socket that is down comes up again, and a client that is told to
\* close at once says it has.  Nothing is asked of the broker.
Fairness ==
  /\ WF_vars(Retry) /\ WF_vars(SocketUp)
  /\ WF_vars(RenewTimerFires) /\ WF_vars(MinutePasses)
  /\ WF_vars(DrainEnds) /\ WF_vars(GraceEnds) /\ WF_vars(force /\ ClientEnds)

FairSpec == Spec /\ Fairness

-----------------------------------------------------------------------------
\* queue.ts: the count of bytes is exact through every push, shift and unshift, and
\* stays within the cap, but for one frame on its own (whatever its size) and for
\* one that was put back at the head.
Bounded ==
  /\ bytes = Total(queue)
  /\ queue # <<>> => Total(Tail(queue)) <= Cap \/ Len(queue) <= 2

\* The variables have the values the code gives them.
TypeOK ==
  /\ queue \in Seq(Frame) /\ bytes \in Nat
  /\ inFlight \subseteq Frame /\ Cardinality(inFlight) <= 1
  /\ retry \in BOOLEAN /\ answered \subseteq 1..MaxFrames
  /\ phase \in {"running", "draining", "ending", "exited"} /\ force \in BOOLEAN
  /\ socket \in BOOLEAN /\ renewPending \in BOOLEAN /\ queueEmpty \in BOOLEAN
  /\ renewTimer \in BOOLEAN /\ recent \in BOOLEAN
  /\ published \in Nat /\ dropped \in Nat
  /\ received \subseteq 1..MaxFrames /\ last \in 0..MaxFrames
  /\ made \in 0..MaxFrames /\ failures \in Nat /\ gap \in BOOLEAN

\* The publisher neither loses a frame silently nor keeps one for nothing: every
\* frame made is on the tape, owed, or counted as dropped, to the last one at exit.
AllAccounted ==
  made <= dropped + Cardinality(received \cup (IF phase = "exited" THEN {} ELSE Owed))

\* The publisher never stops while it owes a frame: one is out, or a retry is set.
NeverIdle ==
  phase \in {"running", "draining"} /\ queue # <<>> => inFlight # {} \/ retry

\* A hole in the tape is remembered until a snapshot is asked for, as long as there
\* is a socket to ask on; and the queue is empty when the connector thinks it is.
GapKept ==
  /\ gap /\ socket => renewPending
  /\ queueEmpty => Owed = {}

\* queue.ts, publisher.ts: the queue stays within its cap with exact books, every frame it
\* drops for that is counted, and the hole it leaves is asked for again.
LossesCounted == Bounded /\ AllAccounted /\ GapKept

\* Queue, publisher and connector together implement the abstract road: in order,
\* duplicates of the last frame only, the newest never given up on, all counted.
Fifo == INSTANCE LossyFifo WITH
  owed <- Owed, tape <- received, counted <- dropped, closed <- phase \in {"ending", "exited"}

ImplementsFifo == Fifo!Spec

\* If the broker goes on answering, a snapshot is asked for after every hole.
GapFilled == []<>(inFlight = {}) => (gap ~> (~gap \/ phase # "running"))

\* Whatever the broker does, a shutdown ends.
ShutdownEnds == phase = "draining" ~> phase = "exited"
=============================================================================
