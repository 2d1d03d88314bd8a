------------------------------- MODULE Ingest -------------------------------
(***************************************************************************)
(* One ingest worker (apps/ingest), the broker's durable session it reads  *)
(* from, and the database it writes to.                                    *)
(*                                                                         *)
(* A message is handed to the worker over MQTT QoS 1 and may be sent again *)
(* after any lost connection.  The worker handles it in one transaction    *)
(* (tape row, any sample that is due, the field values), and acknowledges  *)
(* it only once that transaction has committed.  Beside the handler a      *)
(* timer flushes what has sat quiet; both wait for the same promise chain. *)
(* The worker can crash between any two steps, a COMMIT can be applied and *)
(* its answer lost, and a restart rebuilds the memory from the tape.       *)
(*                                                                         *)
(* Abstracted: a message's value (the row it is taped as stands for it),   *)
(* sessions, and the ingest cursor, which nothing reads back.  Time is the *)
(* month of a row, and whether the pending burst was overdue when the row  *)
(* arrived (quiet for 2 s, or 30 s old).  One vehicle; the resume window   *)
(* is the whole tape; rows are taped in the order of their stamps.         *)
(***************************************************************************)
EXTENDS Naturals, Sequences, FiniteSetsExt

CONSTANTS
  N,          \* messages the vehicle sends (bound)
  Unusable,   \* messages whose topic, VIN or body cannot be used
  Unmapped,   \* usable messages that decode to no field
  MaxMonth,   \* months the stamps span (bound)
  MaxChain,   \* jobs waiting behind one another (bound)
  MaxFaults   \* crashes, failed transactions, lost acks, planned restarts (bound)

Msg == 1..N
Month == 0..MaxMonth
None == 0

ASSUME ConstantsAssumption ==
  /\ N \in Nat /\ MaxMonth \in Nat /\ MaxChain \in Nat
  /\ MaxFaults \in Nat
  /\ Unusable \subseteq Msg
  /\ Unmapped \subseteq Msg \ Unusable

VARIABLES
  \* the broker and the connection
  accepted,   \* messages 1..accepted have been accepted by the broker
  owed,       \* accepted messages not yet acknowledged by the worker
  wire,       \* those sent on this connection and not yet handed to handleMessage
  acks,       \* PUBACKs on their way to the broker
  connected,
  \* the worker
  wk,         \* "down", "up", "closing" (shutdown begun), "ended" (client ended)
  handling,   \* the message handleMessage has not answered yet, or None
  chain,      \* the promise chain of Pipeline.locked; its head is running
  tx,         \* the head's transaction: "none", "open", or "doomed" to fail
  mem,        \* the pipeline's memory
  snap,       \* the snapshot the head would restore
  past,       \* the worst that happened: "clean", "cut" (a burst may have been
              \* cut short), "cold" (a worker started without resuming)
  \* the database
  db,         \* what is committed
  staged,     \* what the open transaction would commit
  faults      \* faults and planned restarts so far

broker == <<accepted, owed, wire, acks, connected>>
link == <<wire, acks, connected>>
work == <<tx, mem, snap, staged>>
vars == <<accepted, owed, wire, acks, connected, wk, handling, chain,
          tx, mem, snap, past, db, staged, faults>>

Job == {"handle", "flush", "force"}

Row == Nat \ {0}  \* a place on the tape
TapeRow == [msg : Msg, gap : BOOLEAN, month : Month]
Memory == [applied : SUBSET Row,    \* rows whose fields are in the accumulator
           pending : SUBSET Row,    \* those not yet part of an emitted sample
           ensured : SUBSET Month]  \* months whose partitions are known to exist
Database == [tape : Seq(TapeRow),   \* gap: a replay finds its burst overdue here
             sampled : SUBSET Row,  \* rows some committed sample shows: it has the
                                    \* fields they told, or what has replaced them
             parts : SUBSET Month]  \* months with partitions

EmptyMemory == [applied |-> {}, pending |-> {}, ensured |-> {}]

MsgsOf(rows, d) == {d.tape[i].msg : i \in rows}
Taped(d) == MsgsOf(DOMAIN d.tape, d)
MappedRows(d) == {i \in DOMAIN d.tape : d.tape[i].msg \notin Unmapped}
LastMonth(d) == IF d.tape = <<>> THEN 0 ELSE d.tape[Len(d.tape)].month

\* The rows a replay of the tape leaves pending: those from the last one its
\* burst was overdue at.
TailBurst(d) ==
  {i \in MappedRows(d) : \A k \in DOMAIN d.tape : k > i => ~d.tape[k].gap}

-----------------------------------------------------------------------------
(* The pieces of a transaction.  Each takes and gives a record [mem, db, ok]: *)
(* the memory, the database as the transaction sees it, and whether every     *)
(* statement so far had a partition to write to.                              *)

EnsureMonth(w, mo) ==
  IF mo \in w.mem.ensured THEN w
  ELSE [mem |-> [w.mem EXCEPT !.ensured = @ \cup {mo}],
        db |-> [w.db EXCEPT !.parts = @ \cup {mo}],
        ok |-> w.ok]

InsertRaw(w, row) ==
  [mem |-> w.mem,
   db |-> [w.db EXCEPT !.tape = Append(@, row)],
   ok |-> w.ok /\ row.month \in w.db.parts]

\* A sample is stamped with the newest message of its burst.
BurstMonth(w) == w.db.tape[Max(w.mem.pending)].month

\* take() and the sample it makes.  What makes it due, and stamps it, is the
\* pending burst; what it shows is every slot the accumulator holds, with those
\* that an earlier sample has shown.  (That a slot past its window is dropped is
\* left out.)
Emit(w) ==
  LET mo == BurstMonth(w)
      e == EnsureMonth(w, mo)
  IN  [mem |-> [e.mem EXCEPT !.pending = {}],
       db |-> [e.db EXCEPT !.sampled = @ \cup w.mem.applied],
       ok |-> e.ok /\ mo \in e.db.parts]

\* The newest row's fields land in the accumulator.
Apply(w) ==
  LET i == Len(w.db.tape)
  IN  IF w.db.tape[i].msg \in Unmapped THEN w
      ELSE [mem |-> [w.mem EXCEPT !.applied = @ \cup {i}, !.pending = @ \cup {i}],
            db |-> w.db,
            ok |-> w.ok]

Start(d) == [mem |-> mem, db |-> d, ok |-> TRUE]

\* Pipeline.handle: the tape first, then what is due, and only then this message.
HandleWork(row, due) ==
  LET raw == InsertRaw(EnsureMonth(Start(db), row.month), row)
  IN  Apply(IF due THEN Emit(raw) ELSE raw)

FlushWork == Emit(Start(db))

\* A burst is overdue when its newest row is 2 s old, or its oldest 30 s.  A
\* replay of the tape measures the burst it holds by the same stamps: it may find
\* it overdue (gap) where the worker does not (due) only if its burst is the
\* older, and the other way round only if the worker's is, or lacks newer rows.
Overdue(gap, due) ==
  LET replays == TailBurst(db)
      ours == mem.pending
  IN  /\ gap => replays # {}
      /\ due => ours # {}
      /\ gap /\ ~due /\ ours # {} => Min(replays) < Min(ours)
      /\ due /\ ~gap /\ replays # {} =>
           \/ Min(ours) < Min(replays)
           \/ \E i \in MappedRows(db) : \A j \in mem.applied : j < i

-----------------------------------------------------------------------------
(* What a replay of the tape leaves in a fresh pipeline's memory.          *)

Replayed(d) ==
  [applied |-> MappedRows(d), pending |-> TailBurst(d), ensured |-> {}]

\* Mutant: what the replay's final flush emitted is not written.
ResumeUnwritten ==
  [mem |-> [Replayed(db) EXCEPT !.pending = {}], db |-> db, ok |-> TRUE]

\* Pipeline.resume: replay against a store that writes nothing, clear the memos,
\* and write what the final flush emitted.
ResumeWork ==
  LET w == [mem |-> Replayed(db), db |-> db, ok |-> TRUE]
  IN  IF w.mem.pending = {} THEN w ELSE Emit(w)

-----------------------------------------------------------------------------
Init ==
  /\ accepted = 0 /\ owed = {} /\ wire = {} /\ acks = {}
  /\ connected = FALSE
  /\ wk = "down" /\ handling = None /\ chain = <<>>
  /\ tx = "none" /\ mem = EmptyMemory /\ snap = EmptyMemory
  /\ db = [tape |-> <<>>, sampled |-> {}, parts |-> {}]
  /\ staged = db
  /\ past = "clean" /\ faults = 0

Fault == faults < MaxFaults /\ faults' = faults + 1

\* From here on a replay may place its bursts where the worker did not.
Cut == past' = IF past = "clean" THEN "cut" ELSE past

-----------------------------------------------------------------------------
(* The broker and the connection.                                          *)

\* The receiver (or the Rivian connector) publishes the next message.
Accept ==
  /\ accepted < N
  /\ accepted' = accepted + 1
  /\ owed' = owed \cup {accepted + 1}
  /\ wire' = IF connected THEN wire \cup {accepted + 1} ELSE wire
  /\ UNCHANGED <<acks, connected, wk, handling, chain, work, past, db, faults>>

\* The client connects and re-subscribes, and the durable session sends what it
\* owes, in the order it was accepted.
Connect ==
  /\ wk \in {"up", "closing"}
  /\ ~connected
  /\ connected' = TRUE
  /\ wire' = owed
  /\ UNCHANGED <<accepted, owed, acks, wk, handling, chain, work, past, db, faults>>

\* Everything on the connection is lost; the session keeps what is owed.
LinkDown == wire' = {} /\ acks' = {} /\ connected' = FALSE

\* A connection that takes an answer with it is counted as a fault.
Disconnect ==
  /\ connected
  /\ IF acks # {} \/ handling # None THEN Fault ELSE UNCHANGED faults
  /\ LinkDown
  /\ UNCHANGED <<accepted, owed, wk, handling, chain, work, past, db>>

\* A PUBACK reaches the broker, which lets the message go.
AckArrives ==
  /\ \E m \in acks :
       /\ acks' = acks \ {m}
       /\ owed' = owed \ {m}
  /\ UNCHANGED <<accepted, wire, connected, wk, handling, chain, work, past, db,
                 faults>>

-----------------------------------------------------------------------------
(* The message handler: mqtt.js hands it one message at a time.            *)

Arrives(m) ==
  /\ handling = None
  /\ m \in wire /\ \A n \in wire : m <= n
  /\ wire' = wire \ {m}

\* Not usable: counted and acknowledged at once.
Discard ==
  /\ \E m \in Unusable : Arrives(m) /\ acks' = acks \cup {m}
  /\ UNCHANGED <<accepted, owed, connected, wk, handling, chain, work, past, db, faults>>

\* Mutant: acknowledged on arrival, as a listener for 'message' would.
ReceiveAckFirst ==
  /\ \E m \in Msg \ Unusable :
       Arrives(m) /\ handling' = m /\ acks' = acks \cup {m}
  /\ chain' = Append(chain, "handle")
  /\ UNCHANGED <<accepted, owed, connected, wk, work, past, db, faults>>

\* Mutant: an unusable message goes to the pipeline like any other.
ReceiveAny ==
  /\ \E m \in Msg : Arrives(m) /\ handling' = m
  /\ chain' = Append(chain, "handle")
  /\ UNCHANGED <<accepted, owed, acks, connected, wk, work, past, db, faults>>

\* Usable: handed to Pipeline.handle, which waits for its turn.
Receive ==
  /\ \E m \in Msg \ Unusable : Arrives(m) /\ handling' = m
  /\ chain' = Append(chain, "handle")
  /\ UNCHANGED <<accepted, owed, acks, connected, wk, work, past, db, faults>>

\* Mutant: the error is swallowed, and the message acknowledged.
AnsweredAnyway(ok) ==
  /\ handling' = None
  /\ acks' = IF connected THEN acks \cup {handling} ELSE acks
  /\ UNCHANGED <<wk, wire, connected>>

\* The tail of the handler (handOff): ack after the write resolved, and only then.
Answered(ok) ==
  /\ handling' = None
  /\ acks' = IF ok /\ connected THEN acks \cup {handling} ELSE acks
  /\ UNCHANGED <<wk, wire, connected>>

-----------------------------------------------------------------------------
(* The pipeline: one job at a time, each job one transaction.              *)

Begin(w) ==
  /\ snap' = mem
  /\ mem' = w.mem
  /\ staged' = w.db
  /\ tx' = IF w.ok THEN "open" ELSE "doomed"

BeginHandle ==
  /\ chain # <<>> /\ Head(chain) = "handle" /\ tx = "none"
  /\ \E mo \in LastMonth(db)..MaxMonth, gap, due \in BOOLEAN :
       /\ Overdue(gap, due)
       /\ Begin(HandleWork([msg |-> handling, gap |-> gap, month |-> mo], due))
  /\ UNCHANGED <<broker, wk, handling, chain, past, db, faults>>

BeginFlush ==
  /\ chain # <<>> /\ Head(chain) \in {"flush", "force"} /\ tx = "none"
  /\ mem.pending # {}
  /\ Begin(FlushWork)
  /\ UNCHANGED <<broker, wk, handling, chain, past, db, faults>>

\* The head of the chain is done.  After the forced flush, whatever became of
\* it, shutdown ends the client and the pool.
JobDone(ok) ==
  /\ chain' = Tail(chain)
  /\ \/ Head(chain) = "handle" /\ Answered(ok)
     \/ Head(chain) = "flush" /\ UNCHANGED <<wk, handling, wire, acks, connected>>
     \/ Head(chain) = "force" /\ wk' = "ended" /\ LinkDown /\ UNCHANGED handling
  /\ UNCHANGED <<accepted, owed>>

\* Nothing is due (a forced flush: nothing is pending).
SkipFlush ==
  /\ chain # <<>> /\ Head(chain) \in {"flush", "force"} /\ tx = "none"
  /\ Head(chain) = "force" => mem.pending = {}
  /\ JobDone(TRUE)
  /\ UNCHANGED <<work, past, db, faults>>

\* The transaction is over: what is committed, and the memory that stays.
Finish(d, m, ok) ==
  /\ db' = d /\ staged' = d
  /\ mem' = m /\ snap' = m
  /\ tx' = "none"
  /\ JobDone(ok)

Commit ==
  /\ tx = "open"
  /\ Finish(staged, mem, TRUE)
  /\ UNCHANGED <<past, faults>>

\* Mutant: the memory is left advanced.
NotRestored == mem

\* Mutant: the snapshot leaves ensuredMonths out.
RestoredButMonths == [snap EXCEPT !.ensured = mem.ensured]

\* Pipeline.restore.
Restored == snap

\* A statement fails.  (With the pool closing, it may without a fault.)
Rollback ==
  /\ tx # "none"
  /\ IF tx = "open" /\ wk # "ended" THEN Fault ELSE UNCHANGED faults
  /\ Finish(db, Restored, FALSE)
  /\ IF Head(chain) = "force" THEN Cut ELSE UNCHANGED past

\* The database applied the COMMIT and its answer never came.
CommitUnanswered ==
  /\ tx = "open"
  /\ Fault
  /\ Finish(staged, Restored, FALSE)
  /\ Cut

-----------------------------------------------------------------------------
(* The worker's life.                                                      *)

\* The one-second timer fires; there is no in-flight guard.
FlushTick ==
  /\ wk = "up"
  /\ Len(chain) < MaxChain
  /\ chain' = Append(chain, "flush")
  /\ UNCHANGED <<broker, wk, handling, work, past, db, faults>>

\* The worker comes up with this memory over this database.
ComeUp(m, d) ==
  /\ wk = "down"
  /\ wk' = "up"
  /\ mem' = m /\ snap' = m
  /\ db' = d /\ staged' = d
  /\ UNCHANGED <<broker, handling, chain, tx>>

ResumeWarm ==
  /\ ComeUp(ResumeWork.mem, ResumeWork.db)
  /\ UNCHANGED <<past, faults>>

\* The resume failed, or its COMMIT went unanswered: a fresh pipeline.
StartCold ==
  /\ Fault
  /\ \E d \in {db, ResumeWork.db} : ComeUp(EmptyMemory, d)
  /\ past' = "cold"

\* SIGTERM: the timer stops, and what is pending is flushed whatever its age.
Shutdown ==
  /\ wk = "up"
  /\ Len(chain) < MaxChain
  /\ Fault
  /\ wk' = "closing"
  /\ chain' = Append(chain, "force")
  /\ UNCHANGED <<broker, handling, work, past, db>>

\* The process is gone, and its memory and connection with it.
Gone(d) ==
  /\ wk' = "down"
  /\ LinkDown
  /\ handling' = None /\ chain' = <<>> /\ tx' = "none"
  /\ mem' = EmptyMemory /\ snap' = EmptyMemory
  /\ db' = d /\ staged' = d
  /\ UNCHANGED <<accepted, owed>>

Exit ==
  /\ wk = "ended" /\ chain = <<>>
  /\ Gone(db)
  /\ UNCHANGED <<past, faults>>

\* A crash: a COMMIT already on its way may still be applied.
Crash ==
  /\ wk # "down"
  /\ Fault
  /\ Cut
  /\ \E d \in IF tx = "open" THEN {db, staged} ELSE {db} : Gone(d)

-----------------------------------------------------------------------------
Next ==
  \/ Accept \/ Connect \/ Disconnect \/ AckArrives
  \/ Discard \/ Receive
  \/ BeginHandle \/ BeginFlush \/ SkipFlush
  \/ Commit \/ Rollback \/ CommitUnanswered
  \/ FlushTick \/ ResumeWarm \/ StartCold
  \/ Shutdown \/ Exit \/ Crash

Spec == Init /\ [][Next]_vars

\* The worker is restarted and reconnects, the broker sends, mqtt.js hands
\* over, the event loop runs the chain.  Strong where a lost connection can
\* disable the step again and again.  Nothing makes a connection end.
Fairness ==
  /\ WF_vars(ResumeWarm) /\ WF_vars(Exit)
  /\ SF_vars(Connect) /\ SF_vars(AckArrives)
  /\ SF_vars(Receive) /\ SF_vars(Discard)
  /\ WF_vars(BeginHandle) /\ WF_vars(BeginFlush) /\ WF_vars(SkipFlush)
  /\ WF_vars(Commit)
  /\ WF_vars(tx = "doomed" /\ Rollback)

FairSpec == Spec /\ Fairness

-----------------------------------------------------------------------------
\* Every variable has its type.  A message is being handled exactly while a
\* `handle' job is in the chain, and it is never an unusable one; a
\* transaction belongs to the head of the chain (Pipeline.locked).
TypeOK ==
  /\ accepted \in 0..N
  /\ owed \subseteq 1..accepted /\ wire \subseteq 1..accepted /\ acks \subseteq Msg
  /\ connected \in BOOLEAN
  /\ wk \in {"down", "up", "closing", "ended"}
  /\ handling \in (1..accepted \ Unusable) \cup {None}
  /\ chain \in Seq(Job)
  /\ tx \in {"none", "open", "doomed"}
  /\ mem \in Memory /\ snap \in Memory
  /\ db \in Database /\ staged \in Database
  /\ past \in {"clean", "cut", "cold"} /\ faults \in Nat

\* mqtt.ts acks strictly after COMMIT: a message the broker has let go of is on
\* the tape, unless it was one no reader could use.
AckedIsTaped ==
  \A m \in 1..accepted : m \in owed \cup Unusable \cup Taped(db)

Settled == wk # "down" /\ tx = "none" /\ past # "cold"

\* Pipeline.attempt restores the memory with the transaction, and resume
\* rebuilds it: between transactions the accumulator has absorbed nothing that
\* is not on the tape, and everything on the tape but what the broker is still
\* going to send again.  (A worker that started cold has forgotten the tape.)
MemoryMatchesTape ==
  Settled =>
    /\ mem.applied \subseteq MappedRows(db)
    /\ MsgsOf(MappedRows(db), db) \subseteq MsgsOf(mem.applied, db) \cup owed

\* Where the rows' messages are covered: by a committed sample, by the pending
\* burst, or because the broker still owes the message.
Covered(rows) ==
  MsgsOf(rows, db) \subseteq MsgsOf(db.sampled \cup mem.pending, db) \cup owed

\* A planned restart, a lost connection and the flush timer drop no burst: what the
\* accumulator has absorbed is in a committed sample or will be.  What a replay of
\* the tape would leave pending is covered too, crash or not: `resume' writes the
\* burst its final flush emits.
BurstCovered ==
  Settled => Covered(TailBurst(db)) /\ (past = "clean" => Covered(mem.applied))

\* pipeline.ts:575 ``if that worker crashed instead, the last burst it never
\* emitted is written here'': no crash drops a burst either.
CrashedBurstWritten == Settled => Covered(mem.applied)

\* ensuredMonths is a cache of DDL that a rollback undoes and a dry replay never
\* ran: a month in it has its partitions, or every insert of that month fails.
EnsuredMonthsExist ==
  tx = "none" => mem.ensured \subseteq db.parts

\* Ingest keeps DurableTape's promise.
Promise == INSTANCE DurableTape WITH
  Messages <- Msg, known <- 1..accepted, held <- owed, recorded <- Taped(db)
KeepsPromise == Promise!Spec

\* metrics.ts:84 ``Messages whose handling threw. These are NOT acked and will be
\* redelivered'': a usable message the broker accepted reaches the tape in the
\* end, whatever crashes, failed transactions and lost connections come between.
EventuallyTaped ==
  \A m \in Msg \ Unusable : (m <= accepted) ~> (m \in Taped(db))

\* mqtt.ts:153 ``the broker keeps it and delivers it again after the reconnect'':
\* it does, as long as no connection stands for ever.
TapedUnlessItStands == []<>(~connected) => EventuallyTaped
=============================================================================
