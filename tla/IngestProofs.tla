---------------------------- MODULE IngestProofs ----------------------------
(***************************************************************************)
(* Theorems about Ingest, for every number of messages, jobs and faults:   *)
(* its type invariant, that a message the broker has let go of is on the   *)
(* tape, that Ingest implements DurableTape, that every month it takes for *)
(* ensured has its partitions, that what the memory has absorbed is what   *)
(* is on the tape, and that no burst of it is dropped.                     *)
(***************************************************************************)
EXTENDS Ingest, InductionFacts, SequenceTheorems

-----------------------------------------------------------------------------
(* The newest of a set of rows is one of them.                             *)

LEMMA MaxIn ==
  ASSUME NEW n \in Nat, NEW S \in SUBSET (1..n), S # {}
  PROVE  Max(S) \in S
<1> DEFINE T == {n - i : i \in S}
<1>1. T \in SUBSET Nat /\ T # {}
  <2>1. \A i \in S : n - i \in Nat
    OBVIOUS
  <2> QED BY <2>1
<1>2. PICK m \in T : \A k \in T : m <= k
  BY <1>1, MinExists
<1>3. PICK i \in S : m = n - i
  OBVIOUS
<1>4. \A j \in S : n - j \in T
  OBVIOUS
<1>5. \A j \in S : i >= j
  BY <1>2, <1>3, <1>4
<1> QED BY <1>5 DEF Max

-----------------------------------------------------------------------------
(* The pieces of a transaction: types, and what each does to the tape.     *)

Work == [mem : Memory, db : Database, ok : BOOLEAN]

\* The pending rows are among those absorbed, and these are on the tape.
Fits(m, d) == m.pending \subseteq m.applied /\ m.applied \subseteq 1..Len(d.tape)

LEMMA EnsureMonthType ==
  ASSUME NEW w \in Work, NEW mo \in Month
  PROVE  /\ EnsureMonth(w, mo) \in Work
         /\ EnsureMonth(w, mo).db.tape = w.db.tape
         /\ EnsureMonth(w, mo).mem.pending = w.mem.pending
         /\ EnsureMonth(w, mo).mem.applied = w.mem.applied
BY DEF EnsureMonth, Work, Memory, Database

LEMMA InsertRawType ==
  ASSUME NEW w \in Work, NEW row \in TapeRow
  PROVE  /\ InsertRaw(w, row) \in Work
         /\ InsertRaw(w, row).db.tape = Append(w.db.tape, row)
         /\ InsertRaw(w, row).mem.pending = w.mem.pending
         /\ InsertRaw(w, row).mem.applied = w.mem.applied
<1>1. w.db \in Database /\ Append(w.db.tape, row) \in Seq(TapeRow)
  BY DEF Work, Database
<1>2. (row.month \in w.db.parts) \in BOOLEAN
  OBVIOUS
<1> QED BY <1>1, <1>2 DEF InsertRaw, Work, Database

LEMMA BurstMonthType ==
  ASSUME NEW w \in Work, Fits(w.mem, w.db), w.mem.pending # {}
  PROVE  BurstMonth(w) \in Month
<1>1. w.db.tape \in Seq(TapeRow)
  BY DEF Work, Database
<1>2. Max(w.mem.pending) \in 1..Len(w.db.tape)
  <2>1. Len(w.db.tape) \in Nat
    BY <1>1
  <2>2. w.mem.pending \in SUBSET (1..Len(w.db.tape))
    BY DEF Fits
  <2> QED BY <2>1, <2>2, MaxIn
<1>3. w.db.tape[Max(w.mem.pending)] \in TapeRow
  BY <1>1, <1>2
<1> QED BY <1>3 DEF BurstMonth, TapeRow

LEMMA EmitType ==
  ASSUME NEW w \in Work, Fits(w.mem, w.db), w.mem.pending # {}
  PROVE  /\ Emit(w) \in Work
         /\ Emit(w).db.tape = w.db.tape
         /\ Emit(w).mem.pending = {} /\ Emit(w).mem.applied = w.mem.applied
<1> DEFINE e == EnsureMonth(w, BurstMonth(w))
           m == [e.mem EXCEPT !.pending = {}]
           d == [e.db EXCEPT !.sampled = e.db.sampled \cup w.mem.applied]
           ok == e.ok /\ BurstMonth(w) \in e.db.parts
<1>1. BurstMonth(w) \in Month
  BY BurstMonthType
<1>2. e \in Work /\ e.db.tape = w.db.tape /\ e.mem.applied = w.mem.applied
  BY <1>1, EnsureMonthType
<1>3. Emit(w) = [mem |-> m, db |-> d, ok |-> ok]
  BY DEF Emit
<1>4. w.mem.applied \in SUBSET Row
  BY DEF Work, Memory
<1> HIDE DEF e
<1>5. m \in Memory /\ m.pending = {} /\ m.applied = w.mem.applied
  BY <1>2 DEF Work, Memory
<1>6. d \in Database /\ d.tape = e.db.tape
  BY <1>2, <1>4 DEF Work, Database
<1>7. ok \in BOOLEAN
  OBVIOUS
<1> HIDE DEF m, d, ok
<1> QED BY <1>2, <1>3, <1>5, <1>6, <1>7 DEF Work

LEMMA ApplyType ==
  ASSUME NEW w \in Work, w.db.tape # <<>>
  PROVE  /\ Apply(w) \in Work
         /\ Apply(w).db.tape = w.db.tape
         /\ Fits(w.mem, w.db) => Fits(Apply(w).mem, Apply(w).db)
<1>1. w.db.tape \in Seq(TapeRow)
  BY DEF Work, Database
<1>2. Len(w.db.tape) \in Nat \ {0}
  BY <1>1
<1>3. Len(w.db.tape) \in Row
  BY <1>2 DEF Row
<1> DEFINE i == Len(w.db.tape)
           m == [w.mem EXCEPT !.applied = @ \cup {i}, !.pending = @ \cup {i}]
<1>4. /\ m \in Memory /\ m.pending = w.mem.pending \cup {i}
      /\ m.applied = w.mem.applied \cup {i}
  BY <1>3 DEF Work, Memory
<1>5. Apply(w) = IF w.db.tape[i].msg \in Unmapped THEN w
                 ELSE [mem |-> m, db |-> w.db, ok |-> w.ok]
  BY DEF Apply
<1>6. i \in 1..i
  BY <1>2
<1> HIDE DEF m
<1> QED BY <1>4, <1>5, <1>6 DEF Work, Fits

LEMMA HandleWorkType ==
  ASSUME mem \in Memory, db \in Database, Fits(mem, db),
         NEW row \in TapeRow, NEW due \in BOOLEAN, due => mem.pending # {}
  PROVE  /\ HandleWork(row, due) \in Work
         /\ HandleWork(row, due).db.tape = Append(db.tape, row)
         /\ Fits(HandleWork(row, due).mem, HandleWork(row, due).db)
<1> DEFINE s == Start(db)
           e == EnsureMonth(s, row.month)
           raw == InsertRaw(e, row)
           w == IF due THEN Emit(raw) ELSE raw
<1>1. s \in Work /\ s.db.tape = db.tape /\ s.mem.pending = mem.pending
      /\ s.mem.applied = mem.applied
  BY DEF Start, Work
<1>2. row.month \in Month
  BY DEF TapeRow
<1>3. e \in Work /\ e.db.tape = db.tape /\ e.mem.pending = mem.pending
      /\ e.mem.applied = mem.applied
  BY <1>1, <1>2, EnsureMonthType
<1>4. raw \in Work /\ raw.db.tape = Append(db.tape, row) /\ raw.mem.pending = mem.pending
      /\ raw.mem.applied = mem.applied
  BY <1>3, InsertRawType
<1>5. db.tape \in Seq(TapeRow)
  BY DEF Database
<1>6. Len(Append(db.tape, row)) = Len(db.tape) + 1 /\ Append(db.tape, row) # <<>>
  BY <1>5
<1>7. Fits(raw.mem, raw.db)
  BY <1>4, <1>5, <1>6 DEF Fits
<1>8. w \in Work /\ w.db.tape = Append(db.tape, row) /\ Fits(w.mem, w.db)
  <2>1. CASE due
    BY <2>1, <1>4, <1>7, EmitType DEF Fits
  <2>2. CASE ~due
    BY <2>2, <1>4, <1>7
  <2> QED BY <2>1, <2>2
<1>9. HandleWork(row, due) = Apply(w)
  BY DEF HandleWork
<1> HIDE DEF w
<1> QED BY <1>6, <1>8, <1>9, ApplyType

LEMMA FlushWorkType ==
  ASSUME mem \in Memory, db \in Database, Fits(mem, db), mem.pending # {}
  PROVE  /\ FlushWork \in Work
         /\ FlushWork.db.tape = db.tape
         /\ Fits(FlushWork.mem, FlushWork.db)
<1>1. Start(db) \in Work /\ Start(db).db = db /\ Start(db).mem = mem
  BY DEF Start, Work
<1> QED BY <1>1, EmitType DEF FlushWork, Fits

LEMMA ReplayedType ==
  ASSUME db \in Database
  PROVE  /\ [mem |-> Replayed(db), db |-> db, ok |-> TRUE] \in Work
         /\ Fits(Replayed(db), db)
<1>1. db.tape \in Seq(TapeRow) /\ DOMAIN db.tape = 1..Len(db.tape)
  BY DEF Database
<1>2. MappedRows(db) \subseteq 1..Len(db.tape) /\ MappedRows(db) \subseteq Row
  BY <1>1 DEF MappedRows, Row
<1>3. TailBurst(db) \subseteq MappedRows(db)
  BY DEF TailBurst
<1> QED BY <1>2, <1>3 DEF Work, Memory, Replayed, Fits

LEMMA ResumeWorkType ==
  ASSUME db \in Database
  PROVE  /\ ResumeWork \in Work
         /\ ResumeWork.db.tape = db.tape
         /\ Fits(ResumeWork.mem, ResumeWork.db)
<1> DEFINE w == [mem |-> Replayed(db), db |-> db, ok |-> TRUE]
<1>1. w \in Work /\ w.db = db /\ Fits(w.mem, w.db)
  BY ReplayedType
<1>2. ResumeWork = IF w.mem.pending = {} THEN w ELSE Emit(w)
  BY DEF ResumeWork
<1> HIDE DEF w
<1> QED BY <1>1, <1>2, EmitType DEF Fits
-----------------------------------------------------------------------------
(* What is taped.                                                          *)

LEMMA TapedSame ==
  ASSUME NEW d, NEW e, d.tape = e.tape
  PROVE  Taped(d) = Taped(e)
BY DEF Taped, MsgsOf

LEMMA TapedAppend ==
  ASSUME NEW d \in Database, NEW e, NEW row \in TapeRow,
         e.tape = Append(d.tape, row)
  PROVE  Taped(e) = Taped(d) \cup {row.msg}
<1>1. d.tape \in Seq(TapeRow)
  BY DEF Database
<1>2. /\ DOMAIN d.tape = 1..Len(d.tape)
      /\ DOMAIN e.tape = 1..(Len(d.tape) + 1)
      /\ \A i \in 1..Len(d.tape) : e.tape[i] = d.tape[i]
      /\ e.tape[Len(d.tape) + 1] = row
      /\ Len(d.tape) \in Nat
  BY <1>1
<1>3. 1..(Len(d.tape) + 1) = (1..Len(d.tape)) \cup {Len(d.tape) + 1}
  BY <1>2
<1> QED BY <1>2, <1>3 DEF Taped, MsgsOf

-----------------------------------------------------------------------------
(* The inductive invariant.                                                *)

\* Only a worker that is running is connected, and one that is down does nothing.
LinkInv ==
  /\ wire # {} => connected
  /\ connected => wk \in {"up", "closing"}
  /\ wk = "down" => tx = "none" /\ chain = <<>>

\* A transaction is the head's, and the chain holds the job of the message being
\* handled once, if any message is.
ChainInv ==
  /\ tx # "none" => chain # <<>>
  /\ \A i \in 1..Len(chain) : chain[i] = "handle" => handling # None
  /\ \A i, j \in 1..Len(chain) : chain[i] = "handle" /\ chain[j] = "handle" => i = j

\* The open transaction adds the message being handled to the tape, or nothing.
StagedInv ==
  tx # "none" =>
    /\ Taped(staged) = IF Head(chain) = "handle" THEN Taped(db) \cup {handling}
                       ELSE Taped(db)
    /\ Len(db.tape) <= Len(staged.tape)

\* The pending rows are of those absorbed, and these on the tape the memory belongs to.
PendingInv ==
  /\ Fits(snap, db)
  /\ Fits(mem, IF tx = "none" THEN db ELSE staged)

\* What has been acknowledged is safe already.
AcksSafe == acks \subseteq Unusable \cup Taped(db)

IInv == TypeOK /\ LinkInv /\ ChainInv /\ StagedInv /\ PendingInv
          /\ AcksSafe /\ AckedIsTaped

LEMMA InitIInv == Init => IInv
<1> SUFFICES ASSUME Init PROVE IInv
  OBVIOUS
<1>1. EmptyMemory \in Memory /\ db \in Database
  BY DEF Init, EmptyMemory, Memory, Database
<1>2. TypeOK
  <2>1. 0 \in 0..N /\ <<>> \in Seq(Job)
    BY ConstantsAssumption
  <2> QED BY <1>1, <2>1 DEF Init, TypeOK
<1>3. AckedIsTaped /\ AcksSafe
  BY DEF Init, AckedIsTaped, AcksSafe
<1> QED
  BY <1>2, <1>3 DEF Init, IInv, LinkInv, ChainInv, StagedInv, PendingInv, Fits, EmptyMemory

LEMMA AcceptStep == IInv /\ Accept => IInv'
<1> SUFFICES ASSUME IInv, Accept PROVE IInv'
  OBVIOUS
<1>1. UNCHANGED <<acks, connected, wk, handling, chain, tx, mem, snap, staged, db, past, faults>>
  BY DEF Accept, work
<1>2. accepted' = accepted + 1 /\ owed' = owed \cup {accepted + 1} /\ accepted < N
      /\ wire' \in {wire, wire \cup {accepted + 1}} /\ (wire' # {} => wire # {} \/ connected)
  BY DEF Accept
<1>3. accepted \in Nat /\ N \in Nat
  BY ConstantsAssumption DEF IInv, TypeOK
<1>4. TypeOK'
  BY <1>1, <1>2, <1>3 DEF IInv, TypeOK
<1>5. AckedIsTaped'
  BY <1>1, <1>2, <1>3 DEF IInv, AckedIsTaped
<1> QED
  BY <1>1, <1>2, <1>4, <1>5 DEF IInv, LinkInv, ChainInv, StagedInv, PendingInv, AcksSafe

LEMMA ConnectStep == IInv /\ Connect => IInv'
BY DEF IInv, Connect, work, TypeOK, LinkInv, ChainInv, StagedInv, PendingInv,
       AcksSafe, AckedIsTaped

LEMMA DisconnectStep == IInv /\ Disconnect => IInv'
<1> SUFFICES ASSUME IInv, Disconnect PROVE IInv'
  OBVIOUS
<1>1. /\ wire' = {} /\ acks' = {} /\ connected' = FALSE
      /\ UNCHANGED <<accepted, owed, wk, handling, chain, tx, mem, snap, staged, past, db>>
  BY DEF Disconnect, LinkDown, work
<1>2. faults' \in {faults, faults + 1}
  BY DEF Disconnect, Fault
<1>3. TypeOK'
  <2>1. faults' \in Nat
    BY <1>2 DEF IInv, TypeOK
  <2>2. connected' \in BOOLEAN
    BY <1>1
  <2> QED BY <1>1, <2>1, <2>2 DEF IInv, TypeOK
<1> QED
  BY <1>1, <1>3 DEF IInv, LinkInv, ChainInv, StagedInv, PendingInv, AcksSafe, AckedIsTaped

\* The broker lets go of a message only on an acknowledgement, which was safe.
LEMMA AckArrivesStep == IInv /\ AckArrives => IInv'
<1> SUFFICES ASSUME IInv, AckArrives PROVE IInv'
  OBVIOUS
<1>1. PICK m \in acks : acks' = acks \ {m} /\ owed' = owed \ {m}
  BY DEF AckArrives
<1>2. m \in Unusable \cup Taped(db)
  BY DEF IInv, AcksSafe
<1>3. AckedIsTaped'
  BY <1>1, <1>2 DEF AckArrives, IInv, AckedIsTaped, work
<1> QED
  BY <1>1, <1>3 DEF AckArrives, work, IInv, TypeOK, LinkInv, ChainInv, StagedInv,
                    PendingInv, AcksSafe

LEMMA DiscardStep == IInv /\ Discard => IInv'
<1> SUFFICES ASSUME IInv, Discard PROVE IInv'
  OBVIOUS
<1>1. PICK m \in Unusable : Arrives(m) /\ acks' = acks \cup {m}
  BY DEF Discard
<1>2. m \in Msg
  BY ConstantsAssumption
<1> QED
  BY <1>1, <1>2 DEF Discard, Arrives, work, IInv, TypeOK, LinkInv, ChainInv,
                    StagedInv, PendingInv, AcksSafe, AckedIsTaped

\* A job joining the end of the chain.
LEMMA ChainAppend ==
  ASSUME NEW c \in Seq(Job), NEW job \in Job
  PROVE  /\ Append(c, job) \in Seq(Job) /\ Append(c, job) # <<>>
         /\ Len(Append(c, job)) = Len(c) + 1 /\ Len(c) \in Nat
         /\ \A i \in 1..Len(c) : Append(c, job)[i] = c[i]
         /\ Append(c, job)[Len(c) + 1] = job
         /\ c # <<>> => Head(Append(c, job)) = Head(c)
<1>1. c # <<>> => 1 \in 1..Len(c) /\ Head(c) = c[1]
  OBVIOUS
<1>2. Append(c, job) \in Seq(Job) /\ Append(c, job) # <<>>
  BY SMTT(20)
<1>3. Head(Append(c, job)) = Append(c, job)[1]
  BY <1>2
<1> QED BY <1>1, <1>2, <1>3

LEMMA ReceiveStep == IInv /\ Receive => IInv'
<1> SUFFICES ASSUME IInv, Receive PROVE IInv'
  OBVIOUS
<1>1. PICK m \in Msg \ Unusable : Arrives(m) /\ handling' = m
  BY DEF Receive
<1>2. /\ chain' = Append(chain, "handle") /\ handling = None
      /\ m \in wire /\ wire' = wire \ {m}
      /\ UNCHANGED <<accepted, owed, acks, connected, wk, tx, mem, snap, staged,
                     past, db, faults>>
  BY <1>1 DEF Receive, Arrives, work
<1>3. chain \in Seq(Job) /\ "handle" \in Job
  BY DEF IInv, TypeOK, Job
<1>4. TypeOK'
  BY <1>1, <1>2, <1>3 DEF IInv, TypeOK
<1>5. handling' # None
  BY <1>1 DEF Msg, None
<1>6. ChainInv'
  BY <1>2, <1>3, <1>5, ChainAppend DEF IInv, ChainInv
<1>7. tx # "none" => chain # <<>> /\ Head(chain) # "handle"
  <2>1. chain # <<>> => 1 \in 1..Len(chain) /\ Head(chain) = chain[1]
    BY <1>3
  <2> QED BY <2>1, <1>2 DEF IInv, ChainInv
<1>8. StagedInv'
  BY <1>2, <1>3, <1>7, ChainAppend DEF IInv, StagedInv
<1> QED
  BY <1>2, <1>4, <1>6, <1>8 DEF IInv, LinkInv, PendingInv, AcksSafe, AckedIsTaped

\* A flush joins the chain, by the timer or by shutdown.
LEMMA EnqueueStep ==
  ASSUME IInv, FlushTick \/ Shutdown
  PROVE  IInv'
<1>1. PICK job \in {"flush", "force"} : chain' = Append(chain, job)
  BY DEF FlushTick, Shutdown
<1>2. /\ wk = "up" /\ wk' \in {"up", "closing"} /\ faults' \in {faults, faults + 1}
      /\ UNCHANGED <<accepted, owed, wire, acks, connected, handling, tx, mem, snap,
                     staged, past, db>>
  BY DEF FlushTick, Shutdown, Fault, broker, work
<1>3. chain \in Seq(Job) /\ job \in Job
  BY DEF IInv, TypeOK, Job
<1>4. TypeOK'
  BY <1>1, <1>2, <1>3, ChainAppend DEF IInv, TypeOK
<1>5. ChainInv'
  BY <1>1, <1>2, <1>3, ChainAppend DEF IInv, ChainInv
<1>6. StagedInv'
  BY <1>1, <1>2, <1>3, ChainAppend DEF IInv, StagedInv, ChainInv
<1> QED
  BY <1>2, <1>4, <1>5, <1>6 DEF IInv, LinkInv, PendingInv, AcksSafe, AckedIsTaped

-----------------------------------------------------------------------------
(* The steps that run the chain.                                           *)

LEMMA HeadJob ==
  ASSUME IInv, chain # <<>>
  PROVE  /\ chain \in Seq(Job) /\ Len(chain) \in Nat \ {0}
         /\ Head(chain) = chain[1]
         /\ Tail(chain) \in Seq(Job)
         /\ Len(Tail(chain)) = Len(chain) - 1
         /\ \A i \in 1..Len(Tail(chain)) : Tail(chain)[i] = chain[i + 1]
         /\ Head(chain) = "handle" => handling \in Msg \ Unusable
<1>1. chain \in Seq(Job)
  BY DEF IInv, TypeOK
<1>2. /\ Len(chain) \in Nat \ {0} /\ Head(chain) = chain[1]
      /\ Tail(chain) \in Seq(Job) /\ Len(Tail(chain)) = Len(chain) - 1
      /\ \A i \in 1..Len(Tail(chain)) : Tail(chain)[i] = chain[i + 1]
  BY <1>1, HeadTailProperties
<1>3. Head(chain) = "handle" => handling # None
  BY <1>2 DEF IInv, ChainInv
<1>4. handling \in (1..accepted \ Unusable) \cup {None} /\ accepted \in 0..N
  BY DEF IInv, TypeOK
<1> QED BY <1>1, <1>2, <1>3, <1>4, ConstantsAssumption DEF Msg

\* A transaction begins: its work is typed, keeps the pending rows on the tape,
\* and adds the message being handled to the tape or nothing.
LEMMA BeginStep ==
  ASSUME IInv, chain # <<>>, tx = "none",
         UNCHANGED <<accepted, owed, wire, acks, connected, wk, handling, chain,
                     past, db, faults>>,
         NEW w \in Work, Begin(w), Fits(w.mem, w.db),
         Taped(w.db) = IF Head(chain) = "handle" THEN Taped(db) \cup {handling}
                       ELSE Taped(db),
         Len(db.tape) <= Len(w.db.tape)
  PROVE  IInv'
<1>1. snap' = mem /\ mem' = w.mem /\ staged' = w.db /\ tx' \in {"open", "doomed"}
  BY DEF Begin
<1>2. w.mem \in Memory /\ w.db \in Database
  BY DEF Work
<1>3. TypeOK'
  BY <1>1, <1>2 DEF IInv, TypeOK
<1>4. StagedInv'
  BY <1>1 DEF StagedInv
<1>5. PendingInv'
  BY <1>1 DEF IInv, PendingInv
<1>6. LinkInv' /\ ChainInv'
  BY <1>1 DEF IInv, LinkInv, ChainInv
<1> QED
  BY <1>1, <1>3, <1>4, <1>5, <1>6 DEF IInv, AcksSafe, AckedIsTaped

LEMMA LastMonthType ==
  ASSUME db \in Database
  PROVE  LastMonth(db) \in Nat
<1>1. CASE db.tape = <<>>
  BY <1>1 DEF LastMonth
<1>2. CASE db.tape # <<>>
  <2>1. db.tape[Len(db.tape)] \in TapeRow
    BY <1>2 DEF Database
  <2> QED BY <1>2, <2>1, ConstantsAssumption DEF LastMonth, TapeRow, Month
<1> QED BY <1>1, <1>2

LEMMA BeginHandleStep == IInv /\ BeginHandle => IInv'
<1> SUFFICES ASSUME IInv, BeginHandle PROVE IInv'
  OBVIOUS
<1>1. PICK mo \in LastMonth(db)..MaxMonth, gap \in BOOLEAN, due \in BOOLEAN :
        /\ Overdue(gap, due)
        /\ Begin(HandleWork([msg |-> handling, gap |-> gap, month |-> mo], due))
  BY DEF BeginHandle
<1> DEFINE row == [msg |-> handling, gap |-> gap, month |-> mo]
           w == HandleWork(row, due)
<1>2. chain # <<>> /\ Head(chain) = "handle" /\ tx = "none"
  BY DEF BeginHandle
<1>3. UNCHANGED <<accepted, owed, wire, acks, connected, wk, handling, chain, past,
                  db, faults>>
  BY DEF BeginHandle, broker
<1>4. mem \in Memory /\ db \in Database /\ Fits(mem, db) /\ db.tape \in Seq(TapeRow)
  BY <1>2 DEF IInv, TypeOK, PendingInv, Database
<1>5. LastMonth(db) \in Nat
  BY <1>4, LastMonthType
<1>6. row \in TapeRow
  <2>1. mo \in Month
    BY <1>5, ConstantsAssumption DEF Month
  <2>2. handling \in Msg
    BY <1>2, HeadJob
  <2> QED BY <2>1, <2>2 DEF TapeRow
<1>7. due => mem.pending # {}
  BY <1>1 DEF Overdue
<1>8. w \in Work /\ w.db.tape = Append(db.tape, row) /\ Fits(w.mem, w.db)
  BY <1>4, <1>6, <1>7, HandleWorkType
<1>9. Taped(w.db) = Taped(db) \cup {handling}
  BY <1>4, <1>6, <1>8, TapedAppend
<1>10. Len(db.tape) <= Len(w.db.tape)
  BY <1>4, <1>8
<1>11. Begin(w)
  BY <1>1
<1> HIDE DEF w
<1> QED BY <1>2, <1>3, <1>8, <1>9, <1>10, <1>11, BeginStep

LEMMA BeginFlushStep == IInv /\ BeginFlush => IInv'
<1> SUFFICES ASSUME IInv, BeginFlush PROVE IInv'
  OBVIOUS
<1>1. /\ chain # <<>> /\ Head(chain) # "handle" /\ tx = "none"
      /\ mem.pending # {} /\ Begin(FlushWork)
      /\ UNCHANGED <<accepted, owed, wire, acks, connected, wk, handling, chain, past,
                     db, faults>>
  BY DEF BeginFlush, broker
<1>2. mem \in Memory /\ db \in Database /\ Fits(mem, db) /\ db.tape \in Seq(TapeRow)
  BY <1>1 DEF IInv, TypeOK, PendingInv, Database
<1>3. FlushWork \in Work /\ FlushWork.db.tape = db.tape /\ Fits(FlushWork.mem, FlushWork.db)
  BY <1>1, <1>2, FlushWorkType
<1>4. Taped(FlushWork.db) = Taped(db) /\ Len(db.tape) <= Len(FlushWork.db.tape)
  BY <1>2, <1>3, TapedSame
<1> QED BY <1>1, <1>3, <1>4, BeginStep

\* A job ends over a committed database that holds at least what was taped, and
\* the message of a handler that succeeded.
LEMMA JobDoneStep ==
  ASSUME IInv, chain # <<>>, NEW ok \in BOOLEAN, JobDone(ok),
         tx' = "none", db' \in Database, staged' \in Database, mem' \in Memory,
         snap' \in Memory, Fits(snap', db'), Fits(mem', db'),
         past' \in {"clean", "cut", "cold"}, faults' \in {faults, faults + 1},
         Taped(db) \subseteq Taped(db'),
         Head(chain) = "handle" /\ ok => handling \in Taped(db')
  PROVE  IInv'
<1>1. chain' = Tail(chain) /\ UNCHANGED <<accepted, owed>>
  BY DEF JobDone
<1>2. /\ wk # "down" /\ wk' \in {wk, "ended"} /\ handling' \in {handling, None}
      /\ wire' \in {wire, {}} /\ connected' \in BOOLEAN
      /\ acks' \subseteq acks \cup {handling}
      /\ handling \in acks' => handling \in acks \/ (Head(chain) = "handle" /\ ok)
      /\ wire' # {} => connected'
      /\ connected' => wk' \in {"up", "closing"}
  <2>1. CASE Head(chain) = "handle" /\ Answered(ok)
    BY <2>1 DEF Answered, IInv, LinkInv, TypeOK
  <2>2. CASE Head(chain) = "flush" /\ UNCHANGED <<wk, handling, wire, acks, connected>>
    BY <2>2 DEF IInv, LinkInv, TypeOK
  <2>3. CASE Head(chain) = "force" /\ wk' = "ended" /\ LinkDown /\ UNCHANGED handling
    BY <2>3 DEF LinkDown, IInv, LinkInv
  <2> QED BY <2>1, <2>2, <2>3 DEF JobDone
<1>3. acks' \subseteq Msg
  BY <1>2, HeadJob DEF IInv, TypeOK
<1>4. TypeOK'
  BY <1>1, <1>2, <1>3, HeadJob DEF IInv, TypeOK
<1>5. LinkInv'
  BY <1>2 DEF LinkInv
<1>6. ChainInv'
  <2>1. \A i \in 1..Len(chain') : i + 1 \in 1..Len(chain) /\ chain'[i] = chain[i + 1]
    BY <1>1, HeadJob
  <2>2. handling' = None => (Head(chain) = "handle" \/ handling = None)
    BY DEF JobDone, Answered
  <2>3. \A i \in 1..Len(chain') : chain'[i] = "handle" => Head(chain) # "handle"
    BY <2>1, HeadJob DEF IInv, ChainInv
  <2>4. \A i \in 1..Len(chain') : chain'[i] = "handle" => handling' # None
    BY <2>1, <2>2, <2>3 DEF IInv, ChainInv
  <2>5. \A i, j \in 1..Len(chain') :
          chain'[i] = "handle" /\ chain'[j] = "handle" => i = j
    BY <2>1 DEF IInv, ChainInv
  <2> QED BY <2>4, <2>5 DEF ChainInv
<1>7. AcksSafe'
  BY <1>2 DEF IInv, AcksSafe
<1>8. AckedIsTaped'
  BY <1>1 DEF IInv, AckedIsTaped
<1> QED
  BY <1>4, <1>5, <1>6, <1>7, <1>8 DEF IInv, StagedInv, PendingInv

LEMMA SkipFlushStep == IInv /\ SkipFlush => IInv'
<1> SUFFICES ASSUME IInv, SkipFlush PROVE IInv'
  OBVIOUS
<1>1. /\ chain # <<>> /\ Head(chain) # "handle" /\ tx = "none" /\ JobDone(TRUE)
      /\ UNCHANGED <<tx, mem, snap, staged, past, db, faults>>
  BY DEF SkipFlush, work
<1>2. /\ Fits(snap, db) /\ Fits(mem, db)
      /\ db \in Database /\ staged \in Database /\ mem \in Memory /\ snap \in Memory
      /\ past \in {"clean", "cut", "cold"}
  BY <1>1 DEF IInv, PendingInv, TypeOK
<1> QED BY <1>1, <1>2, JobDoneStep

\* A transaction ends, committed or rolled back, and the memory goes with it; or
\* it is committed and the memory does not know.
LEMMA FinishStep ==
  ASSUME IInv, tx # "none", NEW ok \in BOOLEAN, NEW d, NEW m,
         Finish(d, m, ok),
         \/ d = staged /\ m = mem
         \/ d = staged /\ m = snap
         \/ d = db /\ m = snap /\ ~ok,
         past' \in {"clean", "cut", "cold"}, faults' \in {faults, faults + 1}
  PROVE  IInv'
<1>1. /\ db' = d /\ staged' = d /\ mem' = m /\ snap' = m /\ tx' = "none" /\ JobDone(ok)
  BY DEF Finish
<1>2. chain # <<>>
  BY DEF IInv, ChainInv
<1>3. /\ Taped(staged) = IF Head(chain) = "handle" THEN Taped(db) \cup {handling}
                         ELSE Taped(db)
      /\ Len(db.tape) <= Len(staged.tape)
  BY DEF IInv, StagedInv
<1>4. /\ db \in Database /\ staged \in Database /\ mem \in Memory /\ snap \in Memory
      /\ Fits(snap, db) /\ Fits(mem, staged)
  BY DEF IInv, TypeOK, PendingInv
<1>5. Len(db.tape) \in Nat /\ Len(staged.tape) \in Nat
  <2>1. db.tape \in Seq(TapeRow) /\ staged.tape \in Seq(TapeRow)
    BY <1>4 DEF Database
  <2> QED BY <2>1
<1>6. Fits(snap, staged)
  BY <1>3, <1>4, <1>5 DEF Fits
<1> QED BY <1>1, <1>2, <1>3, <1>4, <1>6, JobDoneStep

LEMMA CommitStep == IInv /\ Commit => IInv'
<1> SUFFICES ASSUME IInv, Commit PROVE IInv'
  OBVIOUS
<1>1. past \in {"clean", "cut", "cold"}
  BY DEF IInv, TypeOK
<1> QED BY <1>1, FinishStep DEF Commit

LEMMA CutType == ASSUME IInv, Cut PROVE past' \in {"clean", "cut", "cold"}
BY DEF Cut, IInv, TypeOK

LEMMA RollbackStep == IInv /\ Rollback => IInv'
<1> SUFFICES ASSUME IInv, Rollback PROVE IInv'
  OBVIOUS
<1>1. tx # "none" /\ Finish(db, snap, FALSE) /\ faults' \in {faults, faults + 1}
  BY DEF Rollback, Restored, Fault
<1>2. past' \in {"clean", "cut", "cold"}
  BY CutType DEF Rollback, IInv, TypeOK
<1> QED BY <1>1, <1>2, FinishStep

LEMMA CommitUnansweredStep == IInv /\ CommitUnanswered => IInv'
<1> SUFFICES ASSUME IInv, CommitUnanswered PROVE IInv'
  OBVIOUS
<1>1. tx # "none" /\ Finish(staged, snap, FALSE) /\ faults' \in {faults, faults + 1}
  BY DEF CommitUnanswered, Restored, Fault
<1>2. past' \in {"clean", "cut", "cold"}
  BY CutType DEF CommitUnanswered
<1> QED BY <1>1, <1>2, FinishStep

-----------------------------------------------------------------------------
(* The steps of the worker's life.                                         *)

LEMMA EmptyMemoryFits == EmptyMemory \in Memory /\ \A d : Fits(EmptyMemory, d)
BY DEF EmptyMemory, Memory, Fits

LEMMA ComeUpStep ==
  ASSUME IInv, NEW m \in Memory, NEW d \in Database, ComeUp(m, d), Fits(m, d),
         Taped(d) = Taped(db), past' \in {"clean", "cut", "cold"},
         faults' \in {faults, faults + 1}
  PROVE  IInv'
<1>1. /\ wk = "down" /\ wk' = "up" /\ mem' = m /\ snap' = m /\ db' = d /\ staged' = d
      /\ UNCHANGED <<accepted, owed, wire, acks, connected, handling, chain, tx>>
  BY DEF ComeUp, broker
<1>2. tx' = "none" /\ chain' = <<>>
  BY <1>1 DEF IInv, LinkInv
<1>3. TypeOK'
  BY <1>1 DEF IInv, TypeOK
<1> QED
  BY <1>1, <1>2, <1>3 DEF IInv, LinkInv, ChainInv, StagedInv, PendingInv, AcksSafe,
                          AckedIsTaped

LEMMA ResumeWarmStep == IInv /\ ResumeWarm => IInv'
<1> SUFFICES ASSUME IInv, ResumeWarm PROVE IInv'
  OBVIOUS
<1>1. db \in Database /\ past \in {"clean", "cut", "cold"}
  BY DEF IInv, TypeOK
<1>2. ResumeWork.mem \in Memory /\ ResumeWork.db \in Database
      /\ Fits(ResumeWork.mem, ResumeWork.db) /\ Taped(ResumeWork.db) = Taped(db)
  BY <1>1, ResumeWorkType, TapedSame DEF Work
<1> QED BY <1>1, <1>2, ComeUpStep DEF ResumeWarm

LEMMA StartColdStep == IInv /\ StartCold => IInv'
<1> SUFFICES ASSUME IInv, StartCold PROVE IInv'
  OBVIOUS
<1>1. PICK d \in {db, ResumeWork.db} : ComeUp(EmptyMemory, d)
  BY DEF StartCold
<1>2. db \in Database
  BY DEF IInv, TypeOK
<1>3. d \in Database /\ Taped(d) = Taped(db)
  BY <1>2, ResumeWorkType, TapedSame DEF Work
<1>4. past' = "cold" /\ faults' \in {faults, faults + 1}
  BY DEF StartCold, Fault
<1> QED BY <1>1, <1>3, <1>4, EmptyMemoryFits, ComeUpStep

LEMMA GoneStep ==
  ASSUME IInv, NEW d \in Database, Gone(d), Taped(db) \subseteq Taped(d),
         past' \in {"clean", "cut", "cold"}, faults' \in {faults, faults + 1}
  PROVE  IInv'
<1>1. /\ wk' = "down" /\ wire' = {} /\ acks' = {} /\ connected' = FALSE
      /\ handling' = None /\ chain' = <<>> /\ tx' = "none"
      /\ mem' = EmptyMemory /\ snap' = EmptyMemory /\ db' = d /\ staged' = d
      /\ UNCHANGED <<accepted, owed>>
  BY DEF Gone, LinkDown
<1>2. TypeOK'
  <2>1. <<>> \in Seq(Job)
    OBVIOUS
  <2>2. faults' \in Nat
    BY DEF IInv, TypeOK
  <2>3. connected' \in BOOLEAN
    BY <1>1
  <2> QED BY <1>1, <2>1, <2>2, <2>3, EmptyMemoryFits DEF IInv, TypeOK
<1>3. AckedIsTaped'
  BY <1>1 DEF IInv, AckedIsTaped
<1>4. ChainInv'
  BY <1>1 DEF ChainInv
<1> QED
  BY <1>1, <1>2, <1>3, <1>4, EmptyMemoryFits
  DEF IInv, LinkInv, StagedInv, PendingInv, AcksSafe

LEMMA ExitStep == IInv /\ Exit => IInv'
<1> SUFFICES ASSUME IInv, Exit PROVE IInv'
  OBVIOUS
<1>1. db \in Database /\ past \in {"clean", "cut", "cold"}
  BY DEF IInv, TypeOK
<1> QED BY <1>1, GoneStep DEF Exit

LEMMA CrashStep == IInv /\ Crash => IInv'
<1> SUFFICES ASSUME IInv, Crash PROVE IInv'
  OBVIOUS
<1>1. PICK d \in IF tx = "open" THEN {db, staged} ELSE {db} : Gone(d)
  BY DEF Crash
<1>2. d \in Database /\ Taped(db) \subseteq Taped(d)
  BY DEF IInv, TypeOK, StagedInv
<1>3. past' \in {"clean", "cut", "cold"} /\ faults' \in {faults, faults + 1}
  BY CutType DEF Crash, Fault
<1> QED BY <1>1, <1>2, <1>3, GoneStep

-----------------------------------------------------------------------------
(* The theorems.                                                           *)

LEMMA NextIInv == IInv /\ [Next]_vars => IInv'
<1> SUFFICES ASSUME IInv, [Next]_vars PROVE IInv'
  OBVIOUS
<1>1. CASE UNCHANGED vars
  BY <1>1 DEF vars, IInv, TypeOK, LinkInv, ChainInv, StagedInv, PendingInv, AcksSafe,
              AckedIsTaped
<1>2. CASE Accept \/ Connect \/ Disconnect \/ AckArrives \/ Discard \/ Receive
  BY <1>2, AcceptStep, ConnectStep, DisconnectStep, AckArrivesStep, DiscardStep,
     ReceiveStep
<1>3. CASE BeginHandle \/ BeginFlush \/ SkipFlush \/ Commit \/ Rollback \/ CommitUnanswered
  BY <1>3, BeginHandleStep, BeginFlushStep, SkipFlushStep, CommitStep, RollbackStep,
     CommitUnansweredStep
<1>4. CASE FlushTick \/ Shutdown
  BY <1>4, EnqueueStep
<1>5. CASE ResumeWarm \/ StartCold \/ Exit \/ Crash
  BY <1>5, ResumeWarmStep, StartColdStep, ExitStep, CrashStep
<1> QED BY <1>1, <1>2, <1>3, <1>4, <1>5 DEF Next

\* Type correctness.
THEOREM TypeCorrect == Spec => []TypeOK
<1>1. Spec => []IInv
  BY InitIInv, NextIInv, PTL DEF Spec
<1>2. IInv => TypeOK
  BY DEF IInv
<1> QED BY <1>1, <1>2, PTL

\* mqtt.ts acks strictly after COMMIT, and a memory that rolled back, a COMMIT
\* that went unanswered, a lost connection, a crash or a cold start does not
\* change it: what the broker has let go of is taped, or was unusable.
THEOREM AckedSafe == Spec => []AckedIsTaped
<1>1. Spec => []IInv
  BY InitIInv, NextIInv, PTL DEF Spec
<1>2. IInv => AckedIsTaped
  BY DEF IInv
<1> QED BY <1>1, <1>2, PTL

-----------------------------------------------------------------------------
(* Ingest implements DurableTape.                                          *)

LEMMA PromiseInit == Init => Promise!Init
<1> SUFFICES ASSUME Init PROVE Promise!Init
  OBVIOUS
<1>1. accepted = 0 /\ owed = {} /\ db.tape = <<>>
  BY DEF Init
<1>2. Taped(db) = {}
  BY <1>1 DEF Taped, MsgsOf
<1> QED BY <1>1, <1>2 DEF Promise!Init

\* A step that may commit the open transaction, and does nothing else to what
\* the promise is about, records the message being handled or stutters.
LEMMA PromiseCommit ==
  ASSUME IInv, tx # "none", db' \in {db, staged}, UNCHANGED <<accepted, owed>>
  PROVE  [Promise!Next]_Promise!vars
<1>1. Taped(db)' = Taped(db')
  BY DEF Taped, MsgsOf
<1>2. CASE Taped(db') = Taped(db)
  BY <1>1, <1>2 DEF Promise!vars
<1>3. CASE Taped(db') # Taped(db)
  <2>1. chain # <<>> /\ Head(chain) = "handle" /\ Taped(db') = Taped(db) \cup {handling}
    BY <1>3 DEF IInv, StagedInv, ChainInv
  <2>2. handling \in (1..accepted) \ Unusable /\ handling \in Msg
    BY <2>1, HeadJob DEF IInv, TypeOK, Msg, None
  <2>3. Promise!Record(handling)
    BY <1>1, <2>1, <2>2 DEF Promise!Record
  <2> QED BY <2>2, <2>3 DEF Promise!Next
<1> QED BY <1>2, <1>3

LEMMA PromiseStutter ==
  ASSUME UNCHANGED <<accepted, owed>>, Taped(db') = Taped(db)
  PROVE  [Promise!Next]_Promise!vars
<1>1. Taped(db)' = Taped(db')
  BY DEF Taped, MsgsOf
<1> QED BY <1>1 DEF Promise!vars

LEMMA PromiseAccept == IInv /\ Accept => [Promise!Next]_Promise!vars
<1> SUFFICES ASSUME IInv, Accept PROVE [Promise!Next]_Promise!vars
  OBVIOUS
<1>1. /\ accepted' = accepted + 1 /\ owed' = owed \cup {accepted + 1}
      /\ accepted < N /\ db' = db
  BY DEF Accept
<1>2. accepted \in Nat /\ N \in Nat
  BY ConstantsAssumption DEF IInv, TypeOK
<1>3. accepted + 1 \in Msg /\ accepted + 1 \notin 1..accepted
  BY <1>1, <1>2 DEF Msg
<1>4. 1..(accepted + 1) = (1..accepted) \cup {accepted + 1}
  BY <1>2
<1>5. Taped(db)' = Taped(db)
  BY <1>1 DEF Taped, MsgsOf
<1>6. Promise!Accept(accepted + 1)
  BY <1>1, <1>3, <1>4, <1>5 DEF Promise!Accept
<1> QED BY <1>3, <1>6 DEF Promise!Next

LEMMA PromiseAck == IInv /\ AckArrives => [Promise!Next]_Promise!vars
<1> SUFFICES ASSUME IInv, AckArrives PROVE [Promise!Next]_Promise!vars
  OBVIOUS
<1>1. PICK m \in acks : owed' = owed \ {m}
  BY DEF AckArrives
<1>2. accepted' = accepted /\ db' = db
  BY DEF AckArrives
<1>3. Taped(db)' = Taped(db)
  BY <1>2 DEF Taped, MsgsOf
<1>4. CASE m \in owed
  <2>1. m \in Msg /\ m \in Taped(db) \cup Unusable
    BY DEF IInv, AcksSafe, TypeOK
  <2>2. Promise!Release(m)
    BY <1>1, <1>2, <1>3, <1>4, <2>1 DEF Promise!Release
  <2> QED BY <2>1, <2>2 DEF Promise!Next
<1>5. CASE m \notin owed
  BY <1>1, <1>2, <1>3, <1>5 DEF Promise!vars
<1> QED BY <1>4, <1>5

LEMMA PromiseStep == IInv /\ [Next]_vars => [Promise!Next]_Promise!vars
<1> SUFFICES ASSUME IInv, [Next]_vars PROVE [Promise!Next]_Promise!vars
  OBVIOUS
<1>1. CASE UNCHANGED vars
  BY <1>1, PromiseStutter DEF vars
<1>2. CASE Accept \/ AckArrives
  BY <1>2, PromiseAccept, PromiseAck
<1>3. CASE Connect \/ Disconnect \/ Discard \/ Receive \/ BeginHandle \/ BeginFlush
           \/ FlushTick \/ Shutdown
  BY <1>3, PromiseStutter DEF Connect, Disconnect, Discard, Receive, BeginHandle,
                              BeginFlush, FlushTick, Shutdown, broker
<1>4. CASE SkipFlush
  BY <1>4, PromiseStutter DEF SkipFlush, JobDone
<1>5. CASE Commit \/ Rollback \/ CommitUnanswered
  BY <1>5, PromiseCommit DEF Commit, Rollback, CommitUnanswered, Finish, JobDone
<1>6. CASE ResumeWarm \/ StartCold
  <2>1. db \in Database
    BY DEF IInv, TypeOK
  <2>2. Taped(db') = Taped(db)
    BY <1>6, <2>1, ResumeWorkType, TapedSame DEF ResumeWarm, StartCold, ComeUp
  <2> QED BY <1>6, <2>2, PromiseStutter DEF ResumeWarm, StartCold, ComeUp, broker
<1>7. CASE Exit
  BY <1>7, PromiseStutter DEF Exit, Gone
<1>8. CASE Crash
  <2>1. UNCHANGED <<accepted, owed>> /\ db' \in {db, staged}
        /\ (db' = db \/ tx # "none")
    BY <1>8 DEF Crash, Gone
  <2>2. CASE tx # "none"
    BY <2>1, <2>2, PromiseCommit
  <2>3. CASE tx = "none"
    BY <2>1, <2>3, PromiseStutter
  <2> QED BY <2>2, <2>3
<1> QED BY <1>1, <1>2, <1>3, <1>4, <1>5, <1>6, <1>7, <1>8 DEF Next

\* The whole worker, with its transactions, its timer, its crashes and its
\* restarts, keeps DurableTape's promise: the broker's session holds a usable
\* message until it is on the tape, and the tape forgets nothing.
THEOREM PromiseKept == Spec => KeepsPromise
<1>1. Spec => []IInv
  BY InitIInv, NextIInv, PTL DEF Spec
<1> QED BY <1>1, PromiseInit, PromiseStep, PTL DEF Spec, KeepsPromise, Promise!Spec
-----------------------------------------------------------------------------
(* The cache of partitions.                                                *)

\* The months a memory knows of have partitions in this database.
Known(m, d) == m.ensured \subseteq d.parts

\* A piece of a transaction keeps that, and takes no partition away.
Keeps(w, v) ==
  /\ Known(w.mem, w.db) => Known(v.mem, v.db)
  /\ w.db.parts \subseteq v.db.parts

LEMMA EnsureMonthKeeps ==
  ASSUME NEW w \in Work, NEW mo \in Month
  PROVE  Keeps(w, EnsureMonth(w, mo))
BY DEF EnsureMonth, Keeps, Known, Work, Memory, Database

LEMMA InsertRawKeeps ==
  ASSUME NEW w \in Work, NEW row \in TapeRow
  PROVE  Keeps(w, InsertRaw(w, row))
BY DEF InsertRaw, Keeps, Known, Work, Memory, Database

LEMMA EmitKeeps ==
  ASSUME NEW w \in Work, Fits(w.mem, w.db), w.mem.pending # {}
  PROVE  Keeps(w, Emit(w))
<1> DEFINE e == EnsureMonth(w, BurstMonth(w))
<1>1. BurstMonth(w) \in Month
  BY BurstMonthType
<1>2. e \in Work /\ Keeps(w, e)
  BY <1>1, EnsureMonthType, EnsureMonthKeeps
<1>3. /\ Emit(w).mem = [e.mem EXCEPT !.pending = {}]
      /\ Emit(w).db = [e.db EXCEPT !.sampled = @ \cup w.mem.applied]
  BY DEF Emit
<1> HIDE DEF e
<1> QED BY <1>2, <1>3 DEF Keeps, Known, Work, Memory, Database

LEMMA ApplyKeeps ==
  ASSUME NEW w \in Work
  PROVE  Keeps(w, Apply(w))
BY DEF Apply, Keeps, Known, Work, Memory

LEMMA HandleWorkKeeps ==
  ASSUME mem \in Memory, db \in Database, Fits(mem, db),
         NEW row \in TapeRow, NEW due \in BOOLEAN, due => mem.pending # {}
  PROVE  Keeps(Start(db), HandleWork(row, due))
<1> DEFINE s == Start(db)
           e == EnsureMonth(s, row.month)
           raw == InsertRaw(e, row)
           w == IF due THEN Emit(raw) ELSE raw
<1>1. s \in Work /\ s.db.tape = db.tape /\ s.mem.pending = mem.pending
      /\ s.mem.applied = mem.applied
  BY DEF Start, Work
<1>2. row.month \in Month
  BY DEF TapeRow
<1>3. e \in Work /\ e.db.tape = db.tape /\ e.mem.pending = mem.pending
      /\ e.mem.applied = mem.applied /\ Keeps(s, e)
  BY <1>1, <1>2, EnsureMonthType, EnsureMonthKeeps
<1>4. /\ raw \in Work /\ raw.db.tape = Append(db.tape, row)
      /\ raw.mem.pending = mem.pending
      /\ raw.mem.applied = mem.applied /\ Keeps(e, raw)
  BY <1>3, InsertRawType, InsertRawKeeps
<1>5. Fits(raw.mem, raw.db)
  <2>1. db.tape \in Seq(TapeRow)
    BY DEF Database
  <2> QED BY <1>4, <2>1 DEF Fits
<1>6. w \in Work /\ Keeps(raw, w)
  <2>1. CASE due
    BY <2>1, <1>4, <1>5, EmitType, EmitKeeps
  <2>2. CASE ~due
    BY <2>2, <1>4 DEF Keeps
  <2> QED BY <2>1, <2>2
<1>7. HandleWork(row, due) = Apply(w) /\ Keeps(w, Apply(w))
  BY <1>6, ApplyKeeps DEF HandleWork
<1>8. Keeps(s, HandleWork(row, due))
  <2> HIDE DEF s, e, raw, w
  <2> QED BY <1>3, <1>4, <1>6, <1>7 DEF Keeps
<1> QED BY <1>8

\* What a rollback would restore is known to the committed database, and what a
\* commit would keep to the staged one.
MonthsInv ==
  /\ Known(snap, db)
  /\ Known(mem, IF tx = "none" THEN db ELSE staged)
  /\ tx # "none" => db.parts \subseteq staged.parts

LEMMA MonthsInit == Init => MonthsInv
BY DEF Init, MonthsInv, Known, EmptyMemory

LEMMA MonthsBegin ==
  ASSUME MonthsInv, tx = "none", db' = db, NEW w, Begin(w), Keeps(Start(db), w)
  PROVE  MonthsInv'
<1>1. Start(db).mem = mem /\ Start(db).db = db
  BY DEF Start
<1>2. snap' = mem /\ mem' = w.mem /\ staged' = w.db /\ tx' \in {"open", "doomed"}
  BY DEF Begin
<1> QED BY <1>1, <1>2 DEF MonthsInv, Keeps

LEMMA MonthsFinish ==
  ASSUME MonthsInv, tx # "none", NEW ok, NEW d, NEW m, Finish(d, m, ok),
         \/ d = staged /\ m \in {mem, snap}
         \/ d = db /\ m = snap
  PROVE  MonthsInv'
<1>1. db' = d /\ mem' = m /\ snap' = m /\ tx' = "none"
  BY DEF Finish
<1>2. Known(m, d)
  BY DEF MonthsInv, Known
<1> QED BY <1>1, <1>2 DEF MonthsInv

LEMMA ResumeKeeps ==
  ASSUME db \in Database
  PROVE  /\ Known(ResumeWork.mem, ResumeWork.db)
         /\ \A d \in {db, ResumeWork.db} : Known(EmptyMemory, d)
<1> DEFINE w == [mem |-> Replayed(db), db |-> db, ok |-> TRUE]
<1>1. w \in Work /\ Fits(w.mem, w.db) /\ Known(w.mem, w.db)
  BY ReplayedType DEF Known, Replayed
<1>2. ResumeWork = IF w.mem.pending = {} THEN w ELSE Emit(w)
  BY DEF ResumeWork
<1> HIDE DEF w
<1> QED BY <1>1, <1>2, EmitKeeps DEF Keeps, Known, EmptyMemory

LEMMA MonthsStep == IInv /\ MonthsInv /\ [Next]_vars => MonthsInv'
<1> SUFFICES ASSUME IInv, MonthsInv, [Next]_vars PROVE MonthsInv'
  OBVIOUS
<1>1. CASE UNCHANGED vars
  BY <1>1 DEF vars, MonthsInv
<1>2. CASE Accept \/ Connect \/ Disconnect \/ AckArrives \/ Discard \/ Receive
           \/ FlushTick \/ Shutdown \/ SkipFlush
  BY <1>2 DEF Accept, Connect, Disconnect, AckArrives, Discard, Receive, FlushTick,
              Shutdown, SkipFlush, work, MonthsInv
<1>3. CASE BeginHandle
  <2>1. PICK mo \in LastMonth(db)..MaxMonth, gap \in BOOLEAN, due \in BOOLEAN :
          /\ Overdue(gap, due)
          /\ Begin(HandleWork([msg |-> handling, gap |-> gap, month |-> mo], due))
    BY <1>3 DEF BeginHandle
  <2>2. chain # <<>> /\ Head(chain) = "handle" /\ tx = "none" /\ db' = db
    BY <1>3 DEF BeginHandle
  <2>3. mem \in Memory /\ db \in Database /\ Fits(mem, db)
    BY <2>2 DEF IInv, TypeOK, PendingInv
  <2>4. [msg |-> handling, gap |-> gap, month |-> mo] \in TapeRow
    BY <2>2, <2>3, HeadJob, LastMonthType, ConstantsAssumption DEF TapeRow, Month
  <2>5. due => mem.pending # {}
    BY <2>1 DEF Overdue
  <2> QED BY <2>1, <2>2, <2>3, <2>4, <2>5, HandleWorkKeeps, MonthsBegin
<1>4. CASE BeginFlush
  <2>1. tx = "none" /\ mem.pending # {} /\ Begin(FlushWork) /\ db' = db
    BY <1>4 DEF BeginFlush
  <2>2. mem \in Memory /\ db \in Database /\ Fits(mem, db)
    BY <2>1 DEF IInv, TypeOK, PendingInv
  <2>3. Keeps(Start(db), FlushWork)
    BY <2>1, <2>2, EmitKeeps DEF FlushWork, Start, Work
  <2> QED BY <2>1, <2>3, MonthsBegin
<1>5. CASE Commit
  BY <1>5, MonthsFinish DEF Commit
<1>6. CASE Rollback
  BY <1>6, MonthsFinish DEF Rollback, Restored
<1>7. CASE CommitUnanswered
  BY <1>7, MonthsFinish DEF CommitUnanswered, Restored
<1>8. CASE ResumeWarm \/ StartCold
  <2>1. db \in Database /\ tx = "none"
    BY <1>8 DEF IInv, TypeOK, LinkInv, ResumeWarm, StartCold, ComeUp
  <2> QED BY <1>8, <2>1, ResumeKeeps DEF ResumeWarm, StartCold, ComeUp, MonthsInv
<1>9. CASE Exit \/ Crash
  BY <1>9 DEF Exit, Crash, Gone, MonthsInv, Known, EmptyMemory
<1> QED BY <1>1, <1>2, <1>3, <1>4, <1>5, <1>6, <1>7, <1>8, <1>9 DEF Next

\* A rollback undoes the DDL of its transaction, a dry replay never ran any, and a
\* COMMIT may have happened unbeknown: whichever it was, a month the worker takes
\* for ensured has its partitions.
THEOREM MonthsExist == Spec => []EnsuredMonthsExist
<1>1. Spec => []IInv
  BY InitIInv, NextIInv, PTL DEF Spec
<1>2. Spec => []MonthsInv
  BY <1>1, MonthsInit, MonthsStep, PTL DEF Spec
<1>3. MonthsInv => EnsuredMonthsExist
  BY DEF MonthsInv, Known, EnsuredMonthsExist
<1> QED BY <1>2, <1>3, PTL

-----------------------------------------------------------------------------
(* What grows with the tape.                                               *)

\* The tape of e goes on where that of d ends.
Continues(d, e) ==
  /\ DOMAIN d.tape \subseteq DOMAIN e.tape
  /\ \A i \in DOMAIN d.tape : e.tape[i] = d.tape[i]

\* Messages the broker will send again, whatever answers are on their way.
Again == owed \ acks

\* Messages that mean nothing, or are the rows' messages.
Safe(rows, d) == Unusable \cup Unmapped \cup MsgsOf(rows, d)

LEMMA SafeGrows ==
  ASSUME NEW d, NEW e, Continues(d, e), NEW rows, rows \subseteq DOMAIN d.tape,
         NEW more, rows \subseteq more
  PROVE  Safe(rows, d) \subseteq Safe(more, e)
BY DEF Safe, MsgsOf, Continues

LEMMA MappedGrows ==
  ASSUME NEW d, NEW e, Continues(d, e)
  PROVE  MappedRows(d) \subseteq MappedRows(e)
BY DEF MappedRows, Continues

LEMMA SameTape ==
  ASSUME NEW d, NEW e, d.tape = e.tape
  PROVE  /\ Continues(d, e) /\ Continues(e, d)
         /\ MappedRows(d) = MappedRows(e) /\ TailBurst(d) = TailBurst(e)
         /\ \A rows : MsgsOf(rows, d) = MsgsOf(rows, e)
BY DEF Continues, MappedRows, TailBurst, MsgsOf

LEMMA TapeAppended ==
  ASSUME NEW d \in Database, NEW e, NEW row \in TapeRow, e.tape = Append(d.tape, row)
  PROVE  /\ Continues(d, e)
         /\ Len(e.tape) = Len(d.tape) + 1 /\ Len(e.tape) \in DOMAIN e.tape
         /\ e.tape[Len(e.tape)] = row
         /\ TailBurst(e) \subseteq TailBurst(d) \cup {Len(e.tape)}
<1>1. d.tape \in Seq(TapeRow)
  BY DEF Database
<1>2. /\ DOMAIN d.tape = 1..Len(d.tape) /\ DOMAIN e.tape = 1..(Len(d.tape) + 1)
      /\ \A i \in 1..Len(d.tape) : e.tape[i] = d.tape[i]
      /\ Len(e.tape) = Len(d.tape) + 1 /\ e.tape[Len(d.tape) + 1] = row
      /\ Len(d.tape) \in Nat
  BY <1>1
<1>3. ASSUME NEW i \in TailBurst(e), i # Len(e.tape) PROVE i \in TailBurst(d)
  <2>1. i \in DOMAIN e.tape /\ e.tape[i].msg \notin Unmapped
        /\ \A k \in DOMAIN e.tape : k > i => ~e.tape[k].gap
    BY <1>3 DEF TailBurst, MappedRows
  <2>2. i \in DOMAIN d.tape
    BY <1>2, <1>3, <2>1
  <2>3. \A k \in DOMAIN d.tape : k \in DOMAIN e.tape /\ e.tape[k] = d.tape[k]
    BY <1>2
  <2> QED BY <2>1, <2>2, <2>3 DEF TailBurst, MappedRows
<1> QED BY <1>2, <1>3 DEF Continues

-----------------------------------------------------------------------------
(* The inductive invariant.                                                *)

\* Messages on the connection, and the one being handled.
InHand == wire \cup ({handling} \ {None})

\* The tape holds messages that were accepted and can be used; answers are on their way
\* only while there is a connection; a worker that is down handles nothing.
TapeInv ==
  /\ Taped(db) \subseteq (1..accepted) \ Unusable
  /\ db.sampled \subseteq DOMAIN db.tape
  /\ acks \subseteq 1..accepted /\ (~connected => acks = {})
  /\ wk = "down" => handling = None
  /\ tx = "none" => snap = mem /\ staged = db

\* What the open transaction has made of the memory and the database: the message being
\* handled is a new row, absorbed and pending, and nothing that was pending is lost.
GrownInv ==
  tx # "none" =>
    /\ Continues(db, staged)
    /\ staged.sampled \cup mem.pending \subseteq DOMAIN staged.tape
    /\ db.sampled \subseteq staged.sampled
    /\ db.sampled \cup snap.pending \subseteq staged.sampled \cup mem.pending
    /\ IF Head(chain) = "handle"
       THEN LET n == Len(staged.tape)
            IN  /\ n \in DOMAIN staged.tape /\ staged.tape[n].msg = handling
                /\ handling \notin Unmapped =>
                     n \in mem.pending /\ mem.applied = snap.applied \cup {n}
                /\ handling \in Unmapped => mem.applied = snap.applied
                /\ TailBurst(staged) \subseteq TailBurst(db) \cup {n}
       ELSE staged.tape = db.tape /\ mem.applied = snap.applied /\ mem.pending = {}

\* What the worker has in hand will be sent again, or is in a burst already.
HandInv == InHand \subseteq Again \cup Safe(db.sampled \cup snap.pending, db)

\* The memory has absorbed the tape, but for what will be sent again; and the burst a replay
\* would leave pending is sampled, or pending, or will be sent again.
AbsorbedInv ==
  wk # "down" /\ past # "cold" =>
    /\ snap.applied \subseteq MappedRows(db)
    /\ 1..accepted \subseteq Again \cup Safe(snap.applied, db)
    /\ MsgsOf(TailBurst(db), db) \subseteq Again \cup Safe(db.sampled \cup snap.pending, db)

\* As long as no burst was cut short, all the memory has absorbed is sampled or pending; and
\* once the forced flush is over, all that is on the tape is sampled.
CleanInv ==
  past = "clean" =>
    /\ wk # "down" =>
         MsgsOf(snap.applied, db) \subseteq Again \cup Safe(db.sampled \cup snap.pending, db)
    /\ wk \in {"down", "ended"} => Taped(db) \subseteq Again \cup Safe(db.sampled, db)

BurstInv == TapeInv /\ GrownInv /\ HandInv /\ AbsorbedInv /\ CleanInv

LEMMA InitBurst == Init => BurstInv
<1> SUFFICES ASSUME Init PROVE BurstInv
  OBVIOUS
<1>1. Taped(db) = {} /\ db.sampled = {}
  BY DEF Init, Taped, MsgsOf
<1>2. TapeInv /\ GrownInv
  BY <1>1 DEF Init, TapeInv, GrownInv
<1>3. HandInv /\ AbsorbedInv /\ CleanInv
  BY <1>1 DEF Init, HandInv, InHand, AbsorbedInv, CleanInv
<1> QED BY <1>2, <1>3 DEF BurstInv

-----------------------------------------------------------------------------
(* The steps beside the pipeline.                                          *)

LEMMA BesideStep ==
  ASSUME IInv, BurstInv,
         UNCHANGED <<tx, mem, snap, staged, past, db>>,
         wk' = wk \/ (wk = "up" /\ wk' = "closing"),
         tx # "none" =>
           Head(chain') = Head(chain) /\ (Head(chain) = "handle" => handling' = handling),
         1..accepted \subseteq 1..accepted',
         1..accepted' \subseteq (1..accepted) \cup Again',
         Again \subseteq Again' \cup Unusable,
         acks' \subseteq 1..accepted', ~connected' => acks' = {},
         wk' = "down" => handling' = None,
         InHand' \subseteq InHand \cup Again'
  PROVE  BurstInv'
<1>1. TapeInv'
  BY DEF BurstInv, TapeInv, Taped, MsgsOf
<1>2. GrownInv'
  BY DEF BurstInv, GrownInv
<1>3. \A rows : Again \cup Safe(rows, db) \subseteq Again' \cup Safe(rows, db)
  BY DEF Safe
<1>4. HandInv'
  BY <1>3 DEF BurstInv, HandInv, Safe
<1>5. AbsorbedInv'
  BY <1>3 DEF BurstInv, AbsorbedInv, Safe
<1>6. CleanInv'
  BY <1>3 DEF BurstInv, CleanInv, Safe
<1> QED BY <1>1, <1>2, <1>4, <1>5, <1>6 DEF BurstInv

LEMMA LinkBurst ==
  ASSUME IInv, BurstInv,
         Accept \/ Connect \/ Disconnect \/ AckArrives \/ Discard \/ Receive
  PROVE  BurstInv'
<1>1. /\ accepted \in 0..N /\ owed \subseteq 1..accepted /\ wire \subseteq 1..accepted
      /\ acks \subseteq 1..accepted /\ (~connected => acks = {})
      /\ wk = "down" => handling = None
      /\ wire # {} => wk # "down" /\ connected
      /\ chain \in Seq(Job) /\ N \in Nat
  BY ConstantsAssumption DEF IInv, TypeOK, LinkInv, BurstInv, TapeInv
<1>2. CASE Accept
  <2>1. /\ accepted' = accepted + 1 /\ owed' = owed \cup {accepted + 1}
        /\ wire' \subseteq wire \cup {accepted + 1}
        /\ UNCHANGED <<acks, connected, wk, handling, chain, tx, mem, snap, staged, past, db>>
    BY <1>2 DEF Accept, work
  <2>2. accepted + 1 \notin acks /\ 1..accepted' = (1..accepted) \cup {accepted + 1}
    BY <1>1, <2>1
  <2>3. Again' = Again \cup {accepted + 1}
    BY <2>1, <2>2 DEF Again
  <2> QED BY <1>1, <2>1, <2>2, <2>3, BesideStep DEF InHand
<1>3. CASE Connect
  <2>1. /\ wire' = owed /\ acks = {} /\ connected' = TRUE
        /\ UNCHANGED <<accepted, owed, acks, wk, handling, chain, tx, mem, snap, staged, past, db>>
    BY <1>1, <1>3 DEF Connect, work
  <2>2. Again' = owed /\ Again = owed
    BY <2>1 DEF Again
  <2> QED BY <1>1, <2>1, <2>2, BesideStep DEF InHand
<1>4. CASE Disconnect
  <2>1. /\ wire' = {} /\ acks' = {} /\ connected' = FALSE
        /\ UNCHANGED <<accepted, owed, wk, handling, chain, tx, mem, snap, staged, past, db>>
    BY <1>4 DEF Disconnect, LinkDown, work
  <2> QED BY <1>1, <2>1, BesideStep DEF InHand, Again
<1>5. CASE AckArrives
  <2>1. PICK m \in acks : acks' = acks \ {m} /\ owed' = owed \ {m}
    BY <1>5 DEF AckArrives
  <2>2. UNCHANGED <<accepted, wire, connected, wk, handling, chain, tx, mem, snap, staged, past,
                    db>>
    BY <1>5 DEF AckArrives, work
  <2>3. Again' = Again
    BY <2>1 DEF Again
  <2> QED BY <1>1, <2>1, <2>2, <2>3, BesideStep DEF InHand
<1>6. CASE Discard
  <2>1. PICK m \in Unusable : Arrives(m) /\ acks' = acks \cup {m}
    BY <1>6 DEF Discard
  <2>2. /\ m \in wire /\ wire' = wire \ {m}
        /\ UNCHANGED <<accepted, owed, connected, wk, handling, chain, tx, mem, snap, staged, past,
                       db>>
    BY <1>6, <2>1 DEF Discard, Arrives, work
  <2>3. Again \subseteq Again' \cup Unusable
    BY <2>1, <2>2 DEF Again
  <2>4. m \in 1..accepted
    BY <1>1, <2>2
  <2> QED BY <1>1, <2>1, <2>2, <2>3, <2>4, BesideStep DEF InHand
<1>7. CASE Receive
  <2>1. PICK m \in Msg \ Unusable : Arrives(m) /\ handling' = m
    BY <1>7 DEF Receive
  <2>2. /\ m \in wire /\ wire' = wire \ {m} /\ handling = None
        /\ chain' = Append(chain, "handle")
        /\ UNCHANGED <<accepted, owed, acks, connected, wk, tx, mem, snap, staged, past, db>>
    BY <1>7, <2>1 DEF Receive, Arrives, work
  <2>3. tx # "none" => chain # <<>> /\ Head(chain) # "handle" /\ Head(chain') = Head(chain)
    <3>1. tx # "none" => chain # <<>>
      BY DEF IInv, ChainInv
    <3>2. ASSUME chain # <<>> PROVE Head(chain) # "handle"
      BY <2>2, <3>2, HeadJob, ConstantsAssumption DEF None, Msg
    <3>3. ASSUME chain # <<>> PROVE Head(chain') = Head(chain)
      BY <1>1, <2>2, <3>3 DEF Job
    <3> QED BY <3>1, <3>2, <3>3
  <2>4. Again' = Again
    BY <2>2 DEF Again
  <2> QED BY <1>1, <2>1, <2>2, <2>3, <2>4, BesideStep DEF InHand
<1> QED BY <1>2, <1>3, <1>4, <1>5, <1>6, <1>7

LEMMA EnqueueBurst ==
  ASSUME IInv, BurstInv, FlushTick \/ Shutdown
  PROVE  BurstInv'
<1>1. PICK job \in {"flush", "force"} : chain' = Append(chain, job)
  BY DEF FlushTick, Shutdown
<1>2. /\ wk = "up" /\ wk' \in {"up", "closing"}
      /\ UNCHANGED <<accepted, owed, wire, acks, connected, handling, tx, mem, snap, staged,
                     past, db>>
  BY DEF FlushTick, Shutdown, broker, work
<1>3. chain \in Seq(Job) /\ job \in Job /\ (tx # "none" => chain # <<>>)
  BY DEF IInv, TypeOK, ChainInv, Job
<1>4. tx # "none" => Head(chain') = Head(chain)
  BY <1>1, <1>3
<1>5. Again' = Again /\ InHand' = InHand
  BY <1>2 DEF Again, InHand
<1>6. acks \subseteq 1..accepted /\ (~connected => acks = {})
  BY DEF BurstInv, TapeInv
<1> QED BY <1>2, <1>4, <1>5, <1>6, BesideStep

-----------------------------------------------------------------------------
(* A transaction begins.                                                   *)

LEMMA BeginBurst ==
  ASSUME IInv, BurstInv, tx = "none",
         UNCHANGED <<accepted, owed, wire, acks, connected, wk, handling, chain, past, db>>,
         NEW w, Begin(w),
         GrownInv'
  PROVE  BurstInv'
<1>1. snap' = mem /\ mem = snap /\ tx' # "none"
  BY DEF Begin, BurstInv, TapeInv
<1>2. Again' = Again /\ InHand' = InHand
  BY DEF Again, InHand
<1>3. TapeInv'
  BY <1>1 DEF BurstInv, TapeInv, Taped, MsgsOf
<1>4. HandInv'
  BY <1>1, <1>2 DEF BurstInv, HandInv, Safe, MsgsOf
<1>5. AbsorbedInv' /\ CleanInv'
  BY <1>1, <1>2 DEF BurstInv, AbsorbedInv, CleanInv, Safe, MsgsOf, TailBurst, MappedRows, Taped
<1> QED BY <1>3, <1>4, <1>5 DEF BurstInv

\* Nothing of a piece of work but the sampled and the pending rows changes when it emits.
LEMMA EmitMoves ==
  ASSUME NEW w \in Work, Fits(w.mem, w.db), w.mem.pending # {}
  PROVE  /\ Emit(w).mem.applied = w.mem.applied
         /\ Emit(w).db.sampled = w.db.sampled \cup w.mem.applied
<1> DEFINE e == EnsureMonth(w, BurstMonth(w))
<1>1. BurstMonth(w) \in Month
  BY BurstMonthType
<1>2. e \in Work
  BY <1>1, EnsureMonthType
<1>3. e.mem.applied = w.mem.applied /\ e.db.sampled = w.db.sampled
  BY DEF EnsureMonth, Work, Memory, Database
<1>4. /\ Emit(w).mem = [e.mem EXCEPT !.pending = {}]
      /\ Emit(w).db = [e.db EXCEPT !.sampled = @ \cup w.mem.applied]
  BY DEF Emit
<1> HIDE DEF e
<1> QED BY <1>2, <1>3, <1>4 DEF Work, Memory, Database

LEMMA HandleWorkMoves ==
  ASSUME mem \in Memory, db \in Database, Fits(mem, db),
         NEW row \in TapeRow, NEW due \in BOOLEAN, due => mem.pending # {}
  PROVE  LET w == HandleWork(row, due)
             n == Len(w.db.tape)
             new == IF row.msg \in Unmapped THEN {} ELSE {n}
         IN  /\ w.db.tape = Append(db.tape, row)
             /\ w.mem.applied = mem.applied \cup new
             /\ db.sampled \subseteq w.db.sampled
             /\ db.sampled \cup mem.pending \cup new \subseteq w.db.sampled \cup w.mem.pending
             /\ w.db.sampled \cup w.mem.pending \subseteq db.sampled \cup mem.applied \cup new
             /\ new \subseteq w.mem.pending
<1> DEFINE s == Start(db)
           e == EnsureMonth(s, row.month)
           raw == InsertRaw(e, row)
           v == IF due THEN Emit(raw) ELSE raw
           w == HandleWork(row, due)
           n == Len(w.db.tape)
           new == IF row.msg \in Unmapped THEN {} ELSE {n}
<1>1. s \in Work /\ s.db = db /\ s.mem = mem
  BY DEF Start, Work
<1>2. row.month \in Month
  BY DEF TapeRow
<1>3. e \in Work /\ e.db.tape = db.tape /\ e.mem.pending = mem.pending
      /\ e.mem.applied = mem.applied /\ e.db.sampled = db.sampled
  <2>1. e \in Work /\ e.db.tape = db.tape /\ e.mem.pending = mem.pending
    BY <1>1, <1>2, EnsureMonthType
  <2>2. e.mem.applied = mem.applied /\ e.db.sampled = db.sampled
    BY <1>1 DEF EnsureMonth, Memory, Database
  <2> QED BY <2>1, <2>2
<1>4. raw \in Work /\ raw.db.tape = Append(db.tape, row) /\ raw.mem.pending = mem.pending
      /\ raw.mem.applied = mem.applied /\ raw.db.sampled = db.sampled
  <2>1. raw \in Work /\ raw.db.tape = Append(db.tape, row) /\ raw.mem.pending = mem.pending
    BY <1>3, InsertRawType
  <2> HIDE DEF e
  <2>2. raw.mem.applied = mem.applied /\ raw.db.sampled = db.sampled
    BY <1>3 DEF InsertRaw, Work, Database
  <2> QED BY <2>1, <2>2
<1>5. db.tape \in Seq(TapeRow)
  BY DEF Database
<1>6. Len(Append(db.tape, row)) = Len(db.tape) + 1 /\ Append(db.tape, row) # <<>>
      /\ Append(db.tape, row)[Len(db.tape) + 1] = row
  BY <1>5
<1>7. Fits(raw.mem, raw.db)
  BY <1>4, <1>5, <1>6 DEF Fits
<1> HIDE DEF raw
<1>8. /\ v \in Work /\ v.db.tape = Append(db.tape, row)
      /\ v.mem.applied = mem.applied /\ db.sampled \subseteq v.db.sampled
      /\ db.sampled \cup mem.pending \subseteq v.db.sampled \cup v.mem.pending
      /\ v.db.sampled \cup v.mem.pending \subseteq db.sampled \cup mem.applied
  <2>1. CASE due
    BY <1>4, <1>7, <2>1, EmitType, EmitMoves DEF Fits
  <2>2. CASE ~due
    BY <1>4, <1>7, <2>2 DEF Fits
  <2> QED BY <2>1, <2>2
<1>9. w = Apply(v)
  BY DEF HandleWork, raw
<1> HIDE DEF v, w
<1>10. w.db = v.db /\ n = Len(db.tape) + 1 /\ v.db.tape[Len(v.db.tape)].msg = row.msg
  BY <1>6, <1>8, <1>9 DEF Apply
<1>11. w.mem.applied = v.mem.applied \cup new /\ w.mem.pending = v.mem.pending \cup new
  BY <1>8, <1>9, <1>10 DEF Apply, Work, Memory
<1> QED BY <1>8, <1>10, <1>11 DEF w

LEMMA BeginHandleBurst ==
  ASSUME IInv, BurstInv, BeginHandle
  PROVE  BurstInv'
<1>1. PICK mo \in LastMonth(db)..MaxMonth, gap \in BOOLEAN, due \in BOOLEAN :
        /\ Overdue(gap, due)
        /\ Begin(HandleWork([msg |-> handling, gap |-> gap, month |-> mo], due))
  BY DEF BeginHandle
<1> DEFINE row == [msg |-> handling, gap |-> gap, month |-> mo]
           w == HandleWork(row, due)
<1>2. /\ chain # <<>> /\ Head(chain) = "handle" /\ tx = "none"
      /\ UNCHANGED <<accepted, owed, wire, acks, connected, wk, handling, chain, past, db>>
  BY DEF BeginHandle, broker
<1>3. mem \in Memory /\ db \in Database /\ Fits(mem, db) /\ db.tape \in Seq(TapeRow)
  BY <1>2 DEF IInv, TypeOK, PendingInv, Database
<1>4. row \in TapeRow /\ row.msg = handling
  <2>1. mo \in Month
    BY <1>3, LastMonthType, ConstantsAssumption DEF Month
  <2>2. handling \in Msg
    BY <1>2, HeadJob
  <2> QED BY <2>1, <2>2 DEF TapeRow
<1>5. due => mem.pending # {}
  BY <1>1 DEF Overdue
<1> DEFINE n == Len(w.db.tape)
           new == IF handling \in Unmapped THEN {} ELSE {n}
<1>6. /\ w.db.tape = Append(db.tape, row)
      /\ w.mem.applied = mem.applied \cup new
      /\ db.sampled \subseteq w.db.sampled
      /\ db.sampled \cup mem.pending \cup new \subseteq w.db.sampled \cup w.mem.pending
      /\ w.db.sampled \cup w.mem.pending \subseteq db.sampled \cup mem.applied \cup new
      /\ new \subseteq w.mem.pending
  BY <1>3, <1>4, <1>5, HandleWorkMoves
<1>7. Begin(w)
  BY <1>1
<1> HIDE DEF w, row
<1>8. /\ Continues(db, w.db) /\ n \in DOMAIN w.db.tape /\ w.db.tape[n].msg = handling
      /\ TailBurst(w.db) \subseteq TailBurst(db) \cup {n}
  BY <1>3, <1>4, <1>6, TapeAppended
<1>9. snap' = mem /\ mem' = w.mem /\ staged' = w.db
  BY <1>7 DEF Begin
<1>10. db.sampled \cup mem.applied \subseteq DOMAIN db.tape
  BY <1>3 DEF BurstInv, TapeInv, Fits
<1>11. w.db.sampled \cup w.mem.pending \subseteq DOMAIN w.db.tape
  BY <1>6, <1>8, <1>10 DEF Continues
<1>12. GrownInv'
  <2>1. /\ Continues(db', staged') /\ TailBurst(staged') \subseteq TailBurst(db') \cup {n}
    BY <1>2, <1>8, <1>9
  <2>2. Head(chain') = "handle" /\ handling' = handling
    BY <1>2
  <2> QED BY <1>2, <1>6, <1>8, <1>9, <1>11, <2>1, <2>2
          DEF GrownInv, Continues, TailBurst, MappedRows
<1> QED BY <1>2, <1>7, <1>12, BeginBurst

LEMMA BeginFlushBurst ==
  ASSUME IInv, BurstInv, BeginFlush
  PROVE  BurstInv'
<1>1. /\ chain # <<>> /\ Head(chain) # "handle" /\ tx = "none"
      /\ mem.pending # {} /\ Begin(FlushWork)
      /\ UNCHANGED <<accepted, owed, wire, acks, connected, wk, handling, chain, past, db>>
  BY DEF BeginFlush, broker
<1>2. mem \in Memory /\ db \in Database /\ Fits(mem, db) /\ DOMAIN db.tape = 1..Len(db.tape)
  BY <1>1 DEF IInv, TypeOK, PendingInv, Database
<1>3. Start(db) \in Work /\ Start(db).db = db /\ Start(db).mem = mem
  BY <1>2 DEF Start, Work
<1>4. /\ FlushWork.db.tape = db.tape /\ FlushWork.mem.pending = {}
      /\ FlushWork.mem.applied = mem.applied
      /\ FlushWork.db.sampled = db.sampled \cup mem.applied
  BY <1>1, <1>2, <1>3, EmitType, EmitMoves DEF FlushWork
<1>5. snap' = mem /\ mem' = FlushWork.mem /\ staged' = FlushWork.db
  BY <1>1 DEF Begin
<1>6. db.sampled \cup mem.applied \subseteq DOMAIN db.tape /\ mem.pending \subseteq mem.applied
  BY <1>2 DEF BurstInv, TapeInv, Fits
<1>7. GrownInv'
  BY <1>1, <1>4, <1>5, <1>6 DEF GrownInv, Continues
<1> QED BY <1>1, <1>7, BeginBurst

-----------------------------------------------------------------------------
(* A job ends.                                                             *)

\* What a database d and the memory m that stays with it must be to each other, once what
\* happened is p.
Settles(m, d, p) ==
  /\ Taped(d) \subseteq (1..accepted) \ Unusable
  /\ d.sampled \subseteq DOMAIN d.tape
  /\ InHand \subseteq Again \cup Safe(d.sampled \cup m.pending, d)
  /\ p # "cold" =>
       /\ m.applied \subseteq MappedRows(d)
       /\ 1..accepted \subseteq Again \cup Safe(m.applied, d)
       /\ MsgsOf(TailBurst(d), d) \subseteq Again \cup Safe(d.sampled \cup m.pending, d)
  /\ p = "clean" =>
       /\ MsgsOf(m.applied, d) \subseteq Again \cup Safe(d.sampled \cup m.pending, d)
       /\ wk = "ended" => Taped(d) \subseteq Again \cup Safe(d.sampled, d)
       /\ Head(chain) = "force" => m.pending = {}

\* A handler that succeeded has its message in the memory.
Handled(m, d) ==
  handling \in Safe(m.applied, d) /\ handling \in Safe(d.sampled \cup m.pending, d)

LEMMA DoneBurst ==
  ASSUME IInv, BurstInv, chain # <<>>, NEW ok \in BOOLEAN, JobDone(ok),
         tx' = "none", staged' = db', mem' = snap', Settles(snap', db', past'),
         Head(chain) = "handle" /\ ok => Handled(snap', db')
  PROVE  BurstInv'
<1>1. accepted' = accepted /\ owed' = owed
  BY DEF JobDone
<1>2. /\ acks \subseteq 1..accepted /\ (~connected => acks = {})
      /\ connected => wk \in {"up", "closing"}
      /\ wk # "down" /\ accepted \in Nat
  BY DEF IInv, LinkInv, TypeOK, BurstInv, TapeInv
<1>3. /\ wk' \in {wk, "ended"} /\ wk' # "down"
      /\ acks' \subseteq 1..accepted /\ (~connected' => acks' = {})
      /\ Again \subseteq Again' \cup (IF Head(chain) = "handle" /\ ok THEN {handling} ELSE {})
      /\ wk' = "ended" => Again \subseteq Again'
      /\ wk' = "ended" => wk = "ended" \/ Head(chain) = "force"
      /\ InHand' \subseteq InHand
  <2>1. CASE Head(chain) = "handle" /\ Answered(ok)
    <3>1. handling \in 1..accepted
      BY <2>1, HeadJob DEF IInv, TypeOK, Msg, None
    <3> QED BY <1>1, <1>2, <2>1, <3>1 DEF Answered, Again, InHand
  <2>2. CASE Head(chain) = "flush" /\ UNCHANGED <<wk, handling, wire, acks, connected>>
    BY <1>1, <1>2, <2>2 DEF Again, InHand
  <2>3. CASE Head(chain) = "force" /\ wk' = "ended" /\ LinkDown /\ UNCHANGED handling
    BY <1>1, <1>2, <2>3 DEF LinkDown, Again, InHand
  <2> QED BY <2>1, <2>2, <2>3 DEF JobDone
<1>4. /\ Again \cup Safe(snap'.applied, db') \subseteq Again' \cup Safe(snap'.applied, db')
      /\ Again \cup Safe(db'.sampled \cup snap'.pending, db')
           \subseteq Again' \cup Safe(db'.sampled \cup snap'.pending, db')
  BY <1>3 DEF Handled
<1>5. TapeInv'
  <2>1. (Taped(db))' = Taped(db')
    BY DEF Taped, MsgsOf
  <2> QED BY <1>1, <1>3, <2>1 DEF Settles, TapeInv
<1>6. GrownInv'
  BY DEF GrownInv
<1>7. \A rows : (Safe(rows, db))' = Safe(rows', db')
  BY DEF Safe, MsgsOf
<1>8. HandInv'
  <2>1. (Safe(db.sampled \cup snap.pending, db))' = Safe(db'.sampled \cup snap'.pending, db')
    BY DEF Safe, MsgsOf
  <2> QED BY <1>3, <1>4, <2>1 DEF Settles, HandInv
<1>9. AbsorbedInv'
  <2>1. /\ (Safe(db.sampled \cup snap.pending, db))' = Safe(db'.sampled \cup snap'.pending, db')
        /\ (Safe(snap.applied, db))' = Safe(snap'.applied, db')
        /\ (MsgsOf(TailBurst(db), db))' = MsgsOf(TailBurst(db'), db')
        /\ (MappedRows(db))' = MappedRows(db')
    BY DEF Safe, MsgsOf, TailBurst, MappedRows
  <2> QED BY <1>1, <1>4, <2>1 DEF Settles, AbsorbedInv
<1>10. CleanInv'
  <2>1. /\ (Safe(db.sampled \cup snap.pending, db))' = Safe(db'.sampled \cup snap'.pending, db')
        /\ (Safe(db.sampled, db))' = Safe(db'.sampled, db')
        /\ (MsgsOf(snap.applied, db))' = MsgsOf(snap'.applied, db')
        /\ (Taped(db))' = Taped(db')
    BY DEF Safe, MsgsOf, Taped
  <2>2. ASSUME past' = "clean", wk' = "ended"
        PROVE  Taped(db') \subseteq Again' \cup Safe(db'.sampled, db')
    <3>1. CASE wk = "ended"
      BY <1>3, <2>2, <3>1 DEF Settles
    <3>2. CASE Head(chain) = "force"
      <4>1. snap'.pending = {} /\ db'.sampled \cup {} = db'.sampled
        BY <2>2, <3>2 DEF Settles
      <4>2. Taped(db') \subseteq 1..accepted
        BY DEF Settles
      <4>3. 1..accepted \subseteq Again \cup Safe(snap'.applied, db')
        BY <2>2 DEF Settles
      <4>4. Safe(snap'.applied, db') \subseteq Again \cup Safe(db'.sampled, db')
        BY <2>2, <4>1 DEF Settles, Safe
      <4> QED BY <1>3, <2>2, <4>2, <4>3, <4>4
    <3> QED BY <1>3, <2>2, <3>1, <3>2
  <2> QED BY <1>3, <1>4, <2>1, <2>2 DEF Settles, CleanInv
<1> QED BY <1>5, <1>6, <1>8, <1>9, <1>10 DEF BurstInv

\* The message being handled, when its job is at the head.
LEMMA HandlingIs ==
  ASSUME IInv, chain # <<>>, Head(chain) = "handle"
  PROVE  handling \in (1..accepted) \ Unusable /\ handling \in InHand /\ handling # None
<1>1. handling \in Msg \ Unusable
  BY HeadJob
<1>2. handling # None
  BY <1>1, ConstantsAssumption DEF Msg, None
<1> QED BY <1>1, <1>2 DEF IInv, TypeOK, InHand

LEMMA SkipBurst ==
  ASSUME IInv, BurstInv, SkipFlush
  PROVE  BurstInv'
<1>1. /\ chain # <<>> /\ Head(chain) # "handle" /\ tx = "none" /\ JobDone(TRUE)
      /\ Head(chain) = "force" => mem.pending = {}
      /\ UNCHANGED <<tx, mem, snap, staged, past, db>>
  BY DEF SkipFlush, work
<1>2. snap = mem /\ staged = db /\ wk # "down"
  BY <1>1 DEF BurstInv, TapeInv, IInv, LinkInv
<1>3. Settles(snap, db, past)
  BY <1>1, <1>2
  DEF Settles, BurstInv, TapeInv, HandInv, AbsorbedInv, CleanInv
<1> QED BY <1>1, <1>2, <1>3, DoneBurst

LEMMA CommitBurst ==
  ASSUME IInv, BurstInv, Commit
  PROVE  BurstInv'
<1>1. /\ tx # "none" /\ JobDone(TRUE) /\ past' = past
      /\ db' = staged /\ staged' = staged /\ mem' = mem /\ snap' = mem /\ tx' = "none"
  BY DEF Commit, Finish
<1>2. chain # <<>> /\ wk # "down"
  BY <1>1 DEF IInv, ChainInv, LinkInv
<1>3. /\ Continues(db, staged)
      /\ staged.sampled \cup mem.pending \subseteq DOMAIN staged.tape
      /\ db.sampled \subseteq staged.sampled
      /\ db.sampled \cup snap.pending \subseteq staged.sampled \cup mem.pending
  BY <1>1 DEF BurstInv, GrownInv
<1>4. db.sampled \subseteq DOMAIN db.tape /\ db.sampled \cup snap.pending \subseteq DOMAIN db.tape
  <2>1. db \in Database /\ Fits(snap, db)
    BY DEF IInv, TypeOK, PendingInv
  <2>2. DOMAIN db.tape = 1..Len(db.tape)
    BY <2>1 DEF Database
  <2> QED BY <2>1, <2>2 DEF BurstInv, TapeInv, Fits
<1>5. /\ Safe(db.sampled, db) \subseteq Safe(staged.sampled, staged)
      /\ Safe(db.sampled \cup snap.pending, db)
           \subseteq Safe(staged.sampled \cup mem.pending, staged)
  BY <1>3, <1>4, SafeGrows
<1>6. MappedRows(db) \subseteq MappedRows(staged) /\ MappedRows(db) \subseteq DOMAIN db.tape
  BY <1>3, MappedGrows DEF MappedRows
<1>7. /\ Taped(db) \subseteq (1..accepted) \ Unusable
      /\ InHand \subseteq Again \cup Safe(db.sampled \cup snap.pending, db)
  BY DEF BurstInv, TapeInv, HandInv
<1>8. past # "cold" =>
        /\ snap.applied \subseteq MappedRows(db)
        /\ 1..accepted \subseteq Again \cup Safe(snap.applied, db)
        /\ MsgsOf(TailBurst(db), db) \subseteq Again \cup Safe(db.sampled \cup snap.pending, db)
  BY <1>2 DEF BurstInv, AbsorbedInv
<1>9. past = "clean" =>
        /\ MsgsOf(snap.applied, db) \subseteq Again \cup Safe(db.sampled \cup snap.pending, db)
        /\ wk = "ended" => Taped(db) \subseteq Again \cup Safe(db.sampled, db)
  BY <1>2 DEF BurstInv, CleanInv
<1>10. CASE Head(chain) = "handle"
  <2> DEFINE n == Len(staged.tape)
  <2>1. /\ n \in DOMAIN staged.tape /\ staged.tape[n].msg = handling
        /\ handling \notin Unmapped => n \in mem.pending /\ mem.applied = snap.applied \cup {n}
        /\ handling \in Unmapped => mem.applied = snap.applied
        /\ TailBurst(staged) \subseteq TailBurst(db) \cup {n}
    BY <1>1, <1>10 DEF BurstInv, GrownInv
  <2>2. Taped(staged) = Taped(db) \cup {handling}
    BY <1>1, <1>10 DEF IInv, StagedInv
  <2>3. handling \in (1..accepted) \ Unusable
    BY <1>2, <1>10, HandlingIs
  <2> HIDE DEF n
  <2>4. handling \in Safe(staged.sampled \cup mem.pending, staged)
    BY <2>1 DEF Safe, MsgsOf
  <2>5. handling \in Safe(mem.applied, staged)
    BY <2>1 DEF Safe, MsgsOf
  <2>6. ASSUME past # "cold"
        PROVE  /\ mem.applied \subseteq MappedRows(staged)
               /\ Safe(snap.applied, db) \subseteq Safe(mem.applied, staged)
               /\ MsgsOf(TailBurst(staged), staged) \subseteq MsgsOf(TailBurst(db), db) \cup {handling}
    <3>1. snap.applied \subseteq MappedRows(db) /\ snap.applied \subseteq mem.applied
      BY <1>8, <2>1, <2>6
    <3>2. handling \notin Unmapped => n \in MappedRows(staged)
      BY <2>1 DEF MappedRows
    <3>3. TailBurst(db) \subseteq DOMAIN db.tape
      BY DEF TailBurst, MappedRows
    <3>4. MsgsOf(TailBurst(staged), staged) \subseteq MsgsOf(TailBurst(db), db) \cup {handling}
      BY <1>3, <2>1, <3>3 DEF MsgsOf, Continues
    <3> QED BY <1>3, <1>6, <2>1, <3>1, <3>2, <3>4, SafeGrows
  <2>7. ASSUME past = "clean"
        PROVE  MsgsOf(mem.applied, staged) \subseteq MsgsOf(snap.applied, db) \cup {handling}
    <3>1. snap.applied \subseteq DOMAIN db.tape
      BY <1>6, <1>8, <2>7
    <3> QED BY <1>3, <2>1, <3>1 DEF MsgsOf, Continues
  <2>8. ASSUME past = "clean", wk = "ended"
        PROVE  Taped(staged) \subseteq Again \cup Safe(staged.sampled, staged)
    <3>1. acks = {} /\ Again = owed
      BY <2>8 DEF IInv, LinkInv, BurstInv, TapeInv, Again
    <3>2. handling \in owed \cup Unusable \cup Taped(db)
      BY <2>3 DEF IInv, AckedIsTaped
    <3> QED BY <1>5, <1>9, <2>2, <2>8, <3>1, <3>2 DEF Safe
  <2>9. Settles(mem, staged, past)
    <3>1. Taped(staged) \subseteq (1..accepted) \ Unusable
      BY <1>7, <2>2, <2>3
    <3>2. past # "cold" =>
            /\ mem.applied \subseteq MappedRows(staged)
            /\ 1..accepted \subseteq Again \cup Safe(mem.applied, staged)
            /\ MsgsOf(TailBurst(staged), staged)
                 \subseteq Again \cup Safe(staged.sampled \cup mem.pending, staged)
      BY <1>5, <1>8, <2>4, <2>6
    <3>3. past = "clean" => MsgsOf(mem.applied, staged)
                              \subseteq Again \cup Safe(staged.sampled \cup mem.pending, staged)
      BY <1>5, <1>9, <2>4, <2>7
    <3> QED BY <1>3, <1>5, <1>7, <1>10, <2>8, <3>1, <3>2, <3>3 DEF Settles
  <2> QED BY <1>1, <1>2, <2>4, <2>5, <2>9, DoneBurst DEF Handled
<1>11. CASE Head(chain) # "handle"
  <2>1. staged.tape = db.tape /\ mem.applied = snap.applied /\ mem.pending = {}
    BY <1>1, <1>11 DEF BurstInv, GrownInv
  <2>2. /\ MappedRows(db) = MappedRows(staged) /\ TailBurst(db) = TailBurst(staged)
        /\ \A rows : MsgsOf(rows, db) = MsgsOf(rows, staged)
    BY <2>1, SameTape
  <2>3. Taped(staged) = Taped(db) /\ Safe(mem.applied, staged) = Safe(snap.applied, db)
    BY <2>1, <2>2 DEF Taped, Safe
  <2>4. Settles(mem, staged, past)
    BY <1>3, <1>5, <1>7, <1>8, <1>9, <2>1, <2>2, <2>3 DEF Settles
  <2> QED BY <1>1, <1>2, <1>11, <2>4, DoneBurst
<1> QED BY <1>10, <1>11

LEMMA RollbackBurst ==
  ASSUME IInv, BurstInv, Rollback
  PROVE  BurstInv'
<1>1. /\ tx # "none" /\ JobDone(FALSE)
      /\ past' = past \/ past' = IF past = "clean" THEN "cut" ELSE past
      /\ Head(chain) = "force" => past' # "clean"
      /\ db' = db /\ staged' = db /\ mem' = snap /\ snap' = snap /\ tx' = "none"
  BY DEF Rollback, Finish, Restored, Cut
<1>2. chain # <<>> /\ wk # "down"
  BY <1>1 DEF IInv, ChainInv, LinkInv
<1>3. Settles(snap, db, past')
  BY <1>1, <1>2
  DEF Settles, BurstInv, TapeInv, HandInv, AbsorbedInv, CleanInv
<1> QED BY <1>1, <1>2, <1>3, DoneBurst

\* The memory does not know of the commit: the row is on the tape, and its message will be
\* sent again.
LEMMA CommitUnansweredBurst ==
  ASSUME IInv, BurstInv, CommitUnanswered
  PROVE  BurstInv'
<1>1. /\ tx # "none" /\ JobDone(FALSE)
      /\ past' = IF past = "clean" THEN "cut" ELSE past
      /\ db' = staged /\ staged' = staged /\ mem' = snap /\ snap' = snap /\ tx' = "none"
  BY DEF CommitUnanswered, Finish, Restored, Cut
<1>2. chain # <<>> /\ wk # "down"
  BY <1>1 DEF IInv, ChainInv, LinkInv
<1>3. /\ Continues(db, staged)
      /\ staged.sampled \cup mem.pending \subseteq DOMAIN staged.tape
      /\ db.sampled \subseteq staged.sampled
  BY <1>1 DEF BurstInv, GrownInv
<1>4. db.sampled \cup snap.pending \subseteq DOMAIN db.tape
  <2>1. db \in Database /\ Fits(snap, db)
    BY DEF IInv, TypeOK, PendingInv
  <2>2. DOMAIN db.tape = 1..Len(db.tape)
    BY <2>1 DEF Database
  <2> QED BY <2>1, <2>2 DEF BurstInv, TapeInv, Fits
<1>5. Safe(db.sampled \cup snap.pending, db)
        \subseteq Safe(staged.sampled \cup snap.pending, staged)
  BY <1>3, <1>4, SafeGrows
<1>6. MappedRows(db) \subseteq MappedRows(staged) /\ MappedRows(db) \subseteq DOMAIN db.tape
  BY <1>3, MappedGrows DEF MappedRows
<1>7. /\ Taped(db) \subseteq (1..accepted) \ Unusable
      /\ InHand \subseteq Again \cup Safe(db.sampled \cup snap.pending, db)
  BY DEF BurstInv, TapeInv, HandInv
<1>8. past # "cold" =>
        /\ snap.applied \subseteq MappedRows(db)
        /\ 1..accepted \subseteq Again \cup Safe(snap.applied, db)
        /\ MsgsOf(TailBurst(db), db) \subseteq Again \cup Safe(db.sampled \cup snap.pending, db)
  BY <1>2 DEF BurstInv, AbsorbedInv
<1>9. /\ Taped(staged) \subseteq (1..accepted) \ Unusable
      /\ MsgsOf(TailBurst(staged), staged) \subseteq MsgsOf(TailBurst(db), db) \cup InHand
  <2>1. CASE Head(chain) = "handle"
    <3> DEFINE n == Len(staged.tape)
    <3>1. /\ n \in DOMAIN staged.tape /\ staged.tape[n].msg = handling
          /\ TailBurst(staged) \subseteq TailBurst(db) \cup {n}
      BY <1>1, <2>1 DEF BurstInv, GrownInv
    <3>2. Taped(staged) = Taped(db) \cup {handling}
      BY <1>1, <2>1 DEF IInv, StagedInv
    <3>3. handling \in (1..accepted) \ Unusable /\ handling \in InHand
      BY <1>2, <2>1, HandlingIs
    <3> HIDE DEF n
    <3>4. TailBurst(db) \subseteq DOMAIN db.tape
      BY DEF TailBurst, MappedRows
    <3>5. MsgsOf(TailBurst(staged), staged) \subseteq MsgsOf(TailBurst(db), db) \cup {handling}
      BY <1>3, <3>1, <3>4 DEF MsgsOf, Continues
    <3> QED BY <1>7, <3>2, <3>3, <3>5
  <2>2. CASE Head(chain) # "handle"
    <3>1. staged.tape = db.tape
      BY <1>1, <2>2 DEF BurstInv, GrownInv
    <3>2. TailBurst(db) = TailBurst(staged) /\ \A rows : MsgsOf(rows, db) = MsgsOf(rows, staged)
      BY <3>1, SameTape
    <3>3. Taped(staged) = Taped(db)
      BY <3>1, TapedSame
    <3> QED BY <1>7, <3>2, <3>3
  <2> QED BY <2>1, <2>2
<1>10. past # "cold" => Safe(snap.applied, db) \subseteq Safe(snap.applied, staged)
  BY <1>3, <1>6, <1>8, SafeGrows
<1>11. Settles(snap, staged, past')
  BY <1>1, <1>3, <1>5, <1>6, <1>7, <1>8, <1>9, <1>10 DEF Settles
<1> QED BY <1>1, <1>2, <1>11, DoneBurst

-----------------------------------------------------------------------------
(* A worker comes and goes.                                                *)

\* A worker that is down is not connected, has nothing in hand, and all that was accepted is
\* still owed or on the tape.
LEMMA WhileDown ==
  ASSUME IInv, BurstInv, wk = "down"
  PROVE  /\ acks = {} /\ Again = owed /\ InHand = {} /\ tx = "none" /\ chain = <<>>
         /\ 1..accepted \subseteq Again \cup Unusable \cup Taped(db)
         /\ db \in Database
<1>1. ~connected /\ wire = {} /\ tx = "none" /\ chain = <<>> /\ db \in Database
  BY DEF IInv, LinkInv, TypeOK
<1>2. acks = {} /\ handling = None
  BY <1>1 DEF BurstInv, TapeInv
<1> QED BY <1>1, <1>2 DEF IInv, AckedIsTaped, Again, InHand

\* A resume absorbs every row of the tape and samples or keeps what is left pending.
LEMMA ResumeAbsorbs ==
  ASSUME db \in Database
  PROVE  /\ ResumeWork.mem.applied = MappedRows(db) /\ ResumeWork.db.tape = db.tape
         /\ db.sampled \subseteq ResumeWork.db.sampled
         /\ db.sampled \cup TailBurst(db) \subseteq ResumeWork.db.sampled \cup ResumeWork.mem.pending
         /\ ResumeWork.db.sampled \subseteq db.sampled \cup MappedRows(db)
<1> DEFINE w == [mem |-> Replayed(db), db |-> db, ok |-> TRUE]
<1>1. w \in Work /\ w.db = db /\ Fits(w.mem, w.db)
      /\ w.mem.applied = MappedRows(db) /\ w.mem.pending = TailBurst(db)
  BY ReplayedType DEF Replayed
<1>2. ResumeWork = IF w.mem.pending = {} THEN w ELSE Emit(w)
  BY DEF ResumeWork
<1> HIDE DEF w
<1>3. CASE w.mem.pending = {}
  BY <1>1, <1>2, <1>3
<1>4. CASE w.mem.pending # {}
  BY <1>1, <1>2, <1>4, EmitType, EmitMoves DEF Fits
<1> QED BY <1>3, <1>4

\* Every message on the tape means nothing, or is that of a row a replay absorbs.
LEMMA TapedIsMapped == ASSUME NEW d PROVE Taped(d) \subseteq Unmapped \cup MsgsOf(MappedRows(d), d)
BY DEF Taped, MappedRows, MsgsOf

LEMMA ResumeBurst ==
  ASSUME IInv, BurstInv, ResumeWarm
  PROVE  BurstInv'
<1> DEFINE m == ResumeWork.mem
           d == ResumeWork.db
<1>1. /\ wk = "down" /\ wk' = "up" /\ mem' = m /\ snap' = m /\ db' = d /\ staged' = d
      /\ UNCHANGED <<accepted, owed, wire, acks, connected, handling, chain, tx, past>>
  BY DEF ResumeWarm, ComeUp, broker
<1>2. /\ Again = owed /\ InHand = {} /\ tx = "none"
      /\ 1..accepted \subseteq Again \cup Unusable \cup Taped(db)
      /\ db \in Database
  BY <1>1, WhileDown
<1>3. /\ m.applied = MappedRows(db) /\ d.tape = db.tape
      /\ db.sampled \subseteq d.sampled
      /\ db.sampled \cup TailBurst(db) \subseteq d.sampled \cup m.pending
      /\ d.sampled \subseteq db.sampled \cup MappedRows(db)
  BY <1>2, ResumeAbsorbs
<1> HIDE DEF m, d
<1>4. /\ MappedRows(d) = MappedRows(db) /\ TailBurst(d) = TailBurst(db)
      /\ \A rows : MsgsOf(rows, d) = MsgsOf(rows, db)
      /\ Taped(d) = Taped(db) /\ DOMAIN d.tape = DOMAIN db.tape
  BY <1>3, SameTape, TapedSame
<1>5. TailBurst(db) \cup MappedRows(db) \subseteq DOMAIN db.tape
  BY DEF TailBurst, MappedRows
<1>6. /\ Taped(db) \subseteq (1..accepted) \ Unusable /\ db.sampled \subseteq DOMAIN db.tape
      /\ acks \subseteq 1..accepted /\ (~connected => acks = {})
  BY DEF BurstInv, TapeInv
<1>7. Again' = Again /\ InHand' = InHand
  BY <1>1 DEF Again, InHand
<1>8. TapeInv'
  <2>1. d.sampled \subseteq DOMAIN d.tape
    BY <1>3, <1>4, <1>5, <1>6
  <2>2. (Taped(db))' = Taped(db)
    BY <1>1, <1>3, TapedSame DEF Taped, MsgsOf
  <2> QED BY <1>1, <1>2, <1>6, <2>1, <2>2 DEF TapeInv
<1>9. GrownInv'
  BY <1>1, <1>2 DEF GrownInv
<1>10. HandInv'
  BY <1>2, <1>7 DEF HandInv
<1>11. 1..accepted \subseteq Again \cup Safe(m.applied, d)
  <2>1. Taped(db) \subseteq Safe(m.applied, d)
    BY <1>3, <1>4, TapedIsMapped DEF Safe
  <2> QED BY <1>2, <2>1 DEF Safe
<1>12. MsgsOf(TailBurst(d), d) \subseteq Safe(d.sampled \cup m.pending, d)
  BY <1>3, <1>4 DEF Safe, MsgsOf
<1>13. AbsorbedInv'
  <2>1. /\ (Safe(snap.applied, db))' = Safe(m.applied, d)
        /\ (Safe(db.sampled \cup snap.pending, db))' = Safe(d.sampled \cup m.pending, d)
        /\ (MsgsOf(TailBurst(db), db))' = MsgsOf(TailBurst(d), d)
        /\ (MappedRows(db))' = MappedRows(d) /\ snap'.applied = m.applied
    BY <1>1 DEF Safe, MsgsOf, TailBurst, MappedRows
  <2> QED BY <1>1, <1>3, <1>4, <1>7, <1>11, <1>12, <2>1 DEF AbsorbedInv
<1>14. CleanInv'
  <2>1. /\ (MsgsOf(snap.applied, db))' = MsgsOf(m.applied, d)
        /\ (Safe(db.sampled \cup snap.pending, db))' = Safe(d.sampled \cup m.pending, d)
    BY <1>1 DEF Safe, MsgsOf
  <2>2. MsgsOf(m.applied, d) \subseteq Taped(db)
    BY <1>3, <1>4 DEF Taped, MsgsOf, MappedRows
  <2>3. Safe(db.sampled, db) \subseteq Safe(d.sampled \cup m.pending, d)
    BY <1>3, <1>4 DEF Safe, MsgsOf
  <2>4. past = "clean" => Taped(db) \subseteq Again \cup Safe(db.sampled, db)
    BY <1>1 DEF BurstInv, CleanInv
  <2> QED BY <1>1, <1>7, <2>1, <2>2, <2>3, <2>4 DEF CleanInv
<1> QED BY <1>8, <1>9, <1>10, <1>13, <1>14 DEF BurstInv

LEMMA ColdBurst ==
  ASSUME IInv, BurstInv, StartCold
  PROVE  BurstInv'
<1>1. PICK d \in {db, ResumeWork.db} : ComeUp(EmptyMemory, d)
  BY DEF StartCold
<1>2. /\ wk = "down" /\ wk' = "up" /\ mem' = EmptyMemory /\ snap' = EmptyMemory
      /\ db' = d /\ staged' = d /\ past' = "cold"
      /\ UNCHANGED <<accepted, owed, wire, acks, connected, handling, chain, tx>>
  BY <1>1 DEF StartCold, ComeUp, broker
<1>3. InHand = {} /\ tx = "none" /\ db \in Database
  BY <1>2, WhileDown
<1>4. d.tape = db.tape /\ d.sampled \subseteq db.sampled \cup MappedRows(db)
  BY <1>3, ResumeAbsorbs
<1>5. TailBurst(db) \cup MappedRows(db) \subseteq DOMAIN db.tape
  BY DEF TailBurst, MappedRows
<1>6. TapeInv'
  <2>1. (Taped(db))' = Taped(db)
    BY <1>2, <1>4 DEF Taped, MsgsOf
  <2> QED BY <1>2, <1>3, <1>4, <1>5, <2>1 DEF BurstInv, TapeInv
<1>7. HandInv'
  BY <1>2, <1>3 DEF HandInv, InHand
<1>8. GrownInv' /\ AbsorbedInv' /\ CleanInv'
  BY <1>2, <1>3 DEF GrownInv, AbsorbedInv, CleanInv
<1> QED BY <1>6, <1>7, <1>8 DEF BurstInv

LEMMA GoneBurst ==
  ASSUME IInv, BurstInv, Exit \/ Crash
  PROVE  BurstInv'
<1>1. PICK d : /\ Gone(d)
               /\ d = db \/ (d = staged /\ tx # "none")
               /\ past' = "clean" => wk = "ended" /\ past = "clean" /\ d = db
  BY DEF Exit, Crash, Cut
<1>2. /\ wk' = "down" /\ wire' = {} /\ acks' = {} /\ connected' = FALSE
      /\ handling' = None /\ tx' = "none" /\ mem' = EmptyMemory /\ snap' = EmptyMemory
      /\ db' = d /\ staged' = d /\ accepted' = accepted /\ owed' = owed
  BY <1>1 DEF Gone, LinkDown
<1>3. Taped(d) \subseteq (1..accepted) \ Unusable /\ d.sampled \subseteq DOMAIN d.tape
  <2>1. CASE d = db
    BY <2>1 DEF BurstInv, TapeInv
  <2>2. CASE d = staged /\ tx # "none"
    <3>1. chain # <<>>
      BY <2>2 DEF IInv, ChainInv
    <3>2. Taped(db) \subseteq (1..accepted) \ Unusable
      BY DEF BurstInv, TapeInv
    <3>3. Taped(staged) = IF Head(chain) = "handle" THEN Taped(db) \cup {handling} ELSE Taped(db)
      BY <2>2 DEF IInv, StagedInv
    <3>4. staged.sampled \subseteq DOMAIN staged.tape
      BY <2>2 DEF BurstInv, GrownInv
    <3> QED BY <2>2, <3>1, <3>2, <3>3, <3>4, HandlingIs
  <2> QED BY <1>1, <2>1, <2>2
<1>4. TapeInv'
  <2>1. (Taped(db))' = Taped(d)
    BY <1>2 DEF Taped, MsgsOf
  <2> QED BY <1>2, <1>3, <2>1 DEF TapeInv
<1>5. GrownInv' /\ HandInv' /\ AbsorbedInv'
  BY <1>2 DEF GrownInv, HandInv, InHand, AbsorbedInv
<1>6. CleanInv'
  <2> SUFFICES ASSUME past' = "clean"
               PROVE  (Taped(db))' \subseteq Again' \cup (Safe(db.sampled, db))'
    BY <1>2 DEF CleanInv
  <2>1. Taped(db) \subseteq Again \cup Safe(db.sampled, db)
    BY <1>1 DEF BurstInv, CleanInv
  <2>2. Again \subseteq Again'
    BY <1>2 DEF Again
  <2>3. (Taped(db))' = Taped(db) /\ (Safe(db.sampled, db))' = Safe(db.sampled, db)
    BY <1>1, <1>2 DEF Taped, Safe, MsgsOf
  <2> QED BY <2>1, <2>2, <2>3
<1> QED BY <1>4, <1>5, <1>6 DEF BurstInv

-----------------------------------------------------------------------------
(* The theorems.                                                           *)

LEMMA NextBurst == IInv /\ BurstInv /\ [Next]_vars => BurstInv'
<1> SUFFICES ASSUME IInv, BurstInv, [Next]_vars PROVE BurstInv'
  OBVIOUS
<1>1. CASE UNCHANGED vars
  BY <1>1 DEF vars, BurstInv, TapeInv, GrownInv, HandInv, AbsorbedInv, CleanInv, InHand, Again,
              Safe, Taped, MsgsOf, TailBurst, MappedRows, Continues
<1>2. CASE Accept \/ Connect \/ Disconnect \/ AckArrives \/ Discard \/ Receive
  BY <1>2, LinkBurst
<1>3. CASE FlushTick \/ Shutdown
  BY <1>3, EnqueueBurst
<1>4. CASE BeginHandle \/ BeginFlush
  BY <1>4, BeginHandleBurst, BeginFlushBurst
<1>5. CASE SkipFlush \/ Commit \/ Rollback \/ CommitUnanswered
  BY <1>5, SkipBurst, CommitBurst, RollbackBurst, CommitUnansweredBurst
<1>6. CASE ResumeWarm \/ StartCold \/ Exit \/ Crash
  BY <1>6, ResumeBurst, ColdBurst, GoneBurst
<1> QED BY <1>1, <1>2, <1>3, <1>4, <1>5, <1>6 DEF Next

LEMMA BurstAlways == Spec => [](IInv /\ BurstInv)
<1>1. Init => IInv /\ BurstInv
  BY InitIInv, InitBurst
<1>2. IInv /\ BurstInv /\ [Next]_vars => (IInv /\ BurstInv)'
  BY NextIInv, NextBurst
<1> QED BY <1>1, <1>2, PTL DEF Spec

\* Pipeline.attempt restores the memory with the transaction and Pipeline.resume rebuilds it:
\* between transactions the accumulator has absorbed what is on the tape, all of it but what
\* the broker will send again, and nothing else (whatever crashes, lost answers of a COMMIT,
\* redeliveries and restarts came before).
THEOREM MemoryIsTape == Spec => []MemoryMatchesTape
<1>1. IInv /\ BurstInv => MemoryMatchesTape
  <2> SUFFICES ASSUME BurstInv, Settled PROVE
        /\ mem.applied \subseteq MappedRows(db)
        /\ MsgsOf(MappedRows(db), db) \subseteq MsgsOf(mem.applied, db) \cup owed
    BY DEF MemoryMatchesTape
  <2>1. /\ mem = snap /\ mem.applied \subseteq MappedRows(db)
        /\ 1..accepted \subseteq Again \cup Safe(mem.applied, db)
        /\ Taped(db) \subseteq (1..accepted) \ Unusable
    BY DEF Settled, BurstInv, TapeInv, AbsorbedInv
  <2>2. MsgsOf(MappedRows(db), db) \subseteq Taped(db) \ Unmapped
    BY DEF MsgsOf, MappedRows, Taped
  <2> QED BY <2>1, <2>2 DEF Safe, Again
<1> QED BY <1>1, BurstAlways, PTL

\* No burst is dropped: what the accumulator has absorbed is in a committed sample, pending, or
\* will be sent again, through planned restarts, lost connections and the flush timer; and what
\* a replay of the tape leaves pending is, crash or not (pipeline.ts: resume, flush).
THEOREM NoBurstDropped == Spec => []BurstCovered
<1>1. IInv /\ BurstInv => BurstCovered
  <2> SUFFICES ASSUME BurstInv, Settled
               PROVE  Covered(TailBurst(db)) /\ (past = "clean" => Covered(mem.applied))
    BY DEF BurstCovered
  <2>1. /\ mem = snap /\ mem.applied \subseteq MappedRows(db)
        /\ MsgsOf(TailBurst(db), db) \subseteq Again \cup Safe(db.sampled \cup mem.pending, db)
        /\ past = "clean" =>
             MsgsOf(mem.applied, db) \subseteq Again \cup Safe(db.sampled \cup mem.pending, db)
        /\ Taped(db) \subseteq (1..accepted) \ Unusable
    BY DEF Settled, BurstInv, TapeInv, AbsorbedInv, CleanInv
  <2>2. ASSUME NEW rows, rows \subseteq MappedRows(db),
               MsgsOf(rows, db) \subseteq Again \cup Safe(db.sampled \cup mem.pending, db)
        PROVE  Covered(rows)
    <3>1. MsgsOf(rows, db) \subseteq Taped(db) \ Unmapped
      BY <2>2 DEF MsgsOf, MappedRows, Taped
    <3> QED BY <2>1, <2>2, <3>1 DEF Covered, Safe, Again
  <2>3. TailBurst(db) \subseteq MappedRows(db)
    BY DEF TailBurst
  <2> QED BY <2>1, <2>2, <2>3
<1> QED BY <1>1, BurstAlways, PTL
=============================================================================
