--------------------------- MODULE PublisherProofs ---------------------------
(***************************************************************************)
(* Theorems about Publisher, for every cap, every size of a frame and      *)
(* every number of frames and failures.                                    *)
(***************************************************************************)
EXTENDS Publisher, InductionFacts, SequenceTheorems, FiniteSetTheorems

-----------------------------------------------------------------------------
(* Total: the bytes of a sequence of frames, by its prefix sums.           *)

\* s is the prefix sums of the first n frames of q.
Sums(s, q, n) ==
  /\ s \in [0..n -> Nat]
  /\ s[0] = 0
  /\ \A i \in 0..n - 1 : s[i + 1] = s[i] + q[i + 1].bytes

LEMMA FrameBytes == ASSUME NEW f \in Frame PROVE f.bytes \in Nat \ {0} /\ f.id \in 1..MaxFrames
BY ConstantsAssumption DEF Frame

LEMMA SumsExist ==
  ASSUME NEW q \in Seq(Frame)
  PROVE  \E s : Sums(s, q, Len(q))
<1> DEFINE T == {n \in Nat : n <= Len(q) => \E s : Sums(s, q, n)}
<1>1. 0 \in T
  <2>1. Sums([i \in 0..0 |-> 0], q, 0)
    BY DEF Sums
  <2> QED BY <2>1
<1>2. ASSUME NEW n \in Nat, n \in T PROVE n + 1 \in T
  <2> SUFFICES ASSUME n + 1 <= Len(q) PROVE \E s : Sums(s, q, n + 1)
    OBVIOUS
  <2>1. PICK s : Sums(s, q, n)
    BY <1>2
  <2> DEFINE t == [i \in 0..n + 1 |-> IF i = n + 1 THEN s[n] + q[n + 1].bytes ELSE s[i]]
  <2>2. q[n + 1] \in Frame
    OBVIOUS
  <2>3. s[n] + q[n + 1].bytes \in Nat
    BY <2>1, <2>2, FrameBytes DEF Sums
  <2>4. t \in [0..n + 1 -> Nat]
    BY <2>1, <2>3 DEF Sums
  <2>5. t[0] = 0
    BY <2>1 DEF Sums
  <2>6. ASSUME NEW i \in 0..(n + 1) - 1 PROVE t[i + 1] = t[i] + q[i + 1].bytes
    <3>1. i \in 0..n /\ i + 1 \in 0..n + 1 /\ i # n + 1
      OBVIOUS
    <3>2. CASE i = n
      BY <3>1, <3>2
    <3>3. CASE i # n
      <4>1. i \in 0..n - 1 /\ i + 1 # n + 1
        BY <3>1, <3>3
      <4> QED BY <2>1, <3>1, <4>1 DEF Sums
    <3> QED BY <3>2, <3>3
  <2> QED BY <2>4, <2>5, <2>6 DEF Sums
<1>3. \A n \in Nat : n \in T
  BY <1>1, <1>2, NatSetInduction
<1> QED BY <1>3

LEMMA TotalIsSum ==
  ASSUME NEW q \in Seq(Frame), NEW s, Sums(s, q, Len(q))
  PROVE  Total(q) = s[Len(q)]
<1> DEFINE Def(f) == f = [n \in 0..Len(q) |-> IF n = 0 THEN 0 ELSE f[n - 1] + q[n].bytes]
           sum == CHOOSE f : Def(f)
<1>1. Def(s)
  <2>1. s = [n \in 0..Len(q) |-> s[n]]
    BY DEF Sums
  <2>2. ASSUME NEW n \in 0..Len(q)
        PROVE  s[n] = IF n = 0 THEN 0 ELSE s[n - 1] + q[n].bytes
    <3>1. CASE n = 0
      BY <3>1 DEF Sums
    <3>2. CASE n # 0
      <4>1. n - 1 \in 0..Len(q) - 1 /\ (n - 1) + 1 = n
        BY <3>2
      <4> QED BY <3>2, <4>1 DEF Sums
    <3> QED BY <3>1, <3>2
  <2> QED BY <2>1, <2>2
<1>2. Def(sum)
  BY <1>1
<1> HIDE DEF sum
<1>3. sum[0] = 0
  BY <1>2
<1>4. ASSUME NEW n \in 0..Len(q) - 1 PROVE sum[n + 1] = sum[n] + q[n + 1].bytes
  <2>1. n + 1 \in 0..Len(q) /\ n + 1 # 0 /\ (n + 1) - 1 = n
    OBVIOUS
  <2> QED BY <1>2, <2>1
<1> DEFINE T == {n \in Nat : n <= Len(q) => sum[n] = s[n]}
<1>5. 0 \in T
  BY <1>3 DEF Sums
<1>6. ASSUME NEW n \in Nat, n \in T PROVE n + 1 \in T
  <2> SUFFICES ASSUME n + 1 <= Len(q) PROVE sum[n + 1] = s[n + 1]
    OBVIOUS
  <2>1. n \in 0..Len(q) - 1
    OBVIOUS
  <2>2. sum[n + 1] = sum[n] + q[n + 1].bytes
    BY <1>4, <2>1
  <2>3. s[n + 1] = s[n] + q[n + 1].bytes
    BY <2>1 DEF Sums
  <2> QED BY <1>6, <2>1, <2>2, <2>3
<1>7. \A n \in Nat : n \in T
  BY <1>5, <1>6, NatSetInduction
<1>8. Total(q) = sum[Len(q)]
  BY DEF Total, sum
<1> QED BY <1>7, <1>8

\* What the frames from the (i + 1)st to the jth weigh.
LEMMA TotalOfSub ==
  ASSUME NEW q \in Seq(Frame), NEW s, Sums(s, q, Len(q)),
         NEW i \in 0..Len(q), NEW j \in i..Len(q)
  PROVE  /\ SubSeq(q, i + 1, j) \in Seq(Frame)
         /\ Len(SubSeq(q, i + 1, j)) = j - i
         /\ Total(SubSeq(q, i + 1, j)) = s[j] - s[i]
         /\ Total(SubSeq(q, i + 1, j)) \in Nat
<1> DEFINE w == SubSeq(q, i + 1, j)
<1>1. w \in Seq(Frame) /\ Len(w) = j - i /\ \A k \in 1..j - i : w[k] = q[i + k]
  BY SubSeqProperties
<1> HIDE DEF w
<1>2. PICK t : Sums(t, w, j - i)
  BY <1>1, SumsExist
<1> DEFINE T == {n \in Nat : n <= j - i => t[n] = s[i + n] - s[i]}
<1>0. \A k \in 0..Len(q) : s[k] \in Nat
  BY DEF Sums
<1>3. 0 \in T
  <2>1. i + 0 = i /\ s[i] \in Nat /\ t[0] = 0
    BY <1>0, <1>2 DEF Sums
  <2> QED BY <2>1
<1>4. ASSUME NEW n \in Nat, n \in T PROVE n + 1 \in T
  <2> SUFFICES ASSUME n + 1 <= j - i PROVE t[n + 1] = s[i + (n + 1)] - s[i]
    OBVIOUS
  <2>1. /\ n \in 0..(j - i) - 1 /\ i + n \in 0..Len(q) - 1 /\ n + 1 \in 1..j - i
        /\ (i + n) + 1 = i + (n + 1) /\ i + (n + 1) \in 1..Len(q)
    OBVIOUS
  <2>2. t[n + 1] = t[n] + q[i + (n + 1)].bytes
    BY <1>1, <1>2, <2>1 DEF Sums
  <2>3. s[i + (n + 1)] = s[i + n] + q[i + (n + 1)].bytes
    BY <2>1 DEF Sums
  <2>4. s[i] \in Nat /\ s[i + n] \in Nat
    BY <1>0, <2>1
  <2>5. q[i + (n + 1)] \in Frame
    BY <2>1
  <2>6. q[i + (n + 1)].bytes \in Nat
    BY <2>5, FrameBytes
  <2>7. t[n] = s[i + n] - s[i]
    BY <1>4
  <2> QED BY <2>2, <2>3, <2>4, <2>6, <2>7
<1>5. \A n \in Nat : n \in T
  BY <1>3, <1>4, NatSetInduction
<1>6. t[j - i] = s[j] - s[i]
  BY <1>5
<1>7. Total(w) = t[j - i]
  BY <1>1, <1>2, TotalIsSum
<1>8. j - i \in 0..j - i
  OBVIOUS
<1>9. t[j - i] \in Nat
  BY <1>2, <1>8 DEF Sums
<1> QED BY <1>1, <1>6, <1>7, <1>9 DEF w

LEMMA TotalNat == ASSUME NEW q \in Seq(Frame) PROVE Total(q) \in Nat
BY SumsExist, TotalIsSum DEF Sums

LEMMA TotalEmpty == Total(<<>>) = 0
<1>1. <<>> \in Seq(Frame) /\ Len(<<>>) = 0
  OBVIOUS
<1> QED BY <1>1, SumsExist, TotalIsSum DEF Sums

LEMMA TotalTail ==
  ASSUME NEW q \in Seq(Frame), q # <<>>
  PROVE  /\ Total(q) = Head(q).bytes + Total(Tail(q))
         /\ Total(Tail(q)) \in Nat
<1>1. PICK s : Sums(s, q, Len(q))
  BY SumsExist
<1>2. Len(q) \in Nat \ {0} /\ Head(q) = q[1]
  BY EmptySeq
<1>3. Total(Tail(q)) = s[Len(q)] - s[1]
  <2>1. 1 \in 0..Len(q) /\ Len(q) \in 1..Len(q) /\ 1 + 1 = 2
    BY <1>2
  <2>2. Total(SubSeq(q, 1 + 1, Len(q))) = s[Len(q)] - s[1]
    BY <1>1, <2>1, TotalOfSub
  <2> QED BY <2>1, <2>2, TailIsSubSeq
<1>4. s[1] = q[1].bytes /\ s[1] \in Nat /\ s[Len(q)] \in Nat
  <2>1. 0 \in 0..Len(q) - 1 /\ 0 + 1 = 1 /\ 1 \in 0..Len(q) /\ Len(q) \in 0..Len(q)
    BY <1>2
  <2>2. s[0 + 1] = 0 + q[0 + 1].bytes
    BY <1>1, <2>1 DEF Sums
  <2>3. q[1] \in Frame
    BY <1>2
  <2> QED BY <1>1, <2>1, <2>2, <2>3, FrameBytes DEF Sums
<1>5. Total(q) = s[Len(q)] /\ Total(q) \in Nat
  BY <1>1, TotalIsSum, TotalNat
<1>6. Tail(q) \in Seq(Frame)
  OBVIOUS
<1>7. Total(Tail(q)) \in Nat
  BY <1>6, TotalNat
<1>8. Total(q) = q[1].bytes + Total(Tail(q))
  BY <1>3, <1>4, <1>5
<1> QED BY <1>2, <1>7, <1>8

LEMMA TotalCons ==
  ASSUME NEW q \in Seq(Frame), NEW f \in Frame
  PROVE  /\ <<f>> \o q \in Seq(Frame) /\ Len(<<f>> \o q) = Len(q) + 1
         /\ Head(<<f>> \o q) = f /\ Tail(<<f>> \o q) = q
         /\ Total(<<f>> \o q) = f.bytes + Total(q)
<1>1. /\ <<f>> \o q \in Seq(Frame) /\ Len(<<f>> \o q) = Len(q) + 1
      /\ <<f>> \o q # <<>> /\ Head(<<f>> \o q) = f /\ Tail(<<f>> \o q) = q
  OBVIOUS
<1> QED BY <1>1, TotalTail

LEMMA TotalAppend ==
  ASSUME NEW q \in Seq(Frame), NEW f \in Frame
  PROVE  Total(Append(q, f)) = Total(q) + f.bytes
<1> DEFINE a == Append(q, f)
           n == Len(q)
<1>1. a \in Seq(Frame) /\ Len(a) = n + 1 /\ a[n + 1] = f /\ n \in Nat
  OBVIOUS
<1>2. SubSeq(a, 1, n) = q
  OBVIOUS
<1> HIDE DEF a
<1>3. PICK s : Sums(s, a, n + 1)
  BY <1>1, SumsExist
<1>4. Total(q) = s[n] - s[0]
  <2>1. 0 \in 0..n + 1 /\ n \in 0..n + 1 /\ 0 + 1 = 1
    BY <1>1
  <2>2. Total(SubSeq(a, 0 + 1, n)) = s[n] - s[0]
    BY <1>1, <1>3, <2>1, TotalOfSub
  <2> QED BY <1>2, <2>1, <2>2
<1>5. Total(a) = s[n + 1]
  BY <1>1, <1>3, TotalIsSum
<1>6. s[n + 1] = s[n] + f.bytes /\ s[0] = 0 /\ s[n] \in Nat
  BY <1>1, <1>3 DEF Sums
<1> QED BY <1>4, <1>5, <1>6 DEF a

\* A sequence weighs what its first k frames and the rest of it weigh.
LEMMA TotalSplit ==
  ASSUME NEW q \in Seq(Frame), NEW k \in 0..Len(q)
  PROVE  /\ Without(q, k) \in Seq(Frame) /\ Len(Without(q, k)) = Len(q) - k
         /\ SubSeq(q, 1, k) \in Seq(Frame) /\ Len(SubSeq(q, 1, k)) = k
         /\ Total(q) = Total(SubSeq(q, 1, k)) + Total(Without(q, k))
         /\ Total(SubSeq(q, 1, k)) \in Nat /\ Total(Without(q, k)) \in Nat
<1>1. PICK s : Sums(s, q, Len(q))
  BY SumsExist
<1>2. Len(q) \in Nat
  OBVIOUS
<1>3. SubSeq(q, 1, k) \in Seq(Frame) /\ Len(SubSeq(q, 1, k)) = k
      /\ Total(SubSeq(q, 1, k)) = s[k] - s[0] /\ Total(SubSeq(q, 1, k)) \in Nat
  BY <1>1, <1>2, TotalOfSub, 0 \in 0..Len(q), 0 + 1 = 1
<1>4. Without(q, k) \in Seq(Frame) /\ Len(Without(q, k)) = Len(q) - k
      /\ Total(Without(q, k)) = s[Len(q)] - s[k] /\ Total(Without(q, k)) \in Nat
  BY <1>1, <1>2, TotalOfSub DEF Without
<1>5. Total(q) = s[Len(q)]
  BY <1>1, TotalIsSum
<1>6. s[0] = 0 /\ s[k] \in Nat /\ s[Len(q)] \in Nat
  BY <1>1, <1>2 DEF Sums
<1> QED BY <1>3, <1>4, <1>5, <1>6

-----------------------------------------------------------------------------
(* Overflow: there is a least number of frames to drop.                    *)

LEMMA OverflowFits ==
  ASSUME NEW q \in Seq(Frame), q # <<>>
  PROVE  /\ Overflow(q) \in 0..Len(q) - 1
         /\ Total(Without(q, Overflow(q))) <= Cap \/ Overflow(q) = Len(q) - 1
<1> DEFINE Fits(k) == Total(SubSeq(q, k + 1, Len(q))) <= Cap
           S == {k \in 0..Len(q) - 1 : Fits(k) \/ k = Len(q) - 1}
           Least(k) == /\ Fits(k) \/ k = Len(q) - 1
                       /\ \A j \in 0..k - 1 : Total(SubSeq(q, j + 1, Len(q))) > Cap
<1>1. Len(q) \in Nat \ {0}
  BY EmptySeq
<1>2. S \in SUBSET Nat /\ Len(q) - 1 \in S
  BY <1>1
<1>3. PICK m \in S : \A k \in S : m <= k
  BY <1>2, MinExists
<1>4. Least(m)
  <2> SUFFICES ASSUME NEW j \in 0..m - 1 PROVE Total(SubSeq(q, j + 1, Len(q))) > Cap
    BY <1>3
  <2>1. j \in 0..Len(q) - 1 /\ j < m
    BY <1>1, <1>2, <1>3
  <2>2. ~Fits(j)
    BY <1>1, <1>2, <1>3, <2>1
  <2>3. Total(SubSeq(q, j + 1, Len(q))) \in Nat
    <3>1. j \in 0..Len(q)
      BY <1>1, <2>1
    <3> HIDE DEF Fits
    <3> QED BY <3>1, TotalSplit DEF Without
  <2> QED BY <2>2, <2>3, ConstantsAssumption
<1>5. \E k \in 0..Len(q) - 1 : Least(k)
  BY <1>2, <1>3, <1>4
<1>6. Overflow(q) = CHOOSE k \in 0..Len(q) - 1 : Least(k)
  BY DEF Overflow
<1> HIDE DEF Least
<1>7. Overflow(q) \in 0..Len(q) - 1 /\ Least(Overflow(q))
  BY <1>5, <1>6
<1> QED BY <1>7 DEF Least, Without

-----------------------------------------------------------------------------
(* The road: the queue and the frame that is out.                          *)

One(out) == out = {} \/ \E f \in Frame : out = {f}

\* Frames are in the order they were made in, the one that is out before all others.
InOrder(q, out, m) ==
  /\ \A i, j \in 1..Len(q) : i < j => q[i].id < q[j].id
  /\ \A f \in out, i \in 1..Len(q) : f.id < q[i].id
  /\ \A i \in 1..Len(q) : q[i].id <= m
  /\ \A f \in out : f.id <= m

\* What is behind the frame that is out, or was put back, fits the cap, or is one frame.
Snug(q, out) ==
  /\ out # {} => Total(q) <= Cap \/ Len(q) <= 1
  /\ q # <<>> => Total(Tail(q)) <= Cap \/ Len(q) <= 2

Road(q, b, out, m) ==
  /\ q \in Seq(Frame) /\ b = Total(q)
  /\ One(out) /\ InOrder(q, out, m) /\ Snug(q, out)

OwedOf(q, out) == Ids(q) \cup {f.id : f \in out}

LEMMA IdsAre ==
  ASSUME NEW q \in Seq(Frame)
  PROVE  Ids(q) = {q[i].id : i \in 1..Len(q)}
BY DEF Ids, ToSet

\* Frames in order have as many ids as there are frames.
LEMMA IdsCount ==
  ASSUME NEW q \in Seq(Frame), \A i, j \in 1..Len(q) : i < j => q[i].id < q[j].id
  PROVE  IsFiniteSet(Ids(q)) /\ Cardinality(Ids(q)) = Len(q)
<1> DEFINE f == [i \in 1..Len(q) |-> q[i].id]
<1>1. f \in [1..Len(q) -> Ids(q)]
  BY IdsAre
<1>2. ASSUME NEW i \in 1..Len(q), NEW j \in 1..Len(q), f[i] = f[j] PROVE i = j
  <2>1. q[i].id \in Nat /\ q[j].id \in Nat
    BY FrameBytes, ConstantsAssumption
  <2>2. ~(i < j) /\ ~(j < i)
    BY <1>2, <2>1
  <2> QED BY <2>2
<1>3. \A x \in Ids(q) : \E i \in 1..Len(q) : f[i] = x
  BY IdsAre
<1>4. f \in Bijection(1..Len(q), Ids(q))
  BY <1>1, <1>2, <1>3 DEF Bijection, Injection, Surjection, IsInjective
<1>5. ExistsBijection(1..Len(q), Ids(q)) /\ Len(q) \in Nat
  BY <1>4 DEF ExistsBijection
<1> QED BY <1>5, FS_CountingElements, FS_NatBijection

LEMMA OwedCount ==
  ASSUME NEW q, NEW b, NEW out, NEW m, Road(q, b, out, m)
  PROVE  /\ IsFiniteSet(OwedOf(q, out)) /\ IsFiniteSet(out) /\ Cardinality(out) \in 0..1
         /\ Cardinality(OwedOf(q, out)) = Len(q) + Cardinality(out)
         /\ Len(q) \in Nat
<1>0. q \in Seq(Frame) /\ Len(q) \in Nat
  BY DEF Road
<1>1. IsFiniteSet(Ids(q)) /\ Cardinality(Ids(q)) = Len(q)
  BY <1>0, IdsCount DEF Road, InOrder
<1>2. CASE out = {}
  <2>1. OwedOf(q, out) = Ids(q)
    BY <1>2 DEF OwedOf
  <2> QED BY <1>0, <1>1, <1>2, <2>1, FS_EmptySet
<1>3. ASSUME NEW f \in Frame, out = {f}
      PROVE  /\ IsFiniteSet(OwedOf(q, out)) /\ IsFiniteSet(out) /\ Cardinality(out) = 1
             /\ Cardinality(OwedOf(q, out)) = Len(q) + 1
  <2>1. OwedOf(q, out) = Ids(q) \cup {f.id}
    BY <1>3 DEF OwedOf
  <2>2. f.id \notin Ids(q)
    <3>1. \A i \in 1..Len(q) : q[i].id \in Nat /\ f.id < q[i].id
      BY <1>0, <1>3, FrameBytes DEF Road, InOrder
    <3>2. f.id \in Nat
      BY FrameBytes
    <3> QED BY <1>0, <3>1, <3>2, IdsAre
  <2>3. IsFiniteSet(out) /\ Cardinality(out) = 1
    BY <1>3, FS_Singleton
  <2>4. IsFiniteSet(Ids(q) \cup {f.id}) /\ Cardinality(Ids(q) \cup {f.id}) = Len(q) + 1
    BY <1>1, <2>2, FS_AddElement
  <2> QED BY <2>1, <2>3, <2>4
<1> QED BY <1>0, <1>2, <1>3 DEF Road, One

-----------------------------------------------------------------------------
(* What pump does to it.                                                   *)

Same(q, b, out) == queue' = q /\ bytes' = b /\ inFlight' = out

Taken(q, b, out) ==
  /\ out = {} /\ q # <<>>
  /\ inFlight' = {Head(q)} /\ queue' = Tail(q) /\ bytes' = b - Head(q).bytes

LEMMA PumpSteps ==
  ASSUME NEW q, NEW b, NEW out, NEW waiting \in BOOLEAN, failures \in Nat,
         Pump(q, b, out, waiting)
  PROVE  /\ Same(q, b, out) \/ Taken(q, b, out)
         /\ retry' \in BOOLEAN /\ failures' \in Nat
         /\ phase \in {"running", "draining"} /\ queue' # <<>> => inFlight' # {} \/ retry'
<1> DEFINE Moves == phase \in {"running", "draining"} /\ out = {} /\ ~waiting /\ q # <<>>
<1>1. CASE Moves /\ Hand(q, b)
  BY <1>1 DEF Hand, Taken
<1>2. CASE Moves /\ Throw(q, b)
  BY <1>2 DEF Throw, Failure, Same
<1>3. CASE ~Moves
  <2>1. queue' = q /\ bytes' = b /\ inFlight' = out /\ retry' = waiting /\ failures' = failures
    BY <1>3 DEF Pump
  <2> QED BY <1>3, <2>1 DEF Same
<1> QED BY <1>1, <1>2, <1>3 DEF Pump

LEMMA RoadPumped ==
  ASSUME NEW q, NEW b, NEW out, NEW m, Road(q, b, out, m),
         Same(q, b, out) \/ Taken(q, b, out)
  PROVE  /\ Road(queue', bytes', inFlight', m)
         /\ OwedOf(queue', inFlight') = OwedOf(q, out)
<1>1. CASE Same(q, b, out)
  BY <1>1 DEF Same
<1>2. CASE Taken(q, b, out)
  <2>1. q \in Seq(Frame) /\ q # <<>> /\ out = {}
    BY <1>2 DEF Taken, Road
  <2> DEFINE h == Head(q)
             t == Tail(q)
  <2>2. h \in Frame /\ h = q[1] /\ Len(q) \in Nat \ {0}
    BY <2>1
  <2>3. t \in Seq(Frame) /\ Len(t) = Len(q) - 1 /\ \A i \in 1..Len(t) : t[i] = q[i + 1]
    BY <2>1
  <2>4. Total(q) = h.bytes + Total(t) /\ Total(t) \in Nat /\ h.bytes \in Nat
    BY <2>1, <2>2, TotalTail, FrameBytes
  <2>5. queue' = t /\ inFlight' = {h} /\ bytes' = Total(q) - h.bytes
    BY <1>2 DEF Taken, Road
  <2> HIDE DEF h, t
  <2>6. InOrder(t, {h}, m)
    <3>1. \A i \in 1..Len(t) : i + 1 \in 1..Len(q) /\ 1 < i + 1
      BY <2>2, <2>3
    <3>2. 1 \in 1..Len(q)
      BY <2>2
    <3> QED BY SMTT(20), <2>2, <2>3, <3>1, <3>2 DEF Road, InOrder
  <2>7. Snug(t, {h})
    <3>1. Total(t) <= Cap \/ Len(t) <= 1
      BY <2>1, <2>2, <2>3 DEF Road, Snug, t
    <3>2. ASSUME t # <<>> PROVE Total(Tail(t)) <= Cap \/ Len(t) <= 2
      <4>1. Total(t) = Head(t).bytes + Total(Tail(t)) /\ Total(Tail(t)) \in Nat
            /\ Head(t).bytes \in Nat
        BY <2>3, <3>2, TotalTail, HeadTailProperties, FrameBytes
      <4> QED BY <2>3, <3>1, <4>1, ConstantsAssumption
    <3> QED BY <3>1, <3>2 DEF Snug
  <2>8. Road(queue', bytes', inFlight', m)
    BY <2>2, <2>3, <2>4, <2>5, <2>6, <2>7 DEF Road, One
  <2>9. Ids(q) = Ids(t) \cup {h.id}
    <3>1. \A i \in 1..Len(t) : i + 1 \in 1..Len(q)
      BY <2>2, <2>3
    <3>2. \A j \in 1..Len(q) : j = 1 \/ (j - 1 \in 1..Len(t) /\ (j - 1) + 1 = j)
      BY <2>2, <2>3
    <3>3. Ids(q) = {q[i].id : i \in 1..Len(q)} /\ Ids(t) = {t[i].id : i \in 1..Len(t)}
      BY <2>1, <2>3, IdsAre
    <3>4. \A x \in Ids(q) : x \in Ids(t) \cup {h.id}
      <4> TAKE x \in Ids(q)
      <4>1. PICK j \in 1..Len(q) : x = q[j].id
        BY <3>3
      <4>2. CASE j = 1
        BY <2>2, <4>1, <4>2
      <4>3. CASE j # 1
        <5>1. j - 1 \in 1..Len(t) /\ (j - 1) + 1 = j
          BY <3>2, <4>3
        <5>2. q[j] = t[j - 1]
          BY <2>3, <5>1
        <5> QED BY <3>3, <4>1, <5>1, <5>2
      <4> QED BY <4>2, <4>3
    <3>5. \A x \in Ids(t) \cup {h.id} : x \in Ids(q)
      <4>1. h.id \in Ids(q)
        BY <2>2, <3>3, 1 \in 1..Len(q)
      <4>2. \A i \in 1..Len(t) : t[i].id \in Ids(q)
        BY <2>3, <3>1, <3>3
      <4> QED BY <3>3, <4>1, <4>2
    <3> QED BY <3>4, <3>5
  <2> QED BY <2>1, <2>5, <2>8, <2>9 DEF OwedOf
<1> QED BY <1>1, <1>2

-----------------------------------------------------------------------------
(* What an answer does to it, and a push.                                  *)

LEMMA RoadAcked ==
  ASSUME NEW q, NEW b, NEW f \in Frame, NEW m, Road(q, b, {f}, m)
  PROVE  /\ Road(q, b, {}, m)
         /\ OwedOf(q, {}) = OwedOf(q, {f}) \ {f.id}
<1>1. q \in Seq(Frame) /\ \A i \in 1..Len(q) : q[i].id \in Nat /\ f.id < q[i].id
  BY FrameBytes DEF Road, InOrder
<1>2. f.id \in Nat
  BY FrameBytes
<1>3. f.id \notin Ids(q)
  BY <1>1, <1>2, IdsAre
<1>4. Road(q, b, {}, m)
  BY DEF Road, One, InOrder, Snug
<1> QED BY <1>3, <1>4 DEF OwedOf

LEMMA RoadFailed ==
  ASSUME NEW q, NEW b, NEW f \in Frame, NEW m, Road(q, b, {f}, m)
  PROVE  /\ Road(<<f>> \o q, b + f.bytes, {}, m)
         /\ OwedOf(<<f>> \o q, {}) = OwedOf(q, {f})
<1> DEFINE c == <<f>> \o q
<1>1. q \in Seq(Frame) /\ b = Total(q) /\ b \in Nat /\ f.bytes \in Nat /\ Len(q) \in Nat
  BY TotalNat, FrameBytes DEF Road
<1>2. /\ c \in Seq(Frame) /\ Len(c) = Len(q) + 1
      /\ Total(c) = f.bytes + Total(q) /\ Tail(c) = q
  BY <1>1, TotalCons
<1>3. c[1] = f /\ \A i \in 2..Len(c) : c[i] = q[i - 1] /\ i - 1 \in 1..Len(q)
  BY <1>1
<1> HIDE DEF c
<1>4. InOrder(c, {}, m)
  <2>1. ASSUME NEW i \in 1..Len(c), NEW j \in 1..Len(c), i < j PROVE c[i].id < c[j].id
    <3>1. j \in 2..Len(c) /\ c[j] = q[j - 1] /\ j - 1 \in 1..Len(q)
      BY <1>1, <1>2, <1>3, <2>1
    <3>2. CASE i = 1
      BY <1>3, <3>1, <3>2 DEF Road, InOrder
    <3>3. CASE i # 1
      <4>1. i \in 2..Len(c) /\ i - 1 < j - 1
        BY <1>1, <1>2, <2>1, <3>3
      <4> QED BY <1>3, <3>1, <4>1 DEF Road, InOrder
    <3> QED BY <3>2, <3>3
  <2>2. ASSUME NEW i \in 1..Len(c) PROVE c[i].id <= m
    <3>1. i = 1 \/ i \in 2..Len(c)
      BY <1>1, <1>2
    <3> QED BY <1>3, <3>1 DEF Road, InOrder
  <2> QED BY <2>1, <2>2 DEF InOrder
<1>5. Snug(c, {})
  <2>1. Total(q) <= Cap \/ Len(q) <= 1
    BY {f} # {} DEF Road, Snug
  <2>2. Total(Tail(c)) <= Cap \/ Len(c) <= 2
    <3>1. Total(Tail(c)) = Total(q)
      BY <1>2, Zenon
    <3>2. Len(q) <= 1 => Len(c) <= 2
      BY <1>1, <1>2
    <3> QED BY <2>1, <3>1, <3>2, Zenon
  <2> QED BY <2>2 DEF Snug
<1>6. Road(c, b + f.bytes, {}, m)
  BY <1>1, <1>2, <1>4, <1>5 DEF Road, One
<1>7. Ids(c) = Ids(q) \cup {f.id}
  <2>1. Ids(q) = {q[i].id : i \in 1..Len(q)} /\ Ids(c) = {c[i].id : i \in 1..Len(c)}
    BY <1>1, <1>2, IdsAre
  <2>2. ASSUME NEW i \in 1..Len(c) PROVE c[i].id \in Ids(q) \cup {f.id}
    <3>1. i = 1 \/ i \in 2..Len(c)
      BY <1>1, <1>2
    <3> QED BY <1>3, <2>1, <3>1
  <2>3. 1 \in 1..Len(c)
    BY <1>1, <1>2
  <2>4. ASSUME NEW i \in 1..Len(q) PROVE q[i].id \in Ids(c)
    <3>1. i + 1 \in 2..Len(c) /\ (i + 1) - 1 = i /\ i + 1 \in 1..Len(c)
      BY <1>1, <1>2
    <3>2. c[i + 1] = q[i]
      BY <1>3, <3>1
    <3> QED BY <2>1, <3>1, <3>2
  <2> QED BY ZenonT(30), <1>3, <2>1, <2>2, <2>3, <2>4
<1> QED BY <1>6, <1>7 DEF OwedOf, c

\* The queue with a frame more, of which the k oldest are dropped.
LEMMA RoadPushed ==
  ASSUME NEW q, NEW b, NEW out, NEW m \in Nat, Road(q, b, out, m),
         NEW f \in Frame, f.id = m + 1,
         NEW k \in 0..Len(q),
         Total(Without(Append(q, f), k)) <= Cap \/ k = Len(q)
  PROVE  LET a == Append(q, f)
             D == Ids(SubSeq(a, 1, k))
             r == Without(a, k)
         IN  /\ Road(r, b + f.bytes - Total(SubSeq(a, 1, k)), out, m + 1)
             /\ IsFiniteSet(D) /\ Cardinality(D) = k
             /\ D \subseteq Ids(q)
             /\ OwedOf(r, out) = (OwedOf(q, out) \ D) \cup {m + 1}
             /\ \A d \in D, g \in OwedOf(q, out) :
                  g < d => g \in D \/ \E o \in out : g = o.id
<1> DEFINE a == Append(q, f)
           r == Without(a, k)
           p == SubSeq(a, 1, k)
           D == Ids(p)
           n == Len(q)
<1>1. q \in Seq(Frame) /\ n \in Nat /\ b = Total(q)
  BY DEF Road
<1>2. a \in Seq(Frame) /\ Len(a) = n + 1 /\ a[n + 1] = f /\ \A i \in 1..n : a[i] = q[i]
  BY <1>1
<1>3. Total(a) = b + f.bytes
  BY <1>1, TotalAppend
<1> HIDE DEF a
<1>4. /\ r \in Seq(Frame) /\ Len(r) = n + 1 - k /\ p \in Seq(Frame) /\ Len(p) = k
      /\ Total(a) = Total(p) + Total(r) /\ Total(p) \in Nat /\ Total(r) \in Nat
  <2>1. k \in 0..Len(a)
    BY <1>1, <1>2
  <2>2. /\ r \in Seq(Frame) /\ Len(r) = Len(a) - k /\ p \in Seq(Frame) /\ Len(p) = k
        /\ Total(a) = Total(p) + Total(r) /\ Total(p) \in Nat /\ Total(r) \in Nat
    BY <1>2, <2>1, TotalSplit
  <2> HIDE DEF r, p
  <2> QED BY <1>2, <2>2
<1>5. \A i \in 1..n + 1 - k : r[i] = a[k + i] /\ k + i \in 1..n + 1
  <2>1. \A i \in k + 1..n + 1 : a[i] \in Frame
    BY <1>1, <1>2
  <2>2. \A i \in 1..(n + 1) - (k + 1) + 1 : r[i] = a[(k + 1) + i - 1]
    BY <1>1, <1>2, <2>1, SubSeqProperties DEF Without
  <2>3. ASSUME NEW i \in 1..n + 1 - k PROVE r[i] = a[k + i] /\ k + i \in 1..n + 1
    <3>1. i \in 1..(n + 1) - (k + 1) + 1 /\ (k + 1) + i - 1 = k + i /\ k + i \in 1..n + 1
      BY <1>1
    <3> QED BY <2>2, <3>1
  <2> QED BY <2>3
<1>6. \A i \in 1..k : p[i] = q[i] /\ i \in 1..n
  <2>1. \A i \in 1..k : a[i] \in Frame /\ i \in 1..n
    BY <1>1, <1>2
  <2>2. \A i \in 1..k - 1 + 1 : p[i] = a[1 + i - 1]
    BY <2>1, SubSeqProperties
  <2>3. ASSUME NEW i \in 1..k PROVE p[i] = q[i] /\ i \in 1..n
    <3>1. i \in 1..k - 1 + 1 /\ 1 + i - 1 = i /\ i \in 1..n
      BY <1>1
    <3> QED BY <1>2, <2>2, <3>1
  <2> QED BY <2>3
<1> HIDE DEF r, p
<1>7. \A i \in 1..n : q[i].id \in Nat /\ q[i].id <= m
  BY <1>1, FrameBytes DEF Road, InOrder
<1>8. \A i, j \in 1..n + 1 : i < j => a[i].id < a[j].id
  <2> SUFFICES ASSUME NEW i \in 1..n + 1, NEW j \in 1..n + 1, i < j PROVE a[i].id < a[j].id
    OBVIOUS
  <2>1. i \in 1..n /\ a[i] = q[i]
    BY <1>1, <1>2
  <2>2. CASE j = n + 1
    BY <1>2, <1>7, <2>1, <2>2
  <2>3. CASE j # n + 1
    <3>1. j \in 1..n /\ a[j] = q[j]
      BY <1>1, <1>2, <2>3
    <3> QED BY <2>1, <3>1 DEF Road, InOrder
  <2> QED BY <2>2, <2>3
<1>9. InOrder(r, out, m + 1)
  <2>1. ASSUME NEW i \in 1..Len(r), NEW j \in 1..Len(r), i < j PROVE r[i].id < r[j].id
    <3>1. k + i < k + j /\ i \in 1..n + 1 - k /\ j \in 1..n + 1 - k
      BY <2>1, <1>1, <1>4
    <3>2. k + i \in 1..n + 1 /\ k + j \in 1..n + 1 /\ r[i] = a[k + i] /\ r[j] = a[k + j]
      BY <1>5, <3>1
    <3>3. a[k + i].id < a[k + j].id
      BY <1>8, <3>1, <3>2
    <3> QED BY <3>2, <3>3
  <2>2. \A o \in out : o \in Frame /\ o.id \in Nat /\ o.id <= m
    BY FrameBytes DEF Road, One, InOrder
  <2>3. ASSUME NEW i \in 1..n + 1
        PROVE  a[i].id <= m + 1 /\ \A o \in out : o.id < a[i].id
    <3>1. CASE i = n + 1
      BY <1>2, <2>2, <3>1
    <3>2. CASE i # n + 1
      <4>1. i \in 1..n
        BY <1>1, <3>2
      <4>2. a[i] = q[i] /\ q[i].id \in Nat /\ q[i].id <= m
        BY <1>2, <1>7, <4>1
      <4>3. a[i].id <= m + 1
        BY <4>2
      <4> QED BY <4>1, <4>2, <4>3 DEF Road, InOrder
    <3> QED BY <3>1, <3>2
  <2>4. \A o \in out : o.id <= m + 1
    BY <2>2
  <2> QED BY <1>4, <1>5, <2>1, <2>3, <2>4 DEF InOrder
<1>10. Snug(r, out)
  <2>1. Total(r) <= Cap \/ Len(r) = 1
    BY <1>1, <1>4 DEF r, a
  <2>2. ASSUME r # <<>> PROVE Total(Tail(r)) <= Cap \/ Len(r) <= 2
    <3>1. Total(r) = Head(r).bytes + Total(Tail(r)) /\ Total(Tail(r)) \in Nat
          /\ Head(r).bytes \in Nat
      BY <1>4, <2>2, TotalTail, HeadTailProperties, FrameBytes
    <3>2. Len(r) = 1 => Len(r) <= 2
      OBVIOUS
    <3>3. Total(r) <= Cap => Total(Tail(r)) <= Cap
      BY <3>1, ConstantsAssumption
    <3> QED BY <2>1, <3>2, <3>3
  <2>3. Len(r) = 1 => Len(r) <= 1
    OBVIOUS
  <2> QED BY <2>1, <2>2, <2>3 DEF Snug
<1>11. Road(r, b + f.bytes - Total(p), out, m + 1)
  <2>1. b \in Nat /\ f.bytes \in Nat
    BY <1>1, TotalNat, FrameBytes
  <2>2. b + f.bytes - Total(p) = Total(r)
    BY SMTT(20), <1>3, <1>4, <2>1
  <2> QED BY <1>4, <1>9, <1>10, <2>2 DEF Road
<1>12. IsFiniteSet(D) /\ Cardinality(D) = k
  <2>1. \A i, j \in 1..Len(p) : i < j => p[i].id < p[j].id
    BY <1>4, <1>6 DEF Road, InOrder
  <2> QED BY <1>4, <2>1, IdsCount
<1>13. /\ Ids(q) = {q[i].id : i \in 1..n} /\ D = {q[i].id : i \in 1..k}
       /\ Ids(r) = {a[k + i].id : i \in 1..n + 1 - k}
  <2>1. /\ Ids(q) = {q[i].id : i \in 1..n} /\ D = {p[i].id : i \in 1..k}
        /\ Ids(r) = {r[i].id : i \in 1..n + 1 - k}
    BY <1>1, <1>4, IdsAre
  <2>2. {p[i].id : i \in 1..k} = {q[i].id : i \in 1..k}
    BY <1>6
  <2>3. {r[i].id : i \in 1..n + 1 - k} = {a[k + i].id : i \in 1..n + 1 - k}
    <3>1. \A i \in 1..n + 1 - k : r[i].id = a[k + i].id
      BY <1>5
    <3> QED BY <3>1, Zenon
  <2> QED BY <2>1, <2>2, <2>3
<1>14. D \subseteq Ids(q)
  BY <1>6, <1>13
<1>15. Ids(r) = {a[j].id : j \in k + 1..n + 1}
  <2>1. \A j \in k + 1..n + 1 : j - k \in 1..n + 1 - k /\ k + (j - k) = j
    BY <1>1
  <2>2. \A i \in 1..n + 1 - k : k + i \in k + 1..n + 1
    BY <1>1
  <2>3. ASSUME NEW x \in Ids(r) PROVE \E j \in k + 1..n + 1 : x = a[j].id
    <3>1. PICK i \in 1..n + 1 - k : x = a[k + i].id
      BY <1>13
    <3> QED BY <2>2, <3>1
  <2>4. ASSUME NEW j \in k + 1..n + 1 PROVE a[j].id \in Ids(r)
    <3>1. j - k \in 1..n + 1 - k /\ a[k + (j - k)] = a[j]
      BY <2>1
    <3>2. a[k + (j - k)].id \in Ids(r)
      BY <1>13, <3>1
    <3> QED BY <3>1, <3>2
  <2> QED BY <2>3, <2>4
<1>16. Ids(r) = (Ids(q) \ D) \cup {m + 1}
  <2>1. ASSUME NEW x \in Ids(r) PROVE x \in (Ids(q) \ D) \cup {m + 1}
    <3>1. PICK j \in k + 1..n + 1 : x = a[j].id
      BY <1>15
    <3>2. CASE j = n + 1
      BY <1>2, <3>1, <3>2
    <3>3. CASE j # n + 1
      <4>1. j \in 1..n /\ x = q[j].id
        BY <1>1, <1>2, <3>1, <3>3
      <4>2. \A i \in 1..k : i \in 1..n /\ i < j
        BY <1>1
      <4>3. \A i \in 1..k : q[i].id < q[j].id /\ q[i].id \in Nat /\ q[j].id \in Nat
        BY <1>7, <4>1, <4>2 DEF Road, InOrder
      <4>4. x \notin D
        BY SMTT(20), <1>13, <4>1, <4>3
      <4> QED BY <1>13, <4>1, <4>4
    <3> QED BY <3>2, <3>3
  <2>2. m + 1 \in Ids(r)
    <3>1. n + 1 \in k + 1..n + 1
      BY <1>1
    <3> QED BY <1>2, <1>15, <3>1
  <2>3. ASSUME NEW x \in Ids(q) \ D PROVE x \in Ids(r)
    <3>1. PICK j \in 1..n : x = q[j].id
      BY <1>13
    <3>2. j \notin 1..k
      BY <1>13, <2>3, <3>1
    <3>3. j \in k + 1..n + 1 /\ a[j] = q[j]
      BY <1>1, <1>2, <3>2
    <3> QED BY <1>15, <3>1, <3>3
  <2> QED BY <2>1, <2>2, <2>3
<1>17. OwedOf(r, out) = (OwedOf(q, out) \ D) \cup {m + 1}
  <2>1. \A o \in out : o.id \notin D
    <3>1. \A o \in out : o.id \in Nat
      BY FrameBytes DEF Road, One
    <3>2. \A o \in out, i \in 1..k : o.id < q[i].id /\ q[i].id \in Nat
      BY <1>6, <1>7 DEF Road, InOrder
    <3> QED BY <1>13, <3>1, <3>2
  <2> QED BY <1>16, <2>1 DEF OwedOf
<1>18. ASSUME NEW d \in D, NEW g \in OwedOf(q, out), g < d
       PROVE  g \in D \/ \E o \in out : g = o.id
  <2>1. PICK i \in 1..k : d = q[i].id
    BY <1>13
  <2>2. ASSUME g \in Ids(q) PROVE g \in D
    <3>1. PICK j \in 1..n : g = q[j].id
      BY <1>13, <2>2
    <3>2. ~(i < j)
      <4>1. i \in 1..n
        BY <1>6
      <4>2. i < j => q[i].id < q[j].id
        BY <4>1 DEF Road, InOrder
      <4> QED BY <1>7, <1>18, <2>1, <3>1, <4>1, <4>2
    <3>3. j \in 1..k
      BY <1>1, <3>2
    <3> QED BY <1>13, <3>1, <3>3
  <2> QED BY <2>2 DEF OwedOf
<1> QED BY <1>11, <1>12, <1>14, <1>17, <1>18 DEF r, p, a

-----------------------------------------------------------------------------
(* The inductive invariant.                                                *)

\* TypeOK, but for what Road says.
Types ==
  /\ retry \in BOOLEAN /\ answered \subseteq 1..MaxFrames
  /\ phase \in {"running", "draining", "ending", "exited"} /\ force \in BOOLEAN
  /\ socket \in BOOLEAN /\ renewPending \in BOOLEAN /\ queueEmpty \in BOOLEAN
  /\ renewTimer \in BOOLEAN /\ recent \in BOOLEAN
  /\ published \in Nat /\ dropped \in Nat
  /\ made \in 0..MaxFrames /\ failures \in Nat /\ gap \in BOOLEAN

\* The broker has heard of no frame that is owed but the oldest, and that was the last it heard of.
HeardInOrder ==
  /\ received \subseteq 1..made
  /\ last \in received \cup {0}
  /\ \A g \in Owed : last <= g /\ (g \in received => g = last)

Works == phase \in {"running", "draining"}

\* Once the drain is over what was owed is counted, and whatever becomes of it is no loss.
Accounted ==
  IF Works
  THEN made <= dropped + Cardinality(received \cup Owed)
  ELSE made <= dropped + Cardinality(received)

OnRoad == Road(queue, bytes, inFlight, made)

IInv == Types /\ OnRoad /\ HeardInOrder /\ Accounted /\ NeverIdle /\ GapKept

LEMMA OwedIs == Owed = OwedOf(queue, inFlight)
BY DEF Owed, OwedOf

\* What is owed, and what the broker has, was made.
LEMMA OwedMade ==
  ASSUME OnRoad, made \in Nat
  PROVE  Owed \subseteq 1..made /\ IsFiniteSet(Owed)
<1>1. IsFiniteSet(Owed)
  BY OwedIs, OwedCount DEF OnRoad
<1>2. queue \in Seq(Frame)
  BY DEF OnRoad, Road
<1>3. \A i \in 1..Len(queue) : queue[i].id \in 1..made
  <2> TAKE i \in 1..Len(queue)
  <2>1. queue[i] \in Frame /\ queue[i].id <= made
    BY <1>2 DEF OnRoad, Road, InOrder
  <2> QED BY <2>1, FrameBytes, ConstantsAssumption
<1>4. \A f \in inFlight : f.id \in 1..made
  <2> TAKE f \in inFlight
  <2>1. f \in Frame /\ f.id <= made
    BY DEF OnRoad, Road, InOrder, One
  <2> QED BY <2>1, FrameBytes, ConstantsAssumption
<1> QED BY <1>1, <1>2, <1>3, <1>4, IdsAre DEF Owed

LEMMA ReceivedFinite ==
  ASSUME received \subseteq 1..made, made \in Nat
  PROVE  IsFiniteSet(received) /\ Cardinality(received) \in Nat
<1>1. IsFiniteSet(1..made)
  BY FS_Interval
<1>2. received \in SUBSET (1..made)
  OBVIOUS
<1> QED BY <1>1, <1>2, FS_Subset, FS_CardinalityType

\* A step that moves no frame leaves the road as it was.
LEMMA RoadLies ==
  ASSUME IInv, UNCHANGED <<queue, bytes, inFlight, made, broker>>
  PROVE  OnRoad' /\ HeardInOrder' /\ Owed' = Owed
<1>1. OnRoad'
  BY DEF IInv, OnRoad
<1>2. Owed' = Owed
  BY DEF Owed, Ids
<1> QED BY <1>1, <1>2 DEF IInv, HeardInOrder, broker

LEMMA InitIInv == Init => IInv
<1> SUFFICES ASSUME Init PROVE IInv
  OBVIOUS
<1>1. Types
  <2>1. made \in 0..MaxFrames /\ published \in Nat /\ dropped \in Nat /\ failures \in Nat
    BY ConstantsAssumption DEF Init
  <2> QED BY <2>1 DEF Init, Types
<1>2. queue = <<>> /\ inFlight = {} /\ bytes = 0 /\ Len(<<>>) = 0 /\ <<>> \in Seq(Frame)
  BY DEF Init
<1>3. OnRoad
  BY <1>2, TotalEmpty DEF OnRoad, Road, One, InOrder, Snug
<1>4. Owed = {}
  <2>1. \A i \in 1..Len(<<>>) : FALSE
    BY <1>2
  <2>2. Ids(<<>>) = {}
    BY <1>2, <2>1, IdsAre, Zenon
  <2> QED BY <1>2, <2>2 DEF Owed
<1>5. HeardInOrder
  BY <1>4 DEF Init, HeardInOrder
<1>6. Accounted
  BY <1>4, FS_EmptySet DEF Init, Accounted, Works
<1> QED BY <1>1, <1>3, <1>4, <1>5, <1>6 DEF IInv, NeverIdle, GapKept, Init

-----------------------------------------------------------------------------
(* Each action keeps it.                                                   *)

\* Dropping some and adding one loses no more than is dropped.
LEMMA CountPushed ==
  ASSUME NEW U, IsFiniteSet(U), NEW D, IsFiniteSet(D), NEW x, x \notin U,
         NEW V, IsFiniteSet(V), (U \ D) \cup {x} \subseteq V
  PROVE  /\ Cardinality(U) \in Nat /\ Cardinality(D) \in Nat /\ Cardinality(V) \in Nat
         /\ Cardinality(U) + 1 <= Cardinality(V) + Cardinality(D)
<1>1. IsFiniteSet(U \ D) /\ Cardinality(U \ D) = Cardinality(U) - Cardinality(U \cap D)
  BY FS_Difference
<1>2. U \cap D \in SUBSET D /\ IsFiniteSet(U \cap D) /\ Cardinality(U \cap D) <= Cardinality(D)
  BY FS_Subset
<1>3. /\ IsFiniteSet((U \ D) \cup {x})
      /\ Cardinality((U \ D) \cup {x}) = Cardinality(U \ D) + 1
  BY <1>1, FS_AddElement
<1>4. Cardinality((U \ D) \cup {x}) <= Cardinality(V)
  BY FS_Subset
<1>5. /\ Cardinality(U) \in Nat /\ Cardinality(D) \in Nat /\ Cardinality(V) \in Nat
      /\ Cardinality(U \cap D) \in Nat /\ Cardinality(U \ D) \in Nat
      /\ Cardinality((U \ D) \cup {x}) \in Nat
  BY <1>1, <1>2, <1>3, FS_CardinalityType
<1> QED BY <1>1, <1>2, <1>3, <1>4, <1>5

\* What a push makes of the road: k frames are dropped, D by name.
LEMMA EnqueueRoad ==
  ASSUME IInv, NEW b \in Sizes, Enqueue(b)
  PROVE  /\ OnRoad'
         /\ \E D \in SUBSET Owed :
              /\ IsFiniteSet(D) /\ dropped' = dropped + Cardinality(D)
              /\ Cardinality(D) \in Nat
              /\ Owed' = (Owed \ D) \cup {made + 1}
              /\ \A d \in D, g \in Owed :
                   g < d => g \in D \/ \E o \in inFlight : g = o.id
              /\ renewPending' = (renewPending \/ (Cardinality(D) > 0 /\ socket))
              /\ gap' = (gap \/ Cardinality(D) > 0)
         /\ retry' \in BOOLEAN /\ failures' \in Nat
         /\ NeverIdle'
<1> DEFINE f == [id |-> made + 1, bytes |-> b]
           q == Append(queue, f)
           k == Overflow(q)
           freed == Total(SubSeq(q, 1, k))
           r == Without(q, k)
           D == Ids(SubSeq(q, 1, k))
<1>1. made \in Nat /\ made + 1 \in 1..MaxFrames /\ failures \in Nat /\ retry \in BOOLEAN
  BY ConstantsAssumption DEF IInv, Types, Enqueue
<1>2. f \in Frame /\ f.id = made + 1 /\ f.bytes = b
  BY <1>1 DEF Frame
<1>3. OnRoad /\ Road(queue, bytes, inFlight, made) /\ queue \in Seq(Frame)
  BY DEF IInv, OnRoad, Road
<1>4. Pump(r, bytes + b - freed, inFlight, retry)
  BY DEF Enqueue
<1>5. /\ made' = made + 1 /\ phase' = phase
      /\ dropped' = dropped + k
      /\ renewPending' = (renewPending \/ (k > 0 /\ socket))
      /\ gap' = (gap \/ k > 0)
  BY DEF Enqueue
<1> HIDE DEF f
<1>6. q \in Seq(Frame) /\ q # <<>> /\ Len(q) = Len(queue) + 1 /\ Len(queue) \in Nat
  BY <1>2, <1>3, AppendProperties, LenProperties
<1>7. k \in 0..Len(queue) /\ (Total(r) <= Cap \/ k = Len(queue))
  <2>1. k \in 0..Len(q) - 1 /\ (Total(r) <= Cap \/ k = Len(q) - 1)
    BY <1>6, OverflowFits
  <2> HIDE DEF q, k, r
  <2> QED BY <1>6, <2>1
<1> HIDE DEF k
<1>8. /\ Road(r, bytes + f.bytes - freed, inFlight, made + 1)
      /\ IsFiniteSet(D) /\ Cardinality(D) = k
      /\ D \subseteq Ids(queue)
      /\ OwedOf(r, inFlight) = (OwedOf(queue, inFlight) \ D) \cup {made + 1}
      /\ \A d \in D, g \in OwedOf(queue, inFlight) :
           g < d => g \in D \/ \E o \in inFlight : g = o.id
  BY <1>1, <1>2, <1>3, <1>7, RoadPushed
<1> HIDE DEF q, r, freed, D
<1>9. /\ Same(r, bytes + b - freed, inFlight) \/ Taken(r, bytes + b - freed, inFlight)
      /\ retry' \in BOOLEAN /\ failures' \in Nat
      /\ Works /\ queue' # <<>> => inFlight' # {} \/ retry'
  BY <1>1, <1>4, PumpSteps DEF Works
<1>10. /\ Road(queue', bytes', inFlight', made + 1)
       /\ OwedOf(queue', inFlight') = OwedOf(r, inFlight)
  BY <1>2, <1>8, <1>9, RoadPumped
<1>11. OnRoad'
  BY <1>5, <1>10 DEF OnRoad
<1>12. Owed' = OwedOf(queue', inFlight')
  BY DEF Owed, OwedOf, Ids
<1>13. D \in SUBSET Owed /\ Owed' = (Owed \ D) \cup {made + 1}
  BY <1>8, <1>10, <1>12, OwedIs DEF OwedOf
<1>14. NeverIdle'
  BY <1>5, <1>9 DEF NeverIdle, Works
<1>15. k \in Nat
  BY <1>7
<1> QED BY <1>5, <1>8, <1>9, <1>11, <1>13, <1>14, <1>15, OwedIs

LEMMA EnqueueKeeps ==
  ASSUME IInv, NEW b \in Sizes, Enqueue(b)
  PROVE  IInv'
<1>1. /\ OnRoad /\ HeardInOrder /\ Accounted /\ GapKept /\ Types
      /\ made \in Nat /\ dropped \in Nat /\ phase = "running"
  BY DEF IInv, Types, Enqueue
<1>2. /\ made' = made + 1 /\ made < MaxFrames /\ queueEmpty' = FALSE
      /\ UNCHANGED <<answered, phase, force, socket, renewTimer, recent, published, broker>>
  BY DEF Enqueue
<1>3. PICK D \in SUBSET Owed :
        /\ IsFiniteSet(D) /\ dropped' = dropped + Cardinality(D)
        /\ Cardinality(D) \in Nat
        /\ Owed' = (Owed \ D) \cup {made + 1}
        /\ renewPending' = (renewPending \/ (Cardinality(D) > 0 /\ socket))
        /\ gap' = (gap \/ Cardinality(D) > 0)
  BY EnqueueRoad
<1>4. OnRoad' /\ retry' \in BOOLEAN /\ failures' \in Nat /\ NeverIdle'
  BY EnqueueRoad
<1>5. Types'
  <2>1. made' \in 0..MaxFrames /\ dropped' \in Nat
    BY <1>1, <1>2, <1>3, ConstantsAssumption DEF Types
  <2>2. renewPending' \in BOOLEAN /\ gap' \in BOOLEAN
    BY <1>3
  <2> QED BY <1>1, <1>2, <1>4, <2>1, <2>2 DEF Types
<1>6. Owed \subseteq 1..made /\ IsFiniteSet(Owed)
  BY <1>1, OwedMade
<1>7. received \subseteq 1..made /\ last \in 0..made
  BY <1>1 DEF HeardInOrder
<1>8. HeardInOrder'
  <2>1. received' = received /\ last' = last
    BY <1>2 DEF broker
  <2>2. received \subseteq 1..made + 1 /\ made + 1 \notin received /\ last <= made + 1
    BY <1>1, <1>7
  <2> QED BY <1>1, <1>2, <1>3, <2>1, <2>2 DEF HeardInOrder
<1>9. Accounted'
  <2>1. IsFiniteSet(received) /\ IsFiniteSet(received \cup Owed)
    BY <1>1, <1>6, <1>7, ReceivedFinite, FS_Union
  <2>2. Owed' \subseteq Owed \cup {made + 1}
    BY <1>3
  <2>3. IsFiniteSet(Owed \cup {made + 1})
    BY <1>6, FS_AddElement
  <2>4. IsFiniteSet(Owed')
    BY <2>2, <2>3, FS_Subset
  <2>5. IsFiniteSet(received \cup Owed')
    BY <2>1, <2>4, FS_Union
  <2>6. made + 1 \notin received \cup Owed
    BY <1>1, <1>6, <1>7
  <2>7. ((received \cup Owed) \ D) \cup {made + 1} \subseteq received \cup Owed'
    BY <1>3
  <2>8. /\ Cardinality(received \cup Owed) \in Nat /\ Cardinality(received \cup Owed') \in Nat
        /\ Cardinality(received \cup Owed) + 1 <= Cardinality(received \cup Owed') + Cardinality(D)
    BY <1>3, <2>1, <2>5, <2>6, <2>7, CountPushed
  <2>9. made <= dropped + Cardinality(received \cup Owed)
    BY <1>1 DEF Accounted, Works
  <2>10. made + 1 <= dropped + Cardinality(D) + Cardinality(received \cup Owed')
    BY <1>1, <1>3, <2>8, <2>9
  <2>11. received' = received
    BY <1>2 DEF broker
  <2> QED BY <1>1, <1>2, <1>3, <2>10, <2>11 DEF Accounted, Works
<1>10. GapKept'
  BY <1>1, <1>2, <1>3 DEF GapKept
<1> QED BY <1>4, <1>5, <1>8, <1>9, <1>10 DEF IInv

\* What is out is one frame, older than whatever waits, and the broker may have just had it.
LEMMA OutIsOldest ==
  ASSUME OnRoad, NEW f \in inFlight
  PROVE  /\ f \in Frame /\ inFlight = {f} /\ f.id \in Owed /\ f.id \in Nat
         /\ \A g \in Owed : f.id <= g
<1>1. f \in Frame /\ inFlight = {f} /\ f.id \in Nat
  BY FrameBytes DEF OnRoad, Road, One
<1>2. queue \in Seq(Frame) /\ \A i \in 1..Len(queue) : f.id < queue[i].id
  BY DEF OnRoad, Road, InOrder
<1>3. \A i \in 1..Len(queue) : queue[i].id \in Nat
  BY <1>2, FrameBytes
<1>4. \A g \in Ids(queue) : f.id <= g
  BY <1>1, <1>2, <1>3, IdsAre
<1> QED BY <1>1, <1>4 DEF Owed

LEMMA ArrivesKeeps == ASSUME IInv, Arrives PROVE IInv'
<1>1. /\ OnRoad /\ HeardInOrder /\ Accounted /\ Types /\ made \in Nat /\ dropped \in Nat
  BY DEF IInv, Types
<1>2. PICK f \in inFlight : received' = received \cup {f.id} /\ last' = f.id
  BY DEF Arrives
<1>3. UNCHANGED <<queue, bytes, inFlight, retry, answered, phase, force, socket, renewPending,
                  queueEmpty, renewTimer, recent, gap, published, dropped, made, failures>>
  BY DEF Arrives, fifo, renewal
<1>4. f.id \in Owed /\ f.id \in Nat /\ \A g \in Owed : f.id <= g
  BY <1>1, OutIsOldest
<1>5. Owed' = Owed /\ OnRoad'
  BY <1>1, <1>3 DEF Owed, Ids, OnRoad
<1>6. Types' /\ NeverIdle' /\ GapKept'
  BY <1>3, <1>5 DEF IInv, Types, NeverIdle, GapKept
<1>7. Owed \subseteq 1..made /\ IsFiniteSet(Owed)
  BY <1>1, OwedMade
<1>8. HeardInOrder'
  <2>1. received' \subseteq 1..made /\ last' \in received'
    BY <1>1, <1>2, <1>4, <1>7 DEF HeardInOrder
  <2>2. ASSUME NEW g \in Owed PROVE last' <= g /\ (g \in received' => g = last')
    <3>1. f.id <= g /\ g \in Nat /\ last <= f.id
      BY <1>1, <1>4, <1>7 DEF HeardInOrder
    <3>2. ASSUME g \in received PROVE g = f.id
      <4>1. g = last
        BY <1>1, <3>2 DEF HeardInOrder
      <4> QED BY <1>4, <3>1, <4>1
    <3> QED BY <1>2, <3>1, <3>2
  <2> QED BY <1>3, <1>5, <2>1, <2>2 DEF HeardInOrder
<1>9. Accounted'
  <2>1. received \subseteq 1..made /\ received' \subseteq 1..made
    BY <1>1, <1>2, <1>4, <1>7 DEF HeardInOrder
  <2>2. IsFiniteSet(1..made)
    BY <1>1, FS_Interval
  <2>3. IsFiniteSet(received) /\ IsFiniteSet(received')
    BY <2>1, <2>2, FS_Subset
  <2>4. Cardinality(received) <= Cardinality(received')
    BY <1>2, <2>3, FS_Subset
  <2>5. received' \cup Owed = received \cup Owed
    BY <1>2, <1>4
  <2>6. Cardinality(received) \in Nat /\ Cardinality(received') \in Nat
    BY <2>3, FS_CardinalityType
  <2>7. made <= dropped + Cardinality(received) => made <= dropped + Cardinality(received')
    BY <1>1, <2>4, <2>6
  <2>8. CASE Works
    BY <1>1, <1>3, <1>5, <2>5, <2>8 DEF Accounted, Works
  <2>9. CASE ~Works
    BY <1>1, <1>3, <2>7, <2>9 DEF Accounted, Works
  <2> QED BY <2>8, <2>9
<1> QED BY <1>3, <1>5, <1>6, <1>8, <1>9 DEF IInv

\* The renewal, whatever brings it about, forgets no hole.
LEMMA RenewalKeeps ==
  ASSUME Types, GapKept, NEW empty \in BOOLEAN, NEW armed \in BOOLEAN,
         MaybeRenew(empty, armed)
  PROVE  /\ socket' = socket /\ queueEmpty' = empty
         /\ renewPending' \in BOOLEAN /\ renewTimer' \in BOOLEAN
         /\ recent' \in BOOLEAN /\ gap' \in BOOLEAN
         /\ gap' /\ socket' => renewPending'
BY DEF MaybeRenew, RenewAll, Types, GapKept

LEMMA AckKeeps == ASSUME IInv, Ack PROVE IInv'
<1>1. /\ OnRoad /\ HeardInOrder /\ Accounted /\ Types /\ GapKept
      /\ made \in Nat /\ dropped \in Nat /\ published \in Nat /\ retry \in BOOLEAN
      /\ failures \in Nat /\ renewTimer \in BOOLEAN
  BY DEF IInv, Types
<1>2. PICK f \in inFlight : f.id \in received /\ answered' = answered \cup {f.id}
  BY DEF Ack
<1>3. /\ f \in Frame /\ inFlight = {f} /\ f.id \in Owed /\ f.id \in 1..MaxFrames
      /\ \A g \in Owed : f.id <= g
  BY <1>1, OutIsOldest, FrameBytes
<1>4. /\ published' = published + 1 /\ Pump(queue, bytes, {}, retry)
      /\ UNCHANGED <<phase, force, dropped, broker, made>>
  BY DEF Ack, Acknowledged
<1>5. Road(queue, bytes, {}, made) /\ OwedOf(queue, {}) = Owed \ {f.id}
  <2>1. Road(queue, bytes, {f}, made)
    BY <1>1, <1>3 DEF OnRoad
  <2> QED BY <1>3, <2>1, RoadAcked, OwedIs
<1>6. /\ Same(queue, bytes, {}) \/ Taken(queue, bytes, {})
      /\ retry' \in BOOLEAN /\ failures' \in Nat
      /\ Works /\ queue' # <<>> => inFlight' # {} \/ retry'
  BY <1>1, <1>4, PumpSteps DEF Works
<1>7. OnRoad' /\ Owed' = Owed \ {f.id}
  <2>1. /\ Road(queue', bytes', inFlight', made)
        /\ OwedOf(queue', inFlight') = OwedOf(queue, {})
    BY <1>5, <1>6, RoadPumped
  <2>2. Owed' = OwedOf(queue', inFlight')
    BY DEF Owed, OwedOf, Ids
  <2> QED BY <1>4, <1>5, <2>1, <2>2 DEF OnRoad
<1>8. /\ renewPending' \in BOOLEAN /\ renewTimer' \in BOOLEAN /\ queueEmpty' \in BOOLEAN
      /\ recent' \in BOOLEAN /\ gap' \in BOOLEAN /\ socket' \in BOOLEAN /\ GapKept'
  <2>1. CASE queue = <<>>
    <3>1. MaybeRenew(TRUE, renewTimer)
      BY <2>1 DEF Ack, Acknowledged
    <3>2. queue' = <<>> /\ inFlight' = {}
      BY <1>6, <2>1 DEF Same, Taken
    <3>3. Owed' = {}
      <4>1. queue' = queue
        BY <2>1, <3>2
      <4>2. Ids(queue') = Ids(queue) /\ Owed' = Ids(queue')
        BY <3>2, <4>1 DEF Owed, Ids
      <4>3. \A g \in Ids(queue) : f.id # g
        BY <1>5 DEF OwedOf
      <4>4. Ids(queue) = {}
        <5>1. queue \in Seq(Frame) /\ Len(queue) = 0
          BY <1>1, <2>1 DEF OnRoad, Road
        <5>2. \A i \in 1..Len(queue) : FALSE
          BY <5>1
        <5> QED BY <5>1, <5>2, IdsAre, Zenon
      <4> QED BY <4>2, <4>4
    <3> QED BY <1>1, <3>1, <3>3, RenewalKeeps DEF GapKept, Types
  <2>2. CASE queue # <<>>
    <3>1. UNCHANGED renewal
      BY <2>2 DEF Ack, Acknowledged
    <3>2. ~queueEmpty
      BY <1>1, <1>3 DEF GapKept
    <3> QED BY <1>1, <3>1, <3>2 DEF GapKept, Types, renewal
  <2> QED BY <2>1, <2>2
<1>9. Types'
  <2>1. answered' \subseteq 1..MaxFrames
    <3>1. answered \subseteq 1..MaxFrames /\ answered' = answered \cup {f.id}
      BY <1>1, <1>2 DEF Types
    <3> QED BY <1>3, <3>1, Zenon
  <2>2. published' \in Nat
    BY <1>1, <1>4
  <2> QED BY <1>1, <1>4, <1>6, <1>8, <2>1, <2>2 DEF Types
<1>10. HeardInOrder'
  BY <1>1, <1>2, <1>3, <1>4, <1>7 DEF HeardInOrder, broker
<1>11. Accounted'
  <2>1. received \cup Owed' = received \cup Owed
    BY <1>2, <1>7
  <2> QED BY <1>1, <1>4, <2>1 DEF Accounted, Works, broker
<1>12. NeverIdle'
  BY <1>4, <1>6 DEF NeverIdle, Works
<1> QED BY <1>7, <1>8, <1>9, <1>10, <1>11, <1>12 DEF IInv

LEMMA FailKeeps == ASSUME IInv, Fail PROVE IInv' /\ Owed' = Owed
<1>1. /\ OnRoad /\ HeardInOrder /\ Accounted /\ Types /\ GapKept
      /\ made \in Nat /\ dropped \in Nat /\ failures \in Nat
  BY DEF IInv, Types
<1>2. PICK f \in inFlight : /\ queue' = <<f>> \o queue /\ bytes' = bytes + f.bytes
                            /\ answered' = answered \cup {f.id}
  BY DEF Fail
<1>3. /\ inFlight' = {} /\ retry' = Works /\ failures' = failures + 1
      /\ UNCHANGED <<phase, force, socket, renewPending, queueEmpty, renewTimer, recent, gap,
                     published, dropped, received, last, made>>
  BY DEF Fail, Failure, renewal, broker, Works
<1>4. f \in Frame /\ inFlight = {f} /\ f.id \in 1..MaxFrames
  BY <1>1, OutIsOldest, FrameBytes
<1>5. OnRoad' /\ Owed' = Owed
  <2>1. /\ Road(<<f>> \o queue, bytes + f.bytes, {}, made)
        /\ OwedOf(<<f>> \o queue, {}) = OwedOf(queue, {f})
    BY <1>1, <1>4, RoadFailed DEF OnRoad
  <2>2. Owed' = OwedOf(queue', inFlight')
    BY DEF Owed, OwedOf, Ids
  <2> QED BY <1>2, <1>3, <1>4, <2>1, <2>2, OwedIs DEF OnRoad
<1>6. Types'
  <2>1. answered' \subseteq 1..MaxFrames
    <3>1. answered \subseteq 1..MaxFrames /\ answered' = answered \cup {f.id}
      BY <1>1, <1>2 DEF Types
    <3> QED BY <1>4, <3>1, Zenon
  <2>3. failures' \in Nat
    BY <1>1, <1>3
  <2>2. retry' \in BOOLEAN
    BY <1>3 DEF Works
  <2> QED BY <1>1, <1>3, <2>1, <2>2, <2>3 DEF Types
<1>7. HeardInOrder' /\ Accounted' /\ GapKept'
  BY <1>1, <1>3, <1>5 DEF HeardInOrder, Accounted, GapKept, Works
<1>8. NeverIdle'
  BY <1>3 DEF NeverIdle, Works
<1> QED BY <1>5, <1>6, <1>7, <1>8 DEF IInv

LEMMA RetryKeeps == ASSUME IInv, Retry PROVE IInv' /\ Owed' = Owed
<1>1. OnRoad /\ HeardInOrder /\ Accounted /\ Types /\ GapKept /\ failures \in Nat
  BY DEF IInv, Types
<1>2. /\ Pump(queue, bytes, inFlight, FALSE)
      /\ UNCHANGED <<answered, phase, force, socket, renewPending, queueEmpty, renewTimer,
                     recent, gap, published, dropped, received, last, made>>
  BY DEF Retry, renewal, broker
<1>3. /\ Same(queue, bytes, inFlight) \/ Taken(queue, bytes, inFlight)
      /\ retry' \in BOOLEAN /\ failures' \in Nat
      /\ Works /\ queue' # <<>> => inFlight' # {} \/ retry'
  BY <1>1, <1>2, PumpSteps DEF Works
<1>4. OnRoad' /\ Owed' = Owed
  <2>1. /\ Road(queue', bytes', inFlight', made)
        /\ OwedOf(queue', inFlight') = OwedOf(queue, inFlight)
    BY <1>1, <1>3, RoadPumped DEF OnRoad
  <2>2. Owed' = OwedOf(queue', inFlight')
    BY DEF Owed, OwedOf, Ids
  <2> QED BY <1>2, <2>1, <2>2, OwedIs DEF OnRoad
<1>5. Types' /\ NeverIdle'
  BY <1>1, <1>2, <1>3 DEF Types, NeverIdle, Works
<1>6. HeardInOrder' /\ Accounted' /\ GapKept'
  BY <1>1, <1>2, <1>4 DEF HeardInOrder, Accounted, GapKept, Works
<1> QED BY <1>4, <1>5, <1>6 DEF IInv

LEMMA StopKeeps == ASSUME IInv, Stop PROVE IInv' /\ Owed' = Owed
<1>1. /\ OnRoad /\ HeardInOrder /\ Accounted /\ Types /\ GapKept /\ failures \in Nat
      /\ retry \in BOOLEAN
  BY DEF IInv, Types
<1>2. /\ Pump(queue, bytes, inFlight, retry)
      /\ phase = "running" /\ phase' = "draining" /\ socket' = FALSE /\ renewTimer' = FALSE
      /\ UNCHANGED <<answered, force, renewPending, queueEmpty, recent, gap, published, dropped,
                     received, last, made>>
  BY DEF Stop, broker
<1>3. /\ Same(queue, bytes, inFlight) \/ Taken(queue, bytes, inFlight)
      /\ retry' \in BOOLEAN /\ failures' \in Nat
      /\ queue' # <<>> => inFlight' # {} \/ retry'
  BY <1>1, <1>2, PumpSteps
<1>4. OnRoad' /\ Owed' = Owed
  <2>1. /\ Road(queue', bytes', inFlight', made)
        /\ OwedOf(queue', inFlight') = OwedOf(queue, inFlight)
    BY <1>1, <1>3, RoadPumped DEF OnRoad
  <2>2. Owed' = OwedOf(queue', inFlight')
    BY DEF Owed, OwedOf, Ids
  <2> QED BY <1>2, <2>1, <2>2, OwedIs DEF OnRoad
<1>5. Types' /\ NeverIdle'
  BY <1>1, <1>2, <1>3 DEF Types, NeverIdle
<1>6. HeardInOrder' /\ Accounted' /\ GapKept'
  BY <1>1, <1>2, <1>4 DEF HeardInOrder, Accounted, GapKept, Works
<1> QED BY <1>4, <1>5, <1>6 DEF IInv

\* What is left when the drain is over is what is owed: the queue, and the frame that is out.
LEMMA LeftIsOwed == ASSUME OnRoad PROVE Left = Cardinality(Owed) /\ Left \in Nat
<1>1. /\ Cardinality(inFlight) \in 0..1 /\ Len(queue) \in Nat
      /\ Cardinality(OwedOf(queue, inFlight)) = Len(queue) + Cardinality(inFlight)
  BY OwedCount DEF OnRoad
<1> QED BY <1>1, OwedIs DEF Left

LEMMA DrainKeeps == ASSUME IInv, DrainEnds PROVE IInv' /\ Owed' = Owed
<1>1. /\ OnRoad /\ HeardInOrder /\ Accounted /\ Types /\ GapKept
      /\ made \in Nat /\ dropped \in Nat
  BY DEF IInv, Types
<1>2. /\ phase = "draining" /\ phase' = "ending" /\ dropped' = dropped + Left
      /\ retry' = FALSE /\ force' = (inFlight # {})
      /\ UNCHANGED <<queue, bytes, inFlight, answered, socket, renewPending, queueEmpty,
                     renewTimer, recent, gap, published, received, last, made, failures>>
  BY DEF DrainEnds, renewal, broker
<1>3. Left = Cardinality(Owed) /\ Left \in Nat
  BY <1>1, LeftIsOwed
<1>4. OnRoad' /\ Owed' = Owed
  BY <1>1, <1>2 DEF OnRoad, Owed, Ids
<1>5. Types'
  <2>1. dropped' \in Nat
    BY <1>1, <1>2, <1>3
  <2>2. force' \in BOOLEAN
    BY <1>2
  <2> QED BY <1>1, <1>2, <2>1, <2>2 DEF Types
<1>6. HeardInOrder' /\ GapKept' /\ NeverIdle'
  BY <1>1, <1>2, <1>4 DEF HeardInOrder, GapKept, NeverIdle
<1>7. Accounted'
  <2>1. IsFiniteSet(received) /\ Cardinality(received) \in Nat
    BY <1>1, ReceivedFinite DEF HeardInOrder
  <2>2. IsFiniteSet(Owed) /\ Cardinality(Owed) \in Nat
    BY <1>1, <1>3, OwedMade
  <2>3. IsFiniteSet(received \cap Owed) /\ Cardinality(received \cap Owed) \in Nat
    BY <2>1, FS_Intersection, FS_CardinalityType
  <2>4. /\ IsFiniteSet(received \cup Owed) /\ Cardinality(received \cup Owed) \in Nat
        /\ Cardinality(received \cup Owed)
             = Cardinality(received) + Cardinality(Owed) - Cardinality(received \cap Owed)
    BY <2>1, <2>2, FS_Union, FS_CardinalityType
  <2>5. made <= dropped + Cardinality(received \cup Owed)
    BY <1>1, <1>2 DEF Accounted, Works
  <2>6. made <= dropped + Left + Cardinality(received)
    BY <1>1, <1>3, <2>1, <2>2, <2>3, <2>4, <2>5
  <2>7. ~Works' /\ received' = received /\ made' = made
    BY <1>2 DEF Works
  <2>8. made <= (dropped + Left) + Cardinality(received)
    BY <2>6
  <2> QED BY <1>2, <2>7, <2>8 DEF Accounted
<1> QED BY <1>4, <1>5, <1>6, <1>7 DEF IInv

\* The steps that move no frame: a second answer, the renewal and its timers, the socket, the
\* end of the client.
Aside ==
  \/ AnswersAgain \/ SocketUp \/ SocketDown \/ SilenceRenews \/ RenewTimerFires \/ MinutePasses
  \/ ClientEnds

LEMMA AsideKeeps == ASSUME IInv, Aside PROVE IInv' /\ Owed' = Owed
<1>1. OnRoad /\ HeardInOrder /\ Accounted /\ Types /\ GapKept /\ NeverIdle
  BY DEF IInv
<1>2. UNCHANGED <<queue, bytes, inFlight, retry, force, published, dropped, received, last,
                  made, failures>>
  BY DEF Aside, AnswersAgain, SocketUp, SocketDown, SilenceRenews, RenewTimerFires,
         MinutePasses, ClientEnds, fifo, broker
<1>3. OnRoad' /\ HeardInOrder' /\ Owed' = Owed
  BY <1>2, RoadLies DEF broker
<1>4. /\ answered' \subseteq answered
      /\ phase' = phase \/ (phase = "ending" /\ phase' = "exited")
  BY DEF Aside, AnswersAgain, SocketUp, SocketDown, SilenceRenews, RenewTimerFires,
         MinutePasses, ClientEnds
<1>5. /\ renewPending' \in BOOLEAN /\ renewTimer' \in BOOLEAN /\ queueEmpty' = queueEmpty
      /\ recent' \in BOOLEAN /\ gap' \in BOOLEAN /\ socket' \in BOOLEAN
      /\ gap' /\ socket' => renewPending'
  <2>1. CASE RenewTimerFires
    <3>1. MaybeRenew(queueEmpty, FALSE) /\ queueEmpty \in BOOLEAN /\ socket \in BOOLEAN
      BY <1>1, <2>1 DEF RenewTimerFires, Types
    <3> QED BY <1>1, <3>1, RenewalKeeps
  <2>2. CASE SilenceRenews
    BY <1>1, <2>2 DEF SilenceRenews, RenewAll, Types
  <2>3. CASE SocketUp
    BY <1>1, <2>3 DEF SocketUp, Types
  <2>4. CASE SocketDown
    BY <1>1, <2>4 DEF SocketDown, Types
  <2>5. CASE MinutePasses
    BY <1>1, <2>5 DEF MinutePasses, Types, GapKept
  <2>6. CASE AnswersAgain \/ ClientEnds
    BY <1>1, <2>6 DEF AnswersAgain, ClientEnds, renewal, Types, GapKept
  <2> QED BY <2>1, <2>2, <2>3, <2>4, <2>5, <2>6 DEF Aside
<1>6. Types' /\ NeverIdle'
  BY <1>1, <1>2, <1>4, <1>5 DEF Types, NeverIdle
<1>7. GapKept'
  BY <1>1, <1>3, <1>5 DEF GapKept
<1>8. Accounted'
  <2>1. Works' = Works
    BY <1>4 DEF Works
  <2> QED BY <1>1, <1>2, <1>3, <2>1 DEF Accounted
<1> QED BY <1>3, <1>6, <1>7, <1>8 DEF IInv

LEMMA NextIInv == IInv /\ [Next]_vars => IInv'
<1> SUFFICES ASSUME IInv, [Next]_vars PROVE IInv'
  OBVIOUS
<1>1. CASE \E b \in Sizes : Enqueue(b)
  BY <1>1, EnqueueKeeps
<1>2. CASE Arrives
  BY <1>2, ArrivesKeeps
<1>3. CASE Ack
  BY <1>3, AckKeeps
<1>4. CASE Fail
  BY <1>4, FailKeeps
<1>5. CASE Retry
  BY <1>5, RetryKeeps
<1>6. CASE Stop
  BY <1>6, StopKeeps
<1>7. CASE DrainEnds
  BY <1>7, DrainKeeps
<1>8. CASE Aside
  BY <1>8, AsideKeeps
<1>9. CASE UNCHANGED vars
  BY ZenonT(30), <1>9 DEF vars, IInv, Types, OnRoad, HeardInOrder, Accounted, Works, NeverIdle, GapKept,
              Owed, Ids
<1> QED BY <1>1, <1>2, <1>3, <1>4, <1>5, <1>6, <1>7, <1>8, <1>9 DEF Next, Aside, GraceEnds

-----------------------------------------------------------------------------
(* The theorems.                                                           *)

\* In every behaviour the queue and the publisher lie on a road: whatever is owed is in the
\* order it was made in, its bytes are exact, and all that was made is accounted for.
THEOREM Invariance == Spec => []IInv
<1>1. Init => IInv
  BY InitIInv
<1>2. IInv /\ [Next]_vars => IInv'
  BY NextIInv
<1> QED BY <1>1, <1>2, PTL DEF Spec

\* The variables have the values the code gives them; the client has one frame at most, however
\* answers, retries and pushes interleave (publisher.ts: #inFlight).
THEOREM TypesKept == Spec => []TypeOK
<1>1. IInv => TypeOK
  <2> SUFFICES ASSUME IInv PROVE TypeOK
    OBVIOUS
  <2>1. OnRoad /\ Types /\ HeardInOrder /\ made \in 0..MaxFrames
    BY DEF IInv, Types
  <2>2. queue \in Seq(Frame) /\ bytes = Total(queue) /\ One(inFlight)
    BY <2>1 DEF OnRoad, Road
  <2>3. bytes \in Nat
    BY <2>2, TotalNat
  <2>4. inFlight \subseteq Frame
    BY <2>2 DEF One
  <2>5. Cardinality(inFlight) <= 1
    BY <2>1, OwedCount DEF OnRoad
  <2>6. received \subseteq 1..MaxFrames /\ last \in 0..MaxFrames
    <3>1. 1..made \subseteq 1..MaxFrames
      BY <2>1, ConstantsAssumption
    <3>2. received \subseteq 1..MaxFrames
      BY <2>1, <3>1 DEF HeardInOrder
    <3>3. last = 0 \/ last \in 1..MaxFrames
      BY <2>1, <3>2 DEF HeardInOrder
    <3> QED BY <3>2, <3>3, ConstantsAssumption
  <2> QED BY <2>1, <2>2, <2>3, <2>4, <2>5, <2>6 DEF TypeOK, Types
<1> QED BY <1>1, Invariance, PTL

\* The publisher never stops while it owes a frame: whatever the order of acknowledgements,
\* failures, retries, pushes and the shutdown, one is out or a retry is set (publisher.ts: pump).
THEOREM NeverStops == Spec => []NeverIdle
<1>1. IInv => NeverIdle
  BY DEF IInv
<1> QED BY <1>1, Invariance, PTL

\* The count of bytes is exact through every push, shift and unshift and stays within the cap
\* (queue.ts); every frame made is on the tape, owed, or counted as dropped, to the last one
\* at exit (publisher.ts: drain); and a hole is remembered until a snapshot is asked for
\* (connector.ts: #maybeRenew).
THEOREM AllLossesCounted == Spec => []LossesCounted
<1>1. IInv => LossesCounted
  <2> SUFFICES ASSUME IInv PROVE LossesCounted
    OBVIOUS
  <2>1. OnRoad /\ Types /\ HeardInOrder /\ Accounted /\ made \in Nat /\ dropped \in Nat
    BY DEF IInv, Types
  <2>2. Bounded
    BY <2>1 DEF OnRoad, Road, Snug, Bounded
  <2>3. AllAccounted
    <3>1. CASE Works
      <4>1. phase # "exited"
        BY <3>1 DEF Works
      <4> QED BY <2>1, <3>1, <4>1 DEF AllAccounted, Accounted
    <3>2. CASE ~Works /\ phase # "exited"
      <4>1. IsFiniteSet(received) /\ Cardinality(received) \in Nat
        BY <2>1, ReceivedFinite DEF HeardInOrder
      <4>2. IsFiniteSet(Owed)
        BY <2>1, OwedMade
      <4>3. IsFiniteSet(received \cup Owed) /\ Cardinality(received \cup Owed) \in Nat
        BY <4>1, <4>2, FS_Union, FS_CardinalityType
      <4>4. Cardinality(received) <= Cardinality(received \cup Owed)
        BY <4>3, FS_Subset
      <4>5. made <= dropped + Cardinality(received)
        BY <2>1, <3>2 DEF Accounted
      <4>6. made <= dropped + Cardinality(received \cup Owed)
        BY <2>1, <4>1, <4>3, <4>4, <4>5
      <4> QED BY <3>2, <4>6 DEF AllAccounted
    <3>3. CASE phase = "exited"
      <4>1. ~Works /\ received \cup {} = received
        BY <3>3 DEF Works
      <4> QED BY <2>1, <3>3, <4>1 DEF AllAccounted, Accounted
    <3> QED BY <3>1, <3>2, <3>3
  <2> QED BY <2>2, <2>3 DEF LossesCounted, IInv
<1> QED BY <1>1, Invariance, PTL

\* The abstract road counts as the detailed one does.
LEMMA SameCount == ASSUME NEW S PROVE Fifo!Cardinality(S) = Cardinality(S)
BY DEF Fifo!Cardinality, Cardinality, Fifo!IsFiniteSet, IsFiniteSet

LEMMA InitFifo == Init => Fifo!Init
<1> SUFFICES ASSUME Init PROVE Fifo!Init
  OBVIOUS
<1>1. OnRoad /\ made = 0
  BY InitIInv DEF IInv, Init
<1>2. Owed = {}
  <2>1. Owed \subseteq 1..made /\ 1..0 = {}
    BY <1>1, OwedMade
  <2> QED BY <1>1, <2>1
<1> QED BY <1>2 DEF Init, Fifo!Init

\* A push is a frame made, for which the oldest are given up on.
LEMMA EnqueueMakes ==
  ASSUME IInv, NEW b \in Sizes, Enqueue(b)
  PROVE  \E D \in SUBSET Owed : Fifo!Make(D)
<1>1. PICK D \in SUBSET Owed :
        /\ dropped' = dropped + Cardinality(D)
        /\ Owed' = (Owed \ D) \cup {made + 1}
        /\ \A d \in D, g \in Owed : g < d => g \in D \/ \E o \in inFlight : g = o.id
  BY EnqueueRoad
<1>2. \A o \in inFlight : Fifo!Oldest(o.id)
  BY OutIsOldest DEF IInv, Fifo!Oldest
<1>3. \A d \in D, g \in Owed : g < d => g \in D \/ Fifo!Oldest(g)
  BY <1>1, <1>2
<1>4. /\ phase = "running" /\ phase' = phase /\ made' = made + 1
      /\ received' = received /\ last' = last
  BY DEF Enqueue, broker
<1>5. Fifo!Make(D)
  BY <1>1, <1>3, <1>4, SameCount DEF Fifo!Make
<1> QED BY <1>5

\* The frame that arrives is the oldest that is owed.
LEMMA ArrivesReceives == ASSUME IInv, Arrives PROVE Fifo!Receive
<1>1. PICK f \in inFlight : received' = received \cup {f.id} /\ last' = f.id
  BY DEF Arrives
<1>2. f.id \in Owed /\ Fifo!Oldest(f.id)
  BY OutIsOldest DEF IInv, Fifo!Oldest
<1>3. last <= f.id
  BY <1>2 DEF IInv, HeardInOrder
<1>4. Owed' = Owed /\ UNCHANGED <<made, dropped, phase>>
  BY DEF Arrives, fifo, Owed, Ids
<1> QED BY <1>1, <1>2, <1>3, <1>4 DEF Fifo!Receive

\* The frame that is acknowledged is the one the broker heard of last.
LEMMA AckSettles == ASSUME IInv, Ack PROVE Fifo!Settle
<1>1. PICK f \in inFlight : f.id \in received
  BY DEF Ack
<1>2. f \in Frame /\ inFlight = {f} /\ f.id \in Owed /\ OnRoad
  BY OutIsOldest DEF IInv
<1>3. f.id = last
  BY <1>1, <1>2 DEF IInv, HeardInOrder
<1>4. /\ Pump(queue, bytes, {}, retry) /\ retry \in BOOLEAN /\ failures \in Nat
      /\ UNCHANGED <<phase, dropped, received, last, made>>
  BY DEF Ack, Acknowledged, IInv, Types, broker
<1>5. Road(queue, bytes, {}, made) /\ OwedOf(queue, {}) = Owed \ {f.id}
  <2>1. Road(queue, bytes, {f}, made)
    BY <1>2 DEF OnRoad
  <2> QED BY <1>2, <2>1, RoadAcked, OwedIs
<1>6. Owed' = Owed \ {f.id}
  <2>1. Same(queue, bytes, {}) \/ Taken(queue, bytes, {})
    BY <1>4, PumpSteps
  <2>2. OwedOf(queue', inFlight') = OwedOf(queue, {})
    BY <1>5, <2>1, RoadPumped
  <2> QED BY <1>5, <2>2 DEF Owed, OwedOf, Ids
<1> QED BY <1>2, <1>3, <1>4, <1>6 DEF Fifo!Settle

LEMMA DrainCloses == ASSUME IInv, DrainEnds PROVE Fifo!Close
<1>1. Left = Cardinality(Owed)
  BY LeftIsOwed DEF IInv
<1>2. Owed' = Owed
  BY DrainKeeps
<1>3. /\ phase = "draining" /\ phase' = "ending" /\ dropped' = dropped + Left
      /\ UNCHANGED <<received, last, made>>
  BY DEF DrainEnds, broker
<1> QED BY <1>1, <1>2, <1>3, SameCount DEF Fifo!Close

\* Every other step moves nothing the abstract road can see.
LEMMA OthersStutter ==
  ASSUME IInv, Fail \/ Retry \/ Stop \/ Aside \/ UNCHANGED vars
  PROVE  UNCHANGED Fifo!vars
<1>1. CASE Fail
  BY <1>1, FailKeeps DEF Fail, renewal, broker, Fifo!vars
<1>2. CASE Retry
  BY <1>2, RetryKeeps DEF Retry, renewal, broker, Fifo!vars
<1>3. CASE Stop
  <2>1. phase = "running" /\ phase' = "draining"
    BY <1>3 DEF Stop
  <2>2. (phase \in {"ending", "exited"})' = (phase \in {"ending", "exited"})
    BY <2>1
  <2> QED BY <1>3, <2>2, StopKeeps DEF Stop, broker, Fifo!vars
<1>4. CASE Aside
  <2>1. phase' = phase \/ (phase = "ending" /\ phase' = "exited")
    BY <1>4 DEF Aside, AnswersAgain, SocketUp, SocketDown, SilenceRenews, RenewTimerFires,
                MinutePasses, ClientEnds
  <2>2. (phase \in {"ending", "exited"})' = (phase \in {"ending", "exited"})
    BY <2>1
  <2>3. UNCHANGED <<made, received, last, dropped>>
    BY <1>4 DEF Aside, AnswersAgain, SocketUp, SocketDown, SilenceRenews, RenewTimerFires,
                MinutePasses, ClientEnds, broker
  <2> QED BY <1>4, <2>2, <2>3, AsideKeeps DEF Fifo!vars
<1>5. CASE UNCHANGED vars
  BY <1>5 DEF vars, Owed, Ids, Fifo!vars
<1> QED BY <1>1, <1>2, <1>3, <1>4, <1>5

\* Queue, publisher and connector together implement the abstract road: frames reach the broker
\* in the order they were made in, the last perhaps twice, the newest is never given up on, and
\* every one given up on is counted (queue.ts, publisher.ts).
THEOREM FifoImplemented == Spec => ImplementsFifo
<1>1. Init => Fifo!Init
  BY InitFifo
<1>2. IInv /\ [Next]_vars => [Fifo!Next]_(Fifo!vars)
  <2> SUFFICES ASSUME IInv, [Next]_vars PROVE Fifo!Next \/ UNCHANGED Fifo!vars
    OBVIOUS
  <2>1. CASE \E b \in Sizes : Enqueue(b)
    BY <2>1, EnqueueMakes DEF Fifo!Next
  <2>2. CASE Arrives
    BY <2>2, ArrivesReceives DEF Fifo!Next
  <2>3. CASE Ack
    BY <2>3, AckSettles DEF Fifo!Next
  <2>4. CASE DrainEnds
    BY <2>4, DrainCloses DEF Fifo!Next
  <2>5. CASE Fail \/ Retry \/ Stop \/ Aside \/ UNCHANGED vars
    BY <2>5, OthersStutter
  <2> QED BY <2>1, <2>2, <2>3, <2>4, <2>5 DEF Next, Aside, GraceEnds
<1> QED BY <1>1, <1>2, Invariance, PTL DEF Spec, ImplementsFifo, Fifo!Spec
=============================================================================
