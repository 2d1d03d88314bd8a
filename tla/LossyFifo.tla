------------------------------ MODULE LossyFifo ------------------------------
(***************************************************************************)
(* What the road from the Rivian socket to the broker promises.            *)
(*                                                                         *)
(* Frames are numbered as they are made.  They reach the broker's tape in  *)
(* that order, one at a time, the last one perhaps more than once.  Some   *)
(* never do: a run of the oldest that wait may be given up on, never the   *)
(* newest, and every one given up on is counted.  Closing counts whatever  *)
(* is still owed.                                                          *)
(***************************************************************************)
EXTENDS Integers, FiniteSets

VARIABLES
  made,     \* frames so far
  owed,     \* those neither acknowledged nor given up on
  tape,     \* those the broker has
  last,     \* the one it received last
  counted,  \* the number reported as dropped
  closed

vars == <<made, owed, tape, last, counted, closed>>

Oldest(f) == f \in owed /\ \A g \in owed : f <= g

Init ==
  /\ made = 0 /\ owed = {} /\ tape = {} /\ last = 0
  /\ counted = 0 /\ closed = FALSE

\* A frame is made, and D are given up on for it: the oldest, but for the one that
\* may already be on its way.
Make(D) ==
  /\ ~closed
  /\ D \subseteq owed
  /\ \A f \in D, g \in owed : g < f => g \in D \/ Oldest(g)
  /\ made' = made + 1
  /\ owed' = (owed \ D) \cup {made + 1}
  /\ counted' = counted + Cardinality(D)
  /\ UNCHANGED <<tape, last, closed>>

\* The broker receives the oldest frame owed (again, perhaps).
Receive ==
  /\ \E f \in owed : Oldest(f) /\ last <= f /\ last' = f /\ tape' = tape \cup {f}
  /\ UNCHANGED <<made, owed, counted, closed>>

\* It is acknowledged.
Settle ==
  /\ last \in owed
  /\ owed' = owed \ {last}
  /\ UNCHANGED <<made, tape, last, counted, closed>>

\* The end: what is owed is counted, though the broker may have it yet.
Close ==
  /\ ~closed
  /\ closed' = TRUE
  /\ counted' = counted + Cardinality(owed)
  /\ UNCHANGED <<made, owed, tape, last>>

Next == (\E D \in SUBSET owed : Make(D)) \/ Receive \/ Settle \/ Close

Spec == Init /\ [][Next]_vars
=============================================================================
