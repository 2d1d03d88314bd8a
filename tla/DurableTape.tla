---------------------------- MODULE DurableTape ----------------------------
(***************************************************************************)
(* What ingest promises of the tape (the table raw_message): a message the *)
(* broker has accepted is held for the worker until it is on the tape, and *)
(* the tape forgets nothing.  How the promise is kept (transactions, acks, *)
(* redelivery, restarts) is the business of module Ingest, which           *)
(* implements this one.                                                    *)
(***************************************************************************)
EXTENDS Naturals

CONSTANTS
  Messages,  \* every message the vehicle may send
  Unusable   \* those no reader can place: counted, and let go

VARIABLES
  known,     \* messages the broker has accepted so far
  held,      \* those the broker still holds for the worker
  recorded   \* those on the tape

vars == <<known, held, recorded>>

Init ==
  /\ known = {}
  /\ held = {}
  /\ recorded = {}

\* The broker accepts a message, and holds it.
Accept(m) ==
  /\ m \notin known
  /\ known' = known \cup {m}
  /\ held' = held \cup {m}
  /\ UNCHANGED recorded

\* The worker writes a usable message to the tape.
Record(m) ==
  /\ m \in known \ Unusable
  /\ recorded' = recorded \cup {m}
  /\ UNCHANGED <<known, held>>

\* The broker lets a message go, which it may only do once it is safe.
Release(m) ==
  /\ m \in held
  /\ m \in recorded \cup Unusable
  /\ held' = held \ {m}
  /\ UNCHANGED <<known, recorded>>

Next == \E m \in Messages : Accept(m) \/ Record(m) \/ Release(m)

Spec == Init /\ [][Next]_vars
=============================================================================
