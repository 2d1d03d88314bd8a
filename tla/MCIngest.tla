------------------------------ MODULE MCIngest ------------------------------
(* Ingest for TLC.                                                         *)
EXTENDS Ingest

MCNone == {}
MCSecond == {2}
MCThird == {3}
=============================================================================
