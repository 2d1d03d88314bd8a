----------------------------- MODULE MCPublisher -----------------------------
(* Publisher for TLC: frames that fill the cap together, and one alone that *)
(* does not fit.                                                            *)
EXTENDS Publisher

MCSizes == {1, 2, 4}
=============================================================================
