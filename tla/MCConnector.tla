----------------------------- MODULE MCConnector -----------------------------
(* Connector for TLC: the bounds are in the configurations.                *)
EXTENDS Connector
=============================================================================
