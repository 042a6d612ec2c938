------------------------------ MODULE MCUplink ------------------------------
(* Uplink for TLC: the constants are given by the configurations. *)
EXTENDS Uplink
=============================================================================
