----------------------------- MODULE MCAdasAlert -----------------------------
(* AdasAlert for TLC: the constants are given by the configurations. *)
EXTENDS AdasAlert
=============================================================================
