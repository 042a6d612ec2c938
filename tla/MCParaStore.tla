----------------------------- MODULE MCParaStore -----------------------------
(* ParaStore for TLC: photo_num, of range 1..2 and default 1, which zero is not in, and *)
(* warning_volume, of range 0..1 and default 1, in three values and one out of range.   *)
EXTENDS ParaStore

MCInRange == [f \in Fields |-> IF f = "photo_num" THEN {1, 2} ELSE {0, 1}]
MCDefault == [f \in Fields |-> 1]
=============================================================================
