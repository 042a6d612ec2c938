----------------------------- MODULE MCUpgrade -----------------------------
(* Upgrade for TLC: packets of one or two bytes, of the same sum or of none. *)
EXTENDS Upgrade

MCPackets == {<<0>>, <<2>>, <<1, 1>>}
=============================================================================
