---------------------------- MODULE MCFrameParser ----------------------------
(* FrameParser for TLC: the constants are given by the configurations. *)
EXTENDS FrameParser
=============================================================================
