------------------------------ MODULE MCProcess ------------------------------
(* Process and ParaStore for TLC: video_Resolution of range 1..2 and image_Resolution of *)
(* range 1, both of default 1; zero, which is what parameters never loaded are, is out   *)
(* of range, and so is 2 for the image.                                                  *)
EXTENDS Process

MCInRange == [f \in Fields |-> IF f = Video THEN {1, 2} ELSE {1}]
MCDefault == [f \in Fields |-> 1]
=============================================================================
