-------------------------------- MODULE MCWsi --------------------------------
(* Wsi and DmsAlert for TLC: two settings of the video times, and two topics (the DMS     *)
(* build has one of its own, the ADAS build two).                                         *)
EXTENDS Wsi

MCFilterTimes == {[a \in Alerts |-> 1], [a \in Alerts |-> IF a = "FATIGUE" THEN 1 ELSE 2]}
MCTopics == <<"MESSAGE_CAN700", "MESSAGE_CAN760">>
=============================================================================
