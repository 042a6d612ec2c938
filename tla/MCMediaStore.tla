---------------------------- MODULE MCMediaStore ----------------------------
(* MediaStore for TLC: an alert with a photo and a video, a snapshot of one photo, a      *)
(* snapshot of none, an alert with neither.                                               *)
EXTENDS MediaStore

MCPlans == {[snap |-> FALSE, photos |-> 1, video |-> TRUE],
            [snap |-> TRUE,  photos |-> 1, video |-> FALSE],
            [snap |-> TRUE,  photos |-> 0, video |-> FALSE],
            [snap |-> FALSE, photos |-> 0, video |-> FALSE]}
=============================================================================
