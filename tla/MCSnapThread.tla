---------------------------- MODULE MCSnapThread ----------------------------
(* SnapThread for TLC: photos off, by time every two seconds, and by distance with a    *)
(* period that takes two units; an odometer that may also go back.                      *)
EXTENDS SnapThread

MCSettings == {[mode |-> "CLOSE", time |-> 1, distance |-> 3],
               [mode |-> "TIME", time |-> 2, distance |-> 3],
               [mode |-> "DISTANCE", time |-> 1, distance |-> 3]}
=============================================================================
