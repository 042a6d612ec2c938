------------------------------ MODULE Heartbeat ------------------------------
(***************************************************************************)
(* The supervision of the link (process.cpp, TCP build with use_heart):    *)
(* the receive thread marks the heartbeat alive on every speed message;    *)
(* the snap thread, in check_heart_beat, looks at the mark once a second,  *)
(* wipes it, counts the seconds without one and closes the socket after    *)
(* check_heart_period of them.                                             *)
(*                                                                         *)
(* Reading the mark and wiping it are two critical sections of             *)
(* heart_beat_process, and a beat may arrive between them; deciding to     *)
(* close and closing are apart as well.  Time is counted in whole seconds. *)
(***************************************************************************)
EXTENDS Integers

CONSTANT Period     \* check_heart_period

ASSUME HeartAssumption == Period \in Nat \ {0}

VARIABLES
    hpc,        \* snap thread in check_heart_beat and tcp_socket_close
    rpc,        \* receive thread: connecting or receiving
    beat,       \* heart_beat_status
    count,      \* check_heart_beat: seconds without a heartbeat
    stamp,      \* seconds since s_record_last (capped at 1)
    conn,       \* process_socket_status
    sock,       \* the connection behind handle->fd
    \* history, read by the properties only
    silence     \* seconds since the last beat (capped at Period + 1)

vars == <<hpc, rpc, beat, count, stamp, conn, sock, silence>>

-----------------------------------------------------------------------------
(* The snap thread. *)

(* Without a connection the second is restarted and nothing is counted; count is kept. *)
CheckOff ==
    /\ hpc = "idle" /\ conn = "OFF"
    /\ stamp' = 0
    /\ UNCHANGED <<hpc, rpc, beat, count, conn, sock, silence>>

(* limit_record_time: at most one check a second. *)
CheckStart ==
    /\ hpc = "idle" /\ conn = "ON"
    /\ stamp >= 1
    /\ stamp' = 0
    /\ hpc' = "read"
    /\ UNCHANGED <<rpc, beat, count, conn, sock, silence>>

(* Mutation of ReadDeath: the limit is off by one. *)
ReadDeathLate ==
    /\ hpc = "read" /\ beat = "DEATH"
    /\ IF count + 1 > Period
       THEN count' = 0 /\ hpc' = "close"
       ELSE count' = count + 1 /\ hpc' = "idle"
    /\ UNCHANGED <<rpc, beat, stamp, conn, sock, silence>>

ReadDeath ==
    /\ hpc = "read" /\ beat = "DEATH"
    /\ IF count + 1 >= Period
       THEN count' = 0 /\ hpc' = "close"
       ELSE count' = count + 1 /\ hpc' = "idle"
    /\ UNCHANGED <<rpc, beat, stamp, conn, sock, silence>>

(* Mutation of ReadAlive: the count is not started again. *)
ReadAliveKeepsCount ==
    /\ hpc = "read" /\ beat = "ALIVE"
    /\ hpc' = "wipe"
    /\ UNCHANGED <<rpc, beat, count, stamp, conn, sock, silence>>

ReadAlive ==
    /\ hpc = "read" /\ beat = "ALIVE"
    /\ count' = 0
    /\ hpc' = "wipe"
    /\ UNCHANGED <<rpc, beat, stamp, conn, sock, silence>>

Wipe ==
    /\ hpc = "wipe"
    /\ beat' = "DEATH"
    /\ hpc' = "idle"
    /\ UNCHANGED <<rpc, count, stamp, conn, sock, silence>>

(* tcp_socket_close: the status is tested again, the socket closed, the status set. *)
CloseSocket ==
    /\ hpc = "close"
    /\ \/ conn = "ON" /\ sock' = "down" /\ hpc' = "off"
       \/ conn = "OFF" /\ hpc' = "idle" /\ UNCHANGED sock
    /\ UNCHANGED <<rpc, beat, count, stamp, conn, silence>>

(* Mutation of SetOff: the socket is closed and the status left ON. *)
SetOffForgotten ==
    /\ hpc = "off"
    /\ hpc' = "idle"
    /\ UNCHANGED <<rpc, beat, count, stamp, conn, sock, silence>>

SetOff ==
    /\ hpc = "off"
    /\ conn' = "OFF"
    /\ hpc' = "idle"
    /\ UNCHANGED <<rpc, beat, count, stamp, sock, silence>>

-----------------------------------------------------------------------------
(* The receive thread. *)

(* SAMPLE_CMD_SPEED_INFO *)
Beat ==
    /\ rpc = "rcv" /\ sock = "up"
    /\ beat' = "ALIVE"
    /\ silence' = 0
    /\ UNCHANGED <<hpc, rpc, count, stamp, conn, sock>>

(* tcp_rcv fails: back to connecting, with the status as it is. *)
RecvLost ==
    /\ rpc = "rcv" /\ sock = "down"
    /\ rpc' = "connect"
    /\ UNCHANGED <<hpc, beat, count, stamp, conn, sock, silence>>

Connected ==
    /\ rpc = "connect"
    /\ sock' = "up"
    /\ rpc' = "on"
    /\ UNCHANGED <<hpc, beat, count, stamp, conn, silence>>

SetOn ==
    /\ rpc = "on"
    /\ conn' = "ON"
    /\ rpc' = "rcv"
    /\ UNCHANGED <<hpc, beat, count, stamp, sock, silence>>

-----------------------------------------------------------------------------
HostClose ==
    /\ sock = "up"
    /\ sock' = "down"
    /\ UNCHANGED <<hpc, rpc, beat, count, stamp, conn, silence>>

Second ==
    /\ stamp' = 1
    /\ silence' = IF silence <= Period THEN silence + 1 ELSE silence
    /\ UNCHANGED <<hpc, rpc, beat, count, conn, sock>>

Init ==
    /\ hpc = "idle" /\ rpc = "connect"
    /\ beat = "DEATH" /\ count = 0 /\ stamp = 1
    /\ conn = "OFF" /\ sock = "down"
    /\ silence = 0

Snap == CheckOff \/ CheckStart \/ ReadDeath \/ ReadAlive \/ Wipe \/ CloseSocket \/ SetOff
Recv == Beat \/ RecvLost \/ Connected \/ SetOn

Next == Snap \/ Recv \/ HostClose \/ Second

Spec == Init /\ [][Next]_vars

(***************************************************************************)
(* Time passes, and the snap thread runs through its loop: it sleeps a     *)
(* tenth of a second in each round and waits for nobody.                   *)
(***************************************************************************)
FairSpec == Spec /\ WF_vars(Second) /\ WF_vars(Snap)

-----------------------------------------------------------------------------
(* The type invariant; in particular the count stays below check_heart_period. *)
TypeOK ==
    /\ hpc \in {"idle", "read", "wipe", "close", "off"}
    /\ rpc \in {"connect", "on", "rcv"}
    /\ beat \in {"ALIVE", "DEATH"}
    /\ count \in 0 .. Period - 1
    /\ stamp \in {0, 1}
    /\ conn \in {"ON", "OFF"}
    /\ sock \in {"up", "down"}
    /\ silence \in 0 .. Period + 1

(* check_heart_beat decides to close the socket only when no beat has arrived for      *)
(* check_heart_period - 1 whole seconds at least, although the mark is read and wiped  *)
(* in two steps and a beat between them is lost.                                       *)
CloseAfterSilence ==
    [][(hpc # "close" /\ hpc' = "close") => silence >= Period - 1]_vars

(* A link that stays silent is not kept: again and again the status is OFF, or a beat  *)
(* arrived within check_heart_period.                                                  *)
DeadLinkDropped == []<>(conn = "OFF" \/ silence <= Period)

(* Why it holds: each second counted is a second without a beat, since the mark was     *)
(* last read as alive.                                                                  *)
CountedSilence ==
    /\ hpc = "wipe" => count = 0
    /\ beat = "DEATH" =>
          /\ hpc = "read" => silence >= count + stamp
          /\ (hpc \notin {"read", "wipe"} /\ count > 0) => silence >= count - 1 + stamp

=============================================================================
