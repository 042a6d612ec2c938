------------------------------- MODULE Uplink -------------------------------
(***************************************************************************)
(* The path of a message from the thread that raises it to the host:       *)
(*                                                                         *)
(*   websocket thread --+                                                  *)
(*   snap thread -------+--> g_send_q --> send thread --> socket --> host  *)
(*   receive thread ----+       (semaphore send_data)                      *)
(*                                                                         *)
(* with the receive thread also connecting the socket, taking the host's   *)
(* acknowledgements and feeding a media file packet by packet, and the     *)
(* snap thread closing the socket when the heartbeat is missed             *)
(* (process.cpp, common.cpp, net.cpp, TCP build).                          *)
(*                                                                         *)
(* Each thread is a program counter; one action is one stretch of code     *)
(* between two points where another thread can observe or change what it   *)
(* uses.  A message is its number, its command class and, for a media      *)
(* packet, its packet index.  The heartbeat's counting is in Heartbeat;    *)
(* here it may run out at any moment.                                      *)
(***************************************************************************)
EXTENDS Integers, Sequences

CONSTANTS
    QueueCap,   \* PTR_QUEUE_BUF_CNT
    Repeats,    \* transmissions of one message, REPEAT_SEND_TIMES_MAX
    MaxPkts,    \* bound: packets of the largest media file
    MaxMsgs,    \* bound: messages ever handed to message_queue_send
    MaxConns    \* bound: connections ever established

ASSUME UplinkAssumption ==
    /\ QueueCap \in Nat \ {0}
    /\ Repeats  \in Nat \ {0}
    /\ MaxPkts  \in Nat \ {0}
    /\ MaxMsgs  \in Nat
    /\ MaxConns \in Nat

VARIABLES
    q,          \* g_send_q_p
    sem,        \* the semaphore send_data
    next,       \* number of the next message
    wpc,        \* websocket thread, as a raiser of alerts
    npc,        \* snap thread: auto snapshot and heartbeat
    rpc,        \* receive thread
    spc,        \* send thread
    cur,        \* send thread: the message it popped
    rep,        \* send thread: header.pkg.send_repeat
    stalled,    \* send thread: waits in write(), on the connection of now or on an old one
    recv_ack,   \* the flag under recv_ack_mutex
    conn,       \* process_socket_status
    sock,       \* the socket behind handle->fd
    wire,       \* transmissions the host has still to answer, in TCP order
    waiting,    \* g_pkg_status.mm_data_trans_waiting
    mm,         \* g_pkg_status.mm: next packet index and packet count
    conns,      \* connections established so far
    \* history, read by the properties only
    burnt,      \* tokens given up because the status was OFF, since the queue was last cleared
    epoch,      \* number of the first message after the queue was last cleared
    tx,         \* transmissions of each message
    credit      \* acknowledgements received minus acknowledgements consumed

raisers == <<wpc, npc>>
sender  == <<spc, cur, rep, stalled>>
media   == <<waiting, mm>>
history == <<burnt, epoch, tx, credit>>
vars    == <<q, sem, next, raisers, rpc, sender, recv_ack, conn, sock, wire,
             media, conns, history>>

Cmds    == {"reply", "warning", "status", "mm"}
MsgIds  == 1 .. MaxMsgs
Message == [id : MsgIds, cmd : Cmds, pkt : 0 .. MaxPkts]
NoMsg   == [id |-> 0, cmd |-> "reply", pkt |-> 0]

(* message_queue_send: what the host must acknowledge. *)
AckStatus(cmd) == IF cmd \in {"warning", "mm", "status"} THEN "WAITING" ELSE "READY"

(* Mutation of Enqueue: the limit of ptr_queue_push is off by one. *)
EnqueueOffByOne(cmd, pkt) ==
    /\ next <= MaxMsgs
    /\ next' = next + 1
    /\ \/ /\ Len(q) <= QueueCap
          /\ q' = Append(q, [id |-> next, cmd |-> cmd, pkt |-> pkt])
       \/ q' = q

(* Mutation of Enqueue: push_front in place of push_back. *)
EnqueueFront(cmd, pkt) ==
    /\ next <= MaxMsgs
    /\ next' = next + 1
    /\ \/ /\ Len(q) < QueueCap
          /\ q' = <<[id |-> next, cmd |-> cmd, pkt |-> pkt]>> \o q
       \/ q' = q

(***************************************************************************)
(* message_queue_send up to ptr_queue_push: the push is refused when the   *)
(* queue is full, and fails when malloc does.  The caller is not told; the *)
(* sem_post that follows is a step of its own.                             *)
(***************************************************************************)
Enqueue(cmd, pkt) ==
    /\ next <= MaxMsgs
    /\ next' = next + 1
    /\ \/ /\ Len(q) < QueueCap
          /\ q' = Append(q, [id |-> next, cmd |-> cmd, pkt |-> pkt])
       \/ q' = q

(* Mutation of Post: a wake-up flag in place of the counting semaphore. *)
PostFlag == sem' = 1

Post == sem' = sem + 1

-----------------------------------------------------------------------------
(* Threads that raise alerts: the websocket thread, and the snap thread in  *)
(* do_snap_shot.                                                            *)

WsRaise ==
    /\ wpc = "idle"
    /\ Enqueue("warning", 0)
    /\ wpc' = "post"
    /\ UNCHANGED <<sem, npc, rpc, sender, recv_ack, conn, sock, wire, media, conns, history>>

(* Mutation of WsPost: a push that is never posted. *)
WsPostForgotten ==
    /\ wpc = "post"
    /\ wpc' = "idle"
    /\ UNCHANGED <<q, sem, next, npc, rpc, sender, recv_ack, conn, sock, wire, media, conns, history>>

WsPost ==
    /\ wpc = "post"
    /\ Post
    /\ wpc' = "idle"
    /\ UNCHANGED <<q, next, npc, rpc, sender, recv_ack, conn, sock, wire, media, conns, history>>

SnapRaise ==
    /\ npc = "idle"
    /\ Enqueue("warning", 0)
    /\ npc' = "post"
    /\ UNCHANGED <<sem, wpc, rpc, sender, recv_ack, conn, sock, wire, media, conns, history>>

SnapPost ==
    /\ npc = "post"
    /\ Post
    /\ npc' = "idle"
    /\ UNCHANGED <<q, next, wpc, rpc, sender, recv_ack, conn, sock, wire, media, conns, history>>

(* The connection goes away under a write that waits: what it then writes reaches no host. *)
Abandon == stalled' = IF stalled = "this" THEN "old" ELSE stalled

(***************************************************************************)
(* The heartbeat ran out: tcp_socket_close tests the status, closes        *)
(* whatever handle->fd is by then, and only afterwards sets the status.    *)
(***************************************************************************)
HeartTimeout ==
    /\ npc = "idle"
    /\ conn = "ON"
    /\ npc' = "close"
    /\ UNCHANGED <<q, sem, next, wpc, rpc, sender, recv_ack, conn, sock, wire, media, conns, history>>

HeartClose ==
    /\ npc = "close"
    /\ sock' = "closed"
    /\ wire' = << >>
    /\ npc' = "off"
    /\ Abandon
    /\ UNCHANGED <<q, sem, next, wpc, rpc, spc, cur, rep, recv_ack, conn, media, conns, history>>

HeartOff ==
    /\ npc = "off"
    /\ conn' = "OFF"
    /\ npc' = "idle"
    /\ UNCHANGED <<q, sem, next, wpc, rpc, sender, recv_ack, sock, wire, media, conns, history>>

-----------------------------------------------------------------------------
(* The send thread: pthread_process_send and send_package. *)

SemWait ==
    /\ spc = "sem"
    /\ sem > 0
    /\ sem' = sem - 1
    /\ spc' = "status"
    /\ UNCHANGED <<q, next, raisers, rpc, cur, rep, stalled, recv_ack, conn, sock, wire, media, conns, history>>

(* The status test: with the status OFF the token is gone and the queue untouched. *)
SendCheck ==
    /\ spc = "status"
    /\ \/ /\ conn = "ON"
          /\ spc' = "pop"
          /\ UNCHANGED burnt
       \/ /\ conn = "OFF"
          /\ spc' = "sem"
          /\ burnt' = burnt + 1
    /\ UNCHANGED <<q, sem, next, raisers, rpc, cur, rep, stalled, recv_ack, conn, sock, wire, media, conns,
                   epoch, tx, credit>>

SendPop ==
    /\ spc = "pop"
    /\ \/ /\ q = << >>
          /\ spc' = "sem"
          /\ UNCHANGED <<q, cur, rep>>
       \/ /\ q # << >>
          /\ q' = Tail(q)
          /\ cur' = Head(q)
          /\ rep' = 0
          /\ spc' = IF AckStatus(Head(q).cmd) = "READY" THEN "once" ELSE "snd"
    /\ UNCHANGED <<sem, next, raisers, rpc, stalled, recv_ack, conn, sock, wire, media, conns, history>>

(***************************************************************************)
(* tcp_snd is a loop of write() without a limit of time: on a connection   *)
(* whose host has stopped reading, the thread waits in it.                 *)
(***************************************************************************)
SendStall ==
    /\ spc \in {"once", "snd"}
    /\ stalled = "no"
    /\ sock = "up"
    /\ stalled' = "this"
    /\ UNCHANGED <<q, sem, next, raisers, rpc, spc, cur, rep, recv_ack, conn, sock, wire, media, conns, history>>

(***************************************************************************)
(* tcp_snd comes to its end: nothing leaves unless the connection it       *)
(* writes to is up.  The host answers only what asks for an                *)
(* acknowledgement.                                                        *)
(***************************************************************************)
Snd ==
    /\ wire' = IF sock = "up" /\ stalled # "old" /\ AckStatus(cur.cmd) = "WAITING"
               THEN Append(wire, cur)
               ELSE wire
    /\ tx' = [tx EXCEPT ![cur.id] = @ + 1]
    /\ stalled' = "no"

SendOnce ==
    /\ spc = "once"
    /\ Snd
    /\ spc' = "sem"
    /\ UNCHANGED <<q, sem, next, raisers, rpc, cur, rep, recv_ack, conn, sock, media, conns,
                   burnt, epoch, credit>>

SendTry ==
    /\ spc = "snd"
    /\ Snd
    /\ rep' = rep + 1
    /\ spc' = "lock"
    /\ UNCHANGED <<q, sem, next, raisers, rpc, cur, recv_ack, conn, sock, media, conns,
                   burnt, epoch, credit>>

(* recv_ack_mutex is taken and the flag is not set: the thread waits on recv_ack_cond. *)
SendBlock ==
    /\ spc = "lock"
    /\ recv_ack = "WAIT"
    /\ spc' = "wait"
    /\ UNCHANGED <<q, sem, next, raisers, rpc, cur, rep, stalled, recv_ack, conn, sock, wire, media, conns, history>>

(* Mutation of SendAcked: the flag is not cleared for the next message. *)
SendAckedKeepsFlag ==
    /\ spc \in {"lock", "wait"}
    /\ recv_ack = "NOTICE"
    /\ credit' = credit - 1
    /\ spc' = "sem"
    /\ UNCHANGED <<q, sem, next, raisers, rpc, cur, rep, stalled, recv_ack, conn, sock, wire, media, conns,
                   burnt, epoch, tx>>

(* The flag is set and the wait did not time out: it is cleared and the message is done. *)
SendAcked ==
    /\ spc \in {"lock", "wait"}
    /\ recv_ack = "NOTICE"
    /\ recv_ack' = "WAIT"
    /\ credit' = credit - 1
    /\ spc' = "sem"
    /\ UNCHANGED <<q, sem, next, raisers, rpc, cur, rep, stalled, conn, sock, wire, media, conns,
                   burnt, epoch, tx>>

(* Mutation of SendTimeout: Repeats is taken for the number of repetitions after the first *)
(* transmission, in both bounds of the loop (i < 3 and send_repeat >= 3).                  *)
SendTimeoutLate ==
    /\ spc = "wait"
    /\ IF rep > Repeats
       THEN waiting' = 0 /\ spc' = "sem"
       ELSE spc' = "snd" /\ UNCHANGED waiting
    /\ UNCHANGED <<q, sem, next, raisers, rpc, cur, rep, stalled, recv_ack, conn, sock, wire, mm, conns, history>>

(* Mutation of SendTimeout: the message is given up one repetition early. *)
SendTimeoutEarly ==
    /\ spc = "wait"
    /\ IF rep + 1 >= Repeats
       THEN waiting' = 0 /\ spc' = "sem"
       ELSE spc' = "snd" /\ UNCHANGED waiting
    /\ UNCHANGED <<q, sem, next, raisers, rpc, cur, rep, stalled, recv_ack, conn, sock, wire, mm, conns, history>>

(***************************************************************************)
(* pthread_cond_timedwait returns ETIMEDOUT.  The flag may have been set   *)
(* while the thread was getting the mutex back: it is then left set.       *)
(***************************************************************************)
SendTimeout ==
    /\ spc = "wait"
    /\ IF rep >= Repeats
       THEN waiting' = 0 /\ spc' = "sem"
       ELSE spc' = "snd" /\ UNCHANGED waiting
    /\ UNCHANGED <<q, sem, next, raisers, rpc, cur, rep, stalled, recv_ack, conn, sock, wire, mm, conns, history>>

-----------------------------------------------------------------------------
(* The receive thread: connecting. *)

(* do_stat_reset, first half: the state of the media transfer. *)
RecvReset ==
    /\ rpc = "reset"
    /\ waiting' = 0
    /\ mm' = [idx |-> 0, total |-> 0]
    /\ rpc' = "clear"
    /\ UNCHANGED <<q, sem, next, raisers, sender, recv_ack, conn, sock, wire, conns, history>>

(* Mutation of RecvClear: one pop in place of the loop. *)
RecvClearOne ==
    /\ rpc = "clear"
    /\ q' = IF q = << >> THEN q ELSE Tail(q)
    /\ rpc' = IF conns = 0 THEN "init" ELSE "on"
    /\ burnt' = 0
    /\ epoch' = next
    /\ UNCHANGED <<sem, next, raisers, sender, recv_ack, conn, sock, wire, media, conns, tx, credit>>

(* clear_queue: one pop at a time until the queue is seen empty.  Neither the *)
(* semaphore nor recv_ack is reset.                                          *)
RecvClear ==
    /\ rpc = "clear"
    /\ \/ /\ q # << >>
          /\ q' = Tail(q)
          /\ UNCHANGED <<rpc, burnt, epoch>>
       \/ /\ q = << >>
          /\ rpc' = IF conns = 0 THEN "init" ELSE "on"
          /\ burnt' = 0
          /\ epoch' = next
          /\ UNCHANGED q
    /\ UNCHANGED <<sem, next, raisers, sender, recv_ack, conn, sock, wire, media, conns, tx, credit>>

(* socket_init: a new socket, or an error that ends the thread (handle_distroy). *)
RecvInit ==
    /\ rpc = "init"
    /\ \/ sock' = "open" /\ rpc' = "connect"
       \/ sock' = "closed" /\ rpc' = "exit"
    /\ UNCHANGED <<q, sem, next, raisers, sender, recv_ack, conn, wire, media, conns, history>>

(* try_connect: EBADF asks for a new socket, any other failure is retried. *)
RecvConnect ==
    /\ rpc = "connect"
    /\ \/ /\ sock = "open"
          /\ conns < MaxConns
          /\ conns' = conns + 1
          /\ sock' = "up"
          /\ rpc' = "reset"
       \/ /\ sock = "closed"
          /\ rpc' = "init"
          /\ UNCHANGED <<sock, conns>>
    /\ UNCHANGED <<q, sem, next, raisers, sender, recv_ack, conn, wire, media, history>>

RecvSetOn ==
    /\ rpc = "on"
    /\ conn' = "ON"
    /\ rpc' = "report"
    /\ UNCHANGED <<q, sem, next, raisers, sender, recv_ack, sock, wire, media, conns, history>>

(* auto_send_work_status *)
RecvReport ==
    /\ rpc = "report"
    /\ Enqueue("status", 0)
    /\ rpc' = "post"
    /\ UNCHANGED <<sem, raisers, sender, recv_ack, conn, sock, wire, media, conns, history>>

RecvPost ==
    /\ rpc \in {"post", "postReq", "postSnap"}
    /\ Post
    /\ rpc' = CASE rpc = "post" -> "rcv" [] rpc = "postReq" -> "startMM" [] rpc = "postSnap" -> "snap"
    /\ UNCHANGED <<q, next, raisers, sender, recv_ack, conn, sock, wire, media, conns, history>>

-----------------------------------------------------------------------------
(* The receive thread: tcp_rcv and the commands of sample_on_cmd. *)

(* End of file, a read error, or EBADF on a socket the snap thread closed. *)
(* The connection status is left as it is.                                 *)
RecvLost ==
    /\ rpc = "rcv"
    /\ sock \in {"broken", "closed"}
    /\ sock' = "closed"
    /\ rpc' = "init"
    /\ UNCHANGED <<q, sem, next, raisers, sender, recv_ack, conn, wire, media, conns, history>>

Receiving == rpc = "rcv" /\ sock = "up"

(* The commands answered by one reply: query, parameters, device, status, upgrade. *)
RecvCommand ==
    /\ Receiving
    /\ Enqueue("reply", 0)
    /\ rpc' \in {"post", "postSnap"}
    /\ UNCHANGED <<sem, raisers, sender, recv_ack, conn, sock, wire, media, conns, history>>

(* SAMPLE_CMD_SNAP_SHOT: do_snap_shot, after the reply or, for a malformed command, without. *)
RecvSnap ==
    /\ rpc = "snap" \/ Receiving
    /\ Enqueue("warning", 0)
    /\ rpc' = "post"
    /\ UNCHANGED <<sem, raisers, sender, recv_ack, conn, sock, wire, media, conns, history>>

(* notice_ack_msg: the flag belongs to no message, whatever was acknowledged. *)
Notice ==
    /\ recv_ack' = "NOTICE"
    /\ credit' = credit + 1

(* recv_warning_ack and recv_upload_status_cmd_ack: any acknowledgement of the command. *)
RecvAck ==
    /\ Receiving
    /\ wire # << >>
    /\ Head(wire).cmd \in {"warning", "status"}
    /\ Notice
    /\ wire' = Tail(wire)
    /\ UNCHANGED <<q, sem, next, raisers, rpc, sender, conn, sock, media, conns, burnt, epoch, tx>>

(* send_mm_req_ack: refused while a transfer is waiting; the file is there. *)
RecvReqMM ==
    /\ Receiving
    /\ waiting = 0
    /\ Enqueue("reply", 0)
    /\ rpc' = "postReq"
    /\ UNCHANGED <<sem, raisers, sender, recv_ack, conn, sock, wire, media, conns, history>>

(* sample_send_image: the packet is queued and the index moves, whether or not the *)
(* queue took it; a file that cannot be read queues nothing.                       *)
SendImage(idx, total) ==
    \/ /\ Enqueue("mm", idx)
       /\ mm' = [idx |-> idx + 1, total |-> total]
       /\ rpc' = "post"
    \/ /\ mm' = [idx |-> idx, total |-> total]
       /\ rpc' = "rcv"
       /\ UNCHANGED <<q, next>>

RecvStartMM ==
    /\ rpc = "startMM"
    /\ waiting' = 1
    /\ \E n \in 1 .. MaxPkts : SendImage(0, n)
    /\ UNCHANGED <<sem, raisers, sender, recv_ack, conn, sock, wire, conns, history>>

(* recv_ack_and_send_image: an acknowledgement of the packet before mm.idx wakes the *)
(* send thread; any other is ignored.                                                *)
RecvAckMM ==
    /\ Receiving
    /\ wire # << >>
    /\ Head(wire).cmd = "mm"
    /\ wire' = Tail(wire)
    /\ IF mm.idx = Head(wire).pkt + 1
       THEN Notice /\ rpc' = "nextMM"
       ELSE UNCHANGED <<rpc, recv_ack, credit>>
    /\ UNCHANGED <<q, sem, next, raisers, sender, conn, sock, media, conns, burnt, epoch, tx>>

(* Mutation of RecvNextMM: the end of the file is looked for one packet too late. *)
RecvNextMMLate ==
    /\ rpc = "nextMM"
    /\ IF mm.idx > mm.total
       THEN waiting' = 0 /\ rpc' = "rcv" /\ UNCHANGED <<q, next, mm>>
       ELSE SendImage(mm.idx, mm.total) /\ UNCHANGED waiting
    /\ UNCHANGED <<sem, raisers, sender, recv_ack, conn, sock, wire, conns, history>>

RecvNextMM ==
    /\ rpc = "nextMM"
    /\ IF mm.idx = mm.total
       THEN waiting' = 0 /\ rpc' = "rcv" /\ UNCHANGED <<q, next, mm>>
       ELSE SendImage(mm.idx, mm.total) /\ UNCHANGED waiting
    /\ UNCHANGED <<sem, raisers, sender, recv_ack, conn, sock, wire, conns, history>>

-----------------------------------------------------------------------------
(* The host and the network. *)

(* The host does not acknowledge a transmission, or its answer is a negative one. *)
HostSilent ==
    /\ sock = "up"
    /\ wire # << >>
    /\ wire' = Tail(wire)
    /\ UNCHANGED <<q, sem, next, raisers, rpc, sender, recv_ack, conn, sock, media, conns, history>>

(* The peer closes the connection or it is reset. *)
HostClose ==
    /\ sock = "up"
    /\ sock' = "broken"
    /\ wire' = << >>
    /\ Abandon
    /\ UNCHANGED <<q, sem, next, raisers, rpc, spc, cur, rep, recv_ack, conn, media, conns, history>>

-----------------------------------------------------------------------------
Init ==
    /\ q = << >> /\ sem = 0 /\ next = 1
    /\ wpc = "idle" /\ npc = "idle" /\ rpc = "reset" /\ spc = "sem"
    /\ cur = NoMsg /\ rep = 0 /\ stalled = "no"
    /\ recv_ack = "WAIT" /\ conn = "OFF" /\ sock = "closed" /\ wire = << >>
    /\ waiting = 0 /\ mm = [idx |-> 0, total |-> 0] /\ conns = 0
    /\ burnt = 0 /\ epoch = 1 /\ tx = [i \in MsgIds |-> 0] /\ credit = 0

Alerts    == WsRaise \/ WsPost \/ SnapRaise \/ SnapPost
Heart     == HeartTimeout \/ HeartClose \/ HeartOff
Send      == \/ SemWait \/ SendCheck \/ SendPop \/ SendOnce \/ SendTry
             \/ SendBlock \/ SendAcked \/ SendTimeout \/ SendStall
Connect   == \/ RecvReset \/ RecvClear \/ RecvInit \/ RecvConnect
             \/ RecvSetOn \/ RecvReport \/ RecvPost
Receive   == \/ RecvLost \/ RecvCommand \/ RecvSnap \/ RecvAck \/ RecvReqMM
             \/ RecvStartMM \/ RecvAckMM \/ RecvNextMM
Host      == HostSilent \/ HostClose

Next == Alerts \/ Heart \/ Send \/ Connect \/ Receive \/ Host

Spec == Init /\ [][Next]_vars

(***************************************************************************)
(* Every thread is scheduled and every wait with a time limit ends.  A     *)
(* write() that waits has none: the send thread is fair but for the steps  *)
(* that begin or end such a wait.  The host, the alerts and the heartbeat  *)
(* owe nothing.                                                            *)
(***************************************************************************)
Fairness ==
    /\ WF_vars(Send /\ UNCHANGED stalled)
    /\ WF_vars(WsPost)
    /\ WF_vars(SnapPost \/ HeartClose \/ HeartOff)
    /\ WF_vars(RecvReset \/ RecvClear \/ RecvSetOn \/ RecvPost \/ RecvLost)

FairSpec == Spec /\ Fairness

-----------------------------------------------------------------------------
(* Properties. *)

SendPcs == {"sem", "status", "pop", "once", "snd", "lock", "wait"}
RecvPcs == {"reset", "clear", "init", "connect", "on", "report", "post", "postReq",
            "postSnap", "rcv", "snap", "startMM", "nextMM", "exit"}

(* The type invariant.  What the threads hold and exchange stays well formed: the    *)
(* queue within PTR_QUEUE_BUF_CNT, send_repeat within the number of transmissions.   *)
TypeOK ==
    /\ q \in Seq(Message) /\ Len(q) <= QueueCap
    /\ sem \in Nat
    /\ next \in 1 .. MaxMsgs + 1
    /\ wpc \in {"idle", "post"}
    /\ npc \in {"idle", "post", "close", "off"}
    /\ rpc \in RecvPcs
    /\ spc \in SendPcs
    /\ cur \in Message \cup {NoMsg}
    /\ rep \in 0 .. Repeats
    /\ stalled \in {"no", "this", "old"}
    /\ recv_ack \in {"WAIT", "NOTICE"}
    /\ conn \in {"ON", "OFF"}
    /\ sock \in {"closed", "open", "up", "broken"}
    /\ wire \in Seq(Message)
    /\ waiting \in {0, 1}
    /\ mm \in [idx : 0 .. MaxPkts, total : 0 .. MaxPkts]
    /\ conns \in 0 .. MaxConns
    /\ burnt \in Nat
    /\ epoch \in 1 .. MaxMsgs + 1
    /\ tx \in [MsgIds -> Nat]
    /\ credit \in Int

Flag(b) == IF b THEN 1 ELSE 0

(* Pushes whose sem_post is still to come. *)
Owed == Flag(wpc = "post") + Flag(npc = "post") + Flag(rpc \in {"post", "postReq", "postSnap"})

(* Every queued message has a semaphore token that will make send_package pop it: in *)
(* the semaphore, owed by a thread between push and post, or in the send thread's     *)
(* hand, except for the tokens the send thread threw away with the status OFF.  A     *)
(* refused push, and clear_queue, only ever leave too many tokens, never too few.     *)
TokenBalance == Len(q) <= sem + Owed + Flag(spc \in {"status", "pop"}) + burnt

(* send_package transmits no message more than REPEAT_SEND_TIMES_MAX times, whatever  *)
(* timeouts, late acknowledgements and reconnections happen in between.               *)
TransmitBound == \A i \in MsgIds : tx[i] <= Repeats

(* No message overtakes another: what is still queued was raised after everything     *)
(* that has been transmitted, across refused pushes, clear_queue and retransmissions. *)
NoOvertaking ==
    \A i \in MsgIds : tx[i] > 0 => \A k \in 1 .. Len(q) : q[k].id > i

(* After a connection is made, clear_queue has removed every message raised before    *)
(* it saw the queue empty: none of an earlier connection is left to be popped.        *)
FreshQueue == \A k \in 1 .. Len(q) : q[k].id >= epoch

(* send_package never consumes an acknowledgement the host did not send: the flag     *)
(* recv_ack stands for at least one that was received and not consumed.               *)
AckCredit == credit >= Flag(recv_ack = "NOTICE")

(* The packet index of a media transfer never runs past the packet count, whatever    *)
(* duplicate or late packet acknowledgements and new requests arrive.                 *)
PacketIndexBound == mm.idx <= mm.total

(* With the status OFF no connection is established ("no connection established",     *)
(* process.cpp:1131): a receive thread in its loop on a live socket has it ON.        *)
OffIsNotConnected == conn = "OFF" => ~(rpc = "rcv" /\ sock = "up")

(* Unless tcp_snd waits for ever in a write(), the queue keeps draining while the     *)
(* status is ON and no token was thrown away: the send thread never waits for ever    *)
(* on an acknowledgement or on the semaphore.                                         *)
QueueDrains ==
    \/ <>[](stalled # "no")
    \/ []<>(q = << >> \/ burnt > 0 \/ conn = "OFF")

(***************************************************************************)
(* The facts that make the properties above inductive: what the send       *)
(* thread holds at each point, and how the numbers of the queued, held and *)
(* transmitted messages are ordered.                                       *)
(***************************************************************************)
Holding == {"once", "snd", "lock", "wait"}

HeldMessage ==
    /\ spc \in Holding => cur \in Message
    /\ spc = "snd" => rep < Repeats

QueueOrder ==
    /\ \A k \in 1 .. Len(q) : epoch <= q[k].id /\ cur.id < q[k].id /\ q[k].id < next
    /\ \A j, k \in 1 .. Len(q) : j < k => q[j].id < q[k].id
    /\ cur.id < next
    /\ epoch <= next

TransmitCount ==
    /\ \A i \in MsgIds : tx[i] > 0 => i <= cur.id
    /\ spc = "once" => tx[cur.id] = 0
    /\ spc \in {"snd", "lock", "wait"} => tx[cur.id] = rep

UplinkInv ==
    /\ TypeOK /\ HeldMessage /\ PacketIndexBound
    /\ TokenBalance /\ AckCredit
    /\ QueueOrder /\ TransmitCount /\ TransmitBound

(***************************************************************************)
(* The send path as a Channel: the queue is the set of its messages, the   *)
(* message held is the one the send thread popped and has not given up,    *)
(* and the acknowledgements are those received and not consumed.           *)
(***************************************************************************)
View(m) == [id |-> m.id, ack |-> AckStatus(m.cmd) = "WAITING"]

ViewQ    == {View(q[k]) : k \in 1 .. Len(q)}
ViewHeld == IF spc \in Holding THEN View(cur) ELSE View(NoMsg)

Promise == INSTANCE Channel WITH pending <- ViewQ, held <- ViewHeld, acks <- credit

(* The four threads together keep the promise of Channel: message_queue_send,         *)
(* send_package, clear_queue and notice_ack_msg take messages oldest first and one at *)
(* a time, transmit each one taken at least once and at most REPEAT_SEND_TIMES_MAX     *)
(* times, and let one that waits for an acknowledgement go only for an acknowledgement *)
(* of the host or after its last transmission.                                        *)
KeepsPromise == Promise!Spec

=============================================================================
