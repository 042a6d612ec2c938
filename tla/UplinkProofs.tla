---------------------------- MODULE UplinkProofs ----------------------------
(***************************************************************************)
(* Proofs about Uplink, for every queue capacity, number of                *)
(* transmissions, file size, number of messages and number of connections. *)
(***************************************************************************)
EXTENDS Uplink, TLAPS

(* The part of the inductive invariant that types rest on. *)
Shape == TypeOK /\ HeldMessage /\ PacketIndexBound

(* The number of a message is one of the numbers given out, a natural number. *)
LEMMA MessageId == \A m \in Message : m.id \in MsgIds /\ m.id \in 0 .. MaxMsgs /\ m.id \in Nat
<1>1. \A m \in Message : m.id \in MsgIds
  BY DEF Message
<1>2. MsgIds \subseteq 0 .. MaxMsgs /\ MsgIds \subseteq Nat
  BY UplinkAssumption DEF MsgIds
<1>3. QED
  BY <1>1, <1>2

(* Enqueue leaves a well-formed queue, accepted or refused. *)
LEMMA EnqueueType ==
    ASSUME TypeOK, NEW c \in Cmds, NEW k \in 0 .. MaxPkts, Enqueue(c, k)
    PROVE  /\ q' \in Seq(Message) /\ Len(q') <= QueueCap
           /\ next' \in 1 .. MaxMsgs + 1
<1>1. next \in MsgIds /\ next' \in 1 .. MaxMsgs + 1
  BY UplinkAssumption DEF TypeOK, Enqueue, MsgIds
<1>2. [id |-> next, cmd |-> c, pkt |-> k] \in Message
  BY <1>1 DEF Message
<1>3. q' \in Seq(Message) /\ Len(q') <= QueueCap
  <2>1. CASE q' = q
    BY <2>1 DEF TypeOK
  <2>2. CASE /\ Len(q) < QueueCap
             /\ q' = Append(q, [id |-> next, cmd |-> c, pkt |-> k])
    <3>1. q' \in Seq(Message) /\ Len(q') = Len(q) + 1
      BY <1>2, <2>2 DEF TypeOK
    <3>2. QED
      BY <2>2, <3>1, UplinkAssumption DEF TypeOK
  <2>3. QED
    BY <2>1, <2>2 DEF Enqueue
<1>4. QED
  BY <1>1, <1>3

(* Taking the head of the queue leaves a queue of the rest. *)
LEMMA TailType ==
    ASSUME NEW s \in Seq(Message), s # << >>
    PROVE  /\ Head(s) \in Message /\ Tail(s) \in Seq(Message)
           /\ Len(Tail(s)) = Len(s) - 1 /\ Len(s) \in Nat \ {0}
           /\ Head(s) = s[1]
           /\ \A k \in 1 .. Len(Tail(s)) : Tail(s)[k] = s[k + 1]
OBVIOUS

(* The process starts well formed: an empty queue, no message held, no transfer. *)
LEMMA ShapeInit == Init => Shape
<1> SUFFICES ASSUME Init PROVE Shape
  OBVIOUS
<1>1. q \in Seq(Message) /\ Len(q) <= QueueCap /\ wire \in Seq(Message)
  BY UplinkAssumption DEF Init
<1>2. tx \in [MsgIds -> Nat]
  BY DEF Init
<1>3. cur \in Message \cup {NoMsg} /\ spc \notin Holding
  BY DEF Init, Holding
<1>4. mm \in [idx : 0 .. MaxPkts, total : 0 .. MaxPkts] /\ PacketIndexBound
  BY UplinkAssumption DEF Init, PacketIndexBound
<1>5. /\ sem \in Nat /\ burnt \in Nat /\ credit \in Int
      /\ next \in 1 .. MaxMsgs + 1 /\ epoch \in 1 .. MaxMsgs + 1
      /\ rep \in 0 .. Repeats /\ conns \in 0 .. MaxConns
  BY UplinkAssumption DEF Init
<1>6. /\ wpc \in {"idle", "post"} /\ npc \in {"idle", "post", "close", "off"}
      /\ rpc \in RecvPcs /\ spc \in SendPcs
      /\ recv_ack \in {"WAIT", "NOTICE"} /\ conn \in {"ON", "OFF"}
      /\ sock \in {"closed", "open", "up", "broken"} /\ waiting \in {0, 1}
      /\ stalled \in {"no", "this", "old"}
  BY DEF Init, RecvPcs, SendPcs
<1>7. QED
  BY <1>1, <1>2, <1>3, <1>4, <1>5, <1>6 DEF Shape, TypeOK, HeldMessage, Holding, Init

(* Every step keeps the types, what the send thread holds, and the packet index in range: *)
(* one case for each action.                                                             *)
LEMMA ShapeNext == Shape /\ [Next]_vars => Shape'
<1> SUFFICES ASSUME Shape, [Next]_vars PROVE Shape'
  OBVIOUS
<1> USE UplinkAssumption DEF Shape, TypeOK, HeldMessage, PacketIndexBound, raisers, sender, media,
        history, RecvPcs, SendPcs, Holding
<1>1. CASE WsRaise
  <2>1. q' \in Seq(Message) /\ Len(q') <= QueueCap /\ next' \in 1 .. MaxMsgs + 1
    BY <1>1, EnqueueType, 0 \in 0 .. MaxPkts DEF WsRaise, Cmds
  <2>2. QED
    BY <1>1, <2>1 DEF WsRaise
<1>2. CASE WsPost
  BY <1>2 DEF WsPost, Post
<1>3. CASE SnapRaise
  <2>1. q' \in Seq(Message) /\ Len(q') <= QueueCap /\ next' \in 1 .. MaxMsgs + 1
    BY <1>3, EnqueueType, 0 \in 0 .. MaxPkts DEF SnapRaise, Cmds
  <2>2. QED
    BY <1>3, <2>1 DEF SnapRaise
<1>4. CASE SnapPost
  BY <1>4 DEF SnapPost, Post
<1>5. CASE HeartTimeout
  BY <1>5 DEF HeartTimeout
<1>6. CASE HeartClose
  BY <1>6 DEF HeartClose, Abandon
<1>7. CASE HeartOff
  BY <1>7 DEF HeartOff
<1>8. CASE SemWait
  BY <1>8 DEF SemWait
<1>9. CASE SendCheck
  BY <1>9 DEF SendCheck
<1>10. CASE SendPop
  <2>1. CASE q = << >>
    BY <1>10, <2>1 DEF SendPop
  <2>2. CASE q # << >>
    <3>1. Head(q) \in Message /\ Tail(q) \in Seq(Message) /\ Len(Tail(q)) <= QueueCap
      BY <2>2, TailType
    <3>2. cur' = Head(q) /\ q' = Tail(q) /\ rep' = 0 /\ spc' \in {"once", "snd"}
      BY <1>10, <2>2 DEF SendPop
    <3>3. QED
      BY <1>10, <3>1, <3>2 DEF SendPop
  <2>3. QED
    BY <2>1, <2>2
<1>11. CASE SendOnce
  <2>1. cur \in Message /\ cur.id \in MsgIds
    BY <1>11 DEF SendOnce, Message
  <2>2. wire' \in Seq(Message) /\ tx' \in [MsgIds -> Nat] /\ stalled' = "no"
    BY <1>11, <2>1 DEF SendOnce, Snd
  <2>3. QED
    BY <1>11, <2>1, <2>2 DEF SendOnce
<1>12. CASE SendTry
  <2>1. cur \in Message /\ cur.id \in MsgIds
    BY <1>12 DEF SendTry, Message
  <2>2. wire' \in Seq(Message) /\ tx' \in [MsgIds -> Nat] /\ stalled' = "no"
    BY <1>12, <2>1 DEF SendTry, Snd
  <2>3. QED
    BY <1>12, <2>1, <2>2 DEF SendTry
<1>13. CASE SendBlock
  BY <1>13 DEF SendBlock
<1>14. CASE SendAcked
  BY <1>14 DEF SendAcked
<1>15. CASE SendTimeout
  <2>1. waiting' \in {0, 1} /\ spc' \in {"sem", "snd"} /\ (spc' = "snd" => rep < Repeats)
    BY <1>15 DEF SendTimeout
  <2>2. QED
    BY <1>15, <2>1 DEF SendTimeout
<1>16. CASE RecvReset
  <2>1. mm' \in [idx : 0 .. MaxPkts, total : 0 .. MaxPkts] /\ mm'.idx <= mm'.total
    BY <1>16 DEF RecvReset
  <2>2. waiting' \in {0, 1} /\ rpc' \in RecvPcs
    BY <1>16 DEF RecvReset
  <2>3. QED
    BY <1>16, <2>1, <2>2 DEF RecvReset
<1>17. CASE RecvClear
  <2>1. CASE q = << >>
    BY <1>17, <2>1 DEF RecvClear
  <2>2. CASE q # << >>
    <3>1. Tail(q) \in Seq(Message) /\ Len(Tail(q)) <= QueueCap
      BY <2>2, TailType
    <3>2. q' = Tail(q) /\ UNCHANGED <<rpc, burnt, epoch>>
      BY <1>17, <2>2 DEF RecvClear
    <3>3. QED
      BY <1>17, <3>1, <3>2 DEF RecvClear
  <2>3. QED
    BY <2>1, <2>2
<1>18. CASE RecvInit
  BY <1>18 DEF RecvInit
<1>19. CASE RecvConnect
  BY <1>19 DEF RecvConnect
<1>20. CASE RecvSetOn
  BY <1>20 DEF RecvSetOn
<1>21. CASE RecvReport
  <2>1. q' \in Seq(Message) /\ Len(q') <= QueueCap /\ next' \in 1 .. MaxMsgs + 1
    BY <1>21, EnqueueType, 0 \in 0 .. MaxPkts DEF RecvReport, Cmds
  <2>2. QED
    BY <1>21, <2>1 DEF RecvReport
<1>22. CASE RecvPost
  <2>1. rpc' \in {"rcv", "startMM", "snap"}
    BY <1>22 DEF RecvPost
  <2>2. sem' \in Nat /\ rpc' \in RecvPcs
    BY <1>22, <2>1 DEF RecvPost, Post
  <2>3. UNCHANGED <<q, next, raisers, sender, recv_ack, conn, sock, wire, media, conns, history>>
    BY <1>22 DEF RecvPost
  <2>4. QED
    BY <2>2, <2>3
<1>23. CASE RecvLost
  BY <1>23 DEF RecvLost
<1>24. CASE RecvCommand
  <2>1. q' \in Seq(Message) /\ Len(q') <= QueueCap /\ next' \in 1 .. MaxMsgs + 1
    BY <1>24, EnqueueType, 0 \in 0 .. MaxPkts DEF RecvCommand, Cmds
  <2>2. QED
    BY <1>24, <2>1 DEF RecvCommand
<1>25. CASE RecvSnap
  <2>1. q' \in Seq(Message) /\ Len(q') <= QueueCap /\ next' \in 1 .. MaxMsgs + 1
    BY <1>25, EnqueueType, 0 \in 0 .. MaxPkts DEF RecvSnap, Receiving, Cmds
  <2>2. QED
    BY <1>25, <2>1 DEF RecvSnap, Receiving
<1>26. CASE RecvAck
  <2>1. Head(wire) \in Message /\ Tail(wire) \in Seq(Message)
    BY <1>26, TailType DEF RecvAck
  <2>2. Head(wire).id \in 0 .. MaxMsgs
    BY ONLY <2>1, MessageId
  <2>3. QED
    BY <1>26, <2>1, <2>2 DEF RecvAck, Notice
<1>27. CASE RecvReqMM
  <2>1. q' \in Seq(Message) /\ Len(q') <= QueueCap /\ next' \in 1 .. MaxMsgs + 1
    BY <1>27, EnqueueType, 0 \in 0 .. MaxPkts DEF RecvReqMM, Cmds
  <2>2. QED
    BY <1>27, <2>1 DEF RecvReqMM
<1>28. CASE RecvStartMM
  <2>1. PICK n \in 1 .. MaxPkts : SendImage(0, n)
    BY <1>28 DEF RecvStartMM
  <2>2. mm' \in [idx : 0 .. MaxPkts, total : 0 .. MaxPkts] /\ mm'.idx <= mm'.total
    BY <2>1 DEF SendImage
  <2>3. q' \in Seq(Message) /\ Len(q') <= QueueCap /\ next' \in 1 .. MaxMsgs + 1
    BY <2>1, EnqueueType, 0 \in 0 .. MaxPkts DEF SendImage, Cmds
  <2>4. rpc' \in {"post", "rcv"}
    BY <2>1 DEF SendImage
  <2>5. QED
    BY <1>28, <2>2, <2>3, <2>4 DEF RecvStartMM
<1>29. CASE RecvAckMM
  <2>1. Head(wire) \in Message /\ Tail(wire) \in Seq(Message)
    BY <1>29, TailType DEF RecvAckMM
  <2>2. credit' \in Int /\ rpc' \in RecvPcs /\ recv_ack' \in {"WAIT", "NOTICE"}
    BY <1>29 DEF RecvAckMM, Notice
  <2>3. QED
    BY <1>29, <2>1, <2>2 DEF RecvAckMM
<1>30. CASE RecvNextMM
  <2>1. CASE mm.idx = mm.total
    BY <1>30, <2>1 DEF RecvNextMM
  <2>2. CASE mm.idx # mm.total
    <3>1. SendImage(mm.idx, mm.total) /\ mm.idx + 1 \in 0 .. mm.total /\ mm.total \in 0 .. MaxPkts
      BY <1>30, <2>2 DEF RecvNextMM
    <3>2. mm' \in [idx : 0 .. MaxPkts, total : 0 .. MaxPkts] /\ mm'.idx <= mm'.total
      BY <3>1 DEF SendImage
    <3>3. q' \in Seq(Message) /\ Len(q') <= QueueCap /\ next' \in 1 .. MaxMsgs + 1
      BY <3>1, EnqueueType DEF SendImage, Cmds
    <3>4. rpc' \in {"post", "rcv"}
      BY <3>1 DEF SendImage
    <3>5. QED
      BY <1>30, <2>2, <3>2, <3>3, <3>4 DEF RecvNextMM
  <2>3. QED
    BY <2>1, <2>2
<1>31. CASE HostSilent
  BY <1>31 DEF HostSilent
<1>32. CASE HostClose
  BY <1>32 DEF HostClose, Abandon
<1>33. CASE UNCHANGED vars
  BY <1>33 DEF vars
<1>34. CASE SendStall
  BY <1>34 DEF SendStall
<1>35. QED
  BY <1>1, <1>2, <1>3, <1>4, <1>5, <1>6, <1>7, <1>8, <1>9, <1>10, <1>11, <1>12, <1>13, <1>14, <1>15, <1>16, <1>17, <1>18, <1>19, <1>20, <1>21, <1>22, <1>23, <1>24, <1>25, <1>26, <1>27, <1>28, <1>29, <1>30, <1>31, <1>32, <1>33, <1>34
  DEF Next, Alerts, Heart, Send, Connect, Receive, Host

(* TokenBalance only looks at the queue, the semaphore and the program counters. *)
LEMMA BalanceInit == Init => TokenBalance
BY DEF Init, TokenBalance, Owed, Flag

(* A push adds one message at most, and its thread owes one token more. *)
LEMMA EnqueueLen ==
    ASSUME TypeOK, NEW c, NEW k, Enqueue(c, k)
    PROVE  Len(q') \in Nat /\ Len(q') <= Len(q) + 1
BY DEF TypeOK, Enqueue

(* Every step that lengthens the queue brings a token or the debt of one, and every token *)
(* that goes away takes a message with it, or is counted as burnt.                       *)
LEMMA BalanceNext == Shape /\ TokenBalance /\ [Next]_vars => TokenBalance'
<1> SUFFICES ASSUME Shape, TokenBalance, [Next]_vars PROVE TokenBalance'
  OBVIOUS
<1> TypeOK /\ Len(q) \in Nat /\ sem \in Nat /\ burnt \in Nat
  BY DEF Shape, TypeOK
<1> USE DEF TokenBalance, Owed, Flag, raisers, sender, media, history
<1>1. CASE WsRaise
  BY <1>1, EnqueueLen DEF WsRaise
<1>2. CASE WsPost
  BY <1>2 DEF WsPost, Post
<1>3. CASE SnapRaise
  BY <1>3, EnqueueLen DEF SnapRaise
<1>4. CASE SnapPost
  BY <1>4 DEF SnapPost, Post
<1>5. CASE HeartTimeout
  BY <1>5 DEF HeartTimeout
<1>6. CASE HeartClose
  BY <1>6 DEF HeartClose, Abandon
<1>7. CASE HeartOff
  BY <1>7 DEF HeartOff
<1>8. CASE SemWait
  BY <1>8 DEF SemWait
<1>9. CASE SendCheck
  BY <1>9 DEF SendCheck
<1>10. CASE SendPop
  BY <1>10 DEF SendPop
<1>11. CASE SendOnce
  BY <1>11 DEF SendOnce, Snd
<1>12. CASE SendTry
  BY <1>12 DEF SendTry, Snd
<1>13. CASE SendBlock
  BY <1>13 DEF SendBlock
<1>14. CASE SendAcked
  BY <1>14 DEF SendAcked
<1>15. CASE SendTimeout
  BY <1>15 DEF SendTimeout
<1>16. CASE RecvReset
  BY <1>16 DEF RecvReset
<1>17. CASE RecvClear
  BY <1>17 DEF RecvClear
<1>18. CASE RecvInit
  BY <1>18 DEF RecvInit
<1>19. CASE RecvConnect
  BY <1>19 DEF RecvConnect
<1>20. CASE RecvSetOn
  BY <1>20 DEF RecvSetOn
<1>21. CASE RecvReport
  BY <1>21, EnqueueLen DEF RecvReport
<1>22. CASE RecvPost
  BY <1>22 DEF RecvPost, Post
<1>23. CASE RecvLost
  BY <1>23 DEF RecvLost
<1>24. CASE RecvCommand
  BY <1>24, EnqueueLen DEF RecvCommand, Receiving
<1>25. CASE RecvSnap
  BY <1>25, EnqueueLen DEF RecvSnap, Receiving
<1>26. CASE RecvAck
  BY <1>26 DEF RecvAck, Notice
<1>27. CASE RecvReqMM
  BY <1>27, EnqueueLen DEF RecvReqMM, Receiving
<1>28. CASE RecvStartMM
  BY <1>28, EnqueueLen DEF RecvStartMM, SendImage
<1>29. CASE RecvAckMM
  BY <1>29 DEF RecvAckMM, Notice, Receiving
<1>30. CASE RecvNextMM
  BY <1>30, EnqueueLen DEF RecvNextMM, SendImage
<1>31. CASE HostSilent
  BY <1>31 DEF HostSilent
<1>32. CASE HostClose
  BY <1>32 DEF HostClose, Abandon
<1>33. CASE UNCHANGED vars
  BY <1>33 DEF vars
<1>34. CASE SendStall
  BY <1>34 DEF SendStall
<1>35. QED
  BY <1>1, <1>2, <1>3, <1>4, <1>5, <1>6, <1>7, <1>8, <1>9, <1>10, <1>11, <1>12, <1>13, <1>14, <1>15, <1>16, <1>17, <1>18, <1>19, <1>20, <1>21, <1>22, <1>23, <1>24, <1>25, <1>26, <1>27, <1>28, <1>29, <1>30, <1>31, <1>32, <1>33, <1>34
  DEF Next, Alerts, Heart, Send, Connect, Receive, Host

(* recv_ack is raised by an acknowledgement of the host only (notice_ack_msg), and lowered *)
(* when send_package consumes one.                                                        *)
LEMMA CreditNext == Shape /\ AckCredit /\ [Next]_vars => AckCredit'
<1> SUFFICES ASSUME Shape, AckCredit, [Next]_vars PROVE AckCredit'
  OBVIOUS
<1> credit \in Int /\ recv_ack \in {"WAIT", "NOTICE"}
  BY DEF Shape, TypeOK
<1> USE DEF AckCredit, Flag, history
<1>1. CASE SendAcked
  BY <1>1 DEF SendAcked
<1>2. CASE RecvAck
  BY <1>2 DEF RecvAck, Notice
<1>3. CASE RecvAckMM
  BY <1>3 DEF RecvAckMM, Notice
<1>4. CASE UNCHANGED <<recv_ack, credit>>
  BY <1>4
<1>5. Alerts \/ Heart \/ Connect \/ Host => UNCHANGED <<recv_ack, credit>>
  BY DEF Alerts, WsRaise, WsPost, SnapRaise, SnapPost, Heart, HeartTimeout, HeartClose, HeartOff,
         Connect, RecvReset, RecvClear, RecvInit, RecvConnect, RecvSetOn, RecvReport, RecvPost,
         Host, HostSilent, HostClose
<1>6. Send => SendAcked \/ UNCHANGED <<recv_ack, credit>>
  BY DEF Send, SemWait, SendCheck, SendPop, SendOnce, SendTry, SendBlock, SendTimeout, SendStall
<1>7. Receive => RecvAck \/ RecvAckMM \/ UNCHANGED <<recv_ack, credit>>
  BY DEF Receive, RecvLost, RecvCommand, RecvSnap, RecvReqMM, RecvStartMM, RecvNextMM
<1>8. QED
  BY <1>1, <1>2, <1>3, <1>4, <1>5, <1>6, <1>7 DEF Next, vars

(* Pushing a message with a new number, and taking the oldest one off, keep the queue's *)
(* numbers in order.                                                                    *)
LEMMA EnqueueOrder ==
    ASSUME TypeOK, QueueOrder, NEW c, NEW k, Enqueue(c, k), UNCHANGED <<cur, epoch>>
    PROVE  QueueOrder'
<1> q \in Seq(Message) /\ cur \in Message \cup {NoMsg}
  BY DEF TypeOK
<1> next \in Nat /\ Len(q) \in Nat /\ epoch \in Nat
  BY UplinkAssumption DEF TypeOK
<1> cur.id \in Nat
  BY MessageId DEF NoMsg
<1> \A i \in 1 .. Len(q) : q[i].id \in Nat
  BY MessageId
<1>1. CASE q' = q
  BY <1>1 DEF QueueOrder, Enqueue
<1>2. CASE q' = Append(q, [id |-> next, cmd |-> c, pkt |-> k])
  <2>1. /\ Len(q') = Len(q) + 1 /\ q'[Len(q) + 1].id = next
        /\ \A i \in 1 .. Len(q) : q'[i] = q[i]
    BY <1>2
  <2>2. next' = next + 1 /\ cur' = cur /\ epoch' = epoch
    BY DEF Enqueue
  <2>3. \A i \in 1 .. Len(q') : i \in 1 .. Len(q) \/ i = Len(q) + 1
    BY <2>1
  <2>4. \A i \in 1 .. Len(q') : epoch <= q'[i].id /\ cur.id < q'[i].id /\ q'[i].id < next'
    BY <2>1, <2>2, <2>3 DEF QueueOrder
  <2>5. \A i, j \in 1 .. Len(q') : i < j => q'[i].id < q'[j].id
    BY <2>1, <2>2, <2>3 DEF QueueOrder
  <2>6. QED
    BY <2>2, <2>4, <2>5 DEF QueueOrder
<1>3. QED
  BY <1>1, <1>2 DEF Enqueue

(* Taking the oldest message off keeps the order; the one taken is older than the rest. *)
LEMMA DequeueOrder ==
    ASSUME TypeOK, QueueOrder, q # << >>, q' = Tail(q), cur' \in {cur, Head(q)},
           UNCHANGED <<next, epoch>>
    PROVE  QueueOrder'
<1> q \in Seq(Message) /\ cur \in Message \cup {NoMsg}
  BY DEF TypeOK
<1> next \in Nat /\ Len(q) \in Nat /\ epoch \in Nat
  BY UplinkAssumption DEF TypeOK
<1> cur.id \in Nat
  BY MessageId DEF NoMsg
<1>1. \A i \in 1 .. Len(q) : q[i].id \in Nat
  BY MessageId
<1>2. /\ Len(q') = Len(q) - 1 /\ Head(q) = q[1] /\ 1 \in 1 .. Len(q)
      /\ \A i \in 1 .. Len(q') : q'[i] = q[i + 1] /\ i + 1 \in 1 .. Len(q) /\ 1 < i + 1
  BY TailType
<1>3. \A i \in 1 .. Len(q') : epoch <= q'[i].id /\ cur'.id < q'[i].id /\ q'[i].id < next
  BY <1>1, <1>2 DEF QueueOrder
<1>4. \A i, j \in 1 .. Len(q') : i < j => q'[i].id < q'[j].id
  BY <1>1, <1>2 DEF QueueOrder
<1>5. cur'.id < next
  BY <1>1, <1>2 DEF QueueOrder
<1>6. QED
  BY <1>3, <1>4, <1>5 DEF QueueOrder

(* The order of the numbers on the queue, in the send thread's hand and still to be given, *)
(* through every push, pop and clear_queue.                                              *)
LEMMA OrderNext == Shape /\ QueueOrder /\ [Next]_vars => QueueOrder'
<1> SUFFICES ASSUME Shape, QueueOrder, [Next]_vars PROVE QueueOrder'
  OBVIOUS
<1> TypeOK
  BY DEF Shape
<1> USE DEF sender, history
<1>1. CASE UNCHANGED <<q, next, cur, epoch>>
  BY <1>1 DEF QueueOrder
<1>2. Heart \/ Host => UNCHANGED <<q, next, cur, epoch>>
  BY DEF Heart, HeartTimeout, HeartClose, HeartOff, Host, HostSilent, HostClose
<1>3. CASE Alerts
  <2>1. (WsPost \/ SnapPost) => UNCHANGED <<q, next, cur, epoch>>
    BY DEF WsPost, SnapPost
  <2>2. QED
    BY <1>1, <1>3, <2>1, EnqueueOrder DEF Alerts, WsRaise, SnapRaise
<1>4. CASE Send
  <2>1. SendPop => (q # << >> /\ q' = Tail(q) /\ cur' = Head(q)) \/ UNCHANGED <<q, cur>>
    BY DEF SendPop
  <2>2. SendPop => UNCHANGED <<next, epoch>>
    BY DEF SendPop
  <2>3. Send => SendPop \/ UNCHANGED <<q, next, cur, epoch>>
    BY DEF Send, SemWait, SendCheck, SendOnce, SendTry, SendBlock, SendAcked, SendTimeout,
           SendStall
  <2>4. QED
    BY <1>1, <1>4, <2>1, <2>2, <2>3, DequeueOrder
<1>5. CASE Connect
  <2>1. CASE RecvClear
    <3>1. CASE q # << >>
      BY <2>1, <3>1, DequeueOrder DEF RecvClear
    <3>2. CASE q = << >>
      <4>1. Len(q') = 0 /\ epoch' = next' /\ next' = next /\ cur' = cur
        BY <2>1, <3>2 DEF RecvClear
      <4>2. next \in Int
        BY UplinkAssumption DEF TypeOK
      <4>3. QED
        BY <4>1, <4>2 DEF QueueOrder
    <3>3. QED
      BY <3>1, <3>2
  <2>2. CASE RecvReport
    BY <2>2, EnqueueOrder DEF RecvReport
  <2>3. Connect => RecvClear \/ RecvReport \/ UNCHANGED <<q, next, cur, epoch>>
    BY DEF Connect, RecvReset, RecvInit, RecvConnect, RecvSetOn, RecvPost
  <2>4. QED
    BY <1>1, <1>5, <2>1, <2>2, <2>3
<1>6. CASE Receive
  <2>1. (\E c, k : Enqueue(c, k)) \/ UNCHANGED <<q, next>>
    BY <1>6 DEF Receive, RecvLost, RecvCommand, RecvSnap, RecvAck, RecvReqMM, RecvStartMM,
                RecvAckMM, RecvNextMM, SendImage
  <2>2. UNCHANGED <<cur, epoch>>
    BY <1>6 DEF Receive, RecvLost, RecvCommand, RecvSnap, RecvAck, RecvReqMM, RecvStartMM,
                RecvAckMM, RecvNextMM
  <2>3. QED
    BY <1>1, <2>1, <2>2, EnqueueOrder
<1>7. CASE UNCHANGED vars
  BY <1>1, <1>7 DEF vars
<1>8. QED
  BY <1>1, <1>2, <1>3, <1>4, <1>5, <1>6, <1>7 DEF Next

(* send_repeat counts the transmissions of the message held, so its limit is theirs. *)
LEMMA CountNext ==
    Shape /\ QueueOrder /\ TransmitCount /\ TransmitBound /\ [Next]_vars
        => TransmitCount' /\ TransmitBound'
<1> SUFFICES ASSUME Shape, QueueOrder, TransmitCount, TransmitBound, [Next]_vars
             PROVE  TransmitCount' /\ TransmitBound'
  OBVIOUS
<1> tx \in [MsgIds -> Nat] /\ rep \in Nat /\ Repeats \in Nat \ {0} 
  BY UplinkAssumption DEF Shape, TypeOK
<1> \A i \in MsgIds : i \in Nat /\ tx[i] \in Nat
  BY UplinkAssumption DEF MsgIds
<1> USE DEF sender, history
<1>1. CASE UNCHANGED <<tx, cur, rep, spc>>
  BY <1>1 DEF TransmitCount, TransmitBound
<1>2. CASE SendPop
  <2>1. CASE q = << >>
    BY <1>2, <2>1 DEF SendPop, TransmitCount, TransmitBound
  <2>2. CASE q # << >>
    <3>1. cur' = q[1] /\ rep' = 0 /\ spc' \in {"once", "snd"} /\ UNCHANGED tx
      BY <1>2, <2>2, TailType DEF SendPop, Shape, TypeOK
    <3>2. q[1] \in Message /\ 1 \in 1 .. Len(q)
      BY <2>2, TailType DEF Shape, TypeOK
    <3>3. PICK n \in MsgIds : n = q[1].id
      BY <3>2 DEF Message
    <3>4. cur.id < n /\ cur.id \in Nat
      BY <3>2, <3>3, MessageId DEF QueueOrder, Shape, TypeOK, NoMsg
    <3>5. \A i \in MsgIds : tx[i] > 0 => i < n
      BY <3>4 DEF TransmitCount
    <3>6. tx[n] = 0
      BY <3>5
    <3>7. QED
      BY <3>1, <3>3, <3>5, <3>6 DEF TransmitCount, TransmitBound
  <2>3. QED
    BY <2>1, <2>2
<1>3. CASE SendOnce \/ SendTry
  <2>1. cur.id \in MsgIds /\ tx' = [tx EXCEPT ![cur.id] = tx[cur.id] + 1] /\ cur' = cur
    BY <1>3 DEF SendOnce, SendTry, Snd, Shape, HeldMessage, Holding, Message
  <2>2. /\ tx[cur.id] < Repeats
        /\ spc' = "sem" \/ (spc' = "lock" /\ rep' = tx[cur.id] + 1)
    BY <1>3 DEF SendOnce, SendTry, TransmitCount, Shape, HeldMessage
  <2>3. \A i \in MsgIds : tx'[i] = IF i = cur.id THEN tx[i] + 1 ELSE tx[i]
    BY <2>1
  <2>4. QED
    BY <2>1, <2>2, <2>3 DEF TransmitCount, TransmitBound
<1>4. CASE SemWait \/ SendCheck \/ SendBlock \/ SendAcked \/ SendTimeout
  <2>1. UNCHANGED <<tx, cur, rep>>
    BY <1>4 DEF SemWait, SendCheck, SendBlock, SendAcked, SendTimeout
  <2>2. spc' \notin {"once", "lock"} /\ (spc' \in {"snd", "wait"} => spc \in {"lock", "wait"})
    BY <1>4 DEF SemWait, SendCheck, SendBlock, SendAcked, SendTimeout
  <2>3. QED
    BY <2>1, <2>2 DEF TransmitCount, TransmitBound
<1>5. Alerts \/ Heart \/ Host => UNCHANGED <<tx, cur, rep, spc>>
  BY DEF Alerts, WsRaise, WsPost, SnapRaise, SnapPost, Heart, HeartTimeout, HeartClose, HeartOff,
         Host, HostSilent, HostClose
<1>6. Connect => UNCHANGED <<tx, cur, rep, spc>>
  BY DEF Connect, RecvReset, RecvClear, RecvInit, RecvConnect, RecvSetOn, RecvReport, RecvPost
<1>7. Receive => UNCHANGED <<tx, cur, rep, spc>>
  BY DEF Receive, RecvLost, RecvCommand, RecvSnap, RecvAck, RecvReqMM, RecvStartMM, RecvAckMM,
         RecvNextMM
<1>8. SendStall => UNCHANGED <<tx, cur, rep, spc>>
  BY DEF SendStall
<1>9. QED
  BY <1>1, <1>2, <1>3, <1>4, <1>5, <1>6, <1>7, <1>8 DEF Next, Send, vars

-----------------------------------------------------------------------------
(* The inductive invariant holds when the threads start. *)
LEMMA UplinkInvInit == Init => UplinkInv
<1> SUFFICES ASSUME Init PROVE UplinkInv
  OBVIOUS
<1>1. Shape /\ TokenBalance
  BY ShapeInit, BalanceInit
<1>2. AckCredit
  BY DEF Init, AckCredit, Flag
<1>3. QueueOrder
  BY DEF Init, QueueOrder, NoMsg
<1>4. TransmitCount /\ TransmitBound
  BY UplinkAssumption DEF Init, TransmitCount, TransmitBound
<1>5. QED
  BY <1>1, <1>2, <1>3, <1>4 DEF UplinkInv, Shape

(* The inductive invariant: in every reachable state of the send path, the receive thread *)
(* and the snap thread, whatever the host and the network do.                              *)
THEOREM UplinkCorrect == Spec => []UplinkInv
<1>1. UplinkInv /\ [Next]_vars => UplinkInv'
  BY ShapeNext, BalanceNext, CreditNext, OrderNext, CountNext DEF UplinkInv, Shape
<1>2. QED
  BY <1>1, UplinkInvInit, PTL DEF Spec

(* Every variable keeps its type; in particular the send queue never exceeds its capacity  *)
(* (ptr_queue_push) and send_repeat its limit (send_package).                              *)
THEOREM TypeCorrect == Spec => []TypeOK
BY UplinkCorrect, PTL DEF UplinkInv

(* No queued message is without a semaphore token, except for those send_package threw     *)
(* away with the status OFF: the only way a message can be stranded in g_send_q.           *)
THEOREM NoLostToken == Spec => []TokenBalance
BY UplinkCorrect, PTL DEF UplinkInv

(* send_package transmits each message at most REPEAT_SEND_TIMES_MAX times, also across    *)
(* reconnections.                                                                          *)
THEOREM BoundedTransmission == Spec => []TransmitBound
BY UplinkCorrect, PTL DEF UplinkInv

(* Messages are transmitted in the order in which they were pushed on g_send_q.            *)
THEOREM FifoTransmission == Spec => []NoOvertaking
<1>1. UplinkInv => NoOvertaking
  <2> SUFFICES ASSUME UplinkInv, NEW i \in MsgIds, tx[i] > 0, NEW k \in 1 .. Len(q)
               PROVE  q[k].id > i
    BY DEF NoOvertaking
  <2>1. i <= cur.id /\ cur.id < q[k].id
    BY DEF UplinkInv, TransmitCount, QueueOrder
  <2>2. i \in Nat /\ cur.id \in Nat /\ q[k].id \in Nat
    BY UplinkAssumption, MessageId DEF UplinkInv, TypeOK, MsgIds, NoMsg
  <2>3. QED
    BY <2>1, <2>2
<1>2. QED
  BY <1>1, UplinkCorrect, PTL

(* After clear_queue nothing of an earlier connection is left on the queue. *)
THEOREM NoStaleMessage == Spec => []FreshQueue
<1>1. UplinkInv => FreshQueue
  <2> SUFFICES ASSUME UplinkInv, NEW k \in 1 .. Len(q) PROVE q[k].id >= epoch
    BY DEF FreshQueue
  <2>1. epoch <= q[k].id /\ epoch \in Nat /\ q[k].id \in Nat
    BY UplinkAssumption, MessageId DEF UplinkInv, QueueOrder, TypeOK
  <2>2. QED
    BY <2>1
<1>2. QED
  BY <1>1, UplinkCorrect, PTL

(* Every acknowledgement consumed by send_package was sent by the host. *)
THEOREM NoInventedAck == Spec => []AckCredit
BY UplinkCorrect, PTL DEF UplinkInv

(* recv_ack_and_send_image never moves the packet index past the packet count. *)
THEOREM BoundedPacketIndex == Spec => []PacketIndexBound
BY UplinkCorrect, PTL DEF UplinkInv

-----------------------------------------------------------------------------
(***************************************************************************)
(* The proof that Uplink implements Channel: the initial states map to     *)
(* initial states, and under the inductive invariant UplinkInv every step  *)
(* maps to a step of Channel or to none.                                   *)
(***************************************************************************)

(* The start of the threads is the start of the channel: nothing pending, nothing held. *)
LEMMA InitMaps == Init => Promise!Init
<1> SUFFICES ASSUME Init PROVE Promise!Init
  OBVIOUS
<1>1. ViewQ = {}
  BY DEF Init, ViewQ
<1>2. ViewHeld = [id |-> 0, ack |-> FALSE]
  BY DEF Init, ViewHeld, Holding, View, NoMsg, AckStatus
<1>3. QED
  BY <1>1, <1>2 DEF Init, MsgIds, Promise!Init, Promise!Nobody

(* A push of message_queue_send, accepted or refused, raises one message. *)
LEMMA PushMaps ==
    ASSUME TypeOK, NEW c, NEW k, Enqueue(c, k), UNCHANGED <<spc, cur, tx, credit>>
    PROVE  Promise!Raise
<1> DEFINE m == [id |-> next, cmd |-> c, pkt |-> k]
<1>1. q \in Seq(Message) /\ Len(q) \in Nat
  BY DEF TypeOK
<1>2. CASE q' = Append(q, m)
  <2>1. /\ Len(q') = Len(q) + 1 /\ q'[Len(q) + 1] = m
        /\ \A i \in 1 .. Len(q) : q'[i] = q[i]
    BY <1>1, <1>2
  <2>2. ViewQ' = ViewQ \cup {View(m)}
    BY <1>1, <2>1 DEF ViewQ
  <2>3. PICK a \in BOOLEAN : View(m) = [id |-> next, ack |-> a]
    BY DEF View
  <2>4. ViewQ' \in {ViewQ, ViewQ \cup {[id |-> next, ack |-> a]}}
    BY <2>2, <2>3
  <2>5. QED
    BY <2>4 DEF Enqueue, ViewHeld, Promise!Raise
<1>3. CASE q' = q
  <2>1. ViewQ' = ViewQ
    BY <1>3 DEF ViewQ
  <2>2. ViewQ' \in {ViewQ, ViewQ \cup {[id |-> next, ack |-> TRUE]}}
    BY <2>1
  <2>3. QED
    BY <2>2 DEF Enqueue, ViewHeld, Promise!Raise
<1>4. QED
  BY <1>2, <1>3 DEF Enqueue

(* A pop, by send_package or by clear_queue, removes the oldest message and no other: the *)
(* numbers on the queue are distinct and in order.                                        *)
LEMMA PopMaps ==
    ASSUME TypeOK, QueueOrder, q # << >>, q' = Tail(q)
    PROVE  /\ View(Head(q)) \in ViewQ
           /\ Promise!Oldest(View(Head(q)))
           /\ ViewQ' = ViewQ \ {View(Head(q))}
<1>1. q \in Seq(Message)
  BY DEF TypeOK
<1>2. /\ Len(q) \in Nat \ {0} /\ Len(q') = Len(q) - 1 /\ Head(q) = q[1]
      /\ \A i \in 1 .. Len(q') : q'[i] = q[i + 1]
  BY <1>1, TailType
<1>3. \A i \in 1 .. Len(q) : q[i].id \in Nat
  BY <1>1, MessageId
<1>4. \A i \in 1 .. Len(q) : q[1].id <= q[i].id /\ (i > 1 => q[1].id < q[i].id)
  BY <1>2, <1>3 DEF QueueOrder
<1>5. \A m : View(m).id = m.id
  BY DEF View
<1>6. View(q[1]) \in ViewQ
  BY <1>2 DEF ViewQ
<1>7. Promise!Oldest(View(q[1]))
  BY <1>4, <1>5, <1>6 DEF ViewQ, Promise!Oldest
<1>8. \A i \in 1 .. Len(q) : i > 1 => View(q[i]) # View(q[1])
  <2> SUFFICES ASSUME NEW i \in 1 .. Len(q), i > 1, View(q[i]) = View(q[1]) PROVE FALSE
    OBVIOUS
  <2>1. q[i].id = q[1].id
    BY <1>5
  <2>2. QED
    BY <1>2, <1>3, <1>4, <2>1
<1>9. ViewQ' = ViewQ \ {View(q[1])}
  <2>1. ViewQ' = {View(q[i + 1]) : i \in 1 .. Len(q')}
    BY <1>2 DEF ViewQ
  <2>2. ASSUME NEW v \in ViewQ' PROVE v \in ViewQ \ {View(q[1])}
    <3>1. PICK i \in 1 .. Len(q') : v = View(q[i + 1])
      BY <2>1
    <3>2. i + 1 \in 1 .. Len(q) /\ i + 1 > 1
      BY <1>2
    <3>3. QED
      BY <3>1, <3>2, <1>8 DEF ViewQ
  <2>3. ASSUME NEW v \in ViewQ, v # View(q[1]) PROVE v \in ViewQ'
    <3>1. PICK i \in 1 .. Len(q) : v = View(q[i])
      BY DEF ViewQ
    <3>2. i # 1
      BY <3>1, <2>3
    <3>3. i - 1 \in 1 .. Len(q') /\ (i - 1) + 1 = i
      BY <1>2, <3>2
    <3>4. QED
      BY <2>1, <3>1, <3>3
  <2>4. QED
    BY <2>2, <2>3
<1>10. QED
  BY <1>2, <1>6, <1>7, <1>9

(* What the channel does not see: any step of a thread that leaves the queue, the         *)
(* numbers, the message in hand and the counts alone.                                     *)
LEMMA UnseenMaps ==
    ASSUME UNCHANGED <<q, next, cur, tx, credit>>, spc \in Holding <=> spc' \in Holding
    PROVE  UNCHANGED Promise!vars
BY DEF Promise!vars, ViewQ, ViewHeld

(* What the send thread holds is a message of the channel, or nobody. *)
LEMMA HeldView ==
    ASSUME Shape
    PROVE  /\ spc \in Holding =>
                 ViewHeld # Promise!Nobody /\ ViewHeld.id = cur.id /\ cur.id \in MsgIds
           /\ spc \notin Holding => ViewHeld = Promise!Nobody
           /\ spc \in Holding => ViewHeld.ack = (AckStatus(cur.cmd) = "WAITING")
<1>1. spc \in Holding => cur.id \in MsgIds /\ cur.id # 0
  BY UplinkAssumption DEF Shape, HeldMessage, Message, MsgIds
<1>2. View(cur).id = cur.id /\ View(cur).ack = (AckStatus(cur.cmd) = "WAITING")
  BY DEF View
<1>3. Promise!Nobody.id = 0 /\ View(NoMsg) = Promise!Nobody
  BY DEF Promise!Nobody, View, NoMsg, AckStatus
<1>4. QED
  BY <1>1, <1>2, <1>3 DEF ViewHeld

(***************************************************************************)
(* The send thread is in the loop of retransmissions exactly when the      *)
(* message it holds asks for an acknowledgement, and it waits for one only *)
(* after a transmission.                                                   *)
(***************************************************************************)
HeldKind ==
    /\ spc = "once" => AckStatus(cur.cmd) = "READY"
    /\ spc \in {"snd", "lock", "wait"} => AckStatus(cur.cmd) = "WAITING"
    /\ spc \in {"lock", "wait"} => rep > 0

(* send_package looks at ack_status once, after the pop, and its loop begins with a       *)
(* transmission.                                                                          *)
LEMMA KindNext == Shape /\ HeldKind /\ [Next]_vars => HeldKind'
<1> SUFFICES ASSUME Shape, HeldKind, [Next]_vars PROVE HeldKind'
  OBVIOUS
<1> USE DEF sender, HeldKind
<1>1. CASE UNCHANGED <<spc, cur, rep>>
  BY <1>1
<1>2. Alerts \/ Heart \/ Host => UNCHANGED <<spc, cur, rep>>
  BY DEF Alerts, WsRaise, WsPost, SnapRaise, SnapPost, Heart, HeartTimeout, HeartClose, HeartOff,
         Host, HostSilent, HostClose
<1>3. Connect => UNCHANGED <<spc, cur, rep>>
  BY DEF Connect, RecvReset, RecvClear, RecvInit, RecvConnect, RecvSetOn, RecvReport, RecvPost
<1>4. Receive => UNCHANGED <<spc, cur, rep>>
  BY DEF Receive, RecvLost, RecvCommand, RecvSnap, RecvAck, RecvReqMM, RecvStartMM, RecvAckMM,
         RecvNextMM
<1>5. CASE Send
  <2>1. CASE SendPop
    BY <2>1 DEF SendPop, AckStatus
  <2>2. CASE SendTry
    <3>1. rep' = rep + 1 /\ rep \in Nat
      BY <2>2, UplinkAssumption DEF SendTry, Shape, TypeOK
    <3>2. QED
      BY <2>2, <3>1 DEF SendTry
  <2>3. CASE SemWait \/ SendCheck \/ SendOnce \/ SendBlock \/ SendAcked \/ SendTimeout
    <3>1. UNCHANGED <<cur, rep>> /\ spc' \notin {"once", "lock"}
      BY <2>3 DEF SemWait, SendCheck, SendOnce, SendBlock, SendAcked, SendTimeout
    <3>2. spc' \in {"snd", "wait"} => spc \in {"lock", "wait"}
      BY <2>3 DEF SemWait, SendCheck, SendOnce, SendBlock, SendAcked, SendTimeout
    <3>3. QED
      BY <3>1, <3>2
  <2>4. SendStall => UNCHANGED <<spc, cur, rep>>
    BY DEF SendStall
  <2>5. QED
    BY <1>1, <1>5, <2>1, <2>2, <2>3, <2>4 DEF Send
<1>6. QED
  BY <1>1, <1>2, <1>3, <1>4, <1>5 DEF Next, vars

-----------------------------------------------------------------------------
(* The steps of the send thread: what each is to the channel. *)
LEMMA SendMaps ==
    ASSUME UplinkInv, HeldKind, Send
    PROVE  Promise!Next \/ UNCHANGED Promise!vars
<1> Shape /\ TypeOK /\ QueueOrder /\ TransmitCount
  BY DEF UplinkInv, Shape
<1> tx \in [MsgIds -> Nat] /\ rep \in 0 .. Repeats /\ Repeats \in Nat \ {0} /\ credit \in Int
  BY UplinkAssumption DEF TypeOK
<1> USE DEF sender, raisers, history
<1>1. CASE SemWait \/ SendCheck \/ SendBlock \/ SendStall
  <2>1. UNCHANGED <<q, next, cur, tx, credit>> /\ (spc \in Holding <=> spc' \in Holding)
    BY <1>1 DEF SemWait, SendCheck, SendBlock, SendStall, Holding
  <2>2. QED
    BY <2>1, UnseenMaps
<1>2. CASE SendPop
  <2>1. CASE q = << >>
    <3>1. UNCHANGED <<q, next, cur, tx, credit>> /\ (spc \in Holding <=> spc' \in Holding)
      BY <1>2, <2>1 DEF SendPop, Holding
    <3>2. QED
      BY <3>1, UnseenMaps
  <2>2. CASE q # << >>
    <3>1. ViewHeld = Promise!Nobody /\ ViewHeld' = View(Head(q))
      BY <1>2, <2>2, HeldView DEF SendPop, Holding, ViewHeld
    <3>2. /\ View(Head(q)) \in ViewQ /\ Promise!Oldest(View(Head(q)))
          /\ ViewQ' = ViewQ \ {View(Head(q))}
      BY <1>2, <2>2, PopMaps DEF SendPop
    <3>3. UNCHANGED <<next, tx, credit>>
      BY <1>2 DEF SendPop
    <3>4. Promise!Take
      BY <3>1, <3>2, <3>3 DEF Promise!Take
    <3>5. QED
      BY <3>4 DEF Promise!Next
  <2>3. QED
    BY <2>1, <2>2
<1>3. CASE SendOnce \/ SendTry
  <2>1. spc \in {"once", "snd"} /\ spc \in Holding
    BY <1>3 DEF SendOnce, SendTry, Holding
  <2>2. ViewHeld # Promise!Nobody /\ ViewHeld.id = cur.id
    BY <2>1, HeldView
  <2>3. tx[ViewHeld.id] < Repeats
    BY <2>1, <2>2 DEF TransmitCount, Shape, HeldMessage
  <2>4. tx' = [tx EXCEPT ![ViewHeld.id] = tx[ViewHeld.id] + 1]
    BY <1>3, <2>2 DEF SendOnce, SendTry, Snd
  <2>5. ViewHeld' = IF ViewHeld.ack THEN ViewHeld ELSE Promise!Nobody
    <3>1. CASE SendOnce
      <4>1. ~ViewHeld.ack
        BY <3>1, <2>1, HeldView DEF SendOnce, HeldKind
      <4>2. ViewHeld' = View(NoMsg)
        BY <3>1 DEF SendOnce, ViewHeld, Holding
      <4>3. View(NoMsg) = Promise!Nobody
        BY DEF View, NoMsg, AckStatus, Promise!Nobody
      <4>4. QED
        BY <4>1, <4>2, <4>3
    <3>2. CASE SendTry
      <4>1. ViewHeld.ack
        BY <3>2, <2>1, HeldView DEF SendTry, HeldKind
      <4>2. ViewHeld' = ViewHeld
        BY <3>2 DEF SendTry, ViewHeld, Holding
      <4>3. QED
        BY <4>1, <4>2
    <3>3. QED
      BY <1>3, <3>1, <3>2
  <2>6. UNCHANGED <<next, q, credit>> /\ ViewQ' = ViewQ
    BY <1>3 DEF SendOnce, SendTry, ViewQ
  <2>7. Promise!Transmit
    BY <2>2, <2>3, <2>4, <2>5, <2>6 DEF Promise!Transmit
  <2>8. QED
    BY <2>7 DEF Promise!Next
<1>4. CASE SendAcked
  <2>1. spc \in {"lock", "wait"} /\ spc \in Holding
    BY <1>4 DEF SendAcked, Holding
  <2>2. ViewHeld.ack /\ ViewHeld.id = cur.id /\ tx[cur.id] > 0
    BY <2>1, HeldView DEF HeldKind, TransmitCount
  <2>3. credit > 0 /\ credit' = credit - 1
    BY <1>4 DEF SendAcked, UplinkInv, AckCredit, Flag
  <2>4. ViewHeld' = Promise!Nobody /\ ViewQ' = ViewQ /\ UNCHANGED <<next, tx>>
    BY <1>4 DEF SendAcked, ViewHeld, ViewQ, Holding, View, NoMsg, AckStatus, Promise!Nobody
  <2>5. Promise!Release
    BY <2>2, <2>3, <2>4 DEF Promise!Release
  <2>6. QED
    BY <2>5 DEF Promise!Next
<1>5. CASE SendTimeout
  <2>1. spc = "wait" /\ spc \in Holding /\ UNCHANGED <<q, next, cur, tx, credit>>
    BY <1>5 DEF SendTimeout, Holding
  <2>2. CASE rep >= Repeats
    <3>1. ViewHeld.ack /\ ViewHeld.id = cur.id /\ tx[cur.id] = Repeats
      <4>1. rep = Repeats
        BY <2>2
      <4>2. ViewHeld.ack /\ ViewHeld.id = cur.id
        BY <2>1, HeldView DEF HeldKind
      <4>3. QED
        BY <2>1, <4>1, <4>2 DEF TransmitCount
    <3>2. ViewHeld' = Promise!Nobody /\ ViewQ' = ViewQ
      BY <1>5, <2>1, <2>2
      DEF SendTimeout, ViewHeld, ViewQ, Holding, View, NoMsg, AckStatus, Promise!Nobody
    <3>3. Promise!Release
      BY <2>1, <3>1, <3>2, Repeats > 0 DEF Promise!Release
    <3>4. QED
      BY <3>3 DEF Promise!Next
  <2>3. CASE ~(rep >= Repeats)
    BY <1>5, <2>1, <2>3, UnseenMaps DEF SendTimeout, Holding
  <2>4. QED
    BY <2>2, <2>3
<1>6. QED
  BY <1>1, <1>2, <1>3, <1>4, <1>5 DEF Send

(* Every step of every thread, of the host and of the network is a step of the channel or *)
(* one it does not see.                                                                   *)
LEMMA NextMaps ==
    ASSUME UplinkInv, HeldKind, [Next]_vars
    PROVE  Promise!Next \/ UNCHANGED Promise!vars
<1> TypeOK /\ QueueOrder /\ Shape
  BY DEF UplinkInv, Shape
<1> USE DEF sender, history
<1>1. CASE UNCHANGED <<q, next, cur, tx, credit, spc>>
  BY <1>1, UnseenMaps
<1>2. CASE UNCHANGED <<spc, cur, tx, credit>> /\ \E c, k : Enqueue(c, k)
  BY <1>2, PushMaps DEF Promise!Next
<1>3. CASE Alerts
  BY <1>1, <1>2, <1>3 DEF Alerts, WsRaise, WsPost, SnapRaise, SnapPost
<1>4. CASE Heart \/ Host
  BY <1>1, <1>4 DEF Heart, HeartTimeout, HeartClose, HeartOff, Host, HostSilent, HostClose
<1>5. CASE Connect
  <2>1. CASE RecvClear
    <3>1. CASE q = << >>
      BY <1>1, <2>1, <3>1 DEF RecvClear
    <3>2. CASE q # << >>
      <4>1. q' = Tail(q) /\ UNCHANGED <<next, tx, credit, cur, spc>>
        BY <2>1, <3>2 DEF RecvClear
      <4>2. ViewHeld' = ViewHeld
        BY <4>1 DEF ViewHeld
      <4>3. Promise!Discard
        BY <3>2, <4>1, <4>2, PopMaps DEF Promise!Discard
      <4>4. QED
        BY <4>3 DEF Promise!Next
    <3>3. QED
      BY <3>1, <3>2
  <2>2. Connect => \/ RecvClear
                   \/ UNCHANGED <<q, next, cur, tx, credit, spc>>
                   \/ UNCHANGED <<spc, cur, tx, credit>> /\ \E c, k : Enqueue(c, k)
    BY DEF Connect, RecvReset, RecvInit, RecvConnect, RecvSetOn, RecvReport, RecvPost
  <2>3. QED
    BY <1>1, <1>2, <1>5, <2>1, <2>2
<1>6. CASE Receive
  <2>1. UNCHANGED <<spc, cur, tx>>
    BY <1>6 DEF Receive, RecvLost, RecvCommand, RecvSnap, RecvAck, RecvReqMM, RecvStartMM,
                RecvAckMM, RecvNextMM
  <2>2. \/ UNCHANGED <<q, next, credit>>
        \/ UNCHANGED credit /\ \E c, k : Enqueue(c, k)
        \/ UNCHANGED <<q, next>> /\ credit' = credit + 1
    BY <1>6 DEF Receive, RecvLost, RecvCommand, RecvSnap, RecvAck, RecvReqMM, RecvStartMM,
                RecvAckMM, RecvNextMM, SendImage, Notice
  <2>3. CASE UNCHANGED <<q, next>> /\ credit' = credit + 1
    BY <2>1, <2>3 DEF Promise!Acknowledge, Promise!Next, ViewQ, ViewHeld
  <2>4. QED
    BY <1>1, <1>2, <2>1, <2>2, <2>3
<1>7. QED
  BY <1>1, <1>3, <1>4, <1>5, <1>6, SendMaps DEF Next, vars

(* The send path implements the channel, for every capacity, number of transmissions and  *)
(* number of messages: messages leave in order, one at a time, each taken one at least    *)
(* once and at most REPEAT_SEND_TIMES_MAX times, and send_package gives one up only for   *)
(* an acknowledgement of the host or after the last transmission.                         *)
THEOREM UplinkImplementsChannel == Spec => KeepsPromise
<1>1. Init => HeldKind
  BY DEF Init, HeldKind
<1>2. Spec => []HeldKind
  <2>1. Shape /\ Shape' /\ HeldKind /\ [Next]_vars => HeldKind'
    BY KindNext
  <2>2. UplinkInv => Shape
    BY DEF UplinkInv, Shape
  <2>3. QED
    BY <1>1, <2>1, <2>2, UplinkCorrect, PTL DEF Spec
<1>3. UplinkInv /\ HeldKind /\ [Next]_vars => [Promise!Next]_(Promise!vars)
  BY NextMaps
<1>4. QED
  BY <1>2, <1>3, InitMaps, UplinkCorrect, PTL DEF Spec, KeepsPromise, Promise!Spec

=============================================================================
