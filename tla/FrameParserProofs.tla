-------------------------- MODULE FrameParserProofs --------------------------
(***************************************************************************)
(* Proofs about FrameParser, for every buffer, limit and frame length and  *)
(* whatever noise, partial frames and lost connections came before.        *)
(***************************************************************************)
EXTENDS FrameParser, TLAPS

(* The host is between frames, at a mark or at a byte of the frame, or has sent the   *)
(* escape character of one and owes the second half.                                  *)
Half ==
    /\ pos \in 1 .. Len(body)
    /\ body[pos] \in {MAGIC, ESC}
    /\ tosend = <<IF body[pos] = MAGIC THEN "02" ELSE "01">>

HostInv ==
    /\ tosend = << >> => pos = 0
    /\ tosend # << >> =>
          /\ Len(body) \in MinCnt - 1 .. MaxBody
          /\ pos \in 0 .. Len(body) + 1
          /\ tosend = Escaped(pos) \/ Half

(* Nothing of an earlier frame but perhaps a mark, which the next head replaces. *)
AtRest == got_esc_char = 0 /\ (msg = << >> \/ msg = <<MAGIC>>)

(* A message m begins with the mark and the first n bytes of the frame b. *)
Received(m, b, n) ==
    /\ Len(m) > n /\ m[1] = MAGIC
    /\ \A i \in 1 .. n : m[i + 1] = b[i]

(* From the second byte of a frame on no escape is left over from before it. *)
EscapeInPhase == (tosend # << >> /\ pos > 1 /\ ~Half) => got_esc_char = 0

(* Once one frame has come through intact, the parser follows the host byte by byte. *)
InStep ==
    intact > 0 =>
      /\ tosend = << >> => AtRest
      /\ tosend # << >> =>
            /\ returned = "nothing"
            /\ pos = 0 => AtRest
            /\ pos > 0 =>
                  /\ get_head = 1 /\ Received(msg, body, pos - 1)
                  /\ got_esc_char = IF Half THEN 1 ELSE 0
                  /\ Len(msg) = IF Half THEN pos + 1 ELSE pos

ParserInv == TypeOK /\ FrameState /\ HostInv /\ EscapeInPhase /\ InStep /\ ResyncAfterOne

-----------------------------------------------------------------------------
(* unescaple_msg, for any byte. *)

(* A mark fits below the limit and into the buffer, and does not end a frame at once. *)
LEMMA Sizes ==
    /\ MsgLen \in Nat /\ BufLen \in Nat /\ MinCnt \in Nat /\ LongRun \in Nat
    /\ 2 < MsgLen /\ 2 < BufLen /\ 1 < MinCnt /\ 0 < LongRun
<1>1. MsgLen \in Nat /\ BufLen \in Nat /\ MinCnt \in Nat /\ MaxBody \in Nat
  BY ParserAssumption
<1>2. 1 < MinCnt /\ MinCnt <= MaxBody + 1 /\ MaxBody + 2 <= MsgLen /\ MinCnt < BufLen
  BY ParserAssumption
<1>3. QED
  BY ONLY <1>1, <1>2 DEF LongRun

(* The four bytes have different values. *)
LEMMA BytesDiffer == MAGIC # ESC /\ MAGIC \notin {"01", "02", "xx"} /\ ESC \notin {"01", "02", "xx"}
BY DEF MAGIC, ESC

(* What unescaple_msg returns is one of its three results. *)
LEMMA ReturnedType ==
    ASSUME TypeOK, NEW ch, unescaple_msg(ch)
    PROVE  returned' \in {"nothing", "frame", "other"}
BY DEF TypeOK, unescaple_msg, TooLong, GetHead, Skip, Restart, GetTail, GetText

(* One byte, whatever it is, leaves the parser with a frame within the limit. *)
LEMMA ByteKeepsFrame ==
    ASSUME TypeOK, FrameState, NEW ch \in Bytes, unescaple_msg(ch)
    PROVE  /\ get_head' \in {0, 1} /\ got_esc_char' \in {0, 1} /\ msg' \in Seq(Bytes)
           /\ run' \in 0 .. LongRun /\ strayed' \in BOOLEAN
           /\ FrameState'
<1>0. Len(msg) \in Nat /\ MsgLen \in Nat /\ 2 < MsgLen
  BY Sizes DEF TypeOK
<1>1. MAGIC \in Bytes /\ ESC \in Bytes
  BY DEF Bytes
<1>a. LongRun \in Nat /\ LongRun > 0 /\ run \in 0 .. LongRun
  BY Sizes DEF TypeOK
<1>b. /\ ch = MAGIC => run' = 0
      /\ ch # MAGIC => run' = IF run = LongRun THEN run ELSE run + 1
  BY DEF unescaple_msg
<1>c. run' \in 0 .. LongRun
  BY <1>a, <1>b
<1>d. strayed' \in BOOLEAN
  BY DEF TypeOK, unescaple_msg, TooLong, GetHead, Skip, Restart, GetTail, GetText, Store
<1> USE DEF TypeOK, FrameState, cnt
<1>e. ASSUME Len(msg') \in Nat, Len(msg') < 2
      PROVE  Len(msg') <= MsgLen /\ (run' < LongRun => Len(msg') <= run' + 1)
  BY <1>0, <1>a, <1>c, <1>e
<1>2. CASE TooLong(ch) \/ GetTail(ch)
  <2>1. get_head' = 0 /\ got_esc_char' = 0 /\ msg' = << >>
    BY <1>2 DEF TooLong, GetTail, ClearFrame
  <2>2. msg' \in Seq(Bytes) /\ Len(msg') = 0 /\ Len(msg') < 2
    BY <2>1
  <2>3. FrameState'
    BY <1>e, <2>1, <2>2
  <2>4. QED
    BY <1>c, <1>d, <2>1, <2>2, <2>3
<1>3. CASE GetHead(ch) \/ Restart(ch)
  <2>1. msg' = <<MAGIC>> /\ get_head' = 1 /\ got_esc_char' = got_esc_char
    BY <1>3 DEF GetHead, Restart
  <2>2. msg' \in Seq(Bytes) /\ Len(msg') = 1 /\ Len(msg') < 2
    BY <1>1, <2>1
  <2>3. FrameState'
    BY <1>e, <2>1, <2>2
  <2>4. QED
    BY <1>c, <1>d, <2>1, <2>2, <2>3
<1>4. CASE Skip(ch)
  <2>1. UNCHANGED <<get_head, got_esc_char, msg>> /\ Len(msg') < 2
    BY <1>4 DEF Skip, FitsAnd
  <2>2. FrameState'
    BY <1>e, <2>1
  <2>3. QED
    BY <1>c, <1>d, <2>1, <2>2
<1>5. CASE GetText(ch)
  <2>0. get_head = 1 /\ get_head' = 1 /\ Len(msg) + 1 <= MsgLen
    BY <1>5 DEF GetText, FitsAnd
  <2>a. ch # MAGIC
    BY <1>0, <1>5, <2>0 DEF GetText
  <2>b. run' < LongRun => run' = run + 1 /\ run < LongRun
    BY <1>a, <1>b, <2>a
  <2>1. CASE msg' = Append(msg, ch) /\ got_esc_char' \in {0, 1}
    <3>1. msg' \in Seq(Bytes) /\ Len(msg') = Len(msg) + 1
      BY <2>1
    <3>2. run' < LongRun => Len(msg') <= run' + 1
      BY <1>0, <1>a, <2>b, <3>1
    <3>3. QED
      BY <1>0, <1>c, <1>d, <2>0, <2>1, <3>1, <3>2
  <2>2. CASE /\ msg' = [msg EXCEPT ![Len(msg)] = IF ch = "02" THEN MAGIC ELSE ESC]
             /\ got_esc_char = 1 /\ got_esc_char' = 0
    <3>1. msg' \in Seq(Bytes) /\ Len(msg') = Len(msg)
      BY <1>1, <2>2
    <3>2. run' < LongRun => Len(msg') <= run' + 1
      BY <1>0, <1>a, <2>b, <3>1
    <3>3. QED
      BY <1>0, <1>c, <1>d, <2>0, <2>2, <3>1, <3>2
  <2>3. QED
    BY <1>5, <2>1, <2>2 DEF GetText
<1>6. QED
  BY <1>2, <1>3, <1>4, <1>5 DEF unescaple_msg

(* A byte is stored outside handle->rcvData only behind a frame that fills it, and such a *)
(* frame has had no mark for as long.                                                      *)
LEMMA StrayNeedsLongRun ==
    ASSUME TypeOK, FrameState, NEW ch, unescaple_msg(ch), ~strayed, strayed'
    PROVE  run = LongRun
<1>0. Len(msg) \in Nat /\ BufLen \in Nat /\ 1 < BufLen /\ run \in 0 .. LongRun /\ LongRun = BufLen - 1
  BY ParserAssumption DEF TypeOK, LongRun
<1>1. CASE TooLong(ch) \/ Skip(ch)
  BY <1>1 DEF TooLong, Skip
<1>2. CASE GetHead(ch) \/ Restart(ch)
  <2>1. Store(0) /\ 0 \in 0 .. BufLen - 1
    BY <1>0, <1>2 DEF GetHead, Restart
  <2>2. QED
    BY <2>1 DEF Store
<1>3. CASE GetTail(ch) \/ GetText(ch)
  <2>1. Store(Len(msg)) \/ (got_esc_char = 1 /\ Store(Len(msg) - 1))
    BY <1>3 DEF GetTail, GetText, cnt
  <2>2. Len(msg) \notin 0 .. BufLen - 1 \/ (got_esc_char = 1 /\ Len(msg) - 1 \notin 0 .. BufLen - 1)
    BY <2>1 DEF Store
  <2>3. Len(msg) >= BufLen
    BY <1>0, <2>2 DEF FrameState, cnt
  <2>4. QED
    BY <1>0, <2>3 DEF FrameState, cnt
<1>4. QED
  BY <1>1, <1>2, <1>3 DEF unescaple_msg

(* A byte that is neither a mark nor an escape character uses up a pending escape. *)
LEMMA PlainByteEndsEscape ==
    ASSUME TypeOK, FrameState, NEW ch \in Bytes \ {MAGIC, ESC}, unescaple_msg(ch)
    PROVE  got_esc_char' = 0
<1>1. Len(msg) \in Nat
  BY DEF TypeOK
<1>2. CASE TooLong(ch) \/ GetTail(ch)
  BY <1>2 DEF TooLong, GetTail, ClearFrame
<1>3. CASE Skip(ch)
  BY <1>1, <1>3 DEF Skip, FitsAnd, TypeOK, FrameState, cnt
<1>4. CASE GetText(ch)
  BY <1>4 DEF GetText
<1>5. QED
  BY <1>2, <1>3, <1>4 DEF unescaple_msg, GetHead, Restart

(* A mark with no escape pending brings the parser to rest, whatever it had collected. *)
LEMMA MarkBringsToRest ==
    ASSUME TypeOK, FrameState, got_esc_char = 0, unescaple_msg(MAGIC)
    PROVE  AtRest'
<1>1. Len(msg) \in Nat
  BY DEF TypeOK
<1>2. CASE TooLong(MAGIC) \/ GetTail(MAGIC)
  BY <1>2 DEF TooLong, GetTail, ClearFrame, AtRest
<1>3. CASE GetHead(MAGIC) \/ Restart(MAGIC)
  BY <1>3 DEF GetHead, Restart, AtRest
<1>4. CASE Skip(MAGIC) \/ GetText(MAGIC)
  BY <1>1, <1>4 DEF Skip, GetText, FitsAnd, TypeOK, FrameState, cnt
<1>5. QED
  BY <1>2, <1>3, <1>4 DEF unescaple_msg

-----------------------------------------------------------------------------
(* unescaple_msg, in step with the host. *)

(* At rest, a mark is the head of the frame. *)
LEMMA HeadInStep ==
    ASSUME TypeOK, FrameState, AtRest, unescaple_msg(MAGIC)
    PROVE  /\ msg' = <<MAGIC>> /\ get_head' = 1 /\ got_esc_char' = 0
           /\ returned' = returned
<1>1. Len(msg) \in {0, 1}
  BY DEF AtRest
<1>a. Len(msg) < 2 /\ Len(msg) \in Nat
  <2>1. CASE msg = << >>
    BY <2>1
  <2>2. CASE msg = <<MAGIC>>
    BY <2>2
  <2>3. QED
    BY <2>1, <2>2 DEF AtRest
<1>2. GetHead(MAGIC) \/ Restart(MAGIC)
  <2>1. ~TooLong(MAGIC) /\ ~GetTail(MAGIC)
    <3>1. ~(Len(msg) + 1 > MsgLen) /\ ~(Len(msg) >= MinCnt)
      BY <1>a, Sizes
    <3>2. QED
      BY <3>1 DEF TooLong, GetTail, cnt
  <2>2. ~Skip(MAGIC) /\ ~GetText(MAGIC)
    BY <1>1 DEF Skip, GetText, FitsAnd, TypeOK, FrameState, cnt
  <2>3. QED
    BY <2>1, <2>2 DEF unescaple_msg
<1>3. QED
  BY <1>2 DEF GetHead, Restart, AtRest

(* Within a frame that fits, only GetText takes a byte that is no mark. *)
LEMMA TextInStep ==
    ASSUME TypeOK, NEW ch \in Bytes \ {MAGIC}, unescaple_msg(ch),
           get_head = 1, Len(msg) > 0, Len(msg) + 1 <= MsgLen
    PROVE  GetText(ch)
<1>1. Len(msg) \in Nat
  BY DEF TypeOK
<1>2. QED
  BY <1>1, ParserAssumption DEF unescaple_msg, TooLong, Skip, GetTail, GetHead, Restart, FitsAnd, cnt

(* A mark after enough bytes is the tail. *)
LEMMA TailInStep ==
    ASSUME TypeOK, unescaple_msg(MAGIC), get_head = 1, Len(msg) >= MinCnt, Len(msg) + 1 <= MsgLen
    PROVE  GetTail(MAGIC)
<1>1. Len(msg) \in Nat
  BY DEF TypeOK
<1>2. QED
  BY <1>1, ParserAssumption DEF unescaple_msg, TooLong, Skip, GetText, GetHead, Restart, FitsAnd, cnt

(* Storing a byte of the frame, or replacing the escape character by what it stands for, *)
(* adds the byte to what was received.                                                  *)
LEMMA StoreReceives ==
    ASSUME TypeOK, NEW n \in Nat, Received(msg, body, n), n + 1 <= Len(body),
           \/ Len(msg) = n + 1 /\ msg' = Append(msg, body[n + 1])
           \/ Len(msg) = n + 2 /\ msg' = [msg EXCEPT ![Len(msg)] = body[n + 1]]
    PROVE  Received(msg', body, n + 1) /\ Len(msg') = n + 2
<1>1. msg \in Seq(Bytes) /\ body \in Seq(Bytes) /\ Len(body) \in Nat
  BY DEF TypeOK
<1>2. body[n + 1] \in Bytes
  BY <1>1
<1>3. CASE Len(msg) = n + 1 /\ msg' = Append(msg, body[n + 1])
  <2>1. Len(msg') = n + 2 /\ msg'[n + 2] = body[n + 1] /\ \A i \in 1 .. n + 1 : msg'[i] = msg[i]
    BY <1>1, <1>2, <1>3
  <2>2. QED
    BY <2>1 DEF Received
<1>4. CASE Len(msg) = n + 2 /\ msg' = [msg EXCEPT ![Len(msg)] = body[n + 1]]
  <2>1. Len(msg') = n + 2 /\ msg'[n + 2] = body[n + 1] /\ \A i \in 1 .. n + 1 : msg'[i] = msg[i]
    BY <1>1, <1>2, <1>4
  <2>2. QED
    BY <2>1 DEF Received
<1>5. QED
  BY <1>3, <1>4

-----------------------------------------------------------------------------
(* The steps. *)

(* What the host sends next, and that it is Half or a whole byte of the frame, by cases. *)
LEMMA OnTheLine ==
    ASSUME TypeOK, HostInv, tosend # << >>
    PROVE  /\ pos \in {0, Len(body) + 1} => tosend = <<MAGIC>> /\ ~Half
           /\ pos \in 1 .. Len(body) =>
                /\ body[pos] \in Bytes
                /\ ~Half /\ body[pos] \notin {MAGIC, ESC} => tosend = <<body[pos]>>
                /\ ~Half /\ body[pos] \in {MAGIC, ESC} =>
                     tosend = <<ESC, IF body[pos] = MAGIC THEN "02" ELSE "01">>
<1>1. Len(body) \in Nat /\ pos \in 0 .. Len(body) + 1 /\ (tosend = Escaped(pos) \/ Half)
  BY DEF TypeOK, HostInv
<1>2. pos \in {0, Len(body) + 1} => tosend = <<MAGIC>> /\ ~Half
  BY <1>1 DEF Escaped, Half
<1>3. ASSUME pos \in 1 .. Len(body)
      PROVE  body[pos] \in Bytes /\ (~Half => tosend = EscapeByte(body[pos]))
  BY <1>1, <1>3 DEF Escaped, TypeOK
<1>4. QED
  BY <1>2, <1>3 DEF EscapeByte

(* What a byte looks like on the line. *)
LEMMA EscapeByteShape ==
    ASSUME NEW b \in Bytes
    PROVE  /\ EscapeByte(b) \in Seq(Bytes) /\ EscapeByte(b) # << >>
           /\ b \in {MAGIC, ESC} => Len(EscapeByte(b)) = 2
<1>1. {MAGIC, ESC, "01", "02"} \subseteq Bytes /\ MAGIC # ESC
  BY BytesDiffer DEF Bytes
<1>2. CASE b = MAGIC
  <2>1. EscapeByte(b) = <<ESC, "02">>
    BY <1>2 DEF EscapeByte
  <2>2. QED
    BY <1>1, <2>1
<1>3. CASE b = ESC
  <2>1. EscapeByte(b) = <<ESC, "01">>
    BY <1>1, <1>3 DEF EscapeByte
  <2>2. QED
    BY <1>1, <2>1
<1>4. CASE b \notin {MAGIC, ESC}
  <2>1. EscapeByte(b) = <<b>>
    BY <1>4 DEF EscapeByte
  <2>2. QED
    BY <1>4, <2>1
<1>5. QED
  BY <1>2, <1>3, <1>4

(* The host goes on to the next byte of the frame. *)
LEMMA NextByte ==
    ASSUME TypeOK, HostInv, tosend # << >>,
           pos <= Len(body), body' = body, pos' = pos + 1, tosend' = Escaped(pos + 1)
    PROVE  /\ HostInv' /\ ~Half'
           /\ tosend' # << >> /\ tosend' \in Seq(Bytes) /\ pos' \in 0 .. MaxBody + 1
<1>1. Len(body) \in Nat /\ pos \in 0 .. Len(body) /\ Len(body) \in MinCnt - 1 .. MaxBody
  BY DEF TypeOK, HostInv
<1>2. pos' \in 1 .. Len(body) + 1 /\ pos' \in 0 .. MaxBody + 1
  BY <1>1, ParserAssumption
<1>3. CASE pos' = Len(body) + 1
  <2>1. tosend' = <<MAGIC>>
    BY <1>3 DEF Escaped
  <2>2. ~Half'
    BY <1>1, <1>3 DEF Half
  <2>3. MAGIC \in Bytes
    BY DEF Bytes
  <2>4. tosend' # << >> /\ tosend' \in Seq(Bytes)
    BY ONLY <2>1, <2>3
  <2>5. tosend' = Escaped(pos)'
    BY <1>3, <2>1 DEF Escaped
  <2>6. HostInv'
    BY <1>1, <1>2, <2>4, <2>5 DEF HostInv
  <2>7. QED
    BY <1>2, <2>2, <2>4, <2>6
<1>4. CASE pos' # Len(body) + 1
  <2>1. pos' \in 1 .. Len(body) /\ body[pos'] \in Bytes /\ tosend' = EscapeByte(body[pos'])
    BY <1>1, <1>2, <1>4 DEF Escaped, TypeOK
  <2>2. tosend' # << >> /\ tosend' \in Seq(Bytes)
    BY <2>1, EscapeByteShape
  <2>3. ~Half'
    <3> SUFFICES ASSUME Half' PROVE FALSE
      OBVIOUS
    <3>1. body[pos'] \in {MAGIC, ESC} /\ Len(tosend') = 1
      BY DEF Half
    <3>2. PICK b \in Bytes : b = body[pos']
      BY <2>1
    <3>3. Len(EscapeByte(b)) = 2 /\ tosend' = EscapeByte(b)
      BY <2>1, <3>1, <3>2, EscapeByteShape
    <3>4. QED
      BY ONLY <3>1, <3>3
  <2>4. HostInv'
    BY <1>1, <1>2, <2>2 DEF HostInv, Escaped
  <2>5. QED
    BY <1>2, <2>2, <2>3, <2>4
<1>5. QED
  BY <1>3, <1>4

(* A byte of the frame, or the head, is through, and the host goes on to the next: in step *)
(* if it was.                                                                              *)
LEMMA ByteThrough ==
    ASSUME ParserInv, tosend # << >>, unescaple_msg(Head(tosend)), Len(tosend) = 1,
           pos <= Len(body), pos' = pos + 1, tosend' = Escaped(pos + 1),
           UNCHANGED <<body, noise, intact>>
    PROVE  ParserInv'
<1> USE DEF ParserInv
<1>1. Len(body) \in Nat /\ Len(body) \in MinCnt - 1 .. MaxBody /\ pos \in 0 .. Len(body)
  BY DEF TypeOK, HostInv
<1>2. HostInv' /\ ~Half' /\ tosend' # << >> /\ tosend' \in Seq(Bytes) /\ pos' \in 0 .. MaxBody + 1
  BY NextByte
<1>3. Head(tosend) \in Bytes
  BY DEF TypeOK
<1>4. TypeOK' /\ FrameState'
  <2>1. /\ get_head' \in {0, 1} /\ got_esc_char' \in {0, 1} /\ msg' \in Seq(Bytes)
        /\ run' \in 0 .. LongRun /\ strayed' \in BOOLEAN /\ FrameState'
        /\ returned' \in {"nothing", "frame", "other"}
    BY <1>3, ByteKeepsFrame, ReturnedType
  <2>2. QED
    BY <1>2, <2>1 DEF TypeOK
<1>5. pos > 0 => Head(tosend) \in Bytes \ {MAGIC, ESC}
  <2> SUFFICES ASSUME pos > 0 PROVE Head(tosend) \in Bytes \ {MAGIC, ESC}
    OBVIOUS
  <2>1. pos \in 1 .. Len(body)
    BY <1>1
  <2>2. CASE Half
    BY <2>2, BytesDiffer DEF Half, Bytes
  <2>3. CASE ~Half
    <3>1. body[pos] \in Bytes /\ (body[pos] \notin {MAGIC, ESC} => tosend = <<body[pos]>>)
          /\ (body[pos] \in {MAGIC, ESC} => Len(tosend) = 2)
      BY <2>1, <2>3, OnTheLine
    <3>2. QED
      BY <3>1
  <2>4. QED
    BY <2>2, <2>3
<1>6. EscapeInPhase'
  <2>1. pos > 0 => got_esc_char' = 0
    BY <1>5, PlainByteEndsEscape
  <2>2. QED
    BY <1>1, <2>1 DEF EscapeInPhase
<1>7. ASSUME intact > 0
      PROVE  /\ returned' = returned /\ get_head' = 1 /\ got_esc_char' = 0
             /\ Received(msg', body, pos) /\ Len(msg') = pos + 1
  <2>1. CASE pos = 0
    <3>1. Head(tosend) = MAGIC
      BY <2>1, OnTheLine
    <3>2. msg' = <<MAGIC>> /\ get_head' = 1 /\ got_esc_char' = 0 /\ returned' = returned
      BY <1>7, <2>1, <3>1, HeadInStep DEF InStep
    <3>3. QED
      BY <2>1, <3>2 DEF Received
  <2>2. CASE pos > 0
    <3>0. pos \in 1 .. Len(body) /\ pos - 1 \in Nat /\ body[pos] \in Bytes
      BY <1>1, <2>2 DEF TypeOK
    <3>1. get_head = 1 /\ Received(msg, body, pos - 1) /\ (Half => got_esc_char = 1 /\ Len(msg) = pos + 1)
          /\ (~Half => got_esc_char = 0 /\ Len(msg) = pos)
      BY <1>7, <2>2 DEF InStep
    <3>2. get_head = 1 /\ Len(msg) > 0 /\ Len(msg) + 1 <= MsgLen
      BY <1>1, <3>0, <3>1, ParserAssumption DEF Received
    <3>3. GetText(Head(tosend))
      BY <1>5, <2>2, <3>2, TextInStep
    <3>4. returned' = returned /\ get_head' = 1
      BY <3>2, <3>3 DEF GetText
    <3>5. got_esc_char' = 0
      BY <1>5, <2>2, PlainByteEndsEscape
    <3>6. Half => msg' = [msg EXCEPT ![Len(msg)] = body[pos]]
      <4> SUFFICES ASSUME Half PROVE msg' = [msg EXCEPT ![Len(msg)] = body[pos]]
        OBVIOUS
      <4>1. body[pos] \in {MAGIC, ESC} /\ Head(tosend) = IF body[pos] = MAGIC THEN "02" ELSE "01"
        BY DEF Half
      <4>2. got_esc_char = 1 /\ Head(tosend) # ESC
        BY <1>5, <2>2, <3>1
      <4>3. msg' = [msg EXCEPT ![Len(msg)] = IF Head(tosend) = "02" THEN MAGIC ELSE ESC]
        BY <3>3, <4>1, <4>2 DEF GetText, cnt
      <4>4. QED
        BY <4>1, <4>3
    <3>7. ~Half => msg' = Append(msg, body[pos])
      <4> SUFFICES ASSUME ~Half PROVE msg' = Append(msg, body[pos])
        OBVIOUS
      <4>1. Head(tosend) = body[pos] /\ Head(tosend) # ESC
        BY <1>5, <2>2, <3>0, OnTheLine
      <4>2. QED
        BY <3>1, <3>3, <4>1 DEF GetText
    <3>8. Received(msg', body, (pos - 1) + 1) /\ Len(msg') = (pos - 1) + 2
      <4>1. (pos - 1) + 1 = pos /\ (pos - 1) + 2 = pos + 1 /\ (pos - 1) + 1 <= Len(body)
        BY <3>0
      <4>2. \/ Len(msg) = (pos - 1) + 1 /\ msg' = Append(msg, body[(pos - 1) + 1])
            \/ Len(msg) = (pos - 1) + 2 /\ msg' = [msg EXCEPT ![Len(msg)] = body[(pos - 1) + 1]]
        BY <3>1, <3>6, <3>7, <4>1
      <4>3. QED
        BY <3>0, <3>1, <3>4, <4>1, <4>2, StoreReceives
    <3>9. QED
      <4>1. (pos - 1) + 1 = pos /\ (pos - 1) + 2 = pos + 1
        BY <3>0
      <4>2. QED
        BY <3>4, <3>5, <3>8, <4>1
  <2>3. QED
    BY <1>1, <2>1, <2>2
<1>8. InStep'
  BY <1>1, <1>2, <1>7 DEF InStep, Received
<1>9. QED
  BY <1>2, <1>4, <1>6, <1>8 DEF ResyncAfterOne

(* The first half of an escaped byte is through: the second is due. *)
LEMMA HalfThrough ==
    ASSUME ParserInv, tosend # << >>, unescaple_msg(Head(tosend)), Len(tosend) > 1,
           tosend' = Tail(tosend), UNCHANGED <<body, pos, noise, intact>>
    PROVE  ParserInv'
<1> USE DEF ParserInv
<1>1. Len(body) \in Nat /\ Len(body) \in MinCnt - 1 .. MaxBody /\ pos \in 0 .. Len(body) + 1
  BY DEF TypeOK, HostInv
<1>2. ~Half
  BY DEF Half
<1>3. pos \in 1 .. Len(body)
  <2>1. pos \notin {0, Len(body) + 1}
    BY OnTheLine
  <2>2. QED
    BY <1>1, <2>1
<1>4. body[pos] \in {MAGIC, ESC} /\ tosend = <<ESC, IF body[pos] = MAGIC THEN "02" ELSE "01">>
  BY <1>2, <1>3, OnTheLine
<1>5. Head(tosend) = ESC /\ ESC \in Bytes /\ ESC # MAGIC
  BY <1>4, BytesDiffer DEF Bytes
<1>6. tosend' = <<IF body[pos] = MAGIC THEN "02" ELSE "01">>
  BY <1>4
<1>7. tosend' # << >> /\ tosend' \in Seq(Bytes)
  BY ONLY <1>6 DEF Bytes
<1>8. Half'
  BY <1>3, <1>4, <1>6 DEF Half
<1>9. HostInv'
  BY <1>1, <1>7, <1>8 DEF HostInv
<1>10. TypeOK' /\ FrameState'
  <2>1. /\ get_head' \in {0, 1} /\ got_esc_char' \in {0, 1} /\ msg' \in Seq(Bytes)
        /\ run' \in 0 .. LongRun /\ strayed' \in BOOLEAN /\ FrameState'
        /\ returned' \in {"nothing", "frame", "other"}
    BY <1>5, ByteKeepsFrame, ReturnedType
  <2>2. QED
    BY <1>7, <2>1 DEF TypeOK
<1>11. InStep'
  <2> SUFFICES ASSUME intact > 0
               PROVE  /\ returned' = "nothing" /\ get_head' = 1 /\ got_esc_char' = 1
                      /\ Received(msg', body, pos - 1) /\ Len(msg') = pos + 1
    BY <1>3, <1>7, <1>8 DEF InStep
  <2>1. /\ returned = "nothing" /\ get_head = 1 /\ got_esc_char = 0
        /\ Received(msg, body, pos - 1) /\ Len(msg) = pos
    BY <1>2, <1>3 DEF InStep
  <2>2. Len(msg) > 0 /\ Len(msg) + 1 <= MsgLen
    BY <1>1, <1>3, <2>1, ParserAssumption
  <2>3. GetText(ESC)
    BY <1>5, <2>1, <2>2, TextInStep
  <2>4. msg' = Append(msg, ESC) /\ got_esc_char' = 1 /\ get_head' = 1 /\ returned' = "nothing"
    BY <2>1, <2>3 DEF GetText
  <2>5. Len(msg') = Len(msg) + 1 /\ \A i \in 1 .. Len(msg) : msg'[i] = msg[i]
    BY <1>5, <2>4 DEF TypeOK
  <2>6. Received(msg', body, pos - 1)
    <3>1. \A i \in 1 .. pos - 1 : i + 1 \in 1 .. Len(msg)
      BY <1>3, <2>1
    <3>2. 1 \in 1 .. Len(msg) /\ Len(msg') > pos - 1
      BY <1>3, <2>1, <2>5
    <3>3. QED
      BY <2>1, <2>5, <3>1, <3>2 DEF Received
  <2>7. QED
    BY <2>1, <2>4, <2>5, <2>6
<1>12. QED
  BY <1>7, <1>8, <1>9, <1>10, <1>11 DEF EscapeInPhase, ResyncAfterOne

(* The tail is through: the parser is at rest, and has returned the frame if it was in step. *)
LEMMA TailThrough ==
    ASSUME ParserInv, tosend # << >>, unescaple_msg(Head(tosend)), Len(tosend) = 1,
           pos > Len(body), tosend' = << >>, pos' = 0,
           intact' = IF intact < 2 THEN intact + 1 ELSE intact, UNCHANGED <<body, noise>>
    PROVE  ParserInv'
<1> USE DEF ParserInv
<1>1. Len(body) \in Nat /\ Len(body) \in MinCnt - 1 .. MaxBody /\ pos = Len(body) + 1 /\ pos > 1
  BY ParserAssumption DEF TypeOK, HostInv
<1>2. Head(tosend) = MAGIC /\ MAGIC \in Bytes /\ ~Half
  BY <1>1, OnTheLine DEF Bytes
<1>3. AtRest'
  <2>1. got_esc_char = 0
    BY <1>1, <1>2 DEF EscapeInPhase
  <2>2. QED
    BY <1>2, <2>1, MarkBringsToRest
<1>4. TypeOK' /\ FrameState'
  <2>1. /\ get_head' \in {0, 1} /\ got_esc_char' \in {0, 1} /\ msg' \in Seq(Bytes)
        /\ run' \in 0 .. LongRun /\ strayed' \in BOOLEAN /\ FrameState'
        /\ returned' \in {"nothing", "frame", "other"}
    BY <1>2, ByteKeepsFrame, ReturnedType
  <2>2. tosend' \in Seq(Bytes) /\ pos' \in 0 .. MaxBody + 1 /\ intact' \in 0 .. 2
    BY ParserAssumption DEF TypeOK
  <2>3. QED
    BY <2>1, <2>2 DEF TypeOK
<1>5. intact > 0 => returned' = "frame"
  <2> SUFFICES ASSUME intact > 0 PROVE returned' = "frame"
    OBVIOUS
  <2>1. /\ returned = "nothing" /\ get_head = 1
        /\ Received(msg, body, Len(body)) /\ Len(msg) = Len(body) + 1
    BY <1>1, <1>2 DEF InStep
  <2>2. Len(msg) >= MinCnt /\ Len(msg) + 1 <= MsgLen
    BY <1>1, <2>1, ParserAssumption
  <2>3. GetTail(MAGIC)
    BY <1>2, <2>1, <2>2, TailInStep
  <2>4. Append(msg, MAGIC) = Frame(body)
    <3>1. msg \in Seq(Bytes) /\ body \in Seq(Bytes)
      BY DEF TypeOK
    <3>2. /\ Append(msg, MAGIC) \in Seq(Bytes) /\ Len(Append(msg, MAGIC)) = Len(body) + 2
          /\ \A i \in 1 .. Len(body) + 1 : Append(msg, MAGIC)[i] = msg[i]
          /\ Append(msg, MAGIC)[Len(body) + 2] = MAGIC
      BY <1>1, <1>2, <2>1, <3>1
    <3>3. /\ Frame(body) \in Seq(Bytes) /\ Len(Frame(body)) = Len(body) + 2
          /\ Frame(body)[1] = MAGIC /\ Frame(body)[Len(body) + 2] = MAGIC
          /\ \A i \in 1 .. Len(body) : Frame(body)[i + 1] = body[i]
      BY <1>1, <1>2, <3>1 DEF Frame
    <3>4. \A i \in 1 .. Len(body) + 2 : Append(msg, MAGIC)[i] = Frame(body)[i]
      <4> SUFFICES ASSUME NEW i \in 1 .. Len(body) + 2 PROVE Append(msg, MAGIC)[i] = Frame(body)[i]
        OBVIOUS
      <4>1. CASE i = 1 \/ i = Len(body) + 2
        BY <1>1, <2>1, <3>2, <3>3, <4>1 DEF Received
      <4>2. CASE i \in 2 .. Len(body) + 1
        <5>1. i - 1 \in 1 .. Len(body) /\ (i - 1) + 1 = i
          BY <1>1, <4>2
        <5>2. Frame(body)[i] = body[i - 1] /\ msg[i] = body[i - 1]
          BY <2>1, <3>3, <5>1 DEF Received
        <5>3. QED
          BY <3>2, <4>2, <5>2
      <4>3. i = 1 \/ i = Len(body) + 2 \/ i \in 2 .. Len(body) + 1
        BY <1>1
      <4>4. QED
        BY <4>1, <4>2, <4>3
    <3>5. QED
      BY ONLY <3>2, <3>3, <3>4
  <2>5. QED
    BY <2>1, <2>3, <2>4 DEF GetTail
<1>6. HostInv' /\ EscapeInPhase' /\ InStep'
  BY <1>3 DEF HostInv, EscapeInPhase, InStep
<1>7. ResyncAfterOne'
  <2>1. intact' = 2 => intact > 0
    BY DEF TypeOK
  <2>2. QED
    BY <1>5, <2>1 DEF ResyncAfterOne
<1>8. QED
  BY <1>4, <1>6, <1>7

(* The frame the host begins does not disturb the parser. *)
LEMMA HostFrameKeepsInv == ASSUME ParserInv, HostFrame PROVE ParserInv'
<1> USE DEF ParserInv
<1>1. PICK n \in MinCnt - 1 .. MaxBody : body' \in [1 .. n -> Bytes]
  BY DEF HostFrame
<1>2. n \in Nat /\ body' \in Seq(Bytes) /\ Len(body') = n
  BY <1>1, ParserAssumption
<1>3. MAGIC \in Bytes
  BY DEF Bytes
<1>4. /\ tosend = << >> /\ pos' = 0 /\ tosend' = <<MAGIC>> /\ returned' = "nothing" /\ noise' = 0
      /\ UNCHANGED <<get_head, got_esc_char, msg, intact, run, strayed>>
  BY DEF HostFrame
<1>5. tosend' # << >> /\ tosend' \in Seq(Bytes)
  BY <1>3, <1>4
<1>6. TypeOK' /\ FrameState'
  BY <1>2, <1>4, <1>5, ParserAssumption DEF TypeOK, FrameState, cnt
<1>7. ~Half' /\ tosend' = Escaped(pos)'
  BY <1>4 DEF Half, Escaped
<1>8. HostInv'
  BY <1>1, <1>2, <1>4, <1>5, <1>7 DEF HostInv
<1>9. InStep'
  BY <1>4, <1>5, <1>7 DEF InStep, AtRest
<1>10. QED
  BY <1>4, <1>5, <1>6, <1>7, <1>8, <1>9 DEF EscapeInPhase, ResyncAfterOne

(* Noise and a lost connection end the count of intact frames. *)
LEMMA BreakKeepsInv == ASSUME ParserInv, ParseNoise \/ LinkLost PROVE ParserInv'
<1> USE DEF ParserInv
<1>1. tosend' = << >> /\ pos' = 0 /\ body' = << >> /\ intact' = 0 /\ noise' \in 0 .. MaxNoise
  BY ParserAssumption DEF ParseNoise, LinkLost, TypeOK, HostInv
<1>2. /\ get_head' \in {0, 1} /\ got_esc_char' \in {0, 1} /\ msg' \in Seq(Bytes)
      /\ run' \in 0 .. LongRun /\ strayed' \in BOOLEAN /\ FrameState'
      /\ returned' \in {"nothing", "frame", "other"}
  <2>1. CASE LinkLost
    BY <2>1 DEF LinkLost, TypeOK, FrameState, cnt
  <2>2. CASE ParseNoise
    <3>1. PICK ch \in Bytes : unescaple_msg(ch)
      BY <2>2 DEF ParseNoise
    <3>2. QED
      BY <3>1, ByteKeepsFrame, ReturnedType
  <2>3. QED
    BY <2>1, <2>2
<1>3. tosend' \in Seq(Bytes) /\ body' \in Seq(Bytes) /\ pos' \in 0 .. MaxBody + 1 /\ intact' \in 0 .. 2
  BY <1>1, ParserAssumption
<1>4. TypeOK'
  BY <1>1, <1>2, <1>3 DEF TypeOK
<1>5. QED
  BY <1>1, <1>2, <1>4 DEF HostInv, EscapeInPhase, InStep, ResyncAfterOne

(* The inductive invariant: the parser within its limit, the host within its frame, and  *)
(* the two in step once one frame came through.                                          *)
THEOREM ParserCorrect == Spec => []ParserInv
<1>1. Init => ParserInv
  <2> SUFFICES ASSUME Init PROVE ParserInv
    OBVIOUS
  <2>1. msg = << >> /\ body = << >> /\ tosend = << >>
    BY DEF Init
  <2>2. msg \in Seq(Bytes) /\ body \in Seq(Bytes) /\ tosend \in Seq(Bytes) /\ Len(msg) = 0
    BY <2>1
  <2>3. FrameState /\ run \in 0 .. LongRun /\ strayed \in BOOLEAN
    <3>1. Len(msg) \in Nat /\ Len(msg) < 2
      BY <2>1
    <3>2. Len(msg) <= MsgLen /\ Len(msg) <= 0 + 1 /\ 0 \in 0 .. LongRun
      BY <3>1, Sizes
    <3>3. get_head = 0 /\ got_esc_char = 0 /\ run = 0
      BY DEF Init
    <3>4. FrameState
      BY <2>2, <3>2, <3>3 DEF FrameState, cnt
    <3>5. run \in 0 .. LongRun
      BY <3>2, <3>3
    <3>6. strayed \in BOOLEAN
      BY DEF Init
    <3>7. QED
      BY <3>4, <3>5, <3>6
  <2>4. QED
    BY <2>1, <2>2, <2>3, ParserAssumption DEF Init, ParserInv, TypeOK, HostInv, EscapeInPhase,
       InStep, AtRest, ResyncAfterOne
<1>2. ParserInv /\ [Next]_vars => ParserInv'
  <2> SUFFICES ASSUME ParserInv, [Next]_vars PROVE ParserInv'
    OBVIOUS
  <2>1. CASE HostFrame
    BY <2>1, HostFrameKeepsInv
  <2>2. CASE ParseByte
    BY <2>2, HalfThrough, ByteThrough, TailThrough DEF ParseByte
  <2>3. CASE ParseNoise \/ LinkLost
    BY <2>3, BreakKeepsInv
  <2>4. CASE UNCHANGED vars
    BY <2>4 DEF vars, ParserInv, TypeOK, FrameState, cnt, HostInv, Half, Escaped, EscapeInPhase,
       InStep, AtRest, ResyncAfterOne
  <2>5. QED
    BY <2>1, <2>2, <2>3, <2>4 DEF Next
<1>3. QED
  BY <1>1, <1>2, PTL DEF Spec

(* The state of unescaple_msg and of the line is well formed. *)
THEOREM ParserTypeCorrect == Spec => []TypeOK
BY ParserCorrect, PTL DEF ParserInv

(* For every limit and every buffer, also one smaller than the limit: unescaple_msg stores *)
(* nothing outside handle->rcvData until so many bytes in a row came without a mark as     *)
(* fill it.                                                                                *)
THEOREM InsideUntilLongRun == Spec => OutsideOnlyAfterLongRun
<1>1. ParserInv /\ [Next]_vars => [~strayed /\ strayed' => run = LongRun]_vars
  <2> SUFFICES ASSUME ParserInv, Next, ~strayed, strayed' PROVE run = LongRun
    OBVIOUS
  <2>1. PICK ch : unescaple_msg(ch)
    BY DEF Next, HostFrame, LinkLost, ParseByte, ParseNoise
  <2>2. QED
    BY <2>1, StrayNeedsLongRun DEF ParserInv
<1>2. QED
  BY <1>1, ParserCorrect, PTL DEF Spec, OutsideOnlyAfterLongRun

(* Whatever came before, unescaple_msg returns the second of two intact frames, and every *)
(* one after it, exactly once and exactly as it was before sample_escaple_msg, as long as *)
(* every byte went into handle->rcvData.                                                  *)
THEOREM AtMostOneFrameLost == Spec => []ResyncAfterOne
BY ParserCorrect, PTL DEF ParserInv

=============================================================================
