----------------------------- MODULE FrameParser -----------------------------
(***************************************************************************)
(* The framing of the link to the host (process.cpp): sample_escaple_msg   *)
(* on the sending side, and on the receiving side the byte-by-byte parser  *)
(* unescaple_msg with its static state, driven by prot_parse.              *)
(*                                                                         *)
(* The parser state survives the connection it was filled from: a          *)
(* connection lost in the middle of a frame leaves a partial frame behind, *)
(* and on the RS232 line any byte may be noise.  Bytes are the five that   *)
(* the code tells apart: the frame mark 0x7E, the escape character 0x7D,   *)
(* 0x01, 0x02 and any other.  The checksum is left out: it only rejects    *)
(* frames, and the properties are about frames that must come out intact.  *)
(*                                                                         *)
(* The limit that prot_parse passes to unescaple_msg is larger than the    *)
(* buffer it passes, so a byte can be stored outside it.  What that does   *)
(* to the memory behind it is not modelled: the parser goes on as if it    *)
(* were nobody's, and no property says anything from there on.             *)
(***************************************************************************)
EXTENDS Integers, Sequences

CONSTANTS
    MsgLen,     \* msglen, the limit prot_parse passes (SLIP_DATA_BUF_SIZE)
    BufLen,     \* bytes of handle->rcvData (DATA_BUF_SIZE)
    MinCnt,     \* a mark before this many bytes restarts the frame (6 in the code)
    MaxBody,    \* bound: bytes between the marks of the host's frames
    MaxNoise    \* bound: consecutive bytes outside a frame

ASSUME ParserAssumption ==
    /\ MsgLen \in Nat /\ BufLen \in Nat
    /\ MinCnt \in Nat /\ MaxBody \in Nat /\ MaxNoise \in Nat
    /\ 1 < MinCnt /\ MinCnt <= MaxBody + 1
    /\ MaxBody + 2 <= MsgLen /\ MinCnt < BufLen

MAGIC == "7E"
ESC   == "7D"
Bytes == {MAGIC, ESC, "01", "02", "xx"}

VARIABLES
    get_head,       \* unescaple_msg: a head was seen
    got_esc_char,   \* unescaple_msg: the previous byte was an escape character
    msg,            \* what was stored up to cnt: the frame so far
    body,           \* host: what the current frame carries
    pos,            \* host: which byte of the frame it is sending, 0 and Len(body) + 1 the marks
    tosend,         \* host: what is still to come of that byte, escaped; empty between frames
    noise,          \* bytes outside a frame since the last one
    \* history, read by the properties only
    intact,         \* frames completely received since the last noise or loss (capped at 2)
    returned,       \* what unescaple_msg returned since the current frame began
    run,            \* bytes since the last mark (capped at LongRun)
    strayed         \* a byte was stored outside handle->rcvData

vars == <<get_head, got_esc_char, msg, body, pos, tosend, noise, intact, returned, run, strayed>>

cnt == Len(msg)

(* With a mark before them, as many bytes as fill the buffer. *)
LongRun == BufLen - 1

-----------------------------------------------------------------------------
(* Mutation of EscapeByte: only the mark is escaped. *)
EscapeByteMarkOnly(b) == IF b = MAGIC THEN <<ESC, "02">> ELSE <<b>>

(* sample_escaple_msg: marks and escape characters between the two marks are escaped. *)
EscapeByte(b) ==
    IF b = MAGIC THEN <<ESC, "02">> ELSE IF b = ESC THEN <<ESC, "01">> ELSE <<b>>

(* The byte i of the frame as it goes over the line. *)
Escaped(i) == IF i \in {0, Len(body) + 1} THEN <<MAGIC>> ELSE EscapeByte(body[i])

Frame(s) == <<MAGIC>> \o s \o <<MAGIC>>

-----------------------------------------------------------------------------
(* unescaple_msg, one branch each. *)

(* msg[i] = ... *)
Store(i) == strayed' = IF i \in 0 .. BufLen - 1 THEN strayed ELSE TRUE

(* clear_frame_flag *)
ClearFrame == get_head' = 0 /\ got_esc_char' = 0 /\ msg' = << >>

(* The frame is as long as the limit: it is dropped, and this byte with it. *)
TooLong(ch) ==
    /\ cnt + 1 > MsgLen
    /\ ClearFrame
    /\ UNCHANGED <<returned, strayed>>

FitsAnd(h) == cnt + 1 <= MsgLen /\ get_head = h

GetHead(ch) ==
    /\ FitsAnd(0)
    /\ ch = MAGIC /\ cnt = 0
    /\ msg' = <<MAGIC>> /\ Store(0)
    /\ get_head' = 1
    /\ UNCHANGED <<got_esc_char, returned>>

(* No head yet: anything but a mark is skipped. *)
Skip(ch) ==
    /\ FitsAnd(0)
    /\ ~(ch = MAGIC /\ cnt = 0)
    /\ UNCHANGED <<get_head, got_esc_char, msg, returned, strayed>>

(* Mutation of Restart: a second mark too early is kept as text. *)
RestartAppends(ch) ==
    /\ FitsAnd(1)
    /\ ch = MAGIC /\ cnt > 0 /\ cnt < MinCnt
    /\ msg' = Append(msg, MAGIC) /\ Store(cnt)
    /\ get_head' = 1
    /\ UNCHANGED <<got_esc_char, returned>>

(* Mutation of Restart: the heads seen are counted. *)
RestartCounts(ch) ==
    /\ FitsAnd(1)
    /\ ch = MAGIC /\ cnt > 0 /\ cnt < MinCnt
    /\ msg' = <<MAGIC>> /\ Store(0)
    /\ get_head' = get_head + 1
    /\ UNCHANGED <<got_esc_char, returned>>

(* A second mark too early: it is taken as the head. *)
Restart(ch) ==
    /\ FitsAnd(1)
    /\ ch = MAGIC /\ cnt > 0 /\ cnt < MinCnt
    /\ msg' = <<MAGIC>> /\ Store(0)
    /\ get_head' = 1
    /\ UNCHANGED <<got_esc_char, returned>>

GetTail(ch) ==
    /\ FitsAnd(1)
    /\ ch = MAGIC /\ cnt > 0 /\ cnt >= MinCnt
    /\ returned' = IF returned = "nothing" /\ Append(msg, MAGIC) = Frame(body)
                   THEN "frame" ELSE "other"
    /\ Store(cnt)
    /\ ClearFrame

GetText(ch) ==
    /\ FitsAnd(1)
    /\ ~(ch = MAGIC /\ cnt > 0)
    /\ \/ /\ ch = ESC /\ got_esc_char = 0
          /\ got_esc_char' = 1
          /\ msg' = Append(msg, ch) /\ Store(cnt)
       \/ /\ got_esc_char = 1 /\ ch \in {"02", "01"}
          /\ msg' = [msg EXCEPT ![cnt] = IF ch = "02" THEN MAGIC ELSE ESC] /\ Store(cnt - 1)
          /\ got_esc_char' = 0
       \/ /\ ~(ch = ESC /\ got_esc_char = 0)
          /\ ~(got_esc_char = 1 /\ ch \in {"02", "01"})
          /\ msg' = Append(msg, ch) /\ Store(cnt)
          /\ got_esc_char' = 0
    /\ UNCHANGED <<get_head, returned>>

unescaple_msg(ch) ==
    /\ TooLong(ch) \/ GetHead(ch) \/ Skip(ch) \/ Restart(ch) \/ GetTail(ch) \/ GetText(ch)
    /\ run' = IF ch = MAGIC THEN 0 ELSE IF run = LongRun THEN run ELSE run + 1

-----------------------------------------------------------------------------
(* The host begins a frame. *)
HostFrame ==
    /\ tosend = << >>
    /\ \E n \in MinCnt - 1 .. MaxBody : body' \in [1 .. n -> Bytes]
    /\ pos' = 0 /\ tosend' = <<MAGIC>>
    /\ returned' = "nothing"
    /\ noise' = 0
    /\ UNCHANGED <<get_head, got_esc_char, msg, intact, run, strayed>>

(* prot_parse takes the next byte of the host's frame. *)
ParseByte ==
    /\ tosend # << >>
    /\ unescaple_msg(Head(tosend))
    /\ \/ /\ Len(tosend) > 1
          /\ tosend' = Tail(tosend)
          /\ UNCHANGED <<pos, intact>>
       \/ /\ Len(tosend) = 1 /\ pos <= Len(body)
          /\ pos' = pos + 1 /\ tosend' = Escaped(pos + 1)
          /\ UNCHANGED intact
       \/ /\ Len(tosend) = 1 /\ pos > Len(body)
          /\ tosend' = << >> /\ pos' = 0
          /\ intact' = IF intact < 2 THEN intact + 1 ELSE intact
    /\ UNCHANGED <<body, noise>>

(* prot_parse takes a byte that belongs to no frame. *)
ParseNoise ==
    /\ tosend = << >>
    /\ noise < MaxNoise
    /\ noise' = noise + 1
    /\ \E ch \in Bytes : unescaple_msg(ch)
    /\ intact' = 0
    /\ body' = << >>
    /\ UNCHANGED <<pos, tosend>>

(* The connection is lost in the middle of a frame; the receive thread reconnects *)
(* without clear_frame_flag.                                                      *)
LinkLost ==
    /\ tosend # << >>
    /\ tosend' = << >> /\ pos' = 0
    /\ body' = << >>
    /\ intact' = 0
    /\ UNCHANGED <<get_head, got_esc_char, msg, noise, returned, run, strayed>>

Init ==
    /\ get_head = 0 /\ got_esc_char = 0 /\ msg = << >>
    /\ body = << >> /\ pos = 0 /\ tosend = << >> /\ noise = 0
    /\ intact = 1 /\ returned = "nothing" /\ run = 0 /\ strayed = FALSE

Next == HostFrame \/ ParseByte \/ ParseNoise \/ LinkLost

Spec == Init /\ [][Next]_vars

-----------------------------------------------------------------------------
(* The type invariant of the parser and of the line. *)
TypeOK ==
    /\ get_head \in {0, 1} /\ got_esc_char \in {0, 1}
    /\ msg \in Seq(Bytes) /\ body \in Seq(Bytes) /\ tosend \in Seq(Bytes)
    /\ pos \in 0 .. MaxBody + 1
    /\ noise \in 0 .. MaxNoise
    /\ intact \in 0 .. 2
    /\ returned \in {"nothing", "frame", "other"}
    /\ run \in 0 .. LongRun /\ strayed \in BOOLEAN

(* What unescaple_msg keeps of a frame: cnt within msglen, a pending escape with a    *)
(* byte before it to replace, nothing left over outside a frame, and after a mark no   *)
(* more bytes than were received.                                                      *)
FrameState ==
    /\ cnt <= MsgLen
    /\ got_esc_char = 1 => cnt > 0
    /\ get_head = 0 <=> cnt = 0
    /\ run < LongRun => cnt <= run + 1

(* unescaple_msg first stores a byte outside handle->rcvData, before it or behind it,  *)
(* only after as many bytes in a row without a mark as fill it: no sequence of marks,  *)
(* escapes, partial frames and lost connections on the way there adds up to less.      *)
OutsideOnlyAfterLongRun == [][~strayed /\ strayed' => run = LongRun]_vars

(* Whatever partial frame, noise or lost connection came before, at most one intact    *)
(* frame is lost: the next one is returned exactly once and exactly as it was before   *)
(* sample_escaple_msg, for every content including marks and escape characters, unless *)
(* a byte was stored outside handle->rcvData.                                          *)
ResyncAfterOne ==
    (tosend = << >> /\ noise = 0 /\ intact = 2 /\ ~strayed) => returned = "frame"

=============================================================================
