------------------------------ MODULE Upgrade ------------------------------
(***************************************************************************)
(* Upgrade of the program over the protocol (recv_upgrade_file).  The host *)
(* sends the byte sum of an image in packet 0, the image in packets 1 to   *)
(* PacketNum - 1, and the device installs what it has written when, at     *)
(* the last packet, the sum of what it received equals the announced sum.  *)
(*                                                                         *)
(* sum, sum_new and offset are static variables of the function: nothing   *)
(* but the end of the process resets sum_new and offset.                   *)
(*                                                                         *)
(* The host (not in the repository) sends the packets of a transfer in     *)
(* order, may repeat the last one it sent (its answer was lost), may       *)
(* give up and start over, and sends CLEAN only before a transfer.  The    *)
(* sums stay below 2^32.                                                   *)
(*                                                                         *)
(* A packet of zeros is invisible to the sum, and it moves the offset, in  *)
(* which packet_index has no part: one that does not belong to the         *)
(* transfer going on damages the file unnoticed.  The history variable     *)
(* blank tells that there was one.                                         *)
(***************************************************************************)
EXTENDS Integers, Sequences

CONSTANTS
    PacketNum,  \* packet_num: the sum packet and the data packets
    Packets,    \* the contents of a data packet: non-empty sequences of bytes
    MaxTaken    \* data packets taken in the life of a process

DataNum == PacketNum - 1
Images  == [1 .. DataNum -> Packets]

ASSUME UpgradeAssumption ==
    /\ PacketNum \in Nat /\ PacketNum > 1
    /\ MaxTaken \in Nat
    /\ \A p \in Packets : p \in Seq(0 .. 255) /\ p # <<>>

VARIABLES
    \* the device
    file,       \* UPGRADE_FILE_NAME: its bytes; empty when there is none
    sum,        \* the announced sum
    sum_new,    \* the sum of the data received since the process started
    offset,     \* where the next packet is written
    \* the host
    image,      \* what it is sending
    next,       \* the packet_index of the next packet
    \* history, read by the properties and by the bound only
    taken,      \* data packets taken since the process started
    clean,      \* the transfer is the first of the process, nothing repeated, nothing cut short
    short,      \* a write of the process came up short
    told,       \* the process has had the sum packet of the transfer
    blank,      \* the process took a packet of zeros that was repeated, of an abandoned
                \* transfer, or of one whose sum packet it has not had
    installed   \* what was installed since the host last started over: see Install

device  == <<file, sum, sum_new, offset>>
host    == <<image, next>>
history == <<taken, clean, short, told, blank, installed>>
vars    == <<device, host, history>>

-----------------------------------------------------------------------------
(* get_sum: what its loop has added up before each byte, and in the end. *)
Sums(bytes) ==
    LET s[n \in 0 .. Len(bytes)] == IF n = 0 THEN 0 ELSE s[n - 1] + bytes[n] IN s

GetSum(bytes) == Sums(bytes)[Len(bytes)]

(* The image up to each of its packets, and the whole of it. *)
Prefixes(im) ==
    LET c[n \in 0 .. DataNum] == IF n = 0 THEN <<>> ELSE c[n - 1] \o im[n] IN c

Content(im) == Prefixes(im)[DataNum]

(* lseek past the end and write: the gap reads as zeros. *)
WriteAt(bytes, at, data) ==
    LET end == at + Len(data)
    IN  [i \in 1 .. (IF Len(bytes) > end THEN Len(bytes) ELSE end) |->
            IF i > at /\ i <= end THEN data[i - at]
            ELSE IF i <= Len(bytes) THEN bytes[i] ELSE 0]

-----------------------------------------------------------------------------
(* UPGRADE_CMD_CLEAN *)
Clean ==
    /\ next = 0
    /\ file' = <<>>
    /\ UNCHANGED <<sum, sum_new, offset, host, history>>

(* Mutant: a new transfer resets the sum, and forgets the offset. *)
TransSumHalfReset ==
    /\ next \in {0, 1}
    /\ file' = <<>>
    /\ sum' = GetSum(Content(image)) /\ sum_new' = 0
    /\ next' = 1 /\ told' = TRUE
    /\ UNCHANGED <<offset, image, taken, clean, short, blank, installed>>

(* UPGRADE_CMD_TRANS, packet 0: the old file goes, the sum is noted. *)
TransSum ==
    /\ next \in {0, 1}
    /\ file' = <<>>
    /\ sum' = GetSum(Content(image))
    /\ next' = 1 /\ told' = TRUE
    /\ UNCHANGED <<sum_new, offset, image, taken, clean, short, blank, installed>>

(* UPGRADE_FILE_CMD, prot_upgrade.sh: installs the file and moves it away. *)
Install(bytes) ==
    /\ file' = <<>>
    /\ installed' = IF bytes = Content(image) THEN "exact"
                    ELSE IF short' THEN "short" ELSE IF blank' THEN "blank" ELSE "wrong"

(* Mutant: the last packet is taken to be the one numbered packet_num. *)
TransDataLate(i, k) ==
    LET data  == image[i]
        bytes == IF k = 0 THEN file ELSE WriteAt(file, offset, SubSeq(data, 1, k))
    IN  /\ taken < MaxTaken
        /\ offset' = offset + k
        /\ sum_new' = sum_new + GetSum(data)
        /\ next' = i + 1
        /\ taken' = taken + 1
        /\ clean' = (clean /\ i = next /\ k = Len(data))
        /\ short' = (short \/ k < Len(data))
        /\ blank' = (blank \/ (GetSum(data) = 0 /\ ~(told /\ i = next)))
        /\ IF i = PacketNum /\ sum_new' = sum
             THEN Install(bytes)
             ELSE file' = bytes /\ UNCHANGED installed
        /\ UNCHANGED <<sum, image, told>>

(* UPGRADE_CMD_TRANS, data packet i, of which k bytes are written: the sum is taken of   *)
(* the packet, the offset moves by what was written.                                     *)
TransData(i, k) ==
    LET data  == image[i]
        bytes == IF k = 0 THEN file ELSE WriteAt(file, offset, SubSeq(data, 1, k))
    IN  /\ taken < MaxTaken
        /\ offset' = offset + k
        /\ sum_new' = sum_new + GetSum(data)
        /\ next' = i + 1
        /\ taken' = taken + 1
        /\ clean' = (clean /\ i = next /\ k = Len(data))
        /\ short' = (short \/ k < Len(data))
        /\ blank' = (blank \/ (GetSum(data) = 0 /\ ~(told /\ i = next)))
        /\ IF i + 1 = PacketNum /\ sum_new' = sum
             THEN Install(bytes)
             ELSE file' = bytes /\ UNCHANGED installed
        /\ UNCHANGED <<sum, image, told>>

Trans == \E i \in {next - 1, next} \cap 1 .. DataNum : \E k \in 0 .. Len(image[i]) : TransData(i, k)

-----------------------------------------------------------------------------
(* The process ends and is started again: the static variables are zero, the file stays. *)
Exit ==
    /\ sum' = 0 /\ sum_new' = 0 /\ offset' = 0
    /\ taken' = 0
    /\ clean' = (next = 0)
    /\ short' = FALSE /\ told' = FALSE /\ blank' = FALSE
    /\ UNCHANGED <<file, host, installed>>

(* UPGRADE_CMD_RUN: the answer is queued, then the process exits. *)
Run == next \in {0, PacketNum} /\ Exit

(* The process is killed. *)
Crash == Exit

(* The host gives up, or is done, and starts over. *)
StartOver ==
    /\ next > 0
    /\ image' \in Images
    /\ next' = 0
    /\ clean' = (clean /\ taken = 0)
    /\ told' = FALSE
    /\ blank' = (blank \/ (taken > 0 /\ \E i \in 1 .. next - 1 : GetSum(image[i]) = 0))
    /\ installed' = "none"
    /\ UNCHANGED <<device, taken, short>>

Init ==
    /\ file = <<>> /\ sum = 0 /\ sum_new = 0 /\ offset = 0
    /\ image \in Images /\ next = 0
    /\ taken = 0 /\ clean = TRUE /\ short = FALSE /\ told = FALSE /\ blank = FALSE
    /\ installed = "none"

Next == Clean \/ TransSum \/ Trans \/ Run \/ Crash \/ StartOver

Spec == Init /\ [][Next]_vars

-----------------------------------------------------------------------------
(* Whatever the host repeats or abandons and whenever the process dies, what is          *)
(* installed is the image being sent, unless a write of the process came up short or it  *)
(* took a packet of zeros out of turn: the sum test and the offset, neither of which is  *)
(* reset, let nothing else through.                                                      *)
InstallExact == installed # "wrong"

(* A transfer is installed as soon as its last packet is there when it is the first      *)
(* that the process takes, no packet was repeated and every write was complete, whatever *)
(* its bytes: an image of zeros, whose sum is that of no announcement, too.              *)
CleanTransferInstalls ==
    (next = PacketNum /\ clean) => installed = "exact"

=============================================================================
