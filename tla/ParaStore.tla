----------------------------- MODULE ParaStore -----------------------------
(***************************************************************************)
(* The parameters of the device (para.cpp, recv_para_setting and           *)
(* do_factory_reset of process.cpp, write_file of rb_rw.cpp): a structure  *)
(* in memory behind para_lock, and a file from which it is loaded when the *)
(* process starts.  The host sets parameters, or resets them; the process  *)
(* may be killed at any step, in particular between the truncation of the  *)
(* file and the write of its content.                                      *)
(*                                                                         *)
(* A parameter is a field with a range and a default.  The two builds      *)
(* differ in one thing: the ADAS build checks the ranges whenever it       *)
(* writes the structure (adas_para_check), the DMS build does not.         *)
(***************************************************************************)
EXTENDS Integers

CONSTANTS
    Fields,     \* the parameters
    Values,     \* the values of a field, 0 among them
    Keep,       \* 0xFF, 0xFFFF in a command: leave the field alone
    InRange,    \* the range of each field
    Default,    \* the default of each field
    Checked     \* TRUE in the ADAS build

ASSUME ParaAssumption ==
    /\ 0 \in Values
    /\ Keep \notin Values
    /\ InRange \in [Fields -> SUBSET Values]
    /\ Default \in [Fields -> Values]
    /\ \A f \in Fields : Default[f] \in InRange[f]
    /\ Checked \in BOOLEAN

Paras   == [Fields -> Values]
Command == [Fields -> Values \cup {Keep}]
Zero    == [f \in Fields |-> 0]

VARIABLES
    pc,         \* the thread that loads, and later sets, the parameters
    mem,        \* adas_para or dms_para
    file,       \* LOCAL_ADAS_PRAR_FILE or LOCAL_DMS_PRAR_FILE: its state and its content
    ret,        \* what write_file returned, until the answer is sent
    \* history, read by the properties only
    durable,    \* the parameters of the last write that write_file reported complete
    hurt,       \* a write has begun since then
    unflushed   \* the last fclose of the file failed, which write_file does not look at

vars == <<pc, mem, file, ret, durable, hurt, unflushed>>

-----------------------------------------------------------------------------
(* write_dev_para: fields sent as 0xFF keep their value; the ADAS build then checks. *)

(* adas_para_check: what is out of range gets its default. *)
ParaCheck(p) == [f \in Fields |-> IF p[f] \in InRange[f] THEN p[f] ELSE Default[f]]

(* Mutants: the structure is copied, 0xFF included; the ranges are not checked. *)
WriteDevParaCopy(p, in) == in
WriteDevParaRaw(p, in) == [f \in Fields |-> IF in[f] = Keep THEN p[f] ELSE in[f]]

WriteDevPara(p, in) ==
    LET merged == [f \in Fields |-> IF in[f] = Keep THEN p[f] ELSE in[f]]
    IN  IF Checked THEN ParaCheck(merged) ELSE merged

-----------------------------------------------------------------------------
(* Starting: read_local_adas_para_file, read_local_dms_para_file. *)

BootLoad ==
    /\ pc = "boot" /\ file.state = "whole"
    /\ mem' = WriteDevPara(mem, file.p)
    /\ pc' = "idle"
    /\ UNCHANGED <<file, ret, durable, hurt, unflushed>>

(* A file too short is left as it is, and the parameters stay zero. *)
BootShort ==
    /\ pc = "boot" /\ file.state = "short"
    /\ pc' = "idle"
    /\ UNCHANGED <<mem, file, ret, durable, hurt, unflushed>>

(* No file: an empty one is created, then the defaults are set and written. *)
BootCreate ==
    /\ pc = "boot" /\ file.state = "absent"
    /\ \/ file' = [file EXCEPT !.state = "short"] /\ pc' = "default"
       \/ UNCHANGED file /\ pc' = "idle"
    /\ UNCHANGED <<mem, ret, durable, hurt, unflushed>>

(* set_AdasParaSetting_default, set_DmsParaSetting_default *)
SetDefault ==
    /\ pc = "default"
    /\ mem' = WriteDevPara(mem, Default)
    /\ pc' = "open"
    /\ UNCHANGED <<file, ret, durable, hurt, unflushed>>

-----------------------------------------------------------------------------
(* Commands of the host. *)

(* recv_para_setting: a command of the wrong length, or for another device, changes nothing. *)
SetPara ==
    /\ pc = "idle"
    /\ \E in \in Command : mem' = WriteDevPara(mem, in)
    /\ hurt' = TRUE
    /\ pc' = "open"
    /\ UNCHANGED <<file, ret, durable, unflushed>>

(* do_factory_reset *)
FactoryReset ==
    /\ pc = "idle"
    /\ hurt' = TRUE
    /\ pc' = "default"
    /\ UNCHANGED <<mem, file, ret, durable, unflushed>>

-----------------------------------------------------------------------------
(* write_file: the file is truncated when it is opened, and filled when it is closed. *)

OpenFile ==
    /\ pc = "open"
    /\ \/ file' = [state |-> "short", p |-> Zero] /\ pc' = "fill" /\ UNCHANGED ret
       \/ UNCHANGED file /\ ret' = 1 /\ pc' = "reply"
    /\ UNCHANGED <<mem, durable, hurt, unflushed>>

(* fwrite fails; or it succeeds, into the buffer of the stream, and fclose writes the     *)
(* buffer out, or fails to, in which case write_file returns 0 all the same.              *)
FillFile ==
    /\ pc = "fill"
    /\ \/ UNCHANGED <<file, unflushed>> /\ ret' = 2
       \/ file' = [state |-> "whole", p |-> mem] /\ unflushed' = FALSE /\ ret' = 0
       \/ UNCHANGED file /\ unflushed' = TRUE /\ ret' = 0
    /\ pc' = "reply"
    /\ UNCHANGED <<mem, durable, hurt>>

(* Mutant: whatever write_file returned is success. *)
ReplyAlways ==
    /\ pc = "reply"
    /\ durable' = mem /\ hurt' = FALSE
    /\ pc' = "idle" /\ ret' = 0
    /\ UNCHANGED <<mem, file, unflushed>>

(* The answer to the host, where there is one: 0 only if the file was written. *)
Reply ==
    /\ pc = "reply"
    /\ IF ret = 0 THEN durable' = mem /\ hurt' = FALSE ELSE UNCHANGED <<durable, hurt>>
    /\ pc' = "idle" /\ ret' = 0
    /\ UNCHANGED <<mem, file, unflushed>>

-----------------------------------------------------------------------------
(* The process is killed and started again.  The file is what it was. *)
Restart ==
    /\ pc' = "boot"
    /\ mem' = Zero
    /\ ret' = 0
    /\ UNCHANGED <<file, durable, hurt, unflushed>>

Init ==
    /\ pc = "boot" /\ mem = Zero /\ ret = 0
    /\ file = [state |-> "absent", p |-> Zero]
    /\ durable = Zero /\ hurt = TRUE /\ unflushed = FALSE

Boot == BootLoad \/ BootShort \/ BootCreate \/ SetDefault

Next == Boot \/ SetPara \/ FactoryReset \/ OpenFile \/ FillFile \/ Reply \/ Restart

Spec == Init /\ [][Next]_vars

-----------------------------------------------------------------------------
(* The type invariant. *)
TypeOK ==
    /\ pc \in {"boot", "default", "idle", "open", "fill", "reply"}
    /\ mem \in Paras
    /\ file \in [state : {"absent", "short", "whole"}, p : Paras]
    /\ ret \in {0, 1, 2}
    /\ durable \in Paras
    /\ hurt \in BOOLEAN
    /\ unflushed \in BOOLEAN

Sound(p) == \A f \in Fields : p[f] \in InRange[f]

(* Parameters acknowledged to the host stay in force, through any number of restarts,   *)
(* until a new command begins, unless an fclose failed: recv_para_setting answers 0     *)
(* only for what write_file wrote, and loading gives back what was written.             *)
AckedSurvives == (pc = "idle" /\ ~hurt /\ ~unflushed) => mem = durable

(* In the ADAS build what is in force after a command that succeeded is in range,       *)
(* through any restart: adas_para_check covers every way a value comes in, and the file *)
(* only ever holds checked values.  The DMS branch of write_dev_para checks nothing.    *)
RangeKept == (Checked /\ pc = "idle" /\ ~hurt /\ ~unflushed) => Sound(mem)

(* As long as there is a parameter file, the parameters in use are in range ("if para   *)
(* error, set default val", para.cpp:322).                                              *)
ParaInRange == (pc = "idle" /\ file.state # "absent") => Sound(mem)

(* What makes the first two inductive: a file written to the end holds what the last    *)
(* completed write put there, and what is about to be written was checked.              *)
FileIsDurable ==
    /\ (~hurt /\ ~unflushed) => (file.state = "whole" /\ file.p = durable)
    /\ (~hurt /\ Checked) => Sound(durable)
    /\ file.state = "absent" => hurt
    /\ (pc = "fill" \/ (pc = "reply" /\ ret = 0)) => file.state # "absent"
    /\ pc = "boot" => mem = Zero
    /\ pc \in {"default", "open", "fill", "reply"} => hurt
    /\ (pc = "reply" /\ ret = 0 /\ ~unflushed) => (file.state = "whole" /\ file.p = mem)
    /\ (pc \in {"open", "fill", "reply"} /\ Checked) => Sound(mem)

=============================================================================
