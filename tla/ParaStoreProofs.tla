-------------------------- MODULE ParaStoreProofs --------------------------
(***************************************************************************)
(* For every set of parameters, every range and every default in it, in    *)
(* both builds: what the host was told is stored is in force after any     *)
(* number of crashes, and in range where the build checks ranges.          *)
(***************************************************************************)
EXTENDS Process, TLAPS

(* What AckedSurvives needs beside FileIsDurable: it is itself preserved by every step. *)
IInv == TypeOK /\ FileIsDurable /\ AckedSurvives

(* adas_para_check yields parameters that are in range. *)
LEMMA CheckIsSound ==
    ASSUME NEW p \in Paras
    PROVE  ParaCheck(p) \in Paras /\ Sound(ParaCheck(p))
BY ParaAssumption DEF ParaCheck, Paras, Sound

(* adas_para_check leaves parameters that are in range as they are. *)
LEMMA CheckIsIdentity ==
    ASSUME NEW p \in Paras, Sound(p)
    PROVE  ParaCheck(p) = p
BY DEF ParaCheck, Paras, Sound

(* write_dev_para yields parameters, in range if the build checks. *)
LEMMA WriteIsSound ==
    ASSUME NEW p \in Paras, NEW in \in Command
    PROVE  /\ WriteDevPara(p, in) \in Paras
           /\ Checked => Sound(WriteDevPara(p, in))
<1> DEFINE merged == [f \in Fields |-> IF in[f] = Keep THEN p[f] ELSE in[f]]
<1>1. merged \in Paras
  BY DEF Paras, Command
<1>2. ParaCheck(merged) \in Paras /\ Sound(ParaCheck(merged))
  BY <1>1, CheckIsSound
<1> HIDE DEF merged
<1>3. WriteDevPara(p, in) = IF Checked THEN ParaCheck(merged) ELSE merged
  BY DEF WriteDevPara, merged
<1> QED BY <1>1, <1>2, <1>3

(* Loading a complete set of parameters, in range where that is checked, gives it back. *)
LEMMA WriteIsIdentity ==
    ASSUME NEW p \in Paras, NEW q \in Paras, Checked => Sound(q)
    PROVE  WriteDevPara(p, q) = q
<1> DEFINE merged == [f \in Fields |-> IF q[f] = Keep THEN p[f] ELSE q[f]]
<1>1. merged = q
  BY ParaAssumption DEF Paras
<1>2. Checked => ParaCheck(q) = q
  BY CheckIsIdentity
<1> HIDE DEF merged
<1>3. WriteDevPara(p, q) = IF Checked THEN ParaCheck(merged) ELSE merged
  BY DEF WriteDevPara, merged
<1> QED BY <1>1, <1>2, <1>3

(* Zero, the defaults and the file are commands that write_dev_para takes. *)
LEMMA ParasAreCommands ==
    Zero \in Paras /\ Default \in Paras /\ Paras \subseteq Command
BY ParaAssumption DEF Zero, Paras, Command

(* The inductive invariant holds initially. *)
LEMMA InitIsIInv == Init => IInv
<1> SUFFICES ASSUME Init PROVE IInv
  OBVIOUS
<1>1. hurt /\ ~unflushed /\ pc = "boot"
  BY DEF Init
<1>2. TypeOK
  BY ParasAreCommands DEF Init, TypeOK
<1>3. FileIsDurable
  BY <1>1 DEF Init, FileIsDurable
<1>4. AckedSurvives
  BY <1>1 DEF AckedSurvives
<1> QED BY <1>2, <1>3, <1>4 DEF IInv

(* Every step preserves the inductive invariant. *)
LEMMA StepKeepsIInv ==
    ASSUME IInv, [Next]_vars
    PROVE  IInv'
<1> USE ParaAssumption DEF IInv, TypeOK, FileIsDurable, AckedSurvives
<1>0. Zero \in Paras /\ Default \in Paras /\ Paras \subseteq Command
  BY ParasAreCommands
<1>1. CASE BootLoad
  <2>1. WriteDevPara(mem, file.p) \in Paras
    BY <1>0, <1>1, WriteIsSound DEF BootLoad
  <2>2. (~hurt /\ ~unflushed) => WriteDevPara(mem, file.p) = durable
    BY <1>1, WriteIsIdentity DEF BootLoad
  <2> QED BY <1>1, <2>1, <2>2 DEF BootLoad, Sound
<1>2. CASE BootShort
  BY <1>2 DEF BootShort, Sound
<1>3. CASE BootCreate
  BY <1>3 DEF BootCreate, Sound
<1>4. CASE SetDefault
  <2>1. /\ WriteDevPara(mem, Default) \in Paras
        /\ Checked => Sound(WriteDevPara(mem, Default))
    BY <1>0, WriteIsSound
  <2> QED BY <1>4, <2>1 DEF SetDefault, Sound
<1>5. CASE SetPara
  <2>1. PICK in \in Command : mem' = WriteDevPara(mem, in)
    BY <1>5 DEF SetPara
  <2>2. mem' \in Paras /\ (Checked => Sound(mem)')
    BY <2>1, WriteIsSound DEF Sound
  <2> QED BY <1>5, <2>2 DEF SetPara, Sound
<1>6. CASE FactoryReset
  BY <1>6 DEF FactoryReset, Sound
<1>7. CASE OpenFile
  BY <1>0, <1>7 DEF OpenFile, Sound
<1>8. CASE FillFile
  <2>0. /\ pc = "fill" /\ pc' = "reply" /\ hurt
        /\ mem' = mem /\ durable' = durable /\ hurt' = hurt
    BY <1>8 DEF FillFile
  <2>1. CASE UNCHANGED <<file, unflushed>> /\ ret' = 2
    BY <2>0, <2>1 DEF Sound
  <2>2. CASE file' = [state |-> "whole", p |-> mem] /\ unflushed' = FALSE /\ ret' = 0
    BY <2>0, <2>2 DEF Sound
  <2>3. CASE UNCHANGED file /\ unflushed' = TRUE /\ ret' = 0
    BY <2>0, <2>3 DEF Sound
  <2> QED BY <1>8, <2>1, <2>2, <2>3 DEF FillFile
<1>9. CASE Reply
  BY <1>9 DEF Reply, Sound
<1>10. CASE Restart
  BY <1>0, <1>10 DEF Restart, Sound
<1>11. CASE UNCHANGED vars
  BY <1>11 DEF vars, Sound
<1> QED
  BY <1>1, <1>2, <1>3, <1>4, <1>5, <1>6, <1>7, <1>8, <1>9, <1>10, <1>11 DEF Next, Boot

(* The inductive invariant holds in every reachable state of the parameter store. *)
THEOREM ParaCorrect == Spec => []IInv
BY InitIsIInv, StepKeepsIInv, PTL DEF Spec

(* What recv_para_setting acknowledged is in force until the next command, whatever     *)
(* restarts lie in between.                                                             *)
THEOREM AckedParametersSurvive == Spec => []AckedSurvives
<1>1. IInv => AckedSurvives
  BY DEF IInv
<1> QED BY <1>1, ParaCorrect, PTL

(* The ADAS build never puts a parameter out of range in force, except after a write of *)
(* the file that was cut off or failed.                                                 *)
THEOREM AdasParametersInRange == Spec => []RangeKept
<1>1. IInv => RangeKept
  BY DEF IInv, TypeOK, FileIsDurable, AckedSurvives, RangeKept
<1> QED BY <1>1, ParaCorrect, PTL

(* The type invariant of the parameters and of their file. *)
THEOREM ParaTypeCorrect == Spec => []TypeOK
BY ParaCorrect, PTL DEF IInv

-----------------------------------------------------------------------------
(* A step of the process is a step of the parameter store, or leaves the store alone. *)
LEMMA ProcessStepIsPara == [ProcessNext]_allVars => [Next]_vars
<1> SUFFICES ASSUME [ProcessNext]_allVars PROVE [Next]_vars
  OBVIOUS
<1>1. CASE Load
  BY <1>1 DEF Load, Next, Boot
<1>2. CASE Start \/ Join \/ Signal \/ Notice \/ RecvGivesUp \/ Raise \/ Send \/ SendPackage
  BY <1>2 DEF Start, Join, Signal, Notice, RecvGivesUp, Raise, Send, SendTest, SendWait,
              SendPackage
<1>3. CASE Save
  BY <1>3 DEF Save, SaveLeave, SaveIdle, ConfigureVideo, ConfigureImage
<1>4. CASE \E t \in Threads : Leave(t)
  BY <1>4 DEF Leave
<1>5. CASE SettingCommand
  BY <1>5 DEF SettingCommand, Next, Boot
<1>6. CASE NewProcess
  BY <1>6 DEF NewProcess, Next
<1>7. CASE UNCHANGED allVars
  BY <1>7 DEF allVars
<1>8. QED
  BY <1>1, <1>2, <1>3, <1>4, <1>5, <1>6, <1>7 DEF ProcessNext, Main

(* The process does to its parameters what ParaStore allows and nothing else: loading   *)
(* before the threads start, setting while they run.                                    *)
THEOREM ProcessImplementsPara == ProcessSpec => Spec
<1>1. ProcessInit => Init
  BY DEF ProcessInit
<1>2. QED
  BY <1>1, ProcessStepIsPara, PTL DEF ProcessSpec, Spec

(* In the whole process, too, what was acknowledged survives a SIGINT, a kill and any   *)
(* number of restarts.                                                                  *)
THEOREM AckedSurvivesInProcess == ProcessSpec => []AckedSurvives
BY ProcessImplementsPara, AckedParametersSurvive, PTL

-----------------------------------------------------------------------------
(* What ExitToken rests on: before main starts it there is no send thread that could    *)
(* wait, and the semaphore never goes below zero.                                       *)
ExitInv ==
    /\ sem \in Nat /\ handler \in {0, 1}
    /\ th \in [Threads -> Places]
    /\ main = 0 => th["send"] = "off"
    /\ ExitToken

(* Every step of the process preserves it. *)
LEMMA StepKeepsExitInv ==
    ASSUME ExitInv, [ProcessNext]_allVars
    PROVE  ExitInv'
<1> USE DEF ExitInv, ExitToken, Threads, Places
<1>1. CASE Load
  BY <1>1 DEF Load, process
<1>2. CASE Start
  <2>1. main' = 1 /\ sem' = sem /\ handler' = handler /\ th' \in [Threads -> Places] /\ th'["send"] = "test"
    BY <1>2 DEF Start
  <2> QED BY <2>1
<1>3. CASE Join
  BY <1>3 DEF Join
<1>4. CASE Signal
  BY <1>4 DEF Signal
<1>5. CASE Notice
  BY <1>5 DEF Notice
<1>6. CASE \E t \in Threads : Leave(t)
  BY <1>6 DEF Leave, Goto
<1>7. CASE SettingCommand
  BY <1>7 DEF SettingCommand, process
<1>8. CASE Raise
  BY <1>8 DEF Raise
<1>9. CASE SendTest
  BY <1>9 DEF SendTest, Goto
<1>10. CASE SendWait
  BY <1>10 DEF SendWait, Goto
<1>11. CASE SaveLeave
  BY <1>11 DEF SaveLeave, Goto
<1>12. CASE SaveIdle
  BY <1>12 DEF SaveIdle, Goto
<1>13. CASE ConfigureVideo
  BY <1>13 DEF ConfigureVideo, Goto
<1>14. CASE ConfigureImage
  BY <1>14 DEF ConfigureImage, Goto
<1>15. CASE NewProcess
  BY <1>15 DEF NewProcess
<1>16. CASE RecvGivesUp
  BY <1>16 DEF RecvGivesUp, Goto
<1>17. CASE UNCHANGED allVars
  BY <1>17 DEF allVars, process
<1>18. CASE SendPackage
  BY <1>18 DEF SendPackage, Goto
<1>19. QED
  BY <1>1, <1>2, <1>3, <1>4, <1>5, <1>6, <1>7, <1>8, <1>9, <1>10, <1>11, <1>12, <1>13,
     <1>14, <1>15, <1>16, <1>17, <1>18 DEF ProcessNext, Main, Send, Save

(* After SIGINT the send thread never waits for a token that does not come, however the *)
(* signal falls between its test of force_exit, its sem_wait and the other threads.     *)
THEOREM SendThreadCanEnd == ProcessSpec => []ExitToken
<1>1. ProcessInit => ExitInv
  BY DEF ProcessInit, ExitInv, ExitToken, Threads, Places
<1>2. ExitInv => ExitToken
  BY DEF ExitInv
<1>3. QED
  BY <1>1, <1>2, StepKeepsExitInv, PTL DEF ProcessSpec

-----------------------------------------------------------------------------
(* Type correctness of the process.  The semaphore holds at most one token more than    *)
(* messages put into it: sighandler posts once, and only after it set force_exit.       *)
OneMoreToken ==
    /\ handler = 1 => force_exit = 1
    /\ (force_exit = 0 \/ handler = 1) => sem <= MaxSem

(* The part of ProcessTypeOK that is not about the parameters. *)
ThreadsType ==
    /\ main \in 0 .. 2
    /\ force_exit \in {0, 1} /\ handler \in {0, 1}
    /\ sem \in 0 .. MaxSem + 1
    /\ th \in [Threads -> Places]
    /\ index \in [Streams -> Values] /\ s_type \in [Streams -> Values]
    /\ camera \in [Streams -> Values]

(* Moving one thread keeps th a function of the threads. *)
LEMMA GotoType ==
    ASSUME th \in [Threads -> Places], NEW t \in Threads, NEW where \in Places, Goto(t, where)
    PROVE  th' \in [Threads -> Places]
BY DEF Goto

(* Every step of the process keeps the types, given those of the parameters. *)
LEMMA ThreadsTypeNext ==
    ASSUME TypeOK, ThreadsType, OneMoreToken, [ProcessNext]_allVars
    PROVE  ThreadsType' /\ OneMoreToken'
<1> USE ParaAssumption, ProcessAssumption DEF ThreadsType, OneMoreToken
<1>0. None \in [Streams -> Values]
  BY DEF None
<1>1. CASE Load \/ SettingCommand \/ UNCHANGED allVars
  BY <1>1 DEF Load, SettingCommand, process, allVars
<1>2. CASE Start
  BY <1>2 DEF Start, Threads, Places
<1>3. CASE Join \/ Signal
  BY <1>3 DEF Join, Signal
<1>4. CASE Notice
  BY <1>4 DEF Notice
<1>5. CASE Raise
  BY <1>5 DEF Raise
<1>6. CASE (\E t \in Threads : Leave(t)) \/ RecvGivesUp
  <2>1. th' \in [Threads -> Places]
    BY <1>6, GotoType DEF Leave, RecvGivesUp, Threads, Places
  <2>2. QED
    BY <1>6, <2>1 DEF Leave, RecvGivesUp
<1>7. CASE SendTest \/ SendWait \/ SendPackage
  <2>1. th' \in [Threads -> Places]
    BY <1>7, GotoType DEF SendTest, SendWait, SendPackage, Threads, Places
  <2>2. QED
    BY <1>7, <2>1 DEF SendTest, SendWait, SendPackage
<1>8. CASE SaveLeave \/ SaveIdle \/ ConfigureVideo \/ ConfigureImage
  <2>1. th' \in [Threads -> Places]
    BY <1>8, GotoType DEF SaveLeave, SaveIdle, ConfigureVideo, ConfigureImage, Threads, Places
  <2>2. /\ index' \in [Streams -> Values] /\ s_type' \in [Streams -> Values]
        /\ camera' \in [Streams -> Values]
    <3>1. CASE SaveLeave
      BY <3>1 DEF SaveLeave
    <3>2. CASE SaveIdle
      BY <3>2 DEF SaveIdle, Streams, TypeOK, Paras
    <3>3. CASE ConfigureVideo
      BY <3>3 DEF ConfigureVideo, Configured, Streams
    <3>4. CASE ConfigureImage
      BY <1>0, <3>4 DEF ConfigureImage, Configured, Streams
    <3>5. QED
      BY <1>8, <3>1, <3>2, <3>3, <3>4
  <2>3. QED
    BY <1>8, <2>1, <2>2 DEF SaveLeave, SaveIdle, ConfigureVideo, ConfigureImage
<1>9. CASE NewProcess
  BY <1>0, <1>9 DEF NewProcess, Threads, Places
<1>10. QED
  BY <1>1, <1>2, <1>3, <1>4, <1>5, <1>6, <1>7, <1>8, <1>9 DEF ProcessNext, Main, Send, Save

(* The state of the process is well formed for every set of threads' interleavings: in  *)
(* particular notice_tcp_send_exit adds one token at most.                              *)
THEOREM ProcessTypeCorrect == ProcessSpec => []ProcessTypeOK
<1>1. ProcessInit => ThreadsType /\ OneMoreToken
  BY ParaAssumption, ProcessAssumption
     DEF ProcessInit, ThreadsType, OneMoreToken, None, Threads, Places
<1>2. ProcessSpec => []TypeOK
  BY ProcessImplementsPara, ParaTypeCorrect, PTL
<1>3. TypeOK /\ ThreadsType /\ OneMoreToken /\ [ProcessNext]_allVars => ThreadsType' /\ OneMoreToken'
  BY ThreadsTypeNext
<1>4. TypeOK /\ ThreadsType => ProcessTypeOK
  BY DEF ThreadsType, ProcessTypeOK
<1>5. QED
  BY <1>1, <1>2, <1>3, <1>4, PTL DEF ProcessSpec

(* In the whole process, too, the ADAS build has only checked parameters in force after *)
(* a command it acknowledged.                                                           *)
THEOREM RangeKeptInProcess == ProcessSpec => []RangeKept
BY ProcessImplementsPara, AdasParametersInRange, PTL

=============================================================================
