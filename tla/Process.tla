------------------------------- MODULE Process -------------------------------
(***************************************************************************)
(* The life of the process: main loads the parameters (the module          *)
(* ParaStore), starts its five threads and waits for four of them; the     *)
(* receive thread goes on setting parameters; the save thread, whenever it *)
(* finds the image queue empty, brings the camera to the resolutions that  *)
(* the parameters ask for; and SIGINT ends it all through the flag         *)
(* force_exit, which every loop tests, and a token for the send thread,    *)
(* which may be waiting for one.                                           *)
(*                                                                         *)
(* The threads are their loops: what the bodies do is in Uplink,           *)
(* SnapThread, MediaStore and Wsi.  Two waits of the joined threads have   *)
(* no limit, both of the send thread: sem_wait, and the write() of         *)
(* send_package.  Reconfiguring takes seconds, in which the parameters may *)
(* change again.                                                           *)
(***************************************************************************)
EXTENDS ParaStore

CONSTANTS
    Video, Image,   \* the fields video_Resolution and image_Resolution
    Tables,         \* for each of the two, the rows of its table of resolutions
    MaxSem          \* bound: tokens of messages in the semaphore at one time

ASSUME ProcessAssumption ==
    /\ {Video, Image} \subseteq Fields
    /\ Tables \in [{Video, Image} -> SUBSET (Values \ {0})]
    /\ MaxSem \in Nat

Streams == {Video, Image}
Joined  == {"ws", "send", "save", "snap"}
Places  == {"off", "run", "open", "test", "wait", "write", "video", "image", "done"}
Threads == {"ws", "recv", "send", "save", "snap"}

VARIABLES
    main,           \* 0 in global_var_init, 1 in the joins, 2 at its end
    force_exit,     \* the flag of sighandler
    handler,        \* 1 in sighandler, between the flag and the token
    sem,            \* the semaphore send_data
    th,             \* where each thread is: "off" before it starts, "done" when it has left its
                    \* loop; the send thread at its "test", its "wait" or, in send_package, at
                    \* "write"; the save thread at its "open", its "test" or in
                    \* config_*_video_resolution at "video" or "image"; the others in their
                    \* loop, "run"
    index,          \* config_*_video_resolution: the parameters it read
    s_type,         \* config_*_video_resolution: what it last brought the camera to
    camera          \* the resolutions the camera has, 0 until this process configured it

process == <<main, force_exit, handler, sem, th, index, s_type, camera>>
allVars == <<vars, process>>

Goto(t, where) == th' = [th EXCEPT ![t] = where]
None == [f \in Streams |-> 0]

-----------------------------------------------------------------------------
(* main. *)

(* global_var_init: loading the parameters, with no thread yet. *)
Load ==
    /\ main = 0
    /\ BootLoad \/ BootShort \/ BootCreate \/ SetDefault \/ OpenFile \/ FillFile \/ Reply
    /\ UNCHANGED process

(* The threads are started. *)
Start ==
    /\ main = 0 /\ pc = "idle"
    /\ main' = 1
    /\ th' = [t \in Threads |-> IF t = "send" THEN "test" ELSE IF t = "save" THEN "open" ELSE "run"]
    /\ UNCHANGED <<vars, force_exit, handler, sem, index, s_type, camera>>

(* pthread_join of the websocket, send, save and snap threads, one after the other. *)
Join ==
    /\ main = 1
    /\ \A t \in Joined : th[t] = "done"
    /\ main' = 2
    /\ UNCHANGED <<vars, force_exit, handler, sem, th, index, s_type, camera>>

(* sighandler, for the first SIGINT: the flag, then the token. *)
Signal ==
    /\ force_exit = 0
    /\ force_exit' = 1
    /\ handler' = 1
    /\ UNCHANGED <<vars, main, sem, th, index, s_type, camera>>

(* Mutation of Notice: the handler sets the flag and nothing else. *)
NoticeForgotten ==
    /\ handler = 1
    /\ handler' = 0
    /\ UNCHANGED <<vars, main, force_exit, sem, th, index, s_type, camera>>

(* notice_tcp_send_exit.  A token posted before global_var_init calls sem_init is lost. *)
Notice ==
    /\ handler = 1
    /\ handler' = 0
    /\ sem' = sem + 1 \/ (main = 0 /\ sem' = sem)
    /\ UNCHANGED <<vars, main, force_exit, th, index, s_type, camera>>

-----------------------------------------------------------------------------
(* The loops of the threads. *)

(* The websocket, receive and snap threads find the flag set: every wait of theirs has a *)
(* limit.  The receive thread tests it between two commands.                             *)
Leave(t) ==
    /\ th[t] = "run" /\ force_exit = 1
    /\ t = "recv" => pc = "idle"
    /\ Goto(t, "done")
    /\ UNCHANGED <<vars, main, force_exit, handler, sem, index, s_type, camera>>

(* The receive thread gives up for good when it cannot make a socket; the others go on. *)
RecvGivesUp ==
    /\ th["recv"] = "run" /\ pc = "idle"
    /\ Goto("recv", "done")
    /\ UNCHANGED <<vars, main, force_exit, handler, sem, index, s_type, camera>>

(* The commands of the host that change the parameters. *)
SettingCommand ==
    /\ th["recv"] = "run"
    /\ SetPara \/ FactoryReset \/ SetDefault \/ OpenFile \/ FillFile \/ Reply
    /\ UNCHANGED process

(* Some thread queues a message. *)
Raise ==
    /\ \E t \in Threads : th[t] = "run"
    /\ sem < MaxSem
    /\ sem' = sem + 1
    /\ UNCHANGED <<vars, main, force_exit, handler, th, index, s_type, camera>>

(* pthread_process_send: the test, sem_wait, and send_package, which writes to the host. *)
SendTest ==
    /\ th["send"] = "test"
    /\ Goto("send", IF force_exit = 1 THEN "done" ELSE "wait")
    /\ UNCHANGED <<vars, main, force_exit, handler, sem, index, s_type, camera>>

SendWait ==
    /\ th["send"] = "wait"
    /\ sem > 0
    /\ sem' = sem - 1
    /\ Goto("send", "write")
    /\ UNCHANGED <<vars, main, force_exit, handler, index, s_type, camera>>

(* send_package comes to its end, if the host reads: tcp_snd waits in write() until it does, *)
(* and goes on writing after a signal.                                                       *)
SendPackage ==
    /\ th["send"] = "write"
    /\ Goto("send", "test")
    /\ UNCHANGED <<vars, main, force_exit, handler, sem, index, s_type, camera>>

-----------------------------------------------------------------------------
(* pthread_save_media.  A job it pulls goes to the pool (MediaStore) and changes nothing here. *)

SaveLeave ==
    /\ th["save"] = "test" /\ force_exit = 1
    /\ Goto("save", "done")
    /\ UNCHANGED <<vars, main, force_exit, handler, sem, index, s_type, camera>>

(* The camera was just opened, or the queue is empty: config_*_video_resolution reads the *)
(* parameters.                                                                            *)
SaveIdle ==
    /\ th["save"] = "open" \/ (th["save"] = "test" /\ force_exit = 0)
    /\ index' = [f \in Streams |-> mem[f]]
    /\ Goto("save", "video")
    /\ UNCHANGED <<vars, main, force_exit, handler, sem, s_type, camera>>

(* The camera is stopped, configured and started again, if the type changed to one that *)
(* the table has.                                                                       *)
Configured(f) ==
    [camera EXCEPT ![f] = IF s_type[f] # index[f] /\ index[f] \in Tables[f] THEN index[f] ELSE @]

ConfigureVideo ==
    /\ th["save"] = "video"
    /\ camera' = Configured(Video)
    /\ Goto("save", "image")
    /\ UNCHANGED <<vars, main, force_exit, handler, sem, index, s_type>>

(* Mutation of ConfigureImage: what is kept is read again. *)
ConfigureImageRereads ==
    /\ th["save"] = "image"
    /\ camera' = Configured(Image)
    /\ s_type' = [f \in Streams |-> IF mem[f] \in Tables[f] THEN mem[f] ELSE s_type[f]]
    /\ index' = None
    /\ Goto("save", "test")
    /\ UNCHANGED <<vars, main, force_exit, handler, sem>>

(* What the camera was brought to is kept for the next time. *)
ConfigureImage ==
    /\ th["save"] = "image"
    /\ camera' = Configured(Image)
    /\ s_type' = [f \in Streams |-> IF index[f] \in Tables[f] THEN index[f] ELSE s_type[f]]
    /\ index' = None
    /\ Goto("save", "test")
    /\ UNCHANGED <<vars, main, force_exit, handler, sem>>

-----------------------------------------------------------------------------
(* The process is killed, or has ended, and is started again. *)
NewProcess ==
    /\ Restart
    /\ main' = 0 /\ force_exit' = 0 /\ handler' = 0 /\ sem' = 0
    /\ th' = [t \in Threads |-> "off"]
    /\ index' = None /\ s_type' = None /\ camera' = None

ProcessInit ==
    /\ Init
    /\ main = 0 /\ force_exit = 0 /\ handler = 0 /\ sem = 0
    /\ th = [t \in Threads |-> "off"]
    /\ index = None /\ s_type = None /\ camera = None

Main == Load \/ Start \/ Join
Send == SendTest \/ SendWait
Save == SaveLeave \/ SaveIdle \/ ConfigureVideo \/ ConfigureImage

ProcessNext ==
    \/ Main \/ Signal \/ Notice \/ (\E t \in Threads : Leave(t))
    \/ RecvGivesUp \/ SettingCommand \/ Raise \/ Send \/ SendPackage \/ Save \/ NewProcess

ProcessSpec == ProcessInit /\ [][ProcessNext]_allVars

(***************************************************************************)
(* Every thread is scheduled, the handler runs to its end, and no wait     *)
(* lasts for ever but sem_wait without a token and the write() of          *)
(* send_package, which nothing bounds.  The save thread finds the queue    *)
(* empty again and again: alerts are spaced by their filter times, and a   *)
(* job is only handed to the pool.  The host owes nothing, but a command   *)
(* once begun is carried out.                                              *)
(***************************************************************************)
ProcessFairness ==
    /\ WF_allVars(Main) /\ WF_allVars(Notice)
    /\ \A t \in Threads : WF_allVars(Leave(t))
    /\ WF_allVars(Send)
    /\ WF_allVars(Save)
    /\ WF_allVars(pc # "idle" /\ SettingCommand)

ProcessFairSpec == ProcessSpec /\ ProcessFairness

-----------------------------------------------------------------------------
(* The type invariant, of the parameters as well. *)
ProcessTypeOK ==
    /\ TypeOK
    /\ main \in 0 .. 2
    /\ force_exit \in {0, 1} /\ handler \in {0, 1}
    /\ sem \in 0 .. MaxSem + 1
    /\ th \in [Threads -> Places]
    /\ index \in [Streams -> Values] /\ s_type \in [Streams -> Values]
    /\ camera \in [Streams -> Values]

(* Why the send thread ends: whatever tokens it used up between its test of force_exit  *)
(* and its wait, once the handler has returned there is one left for the wait.          *)
ExitToken == (force_exit = 1 /\ handler = 0 /\ th["send"] = "wait") => sem > 0

(* Unless the send thread waits for ever in write() for a host that does not read,      *)
(* SIGINT ends the process: main returns, although the send thread may be about to wait *)
(* for a token when the flag is set, may have used up the last one, and main joins one  *)
(* thread after the other.                                                              *)
ExitEnds ==
    \/ <>[](th["send"] = "write")
    \/ (force_exit = 1) ~> (main = 2 \/ force_exit = 0)

(* The camera follows the parameters: unless the host keeps changing them or the        *)
(* process ends, it comes to the resolutions they ask for, where the tables have them,  *)
(* although config_*_video_resolution works for seconds from what it read at first.     *)
CameraFollows ==
    []<>(\/ \A f \in Streams : mem[f] \in Tables[f] => camera[f] = mem[f]
         \/ main # 1 \/ force_exit = 1 \/ pc # "idle")

=============================================================================
