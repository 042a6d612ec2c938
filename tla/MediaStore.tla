----------------------------- MODULE MediaStore -----------------------------
(***************************************************************************)
(* The photos and videos of the alerts.  A thread that reports an alert    *)
(* (build_adas_warn_frame, build_dms_warn_frame) takes media ids from the  *)
(* counter s_mm_id, deletes the files that fall out of the window of the   *)
(* last SAVE_MEDIA_NUM_MAX ids, and pushes what is to be recorded on the   *)
(* image queue; with a video comes a second job, the video of the other    *)
(* camera.  pthread_save_media pulls the jobs and hands each to a task of  *)
(* the thread pool, which writes one file per id.  When the process starts *)
(* s_mm_id is the largest id among the files.                              *)
(*                                                                         *)
(* A file is its id.  A snapshot whose parameters ask for no photo takes   *)
(* no id, but store_jpeg is a do-while loop: it writes one file, with the  *)
(* id an unfilled photo_id holds, 0.  The report of the end of a headway   *)
(* alert repeats the ids of its begin and takes none: it is not a step of  *)
(* this module.                                                            *)
(***************************************************************************)
EXTENDS Integers, Sequences, FiniteSets, FiniteSetsExt, Functions

CONSTANTS
    Threads,    \* websocket, receive and snapshot threads
    Plans,      \* what the parameters ask for: for a snapshot, or for an alert, a number
                \* of photos, and a video or none
    Keep,       \* SAVE_MEDIA_NUM_MAX
    QueueCap,   \* PTR_QUEUE_BUF_CNT
    MaxId       \* bound: no photo is given a larger id

ASSUME MediaAssumption ==
    /\ Keep \in Nat \ {0} /\ QueueCap \in Nat \ {0} /\ MaxId \in Nat
    /\ Plans \subseteq [snap : BOOLEAN, photos : Nat, video : BOOLEAN]
    /\ \A p \in Plans : p.snap => ~p.video
    /\ IsFiniteSet(Threads)

VARIABLES
    s_mm_id,    \* the last id given
    files,      \* the ids that have a file
    tpc,        \* reporting threads: "idle", "video", "clear", "push", "other"
    mm,         \* the ids of the files of the job each is preparing
    video,      \* video_enable, until the job of the other camera has been made
    queue,      \* g_image_queue: jobs, each the ids it has to record
    pool,       \* the tasks of the thread pool: the ids each has still to record (two that
                \* have only file 0 to write do the same and are one element)
    \* history, read by the properties only
    base,       \* s_mm_id when the process started
    gone,       \* ids of this process dropped, not written or deleted
    leaked      \* files written too late to be deleted in turn, or left by a crash

thread  == <<tpc, mm, video>>
saving  == <<queue, pool>>
history == <<base, gone, leaked>>
vars    == <<s_mm_id, files, thread, saving, history>>

-----------------------------------------------------------------------------
(* get_next_id: the next num ids. *)
GetNextId(num) == [i \in 1 .. num |-> s_mm_id + i]

(* photo_enable and photo_id: an alert that asks for no photo records none; a snapshot   *)
(* is enabled whatever photo_num is, and with 0 its one file is that of photo_id[0].     *)
PhotoIds(p) == IF p.snap /\ p.photos = 0 THEN <<0>> ELSE GetNextId(p.photos)

(* The photos of an alert or a snapshot: the first step of building its report. *)
Photos(t) ==
    /\ tpc[t] = "idle"
    /\ \E p \in Plans :
          /\ s_mm_id + p.photos <= MaxId
          /\ mm' = [mm EXCEPT ![t] = PhotoIds(p)]
          /\ s_mm_id' = s_mm_id + p.photos
          /\ video' = [video EXCEPT ![t] = p.video]
    /\ tpc' = [tpc EXCEPT ![t] = "video"]
    /\ UNCHANGED <<files, saving, history>>

(* Its video: another thread may have taken ids since. *)
Video(t) ==
    /\ tpc[t] = "video"
    /\ IF video[t]
         THEN mm' = [mm EXCEPT ![t] = @ \o GetNextId(1)] /\ s_mm_id' = s_mm_id + 1
         ELSE UNCHANGED <<mm, s_mm_id>>
    /\ tpc' = [tpc EXCEPT ![t] = "clear"]
    /\ UNCHANGED <<files, video, saving, history>>

(* Mutant: the file that the last id of the job, the video, puts out of the window stays. *)
ClearPhotos(t) ==
    /\ tpc[t] = "clear"
    /\ LET given == Range(mm[t]) \ {0}
           old   == {id - Keep : id \in {mm[t][i] : i \in 1 .. Len(mm[t]) - 1} \ 0 .. Keep}
       IN  /\ files' = files \ (old \cup given)
           /\ gone' = gone \cup (old \cap base + 1 .. s_mm_id)
    /\ tpc' = [tpc EXCEPT ![t] = "push"]
    /\ UNCHANGED <<s_mm_id, mm, video, saving, base, leaked>>

(* clear_old_media_file: what falls out of the window, and what has the same name, of   *)
(* the ids that were given: its loops run to photo_num, and file 0 is never deleted.     *)
Clear(t) ==
    /\ tpc[t] = "clear"
    /\ LET given == Range(mm[t]) \ {0}
           old   == {id - Keep : id \in given \ 1 .. Keep}
       IN  /\ files' = files \ (old \cup given)
           /\ gone' = gone \cup (old \cap base + 1 .. s_mm_id)
    /\ tpc' = [tpc EXCEPT ![t] = "push"]
    /\ UNCHANGED <<s_mm_id, mm, video, saving, base, leaked>>

(* Mutant: the test of the limit is off by one. *)
PushOneMore(t) ==
    /\ tpc[t] = "push"
    /\ IF Len(queue) <= QueueCap
         THEN queue' = Append(queue, mm[t]) /\ UNCHANGED gone
         ELSE gone' = gone \cup (Range(mm[t]) \ {0}) /\ UNCHANGED queue
    /\ mm' = [mm EXCEPT ![t] = <<>>]
    /\ tpc' = [tpc EXCEPT ![t] = IF video[t] THEN "other" ELSE "idle"]
    /\ UNCHANGED <<s_mm_id, files, video, pool, base, leaked>>

(* push_mm_queue: a job that finds the queue full is dropped.  After the last job of an  *)
(* alert its report goes to the send queue: no state of this module.                     *)
Push(t) ==
    /\ tpc[t] = "push"
    /\ IF Len(queue) < QueueCap
         THEN queue' = Append(queue, mm[t]) /\ UNCHANGED gone
         ELSE gone' = gone \cup (Range(mm[t]) \ {0}) /\ UNCHANGED queue
    /\ mm' = [mm EXCEPT ![t] = <<>>]
    /\ tpc' = [tpc EXCEPT ![t] = IF video[t] THEN "other" ELSE "idle"]
    /\ UNCHANGED <<s_mm_id, files, video, pool, base, leaked>>

(* Mutant: the second video is given the last id and takes none of its own. *)
OtherShares(t) ==
    /\ tpc[t] = "other"
    /\ mm' = [mm EXCEPT ![t] = <<s_mm_id>>]
    /\ video' = [video EXCEPT ![t] = FALSE]
    /\ tpc' = [tpc EXCEPT ![t] = "clear"]
    /\ UNCHANGED <<s_mm_id, files, saving, history>>

(* The video of the other camera, a job of its own (SAVE_ANOTHER_CAMERA_VIDEO). *)
Other(t) ==
    /\ tpc[t] = "other"
    /\ mm' = [mm EXCEPT ![t] = GetNextId(1)]
    /\ s_mm_id' = s_mm_id + 1
    /\ video' = [video EXCEPT ![t] = FALSE]
    /\ tpc' = [tpc EXCEPT ![t] = "clear"]
    /\ UNCHANGED <<files, saving, history>>

-----------------------------------------------------------------------------
(* Mutant: a single job in the queue is taken for none. *)
PullLate ==
    /\ Len(queue) > 1
    /\ queue' = Tail(queue)
    /\ pool' = pool \cup ({Head(queue)} \ {<<>>})
    /\ UNCHANGED <<s_mm_id, files, thread, history>>

(* pthread_save_media: pull_mm_queue, and a task for the job. *)
Pull ==
    /\ queue # <<>>
    /\ queue' = Tail(queue)
    /\ pool' = pool \cup ({Head(queue)} \ {<<>>})
    /\ UNCHANGED <<s_mm_id, files, thread, history>>

(* Mutant: the last id of a job of several is not recorded. *)
RecordFewer(task) ==
    LET id   == Head(task)
        rest == IF Len(task) = 2 THEN <<>> ELSE Tail(task)
    IN  /\ pool' = (pool \ {task}) \cup ({rest} \ {<<>>})
        /\ \/ /\ files' = files \cup {id}
              /\ leaked' = IF id \in 1 .. s_mm_id - Keep THEN leaked \cup {id} ELSE leaked \ {id}
              /\ UNCHANGED gone
           \/ gone' = gone \cup ({id} \ {0}) /\ UNCHANGED <<files, leaked>>
        /\ UNCHANGED <<s_mm_id, thread, queue, base>>

(* record_mm_info, record_video_media: the next id of a task gets its file, or the write *)
(* fails and only the log says so.                                                       *)
Record(task) ==
    LET id   == Head(task)
        rest == Tail(task)
    IN  /\ pool' = (pool \ {task}) \cup ({rest} \ {<<>>})
        /\ \/ /\ files' = files \cup {id}
              /\ leaked' = IF id \in 1 .. s_mm_id - Keep THEN leaked \cup {id} ELSE leaked \ {id}
              /\ UNCHANGED gone
           \/ gone' = gone \cup ({id} \ {0}) /\ UNCHANGED <<files, leaked>>
        /\ UNCHANGED <<s_mm_id, thread, queue, base>>

-----------------------------------------------------------------------------
(* What a process starts with, beside the counter and the files. *)
Fresh ==
    /\ tpc' = [t \in Threads |-> "idle"]
    /\ mm' = [t \in Threads |-> <<>>]
    /\ video' = [t \in Threads |-> FALSE]
    /\ queue' = <<>> /\ pool' = {}
    /\ gone' = {}

(* The process is killed and starts again: getmmFileNumMax finds the largest id. *)
Restart ==
    /\ UNCHANGED files
    /\ s_mm_id' = Max(files \cup {0})
    /\ base' = s_mm_id'
    /\ leaked' = files \cap 1 .. s_mm_id' - Keep
    /\ Fresh

(* The directory cannot be opened: all files are removed (rm_mmFiles). *)
RestartEmpty ==
    /\ files' = {}
    /\ s_mm_id' = 0 /\ base' = 0
    /\ leaked' = {}
    /\ Fresh

Init ==
    /\ s_mm_id = 0 /\ files = {}
    /\ tpc = [t \in Threads |-> "idle"]
    /\ mm = [t \in Threads |-> <<>>]
    /\ video = [t \in Threads |-> FALSE]
    /\ queue = <<>> /\ pool = {}
    /\ base = 0 /\ gone = {} /\ leaked = {}

Build(t) == Photos(t) \/ Video(t) \/ Clear(t) \/ Push(t) \/ Other(t)
Save == Pull \/ \E task \in pool : Record(task)

Next == (\E t \in Threads : Build(t)) \/ Save \/ Restart \/ RestartEmpty

Spec == Init /\ [][Next]_vars

(* The save thread polls the queue, and the tasks of the pool go on, those of alerts     *)
(* too when snapshots of no photo keep coming: the pool starts its tasks in their order, *)
(* and the camera delivers.                                                              *)
Fairness == WF_vars(Pull) /\ WF_vars(\E task \in pool : Head(task) # 0 /\ Record(task))

FairSpec == Spec /\ Fairness

-----------------------------------------------------------------------------
(* The type invariant: the image queue holds at most PTR_QUEUE_BUF_CNT jobs, and no id *)
(* is beyond the counter, not even of a file that an earlier process left.             *)
TypeOK ==
    /\ s_mm_id \in Nat
    /\ files \subseteq 0 .. s_mm_id
    /\ tpc \in [Threads -> {"idle", "video", "clear", "push", "other"}]
    /\ mm \in [Threads -> Seq(0 .. s_mm_id)]
    /\ video \in [Threads -> BOOLEAN]
    /\ queue \in Seq(Seq(0 .. s_mm_id)) /\ Len(queue) <= QueueCap
    /\ pool \subseteq Seq(0 .. s_mm_id) \ {<<>>}
    /\ base \in 0 .. s_mm_id
    /\ gone \subseteq 0 .. s_mm_id /\ leaked \subseteq 0 .. s_mm_id

(* A job whose ids differ from each other and from those taken: file 0 aside, which is   *)
(* the only file of a job that has it.                                                   *)
Proper(job, taken) ==
    /\ \A i, j \in 1 .. Len(job) : i # j => job[i] # job[j]
    /\ Range(job) \cap taken \subseteq {0}
    /\ 0 \in Range(job) => Range(job) = {0}

Apart(a, b) == Range(a) \cap Range(b) \subseteq {0}

(* An id that is given out is nobody else's: no file has it, from this process or an     *)
(* earlier one, and no two jobs do, in the hands of the reporting threads, in the queue  *)
(* or in the pool, so that clear_old_media_file never finds a file of the same name, and *)
(* a file that record_mm_info writes never replaces another's.  File 0 is nobody's: each *)
(* snapshot that asks for no photo replaces it, and no alert and no other snapshot has   *)
(* it among its files.                                                                   *)
UniqueIds ==
    /\ \A t \in Threads : Proper(mm[t], files)
    /\ \A n \in 1 .. Len(queue) : Proper(queue[n], files)
    /\ \A a \in pool : Proper(a, files)
    /\ \A t, u \in Threads : t # u => Apart(mm[t], mm[u])
    /\ \A m, n \in 1 .. Len(queue) : m # n => Apart(queue[m], queue[n])
    /\ \A a, b \in pool : a # b => Apart(a, b)
    /\ \A t \in Threads, n \in 1 .. Len(queue) : Apart(mm[t], queue[n])
    /\ \A t \in Threads, a \in pool : Apart(mm[t], a)
    /\ \A n \in 1 .. Len(queue), a \in pool : Apart(queue[n], a)

(* A file older than the last SAVE_MEDIA_NUM_MAX ids is one that a thread is about to    *)
(* delete, or one that was recorded after its turn to be deleted, or was left over when  *)
(* the process died, or file 0 of the snapshots that ask for no photo: nothing else      *)
(* escapes clear_old_media_file.                                                         *)
RetainedWindow ==
    \A f \in files \ {0} :
      \/ f + Keep > s_mm_id
      \/ \E t \in Threads : f + Keep \in Range(mm[t]) /\ tpc[t] \in {"video", "clear"}
      \/ f \in leaked

(* The ids of the jobs that were pushed and are not finished, and all that are to be    *)
(* recorded.                                                                            *)
Recording ==
    (UNION {Range(queue[n]) : n \in 1 .. Len(queue)}) \cup (UNION {Range(a) : a \in pool})

Pending == (UNION {Range(mm[t]) : t \in Threads}) \cup Recording

(* Every id given out since the process started has its file, is still to be recorded,  *)
(* or was dropped by the full queue, failed to be written, or was deleted in turn.      *)
NothingForgotten == base + 1 .. s_mm_id \subseteq files \cup gone \cup Pending

(* No id is larger: a thread takes two video ids at most after its photos. *)
Ids == 1 .. MaxId + 2 * Cardinality(Threads)

(* What is pushed on the image queue is recorded, or its write fails, however busy the  *)
(* reporting threads are: nothing waits in the queue or the pool for ever (liveness,    *)
(* under FairSpec).                                                                     *)
JobsFinish == \A id \in Ids : (id \in Recording) ~> (id \notin Recording)

=============================================================================
