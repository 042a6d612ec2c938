------------------------------ MODULE DmsAlert ------------------------------
(***************************************************************************)
(* The DMS alerts: deal_wsi_dms_info (process.cpp), which turns the frames *)
(* of the driver monitoring algorithm into reports.  A frame is judged in  *)
(* order of priority against the last one: five kinds of alert, then the   *)
(* change of the driver, then the end of an absence, which takes a         *)
(* snapshot.  An alert that the speed filter refuses ends the judging.     *)
(*                                                                         *)
(* Each alert reads the speed when its turn comes, and the receive thread  *)
(* writes it in between; the filter times are read once, when the frame    *)
(* arrives.  Time is kept as in AdasAlert: seconds since each time stamp.  *)
(***************************************************************************)
EXTENDS Integers, Sequences

CONSTANTS
    Signals,        \* the fields of DmsAlertInfo that frames carry
    FilterTimes,    \* the filter times that the parameters may give: functions on Alerts
    ReleaseTime,    \* FILTER_DMS_ALERT_SET_TIME
    MaxAge          \* bound: seconds are not told apart beyond it

(* The kinds of alert, in order of priority, and the fields that raise each. *)
Order  == <<"FATIGUE", "DISTRACT", "CALLING", "SMOKING", "ABNORMAL">>
Alerts == {Order[n] : n \in 1 .. 5}

Fields(a) ==
    CASE a = "FATIGUE"  -> {"alert_eye_close1", "alert_eye_close2", "alert_yawn"}
      [] a = "DISTRACT" -> {"alert_look_around", "alert_bow"}
      [] a = "CALLING"  -> {"alert_phone"}
      [] a = "SMOKING"  -> {"alert_smoking"}
      [] a = "ABNORMAL" -> {"alert_absence"}

ASSUME DmsAssumption ==
    /\ MaxAge \in Nat
    /\ ReleaseTime \in 0 .. MaxAge
    /\ FilterTimes \subseteq [Alerts -> 0 .. MaxAge]

VARIABLES
    pc,         \* websocket thread: 0 between frames, 1 to 5 the alert to judge,
                \* 6 driver change, 7 absence release, 8 out
    cur,        \* the fields set in the frame being judged
    last,       \* dms_alert_last
    age,        \* seconds since dms_fatigue_warn ... dms_abnormal_warn, dms_absence_release
    secs,       \* the filter times of this frame
    speed,      \* against warning_speed_val, as filter_alert_by_speed sees it
    \* history, read by the properties only
    sent,       \* seconds since each kind was last reported; at first, since the clock started
    done,       \* the kinds of this frame that were reported, or were reported too recently
    refused     \* the alert of this frame that the speed filter refused; 0 if none

vars == <<pc, cur, last, age, secs, speed, sent, done, refused>>

Tick(n) == IF n < MaxAge THEN n + 1 ELSE n

-----------------------------------------------------------------------------
Rises(f) == f \in cur \ last
Raised(a) == \E f \in Fields(a) : Rises(f)

(* Mutant: the masks of dms_alert_mask are forgotten. *)
FrameUnmasked ==
    /\ pc = 0
    /\ cur' \in SUBSET (Signals \cup {"byte2_recv"}) \ {last}
    /\ pc' = 1
    /\ secs' \in FilterTimes
    /\ done' = {} /\ refused' = 0
    /\ UNCHANGED <<last, age, speed, sent>>

(* A frame arrives, and its unused bits are masked out.  One that equals the last is dropped. *)
Frame ==
    /\ pc = 0
    /\ cur' \in SUBSET Signals \ {last}
    /\ pc' = 1
    /\ secs' \in FilterTimes
    /\ done' = {} /\ refused' = 0
    /\ UNCHANGED <<last, age, speed, sent>>

(* filter_alert_by_time lets the alert pass and moves the time stamp. *)
Touch(a) == age' = [age EXCEPT ![a] = 0]

(* Mutant: an alert that comes too soon ends the judging. *)
JudgeGoto(n) ==
    LET a == Order[n]
    IN  /\ pc = n
        /\ \/ /\ ~Raised(a)
              /\ pc' = n + 1
              /\ UNCHANGED <<age, sent, done, refused>>
           \/ /\ Raised(a) /\ speed = "slow"
              /\ pc' = 8 /\ refused' = n
              /\ UNCHANGED <<age, sent, done>>
           \/ /\ Raised(a) /\ speed = "fast" /\ age[a] < secs[a]
              /\ pc' = 8 /\ done' = done \cup {a}
              /\ UNCHANGED <<age, sent, refused>>
           \/ /\ Raised(a) /\ speed = "fast" /\ age[a] >= secs[a]
              /\ pc' = n + 1 /\ done' = done \cup {a}
              /\ Touch(a) /\ sent' = [sent EXCEPT ![a] = 0]
              /\ UNCHANGED refused
        /\ UNCHANGED <<cur, last, secs, speed>>

(* Mutant: the time filter before the speed filter, as in deal_wsi_adas_can700. *)
JudgeTimeFirst(n) ==
    LET a == Order[n]
    IN  /\ pc = n
        /\ \/ /\ ~Raised(a)
              /\ pc' = n + 1
              /\ UNCHANGED <<age, sent, done, refused>>
           \/ /\ Raised(a) /\ age[a] < secs[a]
              /\ pc' = n + 1 /\ done' = done \cup {a}
              /\ UNCHANGED <<age, sent, refused>>
           \/ /\ Raised(a) /\ age[a] >= secs[a] /\ speed = "slow"
              /\ pc' = 8 /\ refused' = n
              /\ Touch(a)
              /\ UNCHANGED <<sent, done>>
           \/ /\ Raised(a) /\ age[a] >= secs[a] /\ speed = "fast"
              /\ pc' = n + 1 /\ done' = done \cup {a}
              /\ Touch(a) /\ sent' = [sent EXCEPT ![a] = 0]
              /\ UNCHANGED refused
        /\ UNCHANGED <<cur, last, secs, speed>>

(* Alert n of the order: not raised, refused for speed, too soon, or reported. *)
Judge(n) ==
    LET a == Order[n]
    IN  /\ pc = n
        /\ \/ /\ ~Raised(a)
              /\ pc' = n + 1
              /\ UNCHANGED <<age, sent, done, refused>>
           \/ /\ Raised(a) /\ speed = "slow"
              /\ pc' = 8 /\ refused' = n
              /\ UNCHANGED <<age, sent, done>>
           \/ /\ Raised(a) /\ speed = "fast" /\ age[a] < secs[a]
              /\ pc' = n + 1 /\ done' = done \cup {a}
              /\ UNCHANGED <<age, sent, refused>>
           \/ /\ Raised(a) /\ speed = "fast" /\ age[a] >= secs[a]
              /\ pc' = n + 1 /\ done' = done \cup {a}
              /\ Touch(a) /\ sent' = [sent EXCEPT ![a] = 0]
              /\ UNCHANGED refused
        /\ UNCHANGED <<cur, last, secs, speed>>

(* The driver changed: reported unfiltered, and the absence release is not judged. *)
DriverChange ==
    /\ pc = 6
    /\ IF Rises("alert_faceId")
         THEN pc' = 8 /\ done' = done \cup {"CHANGE"}
         ELSE pc' = 7 /\ UNCHANGED done
    /\ UNCHANGED <<cur, last, age, secs, speed, sent, refused>>

(* The end of an absence takes a snapshot. *)
AbsenceRelease ==
    /\ pc = 7
    /\ IF "alert_absence" \in last \ cur /\ speed = "fast" /\ age["RELEASE"] >= ReleaseTime
         THEN Touch("RELEASE")
         ELSE UNCHANGED age
    /\ pc' = 8
    /\ UNCHANGED <<cur, last, secs, speed, sent, done, refused>>

(* out: the frame becomes the last one. *)
Out ==
    /\ pc = 8
    /\ last' = cur
    /\ pc' = 0
    /\ UNCHANGED <<cur, age, secs, speed, sent, done, refused>>

-----------------------------------------------------------------------------
(* The clock and the speed (SAMPLE_CMD_SPEED_INFO). *)
Second ==
    /\ age' = [a \in DOMAIN age |-> Tick(age[a])]
    /\ sent' = [a \in Alerts |-> Tick(sent[a])]
    /\ UNCHANGED <<pc, cur, last, secs, speed, done, refused>>

SpeedInfo ==
    /\ speed' \in {"slow", "fast"}
    /\ UNCHANGED <<pc, cur, last, age, secs, sent, done, refused>>

(* The time stamps start at zero on a clock that counts from boot. *)
Init ==
    /\ pc = 0
    /\ cur = {} /\ last = {}
    /\ \E u \in 0 .. MaxAge :
          /\ age = [a \in Alerts \cup {"RELEASE"} |-> u]
          /\ sent = [a \in Alerts |-> u]
    /\ secs \in FilterTimes
    /\ speed \in {"slow", "fast"}
    /\ done = {} /\ refused = 0

Next ==
    \/ Frame \/ (\E n \in 1 .. 5 : Judge(n)) \/ DriverChange \/ AbsenceRelease \/ Out
    \/ Second \/ SpeedInfo

Spec == Init /\ [][Next]_vars

-----------------------------------------------------------------------------
(* The type invariant. *)
TypeOK ==
    /\ pc \in 0 .. 8
    /\ cur \in SUBSET Signals /\ last \in SUBSET Signals
    /\ age \in [Alerts \cup {"RELEASE"} -> 0 .. MaxAge]
    /\ secs \in FilterTimes
    /\ speed \in {"slow", "fast"}
    /\ sent \in [Alerts -> 0 .. MaxAge]
    /\ done \in SUBSET (Alerts \cup {"CHANGE"})
    /\ refused \in 0 .. 5

(* An alert that the time filter holds back is one of a kind that was reported less     *)
(* than its filter time ago (or the clock itself started less than that ago): an alert  *)
(* that the speed filter refused never silences a later one.                            *)
HeldBackOnlyAfterReport ==
    [][\A a \in Alerts : (a \in done' \ done /\ sent'[a] # 0) => sent[a] < secs[a]]_vars

(* When the judging of a frame is over, each of its new alerts, and the change of the   *)
(* driver, was reported or had been reported within its filter time, unless an alert of *)
(* the same or a higher priority was refused for speed.                                 *)
LostOnlyToSpeed ==
    pc = 8 =>
      /\ \A n \in 1 .. 5 : Raised(Order[n]) => Order[n] \in done \/ refused \in 1 .. n
      /\ Rises("alert_faceId") => "CHANGE" \in done \/ refused # 0

=============================================================================
