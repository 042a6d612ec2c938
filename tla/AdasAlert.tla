------------------------------ MODULE AdasAlert ------------------------------
(***************************************************************************)
(* The ADAS alerts: deal_wsi_adas_can700 (process.cpp), which turns the    *)
(* CAN 700 frames of the websocket into lane departure (LDW), collision    *)
(* (FCW) and headway (HW) reports.  LDW and FCW are one report per event;  *)
(* HW is a pair, BEGIN when the level turns red and END when it leaves it. *)
(*                                                                         *)
(* One frame is several steps of the websocket thread: each alert reads    *)
(* the car's speed when its turn comes, and the receive thread may write   *)
(* the speed, or the parameters, in between.  Time is kept as the number   *)
(* of seconds since each filter's time stamp, up to the longest filter.    *)
(***************************************************************************)
EXTENDS Integers

CONSTANTS
    Ldws,           \* the left_ldw and right_ldw bits; 0 is none
    Levels,         \* headway_warning_level
    Red,            \* HW_LEVEL_RED_CAR
    FilterTimes,    \* video time + alert_time_filter, in seconds
    MaxAge          \* bound: seconds are not told apart beyond it

ASSUME AdasAssumption ==
    /\ 0 \in Ldws
    /\ 0 \in Levels /\ Red \in Levels \ {0}
    /\ MaxAge \in Nat
    /\ FilterTimes \subseteq 0 .. MaxAge
    /\ FilterTimes # {}

Alerts == {"LDW", "FCW", "HW"}

(* What the masks of a CAN 700 frame keep: byte 2, byte 4 and byte 7. *)
Frames  == [valid : {0, 1}, ldw : Ldws, fcw : {0, 1}, hw : Levels]
Trigger(f) == <<f.ldw, f.fcw>>

VARIABLES
    pc,             \* websocket thread: which part of the handler is next
    can,            \* the frame being handled
    last,           \* g_last_warning_data and g_last_trigger_warning
    s_start_flag,   \* a headway BEGIN was reported
    age,            \* seconds since ldw_alert, fcw_alert, hw_alert (capped)
    speed,          \* against warning_speed_val, as filter_alert_by_speed sees it
    secs,           \* the filter times the parameters give
    \* history, read by the properties only
    open,           \* headway BEGINs since the last END (capped at 2); -1 after an END too many
    skipped,        \* a frame that left red was abandoned since the last BEGIN
    sinceEnd        \* seconds since the last headway END (capped)

times   == <<age, sinceEnd>>
inputs  == <<speed, secs>>
headway == <<s_start_flag, open, skipped>>
vars    == <<pc, can, last, headway, times, inputs>>

Tick(n) == IF n < MaxAge THEN n + 1 ELSE n

-----------------------------------------------------------------------------
(* A frame arrives.  One whose masked bytes are those of the last is dropped. *)
Frame ==
    /\ pc = "idle"
    /\ \E f \in Frames :
          /\ f # last
          /\ can' = f
          /\ pc' = IF Trigger(f) # Trigger(last) /\ (f.ldw # 0 \/ f.fcw # 0) THEN "ldw" ELSE "hw"
    /\ UNCHANGED <<last, headway, times, inputs>>

(***************************************************************************)
(* filter_alert_by_time, then filter_alert_by_speed: the time stamp is     *)
(* moved before the speed is looked at.                                    *)
(***************************************************************************)
TooSoon(a)  == age[a] < secs[a]
Touch(a)    == age' = [age EXCEPT ![a] = 0]

(* goto out: the rest of the frame is not looked at. *)
Abandon ==
    /\ pc' = "out"
    /\ skipped' = IF last.hw = Red /\ can.hw # Red THEN 1 ELSE skipped
    /\ UNCHANGED <<s_start_flag, open>>

(* An LDW or FCW event: filtered by time, abandoned for speed, or reported. *)
Event(a, present, then) ==
    \/ /\ ~present \/ TooSoon(a)
       /\ pc' = then
       /\ UNCHANGED <<age, headway>>
    \/ /\ present /\ ~TooSoon(a) /\ speed = "slow"
       /\ Touch(a)
       /\ Abandon
    \/ /\ present /\ ~TooSoon(a) /\ speed = "fast"
       /\ Touch(a)
       /\ pc' = then
       /\ UNCHANGED headway

Ldw ==
    /\ pc = "ldw"
    /\ Event("LDW", can.ldw # 0, "fcw")
    /\ UNCHANGED <<can, last, sinceEnd, inputs>>

Fcw ==
    /\ pc = "fcw"
    /\ Event("FCW", can.fcw # 0, "hw")
    /\ UNCHANGED <<can, last, sinceEnd, inputs>>

(* The headway level did not change, or there is nothing to report about it. *)
HwNothing ==
    /\ pc = "hw"
    /\ \/ can.hw = last.hw
       \/ can.hw # last.hw /\ can.hw = Red /\ TooSoon("HW")
       \/ can.hw # last.hw /\ can.hw # Red /\ ~(last.hw = Red /\ s_start_flag = 1)
    /\ pc' = "out"
    /\ UNCHANGED <<can, last, headway, times, inputs>>

HwSlow ==
    /\ pc = "hw"
    /\ can.hw # last.hw /\ can.hw = Red /\ ~TooSoon("HW") /\ speed = "slow"
    /\ Touch("HW")
    /\ pc' = "out"
    /\ UNCHANGED <<can, last, headway, sinceEnd, inputs>>

(* Mutation of HwBegin: the BEGINs are counted in place of flagged. *)
HwBeginCounts ==
    /\ pc = "hw"
    /\ can.hw # last.hw /\ can.hw = Red /\ ~TooSoon("HW") /\ speed = "fast"
    /\ Touch("HW")
    /\ s_start_flag' = s_start_flag + 1
    /\ open' = IF open < 2 THEN open + 1 ELSE open
    /\ skipped' = 0
    /\ pc' = "out"
    /\ UNCHANGED <<can, last, sinceEnd, inputs>>

HwBegin ==
    /\ pc = "hw"
    /\ can.hw # last.hw /\ can.hw = Red /\ ~TooSoon("HW") /\ speed = "fast"
    /\ Touch("HW")
    /\ s_start_flag' = 1
    /\ open' = IF open < 2 THEN open + 1 ELSE open
    /\ skipped' = 0
    /\ pc' = "out"
    /\ UNCHANGED <<can, last, sinceEnd, inputs>>

(* Mutation of HwEnd: s_start_flag is not reset. *)
HwEndKeepsFlag ==
    /\ pc = "hw"
    /\ can.hw # last.hw /\ can.hw # Red /\ last.hw = Red /\ s_start_flag = 1
    /\ Touch("HW")
    /\ open' = IF open > 0 THEN 0 ELSE -1
    /\ sinceEnd' = 0
    /\ pc' = "out"
    /\ UNCHANGED <<can, last, s_start_flag, skipped, inputs>>

(* Mutation of HwEnd: the END goes through the time filter as well. *)
HwEndFiltered ==
    /\ pc = "hw"
    /\ can.hw # last.hw /\ can.hw # Red /\ last.hw = Red /\ s_start_flag = 1
    /\ IF TooSoon("HW")
       THEN UNCHANGED <<headway, times>>
       ELSE /\ s_start_flag' = 0
            /\ Touch("HW")
            /\ open' = IF open > 0 THEN 0 ELSE -1
            /\ sinceEnd' = 0
            /\ UNCHANGED skipped
    /\ pc' = "out"
    /\ UNCHANGED <<can, last, inputs>>

(* Mutation of HwEnd: touch_time is forgotten. *)
HwEndNoTouch ==
    /\ pc = "hw"
    /\ can.hw # last.hw /\ can.hw # Red /\ last.hw = Red /\ s_start_flag = 1
    /\ s_start_flag' = 0
    /\ open' = IF open > 0 THEN 0 ELSE -1
    /\ sinceEnd' = 0
    /\ pc' = "out"
    /\ UNCHANGED <<can, last, age, skipped, inputs>>

HwEnd ==
    /\ pc = "hw"
    /\ can.hw # last.hw /\ can.hw # Red /\ last.hw = Red /\ s_start_flag = 1
    /\ s_start_flag' = 0
    /\ Touch("HW")
    /\ open' = IF open > 0 THEN 0 ELSE -1
    /\ sinceEnd' = 0
    /\ pc' = "out"
    /\ UNCHANGED <<can, last, skipped, inputs>>

(* out: the frame becomes the last one. *)
Out ==
    /\ pc = "out"
    /\ last' = can
    /\ pc' = "idle"
    /\ UNCHANGED <<can, headway, times, inputs>>

-----------------------------------------------------------------------------
(* The clock, the speed (SAMPLE_CMD_SPEED_INFO) and the parameters (SAMPLE_CMD_SET_PARAM). *)
Second ==
    /\ age' = [a \in Alerts |-> Tick(age[a])]
    /\ sinceEnd' = Tick(sinceEnd)
    /\ UNCHANGED <<pc, can, last, headway, inputs>>

SpeedInfo ==
    /\ speed' \in {"slow", "fast"}
    /\ UNCHANGED <<pc, can, last, headway, times, secs>>

SetPara ==
    /\ pc = "idle"
    /\ secs' \in [Alerts -> FilterTimes]
    /\ UNCHANGED <<pc, can, last, headway, times, speed>>

(* The time stamps start at zero on a clock that counts from boot. *)
Init ==
    /\ pc = "idle"
    /\ last = [valid |-> 0, ldw |-> 0, fcw |-> 0, hw |-> 0]
    /\ can = last
    /\ s_start_flag = 0
    /\ \E u \in 0 .. MaxAge : age = [a \in Alerts |-> u]
    /\ speed \in {"slow", "fast"}
    /\ secs \in [Alerts -> FilterTimes]
    /\ open = 0 /\ skipped = 0 /\ sinceEnd = MaxAge

Next ==
    \/ Frame \/ Ldw \/ Fcw \/ HwNothing \/ HwSlow \/ HwBegin \/ HwEnd \/ Out
    \/ Second \/ SpeedInfo \/ SetPara

Spec == Init /\ [][Next]_vars

-----------------------------------------------------------------------------
(* The type invariant. *)
TypeOK ==
    /\ pc \in {"idle", "ldw", "fcw", "hw", "out"}
    /\ can \in Frames /\ last \in Frames
    /\ s_start_flag \in {0, 1}
    /\ age \in [Alerts -> 0 .. MaxAge]
    /\ speed \in {"slow", "fast"}
    /\ secs \in [Alerts -> FilterTimes]
    /\ open \in -1 .. 2
    /\ skipped \in {0, 1}
    /\ sinceEnd \in 0 .. MaxAge

(* deal_wsi_adas_can700 reports a headway END only to close a BEGIN that it reported:   *)
(* s_start_flag survives filtered frames, abandoned frames and repeated red levels.     *)
NoOrphanEnd == open >= 0

(* Between frames, a headway BEGIN is still without its END after the level has left    *)
(* red only if the frame that left red was abandoned (goto out) by an LDW or FCW that   *)
(* the speed filter refused.  There is no other way to lose an END.                     *)
EndLostOnlyByAbandon ==
    (pc = "idle" /\ last.hw # Red /\ open > 0) => skipped = 1

(* A headway BEGIN is reported only when the filter time has passed since the last END  *)
(* ("to be compared with the time of the last end", process.cpp:2008), whatever other   *)
(* headway frames were filtered in between.                                             *)
BeginAfterPause == [][HwBegin => sinceEnd >= secs["HW"]]_vars

(* Whatever has begun ends ("no filtering of the hw end, to make sure that what has a   *)
(* beginning has an end", process.cpp:2033): once the level has left red, no headway    *)
(* BEGIN is left open.                                                                  *)
BeginHasEnd == (pc = "idle" /\ last.hw # Red) => open = 0

=============================================================================
