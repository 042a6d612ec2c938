--------------------------- MODULE AdasAlertProofs ---------------------------
(***************************************************************************)
(* Proofs about AdasAlert, for every set of levels and filter times.       *)
(***************************************************************************)
EXTENDS AdasAlert, TLAPS

(* s_start_flag says whether a BEGIN is open. *)
FlagMeansOpen == open >= 0 /\ (s_start_flag = 1 <=> open > 0)

(* An open BEGIN that no abandoned frame has cut off belongs to a level that is still red. *)
OpenMeansRed ==
    (open > 0 /\ skipped = 0) => (IF pc = "out" THEN can.hw = Red ELSE last.hw = Red)

(* The headway time stamp is never older than the last END. *)
StampAfterEnd == age["HW"] <= sinceEnd

AdasInv == TypeOK /\ FlagMeansOpen /\ OpenMeansRed /\ StampAfterEnd

(* No headway event is open when the process starts. *)
LEMMA AdasInit == Init => AdasInv
<1> SUFFICES ASSUME Init PROVE AdasInv
  OBVIOUS
<1>1. last \in Frames /\ can \in Frames
  BY AdasAssumption DEF Init, Frames
<1>2. PICK u \in 0 .. MaxAge : age = [a \in Alerts |-> u]
  BY DEF Init
<1>3. age \in [Alerts -> 0 .. MaxAge] /\ age["HW"] = u
  BY <1>2 DEF Alerts
<1>4. QED
  BY <1>1, <1>3, AdasAssumption DEF Init, AdasInv, TypeOK, FlagMeansOpen, OpenMeansRed, StampAfterEnd

(* A time stamp that is moved, and one that gets a second older, stay in range. *)
LEMMA TouchType ==
    ASSUME age \in [Alerts -> 0 .. MaxAge], NEW a \in Alerts, Touch(a)
    PROVE  age' \in [Alerts -> 0 .. MaxAge] /\ age'["HW"] <= age["HW"]
BY AdasAssumption DEF Touch, Alerts

(* One second more stays in range and keeps the order of two ages. *)
LEMMA TickType ==
    ASSUME NEW n \in 0 .. MaxAge
    PROVE  Tick(n) \in 0 .. MaxAge /\ \A m \in 0 .. MaxAge : m <= n => Tick(m) <= Tick(n)
BY AdasAssumption DEF Tick

(* An LDW or FCW event touches its own time stamp at most, and abandons the frame or not. *)
LEMMA EventStep ==
    ASSUME TypeOK, NEW a \in {"LDW", "FCW"}, NEW p \in BOOLEAN, NEW t, Event(a, p, t)
    PROVE  /\ age' \in [Alerts -> 0 .. MaxAge] /\ age'["HW"] = age["HW"]
           /\ UNCHANGED <<s_start_flag, open>>
           /\ \/ pc' = t /\ skipped' = skipped
              \/ pc' = "out" /\ skipped' = IF last.hw = Red /\ can.hw # Red THEN 1 ELSE skipped
<1>1. age' \in [Alerts -> 0 .. MaxAge] /\ age'["HW"] = age["HW"]
  BY AdasAssumption DEF TypeOK, Event, Touch, Alerts
<1>2. UNCHANGED <<s_start_flag, open>>
  BY DEF Event, Abandon, headway
<1>3. \/ pc' = t /\ skipped' = skipped
      \/ pc' = "out" /\ skipped' = IF last.hw = Red /\ can.hw # Red THEN 1 ELSE skipped
  BY DEF Event, Abandon, headway
<1>4. QED
  BY <1>1, <1>2, <1>3

(* One case for each part of deal_wsi_adas_can700, the clock, the speed and the parameters. *)
LEMMA AdasNext == AdasInv /\ [Next]_vars => AdasInv'
<1> SUFFICES ASSUME AdasInv, [Next]_vars PROVE AdasInv'
  OBVIOUS
<1> USE AdasAssumption DEF AdasInv, FlagMeansOpen, OpenMeansRed, StampAfterEnd, headway, times, inputs
<1> TypeOK /\ age["HW"] \in 0 .. MaxAge /\ "HW" \in Alerts
  BY DEF TypeOK, Alerts
<1>1. CASE Frame
  BY <1>1 DEF Frame, TypeOK
<1>2. CASE Ldw \/ Fcw
  <2>1. PICK a \in {"LDW", "FCW"}, p \in BOOLEAN, t \in {"fcw", "hw"} : Event(a, p, t)
    <3>1. CASE Ldw
      BY <3>1 DEF Ldw
    <3>2. CASE Fcw
      BY <3>2 DEF Fcw
    <3>3. QED
      BY <1>2, <3>1, <3>2
  <2>2. UNCHANGED <<can, last, sinceEnd, speed, secs>> /\ pc # "out"
    BY <1>2 DEF Ldw, Fcw
  <2>3. TypeOK'
    BY <2>1, <2>2, EventStep DEF TypeOK
  <2>4. QED
    BY <2>1, <2>2, <2>3, EventStep
<1>3. CASE HwNothing
  BY <1>3 DEF HwNothing, TypeOK
<1>4. CASE HwSlow
  BY <1>4, TouchType DEF HwSlow, TypeOK
<1>5. CASE HwBegin
  BY <1>5, TouchType DEF HwBegin, TypeOK
<1>6. CASE HwEnd
  <2>1. age' \in [Alerts -> 0 .. MaxAge] /\ age'["HW"] = 0
    BY <1>6 DEF HwEnd, Touch, TypeOK
  <2>2. QED
    BY <1>6, <2>1 DEF HwEnd, TypeOK
<1>7. CASE Out
  BY <1>7 DEF Out, TypeOK
<1>8. CASE Second
  <2>1. age' \in [Alerts -> 0 .. MaxAge] /\ age'["HW"] = Tick(age["HW"])
    BY <1>8, TickType DEF Second, TypeOK
  <2>2. sinceEnd' \in 0 .. MaxAge /\ age'["HW"] <= sinceEnd'
    BY <1>8, <2>1, TickType DEF Second, TypeOK
  <2>3. QED
    BY <1>8, <2>1, <2>2 DEF Second, TypeOK
<1>9. CASE SpeedInfo
  BY <1>9 DEF SpeedInfo, TypeOK
<1>10. CASE SetPara
  BY <1>10 DEF SetPara, TypeOK
<1>11. CASE UNCHANGED vars
  BY <1>11 DEF vars, TypeOK
<1>12. QED
  BY <1>1, <1>2, <1>3, <1>4, <1>5, <1>6, <1>7, <1>8, <1>9, <1>10, <1>11 DEF Next

(* The inductive invariant of deal_wsi_adas_can700: s_start_flag agrees with the reports *)
(* sent, and the headway time stamp is never older than the last END.                    *)
THEOREM AdasCorrect == Spec => []AdasInv
BY AdasInit, AdasNext, PTL DEF Spec

(* The type invariant of deal_wsi_adas_can700. *)
THEOREM AdasTypeCorrect == Spec => []TypeOK
BY AdasCorrect, PTL DEF AdasInv

(* A headway END always closes a reported BEGIN. *)
THEOREM EndsMatchBegins == Spec => []NoOrphanEnd
<1>1. AdasInv => NoOrphanEnd
  BY DEF AdasInv, FlagMeansOpen, NoOrphanEnd
<1>2. QED
  BY <1>1, AdasCorrect, PTL

(* The only way deal_wsi_adas_can700 loses a headway END is the goto out of an LDW or FCW *)
(* refused by the speed filter in the frame that leaves red.                              *)
THEOREM OnlyAbandonLosesEnd == Spec => []EndLostOnlyByAbandon
<1>1. AdasInv => EndLostOnlyByAbandon
  BY DEF AdasInv, TypeOK, OpenMeansRed, EndLostOnlyByAbandon
<1>2. QED
  BY <1>1, AdasCorrect, PTL

(* No headway BEGIN is reported before the filter time has passed since the last END. *)
THEOREM BeginRespectsPause == Spec => BeginAfterPause
<1>1. AdasInv /\ HwBegin => sinceEnd >= secs["HW"]
  <2> SUFFICES ASSUME AdasInv, HwBegin PROVE sinceEnd >= secs["HW"]
    OBVIOUS
  <2>1. age["HW"] \in Int /\ secs["HW"] \in Int /\ sinceEnd \in Int
    <3>1. age \in [Alerts -> 0 .. MaxAge] /\ secs \in [Alerts -> FilterTimes] /\ "HW" \in Alerts
      BY DEF AdasInv, TypeOK, Alerts
    <3>2. age["HW"] \in 0 .. MaxAge /\ secs["HW"] \in 0 .. MaxAge
      BY <3>1, AdasAssumption
    <3>3. QED
      BY <3>2, AdasAssumption DEF AdasInv, TypeOK
  <2>2. ~(age["HW"] < secs["HW"]) /\ age["HW"] <= sinceEnd
    BY DEF HwBegin, TooSoon, AdasInv, StampAfterEnd
  <2>3. QED
    BY <2>1, <2>2
<1>2. AdasInv /\ [Next]_vars => [HwBegin => sinceEnd >= secs["HW"]]_vars
  BY <1>1
<1>3. QED
  BY <1>2, AdasCorrect, PTL DEF Spec, BeginAfterPause

=============================================================================
