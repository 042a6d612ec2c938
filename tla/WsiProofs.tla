------------------------------ MODULE WsiProofs ------------------------------
(***************************************************************************)
(* For every set of signals, all filter times and every list of topics:    *)
(* what deal_wsi_dms_info loses, it loses to the speed filter, what it     *)
(* holds back it has reported shortly before, and the client asks each     *)
(* connection for all its topics from the first on.                        *)
(***************************************************************************)
EXTENDS Wsi, TLAPS

(* A time stamp is moved when, and only when, its alert is reported. *)
StampIsReport == \A a \in Alerts : sent[a] = age[a]

(* The alerts before the one to be judged were reported or held back; the first refusal *)
(* for speed ends the judging.                                                          *)
JudgedSoFar ==
    /\ pc \in 1 .. 7 => refused = 0
    /\ pc \in 1 .. 8 =>
         \A m \in 1 .. 5 : (m < pc /\ Raised(Order[m])) => Order[m] \in done \/ refused \in 1 .. m
    /\ pc \in {7, 8} => (Rises("alert_faceId") => "CHANGE" \in done \/ refused # 0)

DmsInv == TypeOK /\ StampIsReport /\ JudgedSoFar

(* The names that are not alerts. *)
LEMMA NotAlerts == "CHANGE" \notin Alerts /\ "RELEASE" \notin Alerts
BY DEF Alerts, Order

(* The five places of the order hold the alerts. *)
LEMMA OrderHoldsAlerts == \A n \in 1 .. 5 : Order[n] \in Alerts
BY DEF Alerts

(* The clock stays within its bound. *)
LEMMA TickType == \A n \in 0 .. MaxAge : Tick(n) \in 0 .. MaxAge
BY DmsAssumption DEF Tick

(* The inductive invariant holds initially. *)
LEMMA DmsInit == Init => DmsInv
<1> SUFFICES ASSUME Init PROVE DmsInv
  OBVIOUS
<1>1. TypeOK
  BY DmsAssumption DEF Init, TypeOK
<1>2. StampIsReport
  BY DEF Init, StampIsReport
<1>3. JudgedSoFar
  BY DEF Init, JudgedSoFar
<1>4. QED
  BY <1>1, <1>2, <1>3 DEF DmsInv

(* Judging one alert preserves it. *)
LEMMA JudgeKeepsDmsInv ==
    ASSUME DmsInv, NEW n \in 1 .. 5, Judge(n)
    PROVE  DmsInv'
<1> DEFINE a == Order[n]
<1>1. a \in Alerts /\ pc = n /\ cur' = cur /\ last' = last /\ secs' = secs /\ speed' = speed
  BY OrderHoldsAlerts DEF Judge
<1>2. \A m \in 1 .. 5 : Raised(Order[m])' <=> Raised(Order[m])
  BY <1>1 DEF Raised, Rises
<1>3. refused = 0 /\ \A m \in 1 .. 5 : (m < n /\ Raised(Order[m])) => Order[m] \in done
  BY <1>1 DEF DmsInv, JudgedSoFar
<1>4. CASE ~Raised(a) /\ pc' = n + 1 /\ UNCHANGED <<age, sent, done, refused>>
  <2>1. TypeOK' /\ StampIsReport'
    BY <1>1, <1>4 DEF DmsInv, TypeOK, StampIsReport
  <2>2. JudgedSoFar'
    BY <1>1, <1>2, <1>3, <1>4 DEF JudgedSoFar
  <2>3. QED
    BY <2>1, <2>2 DEF DmsInv
<1>5. CASE pc' = 8 /\ refused' = n /\ UNCHANGED <<age, sent, done>>
  <2>1. TypeOK' /\ StampIsReport'
    BY <1>1, <1>5 DEF DmsInv, TypeOK, StampIsReport
  <2>2. JudgedSoFar'
    BY <1>1, <1>2, <1>3, <1>5 DEF JudgedSoFar
  <2>3. QED
    BY <2>1, <2>2 DEF DmsInv
<1>6. CASE pc' = n + 1 /\ done' = done \cup {a} /\ UNCHANGED <<age, sent, refused>>
  <2>1. TypeOK' /\ StampIsReport'
    BY <1>1, <1>6 DEF DmsInv, TypeOK, StampIsReport
  <2>2. JudgedSoFar'
    BY <1>1, <1>2, <1>3, <1>6 DEF JudgedSoFar
  <2>3. QED
    BY <2>1, <2>2 DEF DmsInv
<1>7. CASE /\ pc' = n + 1 /\ done' = done \cup {a}
           /\ Touch(a) /\ sent' = [sent EXCEPT ![a] = 0]
           /\ UNCHANGED refused
  <2>1. TypeOK'
    BY <1>1, <1>7, DmsAssumption DEF DmsInv, TypeOK, Touch
  <2>2. StampIsReport'
    BY <1>1, <1>7 DEF DmsInv, TypeOK, StampIsReport, Touch
  <2>3. JudgedSoFar'
    BY <1>1, <1>2, <1>3, <1>7 DEF JudgedSoFar
  <2>4. QED
    BY <2>1, <2>2, <2>3 DEF DmsInv
<1>8. QED
  BY <1>4, <1>5, <1>6, <1>7 DEF Judge

(* Every step preserves it. *)
LEMMA DmsStep == DmsInv /\ [Next]_vars => DmsInv'
<1> SUFFICES ASSUME DmsInv, [Next]_vars PROVE DmsInv'
  OBVIOUS
<1>1. CASE Frame
  <2>1. TypeOK' /\ StampIsReport'
    BY <1>1 DEF Frame, DmsInv, TypeOK, StampIsReport
  <2>2. JudgedSoFar'
    BY <1>1 DEF Frame, JudgedSoFar
  <2>3. QED
    BY <2>1, <2>2 DEF DmsInv
<1>2. CASE \E n \in 1 .. 5 : Judge(n)
  BY <1>2, JudgeKeepsDmsInv
<1>3. CASE DriverChange
  <2>0. /\ pc = 6 /\ cur' = cur /\ last' = last /\ refused' = refused
        /\ \A m \in 1 .. 5 : Raised(Order[m])' <=> Raised(Order[m])
        /\ Rises("alert_faceId")' <=> Rises("alert_faceId")
    BY <1>3 DEF DriverChange, Raised, Rises
  <2>1. TypeOK' /\ StampIsReport'
    BY <1>3 DEF DriverChange, DmsInv, TypeOK, StampIsReport
  <2>2. JudgedSoFar'
    BY <1>3, <2>0 DEF DriverChange, DmsInv, JudgedSoFar
  <2>3. QED
    BY <2>1, <2>2 DEF DmsInv
<1>4. CASE AbsenceRelease
  <2>0. /\ pc = 7 /\ pc' = 8 /\ refused' = refused /\ done' = done
        /\ \A m \in 1 .. 5 : Raised(Order[m])' <=> Raised(Order[m])
        /\ Rises("alert_faceId")' <=> Rises("alert_faceId")
    BY <1>4 DEF AbsenceRelease, Raised, Rises
  <2>1. TypeOK'
    BY <1>4, DmsAssumption DEF AbsenceRelease, DmsInv, TypeOK, Touch
  <2>2. StampIsReport'
    BY <1>4, NotAlerts DEF AbsenceRelease, DmsInv, TypeOK, StampIsReport, Touch
  <2>3. JudgedSoFar'
    BY <2>0 DEF DmsInv, JudgedSoFar
  <2>4. QED
    BY <2>1, <2>2, <2>3 DEF DmsInv
<1>5. CASE Out
  <2>1. TypeOK' /\ StampIsReport'
    BY <1>5 DEF Out, DmsInv, TypeOK, StampIsReport
  <2>2. JudgedSoFar'
    BY <1>5 DEF Out, JudgedSoFar
  <2>3. QED
    BY <2>1, <2>2 DEF DmsInv
<1>6. CASE Second
  <2>0. /\ pc' = pc /\ refused' = refused /\ done' = done
        /\ \A m \in 1 .. 5 : Raised(Order[m])' <=> Raised(Order[m])
        /\ Rises("alert_faceId")' <=> Rises("alert_faceId")
    BY <1>6 DEF Second, Raised, Rises
  <2>1. TypeOK'
    BY <1>6, TickType DEF Second, DmsInv, TypeOK
  <2>2. StampIsReport'
    BY <1>6 DEF Second, DmsInv, TypeOK, StampIsReport
  <2>3. JudgedSoFar'
    BY <2>0 DEF DmsInv, JudgedSoFar
  <2>4. QED
    BY <2>1, <2>2, <2>3 DEF DmsInv
<1>7. CASE SpeedInfo \/ UNCHANGED vars
  <2>0. /\ pc' = pc /\ refused' = refused /\ done' = done
        /\ \A m \in 1 .. 5 : Raised(Order[m])' <=> Raised(Order[m])
        /\ Rises("alert_faceId")' <=> Rises("alert_faceId")
    BY <1>7 DEF SpeedInfo, vars, Raised, Rises
  <2>1. TypeOK' /\ StampIsReport'
    BY <1>7 DEF SpeedInfo, vars, DmsInv, TypeOK, StampIsReport
  <2>2. JudgedSoFar'
    BY <2>0 DEF DmsInv, JudgedSoFar
  <2>3. QED
    BY <2>1, <2>2 DEF DmsInv
<1>8. QED
  BY <1>1, <1>2, <1>3, <1>4, <1>5, <1>6, <1>7 DEF Next

(* The inductive invariant of deal_wsi_dms_info. *)
THEOREM DmsCorrect == Spec => []DmsInv
BY DmsInit, DmsStep, PTL DEF Spec

(* Every alert of a frame is reported, was reported within its filter time, or falls to *)
(* a refusal of the speed filter.                                                       *)
THEOREM OnlySpeedLoses == Spec => []LostOnlyToSpeed
<1>1. DmsInv => LostOnlyToSpeed
  BY DEF DmsInv, JudgedSoFar, LostOnlyToSpeed
<1>2. QED
  BY <1>1, DmsCorrect, PTL

(* The time filter holds an alert back only if one of its kind was reported within the  *)
(* filter time: the speed filter comes first and leaves the time stamps alone.          *)
THEOREM OnlyReportsHoldBack == Spec => HeldBackOnlyAfterReport
<1> DEFINE Fact == \A a \in Alerts : (a \in done' \ done /\ sent'[a] # 0) => sent[a] < secs[a]
<1>1. DmsInv /\ [Next]_vars => Fact \/ UNCHANGED vars
  <2> SUFFICES ASSUME DmsInv, Next,
                      NEW a \in Alerts, a \in done' \ done, sent'[a] # 0
               PROVE  sent[a] < secs[a]
    OBVIOUS
  <2>1. CASE \E n \in 1 .. 5 : Judge(n)
    <3>1. PICK n \in 1 .. 5 : Judge(n)
      BY <2>1
    <3>2. a = Order[n] /\ Order[n] \in Alerts
      BY <3>1, OrderHoldsAlerts DEF Judge
    <3>3. CASE age[Order[n]] < secs[Order[n]]
      BY <3>2, <3>3 DEF DmsInv, StampIsReport
    <3>4. CASE sent' = [sent EXCEPT ![Order[n]] = 0]
      BY <3>2, <3>4 DEF DmsInv, TypeOK
    <3>5. QED
      BY <3>1, <3>3, <3>4 DEF Judge
  <2>2. CASE Frame \/ DriverChange
    BY <2>2, NotAlerts DEF Frame, DriverChange
  <2>3. CASE AbsenceRelease \/ Out \/ Second \/ SpeedInfo
    BY <2>3 DEF AbsenceRelease, Out, Second, SpeedInfo
  <2>4. QED
    BY <2>1, <2>2, <2>3 DEF Next
<1>2. DmsInv /\ [Next]_vars => [Fact]_vars
  BY <1>1
<1>3. QED
  BY <1>2, DmsCorrect, PTL DEF Spec, HeldBackOnlyAfterReport

-----------------------------------------------------------------------------
(* A step of the client is a step of DmsAlert, or leaves it alone. *)
LEMMA ClientStepIsDms == [WsiNext]_allVars => [Next]_vars
<1> SUFFICES ASSUME [WsiNext]_allVars PROVE [Next]_vars
  OBVIOUS
<1>1. CASE Connect \/ Due \/ Established \/ ConnectionError \/ Closed \/ Writeable
  BY <1>1 DEF Connect, Due, Established, ConnectionError, Closed, Writeable
<1>2. CASE Receive
  BY <1>2 DEF Receive, Next
<1>3. CASE Judging \/ Meanwhile
  BY <1>3 DEF Judging, Meanwhile, Next
<1>4. CASE UNCHANGED allVars
  BY <1>4 DEF allVars
<1>5. QED
  BY <1>1, <1>2, <1>3, <1>4 DEF WsiNext

(* The websocket thread judges frames as DmsAlert does, whenever the link lets them come. *)
THEOREM ClientImplementsDms == WsiSpec => Spec
<1>1. WsiInit => Init
  BY DEF WsiInit
<1>2. QED
  BY <1>1, ClientStepIsDms, PTL DEF WsiSpec, Spec

(* What the subscribing rests on: away from an established link nothing has been asked *)
(* for and the index is at MESSAGE_INDEX_MIN, and with the pointer set there is no     *)
(* second attempt to connect.                                                          *)
ClientInv ==
    /\ wsi_dumb \in {0, 1} /\ due \in {0, 1}
    /\ msg_send_index \in 0 .. IndexMax
    /\ link \in {"none", "connecting", "up"}
    /\ asked \in SUBSET (1 .. Len(Topics)) /\ lost \in SUBSET (1 .. Len(Topics))
    /\ link # "up" => msg_send_index = 0 /\ asked = {} /\ lost = {}
    /\ wsi_dumb = 1 <=> link # "none"
    /\ AskedFor

(* Every step of the client preserves it. *)
LEMMA ClientStep ==
    ASSUME ClientInv, [WsiNext]_allVars
    PROVE  ClientInv'
<1> USE TopicsAssumption DEF ClientInv, AskedFor, IndexMax
<1>1. CASE Connect
  BY <1>1 DEF Connect
<1>2. CASE Due
  BY <1>2 DEF Due
<1>3. CASE Established
  BY <1>3 DEF Established
<1>4. CASE ConnectionError \/ Closed
  <2>1. link' = "none" /\ wsi_dumb' = 0 /\ msg_send_index' = 0 /\ asked' = {} /\ lost' = {} /\ due' = due
    BY <1>4 DEF ConnectionError, Closed
  <2>2. QED
    BY <2>1
<1>5. CASE Writeable
  <2>1. CASE msg_send_index = 0 /\ UNCHANGED <<asked, lost>>
    BY <1>5, <2>1 DEF Writeable
  <2>2. CASE msg_send_index > 0 /\ asked' = asked \cup {msg_send_index} /\ UNCHANGED lost
    BY <1>5, <2>2 DEF Writeable
  <2>3. CASE msg_send_index > 0 /\ lost' = lost \cup {msg_send_index} /\ UNCHANGED asked
    BY <1>5, <2>3 DEF Writeable
  <2>4. QED
    BY <1>5, <2>1, <2>2, <2>3 DEF Writeable
<1>6. CASE Receive \/ Judging \/ Meanwhile
  BY <1>6 DEF Receive, Judging, Meanwhile, client
<1>7. CASE UNCHANGED allVars
  BY <1>7 DEF allVars, client
<1>8. QED
  BY <1>1, <1>2, <1>3, <1>4, <1>5, <1>6, <1>7 DEF WsiNext

(* The inductive invariant of the client holds in every reachable state. *)
THEOREM ClientCorrect == WsiSpec => []ClientInv
<1>1. WsiInit => ClientInv
  BY TopicsAssumption DEF WsiInit, ClientInv, AskedFor, IndexMax
<1>2. QED
  BY <1>1, ClientStep, PTL DEF WsiSpec

(* Whatever the order of connections, errors, closings and WRITEABLE callbacks, each    *)
(* connection is asked for the topics from the first on.                                *)
THEOREM EveryConnectionAsked == WsiSpec => []AskedFor
<1>1. ClientInv => AskedFor
  BY DEF ClientInv
<1>2. QED
  BY <1>1, ClientCorrect, PTL

(* The type invariant, of the alerts and of the client. *)
THEOREM WsiTypeCorrect == WsiSpec => []WsiTypeOK
<1>1. DmsInv /\ ClientInv => WsiTypeOK
  BY DEF DmsInv, ClientInv, WsiTypeOK
<1>2. QED
  BY <1>1, ClientImplementsDms, DmsCorrect, ClientCorrect, PTL

(* In the websocket thread, too, alerts are lost only to the speed filter. *)
THEOREM OnlySpeedLosesInThread == WsiSpec => []LostOnlyToSpeed
BY ClientImplementsDms, OnlySpeedLoses, PTL

=============================================================================
