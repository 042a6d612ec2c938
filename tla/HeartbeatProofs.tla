--------------------------- MODULE HeartbeatProofs ---------------------------
(* Proofs about Heartbeat and SnapThread, for every check_heart_period and every set of *)
(* parameters and readings.                                                            *)
EXTENDS SnapThread, TLAPS

HeartInv == TypeOK /\ CountedSilence

(* The mark is not set and nothing is counted when the threads start. *)
LEMMA HeartInit == Init => HeartInv
BY HeartAssumption DEF Init, HeartInv, TypeOK, CountedSilence

(* One case for each step of check_heart_beat and of the receive thread. *)
LEMMA HeartNext == HeartInv /\ [Next]_vars => HeartInv'
<1> SUFFICES ASSUME HeartInv, [Next]_vars PROVE HeartInv'
  OBVIOUS
<1> USE HeartAssumption DEF HeartInv, TypeOK, CountedSilence
<1>1. CASE CheckOff
  BY <1>1 DEF CheckOff
<1>2. CASE CheckStart
  BY <1>2 DEF CheckStart
<1>3. CASE ReadDeath
  BY <1>3 DEF ReadDeath
<1>4. CASE ReadAlive
  BY <1>4 DEF ReadAlive
<1>5. CASE Wipe
  BY <1>5 DEF Wipe
<1>6. CASE CloseSocket \/ SetOff
  BY <1>6 DEF CloseSocket, SetOff
<1>7. CASE Beat
  BY <1>7 DEF Beat
<1>8. CASE RecvLost \/ Connected \/ SetOn \/ HostClose
  BY <1>8 DEF RecvLost, Connected, SetOn, HostClose
<1>9. CASE Second
  BY <1>9 DEF Second
<1>10. CASE UNCHANGED vars
  BY <1>10 DEF vars
<1>11. QED
  BY <1>1, <1>2, <1>3, <1>4, <1>5, <1>6, <1>7, <1>8, <1>9, <1>10 DEF Next, Snap, Recv

(* The inductive invariant: the count of check_heart_beat stays below its limit and is never *)
(* ahead of the seconds that really passed without a beat.                                  *)
THEOREM HeartCorrect == Spec => []HeartInv
BY HeartInit, HeartNext, PTL DEF Spec

(* check_heart_beat never gives up a link on which a beat arrived less than              *)
(* check_heart_period - 1 seconds ago, at the moment it decides.                         *)
THEOREM NoHastyClose == Spec => CloseAfterSilence
<1>1. HeartInv /\ Next /\ hpc # "close" /\ hpc' = "close" => silence >= Period - 1
  <2> SUFFICES ASSUME HeartInv, Next, hpc # "close", hpc' = "close" PROVE silence >= Period - 1
    OBVIOUS
  <2>1. hpc = "read" /\ beat = "DEATH" /\ count + 1 >= Period
    BY DEF Next, Snap, Recv, CheckOff, CheckStart, ReadDeath, ReadAlive, Wipe, CloseSocket, SetOff,
           Beat, RecvLost, Connected, SetOn, HostClose, Second
  <2>2. QED
    BY <2>1, HeartAssumption DEF HeartInv, TypeOK, CountedSilence
<1>2. HeartInv /\ [Next]_vars
        => [(hpc # "close" /\ hpc' = "close") => silence >= Period - 1]_vars
  BY <1>1
<1>3. QED
  BY <1>2, HeartCorrect, PTL DEF Spec, CloseAfterSilence

(* The type invariant of check_heart_beat: its count stays below check_heart_period. *)
THEOREM HeartTypeCorrect == Spec => []TypeOK
BY HeartCorrect, PTL DEF HeartInv

-----------------------------------------------------------------------------
(* A step of the snap thread, of the receive thread or of the clock is a step of Heartbeat, *)
(* or leaves all that Heartbeat sees alone.                                                *)
LEMMA RoundIsHeartbeat == [SnapNext]_allVars => [Next]_vars
<1> SUFFICES ASSUME [SnapNext]_allVars PROVE [Next]_vars
  OBVIOUS
<1>1. CASE HeartStep
  BY <1>1 DEF HeartStep, Next
<1>2. CASE \/ RecordSpeed \/ RecordNotDue \/ HeartNotDue
           \/ PhotoByTime \/ PhotoByDistance \/ NoPhoto \/ SetPhoto
  BY <1>2 DEF RecordSpeed, RecordNotDue, HeartNotDue, PhotoByTime, PhotoByDistance, NoPhoto, SetPhoto
<1>3. CASE SpeedInfo \/ Link \/ Clock
  BY <1>3 DEF SpeedInfo, Link, Clock, Next, Recv
<1>4. CASE UNCHANGED allVars
  BY <1>4 DEF allVars
<1>5. QED
  BY <1>1, <1>2, <1>3, <1>4 DEF SnapNext, Round

(* The rounds of pthread_snap_shot do what Heartbeat allows and nothing else, so that what  *)
(* is proved of check_heart_beat alone holds in the thread that also takes photos and       *)
(* records the speed.                                                                      *)
THEOREM SnapImplementsHeartbeat == SnapSpec => Spec
<1>1. SnapInit => Init
  BY DEF SnapInit
<1>2. QED
  BY <1>1, RoundIsHeartbeat, PTL DEF SnapSpec, Spec

(* In the whole snap thread, too, the link is given up only after the silence of            *)
(* check_heart_period - 1 seconds.                                                         *)
THEOREM NoHastyCloseInThread == SnapSpec => CloseAfterSilence
BY SnapImplementsHeartbeat, NoHastyClose, PTL

(***************************************************************************)
(* Why there is no burst: as long as nothing happened since the last photo *)
(* no photo is due, except for the first reading, which takes none.        *)
(***************************************************************************)
NothingDue ==
    /\ setting \in Settings /\ mileage \in Nat /\ mileage_last \in Nat /\ last \in Nat
    /\ cause \in BOOLEAN
    /\ ~cause => ~DueByTime /\ (DueByDistance => mileage_last = 0)

(* Each photo moves the mark that made it due: the time stamp, or mileage_last. *)
LEMMA StillNothingDue == NothingDue /\ [SnapNext]_allVars => NothingDue'
<1> SUFFICES ASSUME NothingDue, [SnapNext]_allVars PROVE NothingDue'
  OBVIOUS
<1> USE SnapAssumption DEF NothingDue
<1>1. CASE UNCHANGED <<last, setting, mileage, mileage_last, cause>>
  BY <1>1 DEF DueByTime, DueByDistance
<1>2. CASE PhotoByTime
  <2>1. last' = 0 /\ setting' = setting /\ setting.time \in Nat
    BY <1>2 DEF PhotoByTime
  <2>2. ~DueByTime'
    BY <2>1 DEF DueByTime
  <2>3. ~DueByDistance'
    BY <1>2, <2>1 DEF PhotoByTime, DueByTime, DueByDistance
  <2>4. QED
    BY <1>2, <2>2, <2>3 DEF PhotoByTime
<1>3. CASE PhotoByDistance
  <2>1. mileage_last' = mileage /\ UNCHANGED <<mileage, setting, last>> /\ setting.distance \in Nat
    BY <1>3 DEF PhotoByDistance
  <2>2. (mileage' - mileage_last') * Unit = 0
    BY <2>1
  <2>3. 0 % Modulus = 0
    OBVIOUS
  <2>4. ~DueByDistance'
    BY <2>1, <2>2, <2>3 DEF DueByDistance
  <2>5. ~DueByTime'
    BY <1>3, <2>1 DEF PhotoByDistance, DueByDistance, DueByTime
  <2>6. cause' \in BOOLEAN
    BY <1>3 DEF PhotoByDistance
  <2>7. QED
    BY <2>1, <2>4, <2>5, <2>6
<1>4. CASE SpeedInfo
  <2>1. CASE mileage' = mileage /\ cause' = cause
    BY <1>1, <1>4, <2>1 DEF SpeedInfo
  <2>2. CASE mileage' # mileage /\ cause' = TRUE
    BY <1>4, <2>2 DEF SpeedInfo
  <2>3. cause' = (cause \/ mileage' # mileage)
    BY <1>4 DEF SpeedInfo
  <2>4. mileage' = mileage => cause' = cause
    BY <2>3
  <2>5. QED
    BY <2>1, <2>2, <2>3, <2>4
<1>5. CASE SetPhoto
  BY <1>5 DEF SetPhoto
<1>6. CASE Clock
  BY <1>6 DEF Clock, Tick
<1>7. CASE RecordSpeed \/ RecordNotDue \/ HeartStep \/ HeartNotDue \/ NoPhoto \/ Link
  BY <1>1, <1>7 DEF RecordSpeed, RecordNotDue, HeartStep, HeartNotDue, NoPhoto, Link, snapVars
<1>8. CASE UNCHANGED allVars
  BY <1>1, <1>8 DEF allVars, snapVars
<1>9. QED
  BY <1>2, <1>3, <1>4, <1>5, <1>6, <1>7, <1>8 DEF SnapNext, Round

(* pthread_snap_shot takes at most one automatic photo for each second, reading or          *)
(* parameter, for every odometer, forwards or back, and every modulus of its arithmetic.    *)
THEOREM OnePhotoPerCause == SnapSpec => NoBurst
<1>1. SnapInit => NothingDue
  BY SnapAssumption DEF SnapInit, NothingDue
<1>2. NothingDue /\ [SnapNext]_allVars
        => [(PhotoByTime \/ (PhotoByDistance /\ mileage_last # 0)) => cause]_allVars
  <2> SUFFICES ASSUME NothingDue, PhotoByTime \/ (PhotoByDistance /\ mileage_last # 0) PROVE cause
    OBVIOUS
  <2>1. CASE PhotoByTime
    BY <2>1 DEF PhotoByTime, NothingDue
  <2>2. CASE PhotoByDistance /\ mileage_last # 0
    BY <2>2 DEF PhotoByDistance, NothingDue
  <2>3. QED
    BY <2>1, <2>2
<1>3. QED
  BY <1>1, <1>2, StillNothingDue, PTL DEF SnapSpec, NoBurst

-----------------------------------------------------------------------------
(* Type correctness of the thread as a whole.  The part about Heartbeat is HeartInv, which  *)
(* every step keeps because it is one of Heartbeat's.                                      *)

(* A round that is not in check_heart_beat has none of it under way: the three parts of a   *)
(* round keep their state, and the odometer readings they compare, well formed.            *)
LEMMA SnapTypeNext == SnapTypeOK /\ HeartInv' /\ [SnapNext]_allVars => SnapTypeOK'
<1> SUFFICES ASSUME SnapTypeOK, HeartInv', [SnapNext]_allVars PROVE SnapTypeOK'
  OBVIOUS
<1> USE SnapAssumption DEF SnapTypeOK
<1>0. TypeOK'
  BY DEF HeartInv
<1>1. CASE RecordSpeed \/ RecordNotDue
  BY <1>0, <1>1 DEF RecordSpeed, RecordNotDue, vars
<1>2. CASE HeartStep
  BY <1>0, <1>2 DEF HeartStep, TypeOK
<1>3. CASE HeartNotDue
  BY <1>0, <1>3 DEF HeartNotDue, vars
<1>4. CASE PhotoByTime \/ NoPhoto
  <2>1. npc = "photo" /\ npc' = "record" /\ hpc' = hpc /\ last' \in {0, last}
        /\ UNCHANGED <<recorded, setting, mileage, mileage_last>>
    BY <1>4 DEF PhotoByTime, NoPhoto, vars
  <2>2. cause' \in BOOLEAN
    BY <1>4 DEF PhotoByTime, NoPhoto
  <2>3. QED
    BY <1>0, <2>1, <2>2
<1>5. CASE PhotoByDistance
  BY <1>0, <1>5 DEF PhotoByDistance, vars
<1>6. CASE SpeedInfo
  BY <1>0, <1>6 DEF SpeedInfo, Beat
<1>7. CASE SetPhoto
  BY <1>0, <1>7 DEF SetPhoto, vars
<1>8. CASE Link
  BY <1>0, <1>8 DEF Link, snapVars, RecvLost, Connected, SetOn, HostClose
<1>9. CASE Clock
  BY <1>0, <1>9 DEF Clock, Second, Tick
<1>10. CASE UNCHANGED allVars
  BY <1>0, <1>10 DEF allVars, vars, snapVars
<1>11. QED
  BY <1>1, <1>2, <1>3, <1>4, <1>5, <1>6, <1>7, <1>8, <1>9, <1>10 DEF SnapNext, Round

(* The state of pthread_snap_shot is well formed; in particular the count of silent seconds *)
(* stays below check_heart_period, whatever the thread does between two checks, and         *)
(* check_heart_beat is never left half done for a photo.                                   *)
THEOREM SnapTypeCorrect == SnapSpec => []SnapTypeOK
<1>1. SnapInit => SnapTypeOK
  BY HeartInit, SnapAssumption DEF SnapInit, SnapTypeOK, HeartInv, Init
<1>2. SnapSpec => []HeartInv
  BY SnapImplementsHeartbeat, HeartCorrect, PTL
<1>3. QED
  BY <1>1, <1>2, SnapTypeNext, PTL DEF SnapSpec

=============================================================================
