----------------------------- MODULE SnapThread -----------------------------
(***************************************************************************)
(* The snap thread as a whole (pthread_snap_shot): round after round it    *)
(* records the speed (record_speed, ADAS build), supervises the link       *)
(* (check_heart_beat, the module Heartbeat), and takes a photo when the    *)
(* parameters ask for one by time or by distance.  The three share the     *)
(* thread and the clock, nothing else, and no round waits for anything: a  *)
(* round that takes a photo does not even sleep.                           *)
(*                                                                         *)
(* The receive thread writes the mileage with each speed message, the same *)
(* that marks the heartbeat, and sets the parameters.                      *)
(***************************************************************************)
EXTENDS Heartbeat

CONSTANTS
    RecordPeriod,   \* record_period, at least RECORD_TIME_PERIOD_MIN
    Settings,       \* auto_photo_mode, auto_photo_time_period, auto_photo_distance_period
    Mileages,       \* the readings of the odometer, in units of Unit metres
    Unit,           \* 100
    Modulus,        \* 2^32: the arithmetic on the mileage is unsigned
    MaxAge          \* bound: seconds since a time stamp are not told apart beyond it

ASSUME SnapAssumption ==
    /\ MaxAge \in Nat
    /\ RecordPeriod \in 1 .. MaxAge
    /\ Settings \subseteq [mode : {"CLOSE", "TIME", "DISTANCE"}, time : 0 .. MaxAge, distance : Nat]
    /\ Mileages \subseteq Nat /\ 0 \in Mileages
    /\ Unit \in Nat \ {0} /\ Modulus \in Nat \ {0}

VARIABLES
    npc,            \* snap thread: which part of the round is next
    recorded,       \* seconds since s_record_last of record_speed (capped)
    last,           \* seconds since the time stamp of the photo by time (capped)
    setting,        \* the parameters of the automatic photo
    mileage,        \* the mileage of the real time data
    mileage_last,   \* the mileage when the photo by distance was last looked at with success
    \* history, read by the properties only
    cause           \* a second passed, a reading or a parameter arrived since the last photo

snapVars == <<npc, recorded, last, setting, mileage, mileage_last, cause>>
allVars  == <<vars, snapVars>>

Tick(n) == IF n < MaxAge THEN n + 1 ELSE n

-----------------------------------------------------------------------------
(* One round of the snap thread. *)

(* Mutation of RecordSpeed: one time stamp for record_speed and check_heart_beat. *)
RecordSpeedShared ==
    /\ npc = "record"
    /\ recorded >= RecordPeriod
    /\ recorded' = 0 /\ stamp' = 0
    /\ npc' = "heart"
    /\ UNCHANGED <<hpc, rpc, beat, count, conn, sock, silence, last, setting, mileage, mileage_last,
                   cause>>

(* record_speed: a line in the log, once in RecordPeriod seconds. *)
RecordSpeed ==
    /\ npc = "record"
    /\ recorded >= RecordPeriod
    /\ recorded' = 0
    /\ npc' = "heart"
    /\ UNCHANGED <<vars, last, setting, mileage, mileage_last, cause>>

RecordNotDue ==
    /\ npc = "record"
    /\ recorded < RecordPeriod
    /\ npc' = "heart"
    /\ UNCHANGED <<vars, recorded, last, setting, mileage, mileage_last, cause>>

(* check_heart_beat, to its end. *)
HeartStep ==
    /\ npc = "heart"
    /\ Snap
    /\ npc' = IF hpc' = "idle" THEN "photo" ELSE "heart"
    /\ UNCHANGED <<recorded, last, setting, mileage, mileage_last, cause>>

HeartNotDue ==
    /\ npc = "heart" /\ hpc = "idle"
    /\ conn = "ON" /\ stamp < 1
    /\ npc' = "photo"
    /\ UNCHANGED <<vars, recorded, last, setting, mileage, mileage_last, cause>>

DueByTime ==
    /\ setting.mode = "TIME" /\ setting.time # 0
    /\ last >= setting.time

(* The mileage is unsigned: one that went back is a very large distance. *)
DueByDistance ==
    /\ setting.mode = "DISTANCE" /\ setting.distance # 0
    /\ ((mileage - mileage_last) * Unit) % Modulus >= setting.distance

PhotoByTime ==
    /\ npc = "photo"
    /\ DueByTime
    /\ last' = 0
    /\ cause' = FALSE
    /\ npc' = "record"
    /\ UNCHANGED <<vars, recorded, setting, mileage, mileage_last>>

(* Mutation of PhotoByDistance: only the first reading is remembered. *)
PhotoByDistanceOnce ==
    /\ npc = "photo"
    /\ DueByDistance
    /\ mileage_last' = IF mileage_last = 0 THEN mileage ELSE mileage_last
    /\ cause' = IF mileage_last # 0 THEN FALSE ELSE cause
    /\ npc' = "record"
    /\ UNCHANGED <<vars, recorded, last, setting, mileage>>

(* The first reading is only remembered. *)
PhotoByDistance ==
    /\ npc = "photo"
    /\ DueByDistance
    /\ mileage_last' = mileage
    /\ cause' = IF mileage_last # 0 THEN FALSE ELSE cause
    /\ npc' = "record"
    /\ UNCHANGED <<vars, recorded, last, setting, mileage>>

(* Mutation of NoPhoto: limit_record_time moves the time stamp also when it refuses. *)
NoPhotoTouches ==
    /\ npc = "photo"
    /\ ~DueByTime /\ ~DueByDistance
    /\ last' = 0
    /\ npc' = "record"
    /\ UNCHANGED <<vars, recorded, setting, mileage, mileage_last, cause>>

(* Nothing is due: usleep. *)
NoPhoto ==
    /\ npc = "photo"
    /\ ~DueByTime /\ ~DueByDistance
    /\ npc' = "record"
    /\ UNCHANGED <<vars, recorded, last, setting, mileage, mileage_last, cause>>

-----------------------------------------------------------------------------
(* The receive thread and the clock. *)

(* SAMPLE_CMD_SPEED_INFO: the mileage is written if the length is right, the mark always. *)
SpeedInfo ==
    /\ Beat
    /\ mileage' \in Mileages
    /\ cause' = (cause \/ mileage' # mileage)
    /\ UNCHANGED <<npc, recorded, last, setting, mileage_last>>

SetPhoto ==
    /\ rpc = "rcv" /\ sock = "up"
    /\ setting' \in Settings \ {setting}
    /\ cause' = TRUE
    /\ UNCHANGED <<vars, npc, recorded, last, mileage, mileage_last>>

Link ==
    /\ RecvLost \/ Connected \/ SetOn \/ HostClose
    /\ UNCHANGED snapVars

Clock ==
    /\ Second
    /\ recorded' = Tick(recorded) /\ last' = Tick(last)
    /\ cause' = TRUE
    /\ UNCHANGED <<npc, setting, mileage, mileage_last>>

(* The time stamps start at zero on a clock that counts from boot. *)
SnapInit ==
    /\ Init
    /\ npc = "record"
    /\ \E u \in 0 .. MaxAge : recorded = u /\ last = u
    /\ setting \in Settings
    /\ mileage = 0 /\ mileage_last = 0
    /\ cause = TRUE

Round ==
    \/ RecordSpeed \/ RecordNotDue \/ HeartStep \/ HeartNotDue
    \/ PhotoByTime \/ PhotoByDistance \/ NoPhoto

SnapNext == Round \/ SpeedInfo \/ SetPhoto \/ Link \/ Clock

SnapSpec == SnapInit /\ [][SnapNext]_allVars

(* Time passes, and the thread runs through its rounds. *)
SnapFairSpec == SnapSpec /\ WF_allVars(Round) /\ WF_allVars(Clock)

-----------------------------------------------------------------------------
(* The type invariant, of Heartbeat's state as well: the count of silent seconds stays  *)
(* below check_heart_period whatever else the thread does between two checks.           *)
SnapTypeOK ==
    /\ TypeOK
    /\ npc \in {"record", "heart", "photo"}
    /\ recorded \in 0 .. MaxAge /\ last \in 0 .. MaxAge
    /\ setting \in Settings
    /\ mileage \in Mileages /\ mileage_last \in Mileages
    /\ cause \in BOOLEAN
    /\ hpc # "idle" => npc = "heart"

(* The rounds of pthread_snap_shot supervise the link as Heartbeat says: the photos and *)
(* the speed records between two calls of check_heart_beat neither change what it sees  *)
(* nor keep it from running.                                                            *)
KeepsSupervising == FairSpec

(* No burst of photos: since the last automatic photo a second has passed, the odometer *)
(* has moved, or the host has set the parameters.  The round that takes a photo does    *)
(* not sleep, so a photo that stays due floods the send queue and the media store.      *)
NoBurst ==
    [][(PhotoByTime \/ (PhotoByDistance /\ mileage_last # 0)) => cause]_allVars

(* Photos by time keep coming as long as the parameters ask for them, whatever the link *)
(* does, although the same thread looks at the time stamp ten times a second.           *)
PhotosKeepComing ==
    <>[](setting.mode = "TIME" /\ setting.time # 0) => []<><<PhotoByTime>>_allVars

=============================================================================
