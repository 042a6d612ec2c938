CONSTANTS
    Signals = {"alert_eye_close1", "alert_absence", "alert_faceId"}
    FilterTimes <- MCFilterTimes
    ReleaseTime = 1
    MaxAge = 2
    Topics <- MCTopics
SPECIFICATION WsiFairSpec
INVARIANTS WsiTypeOK LostOnlyToSpeed AskedFor
PROPERTIES HeldBackOnlyAfterReport NeverGivesUp
