SPECIFICATION ProcessFairSpec
CONSTANTS
    Fields = {"video_Resolution", "image_Resolution"}
    Values = {0, 1, 2}
    Keep = Keep
    InRange <- MCInRange
    Default <- MCDefault
    Checked = TRUE
    Video = "video_Resolution"
    Image = "image_Resolution"
    Tables <- MCInRange
    MaxSem = 1
INVARIANTS
    ProcessTypeOK
    AckedSurvives
    RangeKept
    ExitToken
PROPERTIES
    ExitEnds
    CameraFollows
