CONSTANTS
    Fields = {"photo_num", "warning_volume"}
    Values = {0, 1, 2, 3}
    Keep = Keep
    InRange <- MCInRange
    Default <- MCDefault
    Checked = TRUE
SPECIFICATION Spec
INVARIANTS ParaInRange
