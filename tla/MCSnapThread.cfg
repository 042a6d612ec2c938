SPECIFICATION SnapFairSpec
CONSTANTS
    Period = 3
    RecordPeriod = 2
    Settings <- MCSettings
    Mileages = {0, 1, 2, 3}
    Unit = 2
    Modulus = 16
    MaxAge = 2
INVARIANTS
    SnapTypeOK
PROPERTIES
    CloseAfterSilence
    DeadLinkDropped
    KeepsSupervising
    NoBurst
    PhotosKeepComing
