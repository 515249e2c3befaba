CONSTANTS
    Sessions <- MCSessions
    Writers <- MCWriters
    Owners <- MCOwners
    MaxEdits = 2
    MaxClientSaves = 1
    LoadCanFail = TRUE
    StorageCanFail = FALSE
    KitSaveCanFail = TRUE
    KitCanCrash = TRUE
    SlowKit = TRUE
    OutsideStop = FALSE
SPECIFICATION Spec
INVARIANT
    ModifiedFlagTracksKit
CONSTRAINT ChannelBound
