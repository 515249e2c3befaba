CONSTANTS
    Sessions <- MCSessions
    Writers <- MCWriters
    Owners <- MCOwners
    MaxEdits = 1
    MaxClientSaves = 0
    LoadCanFail = FALSE
    StorageCanFail = FALSE
    KitSaveCanFail = FALSE
    KitCanCrash = TRUE
    SlowKit = FALSE
    OutsideStop = FALSE
SPECIFICATION Spec
PROPERTY ChildDeathDrains
CONSTRAINT ChannelBound
