CONSTANTS
    Sessions <- MCSessions
    Writers <- MCWriters
    Owners <- MCOwners
    MaxEdits = 2
    MaxClientSaves = 0
    LoadCanFail = FALSE
    StorageCanFail = FALSE
    KitSaveCanFail = FALSE
    KitCanCrash = FALSE
    SlowKit = FALSE
    OutsideStop = FALSE
SPECIFICATION Spec
INVARIANT LastEditsPersisted
CONSTRAINT ChannelBound
