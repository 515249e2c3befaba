CONSTANTS
    Sessions <- MCSessions
    Writers <- MCWriters
    Owners <- MCOwners
    MaxEdits = 2
    MaxClientSaves = 1
    LoadCanFail = TRUE
    StorageCanFail = TRUE
    KitSaveCanFail = FALSE
    KitCanCrash = TRUE
    SlowKit = TRUE
    OutsideStop = TRUE
SPECIFICATION Spec
INVARIANTS
    TypeOK
    ModifiedFlagTracksKit
    LiveSessionKeepsBrokerRunning
PROPERTY
    LifecycleRefined
CONSTRAINT ChannelBound
