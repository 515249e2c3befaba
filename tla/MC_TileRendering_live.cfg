CONSTANTS
    s1 = s1
    s2 = s2
    t1 = t1
    t2 = t2
    Sessions <- MCSessions
    Tiles <- MCTiles
    MaxRequests = 2
    MaxEdits = 1
    KitCanSendEmpty = TRUE
SPECIFICATION Spec
INVARIANTS
    TypeOK
    WaiterHasRenderInFlight
PROPERTY
    SubscriberEventuallyServed
