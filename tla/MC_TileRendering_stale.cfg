CONSTANTS
    s1 = s1
    s2 = s2
    t1 = t1
    t2 = t2
    Sessions <- MCSessions
    Tiles <- MCTiles
    MaxRequests = 1
    MaxEdits = 1
    KitCanSendEmpty = FALSE
SPECIFICATION Spec
INVARIANT
    CachedTileIsCurrent
