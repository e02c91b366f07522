SPECIFICATION FairSpec
CONSTANTS
    Callers = {t1, t2}
    NoCaller = NoCaller
    Names = {db, far, bad}
    NoName = NoName
    Bastion = {far, bad}
    Broken = {bad}
    LateFails = TRUE
    Raising = {"release", "close_all"}
    MaxBuilt = 2
INVARIANTS
    TypeOK
    LockMutex
    NoAdapterForgotten
    CachedAdapterHasTunnel
    CloseAllClosesTheRest
PROPERTIES
    LockIsGivenBack
CHECK_DEADLOCK FALSE
