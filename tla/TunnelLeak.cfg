SPECIFICATION FairSpec
CONSTANTS
    Callers = {t1, t2}
    NoCaller = NoCaller
    Names = {db, far}
    NoName = NoName
    Bastion = {far}
    Broken = {far}
    LateFails = FALSE
    Raising = {}
    MaxBuilt = 2
INVARIANT
    CloseAllLeavesNothing
CHECK_DEADLOCK FALSE
