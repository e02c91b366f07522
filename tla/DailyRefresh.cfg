SPECIFICATION FairSpec
CONSTANTS
    p1 = p1
    p2 = p2
    w1 = w1
    w2 = w2
    Procs = {p1}
    Builders = {}
    Workers = {w1, w2}
    NoWorker = NoWorker
    Owner <- OneProcess
    Tables = {1, 2}
    Changing = {1}
    MaxVersion = 3
    MaxDay = 2
    MaxCrashes = 1
    MayFail = TRUE
INVARIANTS
    TrackerAfterRefresh
    TrackedTodayIsFresh
    OneDocumentPerTable
PROPERTIES
    OncePerRecordedDate
    LockIsReleased
CHECK_DEADLOCK FALSE
