SPECIFICATION FairSpec
CONSTANTS
    p1 = p1
    p2 = p2
    w1 = w1
    w2 = w2
    Procs = {p1}
    Builders = {p1}
    Workers = {w1, w2}
    NoWorker = NoWorker
    Owner <- OneProcess
    Tables = {1, 2}
    Changing = {1}
    MaxVersion = 3
    MaxDay = 1
    MaxCrashes = 0
    MayFail = FALSE
PROPERTY
    SearchFillsFirst
CHECK_DEADLOCK FALSE
