SPECIFICATION FairSpec
CONSTANTS
    p1 = p1
    p2 = p2
    w1 = w1
    w2 = w2
    Procs = {p1, p2}
    Builders = {p1}
    Workers = {w2}
    NoWorker = NoWorker
    Owner <- TwoProcesses
    Tables = {1, 2}
    Changing = {1}
    MaxVersion = 3
    MaxDay = 1
    MaxCrashes = 1
    MayFail = TRUE
INVARIANTS
    TypeOK
    ScanAloneMirrorsSchema
PROPERTIES
    SearchOutlivesScan
CHECK_DEADLOCK FALSE
