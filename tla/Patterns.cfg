SPECIFICATION Spec
CONSTANTS
    k1 = k1
    k2 = k2
    k3 = k3
    a = a
    b = b
    Conns = {1, 2}
    Clusters = {k1, k2, k3}
    PatternId <- Truncated
    Periods <- DefaultPeriods
    MaxEntries = 3
    MaxFaults = 1
INVARIANTS
    TypeOK
    FrequencyIsCounted
    CountedOncePerFault
    CursorCovers
PROPERTIES
    ReturnCovers
