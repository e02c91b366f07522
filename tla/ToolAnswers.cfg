SPECIFICATION Spec
CONSTANTS
    MaxSample = 2
    MaxScan = 3
    IdSegments = {"1", "2"}
    DbTypes <- MCDbTypes
    Databases <- MCDatabases
    SQLs <- MCSQLs
    Refs <- MCRefs
    Scopes <- MCScopes
    Limits <- MCLimits
    Patterns <- MCPatterns
    Scores = {0, 1, 2}
    KeySampleLimit = 3
    MaxRows = 2
    MaxSlow = 2
INVARIANTS
    TypeOK
    SchemaIsCatalog
    DeclaredWins
    AdviceIsUncovered
    PlanPartitionsSource
    SamplesAreMasked
