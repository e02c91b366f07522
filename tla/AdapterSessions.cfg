SPECIFICATION FairSpec
CONSTANTS
    Main = Main
    Workers = {w1}
    NoThread = NoThread
    Engines = {"mysql", "postgresql", "mssql", "clickhouse", "tibero", "mongodb", "redis", "elasticsearch", "opensearch"}
    MaxSessions = 3
    MaxDrops = 1
INVARIANTS
    TypeOK
    StatementsRunReadOnly
    QueriesReturnRows
    LostSessionFailsOnce
    NoSessionForgotten
    ClientIsThere
    JvmStartedOnce
PROPERTIES
    EveryCallReturns
CHECK_DEADLOCK FALSE
