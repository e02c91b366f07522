SPECIFICATION FairSpec
CONSTANTS
    MaxEntries = 3
    IdleActivitySec = 2
    UsesStop = TRUE
INVARIANTS
    TypeOK
    EntriesAccounted
    CleanExitLosesAtMostOne
    InOrderUntilExit
PROPERTIES
    ImplementsLog
    QuietMachineDrains
    ExitTerminates
CHECK_DEADLOCK FALSE
