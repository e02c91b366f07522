SPECIFICATION FairSpec
CONSTANTS
    MaxEntries = 2
    IdleActivitySec = 2
    UsesStop = FALSE
INVARIANT
    OrderlyExitLosesNothing
CHECK_DEADLOCK FALSE
