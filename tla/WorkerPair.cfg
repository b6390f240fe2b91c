SPECIFICATION FairSpec
CONSTANTS
    MaxLeases = 2
    MaxConcurrency = 1
    LeaseDuration = 2
    AttemptTimeout = 3
    SafetyMargin = 1
    Skew = 1
    MaxDelay = 1
CHECK_DEADLOCK FALSE
INVARIANTS ProcessInv ExecutionCovered SlotBound
PROPERTIES ExitsOnStop LostSessionStops
