SPECIFICATION Spec
CONSTANTS
    NumTasks = 3
    Deps <- JoinDeps
    MaxAttempts <- RetrySecond
    RetryInterval <- OneEach
    Concurrency = 2
    MaxFaults = 1
CHECK_DEADLOCK FALSE
INVARIANTS CountersExact
