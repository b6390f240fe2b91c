SPECIFICATION FairSpec
CONSTANTS
    NumTasks = 3
    Deps <- JoinDeps
    MaxAttempts <- RetryFirst
    RetryInterval <- OneEach
    Concurrency = 2
    MaxFaults = 2
CHECK_DEADLOCK FALSE
INVARIANTS StoredInv RowsMatchMemory LoopInv EngineNeverFails
PROPERTIES ImplementsLateContract LaunchOnce StoreFinal RunSettles CancelSettles
