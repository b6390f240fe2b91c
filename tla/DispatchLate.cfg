SPECIFICATION Spec
CONSTANTS
    r1 = r1
    w1 = w1
    w2 = w2
    Run = {r1}
    Worker = {w1}
    NoWorker = NoWorker
    Coordinator = {c1}
    NumTasks = 1
    Deps <- SingleDeps
    MaxAttempts <- OneEach
    RetryInterval <- ZeroEach
    MaxDispatches = 1
    Concurrency = 1
    DispatchLimit = 1
    MaxConcurrency <- OneSlot
    LeaseDuration = 1
    Timeout <- TwoEach
    OfflineAfter = 1
    MaxTxAge = 1
    Executor <- AllMock
    RequestedKinds <- MockWorkers
PROPERTIES NoLateResult
