SPECIFICATION FairSpec
CONSTANTS
    r1 = r1
    w1 = w1
    w2 = w2
    Run = {r1}
    Worker = {w1, w2}
    NoWorker = NoWorker
    Coordinator = {c1}
    NumTasks = 1
    Deps <- SingleDeps
    MaxAttempts <- TwoEach
    RetryInterval <- OneEach
    MaxDispatches = 3
    Concurrency = 1
    DispatchLimit = 1
    MaxConcurrency <- OneSlot
    LeaseDuration = 1
    Timeout <- OneEach
    OfflineAfter = 1
    MaxTxAge = 0
    Executor <- AllMock
    RequestedKinds <- MockWorkers
PROPERTIES RunsSettle
