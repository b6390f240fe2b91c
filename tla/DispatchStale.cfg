SPECIFICATION Spec
CONSTANTS
    r1 = r1
    w1 = w1
    w2 = w2
    Run = {r1}
    Worker = {w1, w2}
    NoWorker = NoWorker
    Coordinator = {c1}
    NumTasks = 1
    Deps <- SingleDeps
    MaxAttempts <- TwoEach
    RetryInterval <- OneEach
    MaxDispatches = 3
    Concurrency = 1
    DispatchLimit = 1
    MaxConcurrency <- OneSlot
    LeaseDuration = 2
    Timeout <- ThreeEach
    OfflineAfter = 1
    MaxTxAge = 1
    Executor <- AllMock
    RequestedKinds <- MockWorkers
SYMMETRY WorkerSymmetry
INVARIANTS HistoryInv OwnershipInv LeaseInv CoordinatorNeverFails
PROPERTIES CancelBarrier ResultsAreFinal
