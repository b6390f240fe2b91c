SPECIFICATION Spec
CONSTANTS
    r1 = r1
    w1 = w1
    w2 = w2
    Run = {r1}
    Worker = {w1}
    NoWorker = NoWorker
    Coordinator = {c1, c2}
    NumTasks = 5
    Deps <- WideDeps
    MaxAttempts <- OneEach
    RetryInterval <- ZeroEach
    MaxDispatches = 2
    Concurrency = 1
    DispatchLimit = 1
    MaxConcurrency <- OneSlot
    LeaseDuration = 1
    Timeout <- OneEach
    OfflineAfter = 1
    MaxTxAge = 0
    Executor <- AllMock
    RequestedKinds <- MockWorkers
SYMMETRY CoordinatorSymmetry
INVARIANTS TypeOK DependencyInv SettlementInv CapacityInv
PROPERTIES ImplementsContract
