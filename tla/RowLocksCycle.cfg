SPECIFICATION Spec
CONSTANTS
    r1 = r1
    r2 = r2
    Run = {r1}
    Worker = {w1}
    NumDispatches = 2
    RunOf <- OneRun
    MaxConcurrency = 2
    None = None
INVARIANTS NoCircularWait
