SPECIFICATION Spec
CONSTANTS
    r1 = r1
    r2 = r2
    Run = {r1, r2}
    Worker = {w1}
    NumDispatches = 2
    RunOf <- TwoRuns
    MaxConcurrency = 2
    None = None
INVARIANTS NoLostUpdate CyclesNeedTwoLeases
