SPECIFICATION FairSpec
CONSTANTS
    Proc = {p1, p2}
    None = None
    MaxFaults = 1
INVARIANTS CoordinatorInv
PROPERTIES ProcessEnds ChangesScanned
