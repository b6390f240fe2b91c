SPECIFICATION Spec
CONSTANTS
    Handler = {h1, h2}
    flow = flow
    other = other
    d1 = d1
    d2 = d2
    d3 = d3
    bad = bad
    k1 = k1
    k2 = k2
    Workflow = {flow, other}
    Body = {d1, d2, d3}
    JSONB <- Spelling
    Malformed = {bad}
    Key = {k1, k2}
    RunId = {r1, r2}
    None = None
    Request <- Requests
INVARIANTS
    AnswersAgree
    RefusalsExplained
    TablesInv
    CacheAgrees
    NoStall
SYMMETRY Symmetry
