SPECIFICATION Spec
CONSTANTS
    paid1 = paid1
    free1 = free1
    free2 = free2
    t1 = t1
    t2 = t2
    t3 = t3
    NoPurchase = NoPurchase
    Purchase = {paid1, free1, free2}
    Paid = {paid1}
    Task = {t1, t2}
    FreeGrant = 1
    MaxRefinements = 1
    MaxServed = 1
    Overlap = "any"
    Faults = TRUE
    SlowRuns = TRUE
SYMMETRY Symmetry
INVARIANTS
    TypeOK
    CapturedRowIsCharged
    RunsOnlyOnHold
CHECK_DEADLOCK FALSE
