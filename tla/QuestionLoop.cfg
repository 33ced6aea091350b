SPECIFICATION FairSpec
CONSTANTS
    paid1 = paid1
    free1 = free1
    free2 = free2
    t1 = t1
    t2 = t2
    t3 = t3
    NoPurchase = NoPurchase
    Purchase = {paid1, free1}
    Paid = {paid1}
    Task = {t1, t2, t3}
    FreeGrant = 1
    MaxRefinements = 1
    MaxServed = 2
    Overlap = "loop"
    Faults = FALSE
    SlowRuns = TRUE
INVARIANTS
    SingleEngineRun
    RefinementsCounted
PROPERTY GeneratingResolves
CHECK_DEADLOCK FALSE
