SPECIFICATION Spec
CONSTANTS
    paid1 = paid1
    free1 = free1
    free2 = free2
    t1 = t1
    t2 = t2
    t3 = t3
    NoPurchase = NoPurchase
    Purchase = {paid1, free1, free2}
    Paid = {paid1}
    Task = {t1, t2}
    FreeGrant = 1
    MaxRefinements = 1
    MaxServed = 2
    Overlap = "none"
    Faults = FALSE
    SlowRuns = TRUE
INVARIANTS
    SettledMatchesHold
    FreeCreditsConserved
PROPERTY ImplementsSale
CHECK_DEADLOCK FALSE
