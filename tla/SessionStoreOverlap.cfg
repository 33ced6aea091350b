SPECIFICATION Spec
CONSTANTS
    t1 = t1
    t2 = t2
    t3 = t3
    p1 = p1
    p2 = p2
    Turn = {t1, t2}
    Process = {p1}
    NoProcess = NoProcess
    MaxRounds = 1
SYMMETRY StoreSymmetry
INVARIANT DeliveredTurnStored
