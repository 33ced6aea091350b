SPECIFICATION Spec
CONSTANTS
    u1 = u1
    u2 = u2
    c1 = c1
    r1 = r1
    r2 = r2
    r3 = r3
    User = {u1}
    Request = {r1, r2, r3}
    Checkout = {c1}
    NoUser = NoUser
    NoCheckout = NoCheckout
    Topup <- MCTopup
    Unlimited = {}
    SignupTokens = 1
    RefillTokens = 1
    MaxRefills = 2
    Cooldown = 1
    Gifts = {1}
    Floor = 0
    MaxBurn = 2
    MaxEntries = 4
    MaxTime = 2
SYMMETRY RequestSymmetry
INVARIANT StarterGrantedOnce
CHECK_DEADLOCK FALSE
