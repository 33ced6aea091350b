SPECIFICATION FairSpec
CONSTANTS
    u1 = u1
    u2 = u2
    c1 = c1
    r1 = r1
    r2 = r2
    r3 = r3
    User = {u1, u2}
    Request = {r1, r2}
    Checkout = {c1}
    NoUser = NoUser
    NoCheckout = NoCheckout
    Topup <- MCTopup
    Unlimited = {u2}
    SignupTokens = 1
    RefillTokens = 1
    MaxRefills = 2
    Cooldown = 1
    Gifts = {1}
    Floor = 0
    MaxBurn = 1
    MaxEntries = 2
    MaxTime = 1
PROPERTIES
    RequestsFinish
CHECK_DEADLOCK FALSE
