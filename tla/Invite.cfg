SPECIFICATION AccountSpec
CONSTANTS
    person = person
    checkout = checkout
    w1 = w1
    w2 = w2
    Identity = {person}
    Invited = {person}
    Checkout = {checkout}
    Buyer <- MCBuyer
    Quantity <- MCQuantity
    Delivery = {1}
    Worker = {w1, w2}
    Window = 0
    MaxRows = 2
    MaxFailures = 1
    NoEvent = NoEvent
INVARIANT InviteHonoured
CHECK_DEADLOCK FALSE
