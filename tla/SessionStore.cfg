SPECIFICATION MCSpec
CONSTANTS
    t1 = t1
    t2 = t2
    t3 = t3
    p1 = p1
    p2 = p2
    Turn = {t1, t2, t3}
    Process = {p1, p2}
    NoProcess = NoProcess
    MaxRounds = 2
    MaxIterations = 2
    RequestBudget = 3
    CumulativeBudget = 4
    WalletCeiling = 2
    MaxRequest = 2
    KeepRecent = 1
    Sizes = {0, 2}
    MaxUses = 2
    MaxTurns = 2
    o1 = o1
    o2 = o2
    hazard = hazard
    zoning = zoning
    halifax = halifax
    Document = {1, 2, 3}
    Stored = {1, 2}
    Published = {2}
    Linked <- MCLinked
    Layer = {hazard, zoning}
    Operator = {o1, o2}
    Bylaw <- MCBylaw
    Declared <- MCDeclared
    Matches <- MCMatches
    KeepLatest = 1
    MaxIds = 2
    MaxCommands = 2
    None = None
    w1 = w1
    w2 = w2
    person = person
    checkout = checkout
    Identity = {person}
    Invited = {person}
    Checkout = {checkout}
    Buyer <- MCBuyer
    Quantity <- MCQuantity
    Delivery = {1}
    Worker = {w1, w2}
    Window = 0
    MaxRows = 2
    MaxFailures = 1
    NoEvent = NoEvent
    r1 = r1
    r2 = r2
    home = home
    street = street
    Anchor = {home}
    Request = {r1, r2}
    MaxCases = 3
    s1 = s1
    s2 = s2
    s3 = s3
    Server = {s1, s2, s3}
    Limit = 2
    MaxRefused = 2
    height = height
    corner = corner
    colour = colour
    q1 = q1
    q2 = q2
    Attribute = {height, corner, colour}
    Taxonomy = {height, corner}
    Derived = {corner}
    Clauses <- MCClauses
    Extracted <- MCExtracted
    Typed <- MCTyped
    Text = Text
    NoValue = NoValue
    Review = {q1, q2}
    MaxClock = 3
INVARIANTS
    SequencesContiguous
    TurnsWhole
    ComponentTypes
    TurnCostBounded
    ToolBlocksPaired
    LinksSound
    PackIssuedOnce
    GrantsBoundedByErasures
    CaseNumbersContiguous
    RateBounded
    MatrixTrue
PROPERTIES
    StoredIsFinal
    TurnReturns
    PublishTakesEffect
    PruneSparesPublished
    PaidSettles
CHECK_DEADLOCK FALSE
