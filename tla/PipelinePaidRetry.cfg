SPECIFICATION Spec
CONSTANTS
    r1 = r1
    r2 = r2
    idA = idA
    t1 = t1
    t2 = t2
    t3 = t3
    k1 = k1
    p1 = p1
    p2 = p2
    None = None
    NaN = NaN
    Garbled = Garbled
    Requests = {r1, r2}
    Mandates <- AllMandates
    Budgets = {idA}
    Tools = {t1}
    Lines <- AllLines
    Pattern <- Patterns
    Endings <- NoTails
    Files <- OneRoute
    Prices = {0, 1, 2}
    Keys = {k1}
    Payments = {p1, p2}
    Incoming <- Retried
    Edits <- NoEdits
    TTL = 1
    DayLen = 1
    Horizon = 1
    MaxRestarts = 0
    SameTurn = FALSE
SYMMETRY Symmetry
INVARIANT
    PaidRetryIsNoReplay
CHECK_DEADLOCK FALSE
