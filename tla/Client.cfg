SPECIFICATION SessionSpec
CONSTANTS
    r1 = r1
    r2 = r2
    r3 = r3
    c1 = c1
    c2 = c2
    idA = idA
    t1 = t1
    k1 = k1
    p1 = p1
    None = None
    NaN = NaN
    Garbled = Garbled
    Requests = {r1, r2, r3}
    Calls = {c1, c2}
    Mandates <- AllMandates
    Budgets = {idA}
    Tools = {t1}
    Lines <- OneLine
    Pattern <- Users
    Endings <- NoTails
    Files <- OneRoute
    Prices = {1}
    Keys = {k1}
    Payments = {p1}
    Incoming <- Sent
    Edits <- NoEdits
    TTL = 1
    DayLen = 1
    Horizon = 1
    MaxRestarts = 1
    SameTurn = FALSE
INVARIANTS
    BookTruthful
    SpentIsReported
    KeyedCallForwardedOnce
PROPERTY EveryCallEnds
CHECK_DEADLOCK FALSE
