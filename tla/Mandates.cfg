SPECIFICATION Spec
CONSTANTS
    r1 = r1
    r2 = r2
    r3 = r3
    idA = idA
    idB = idB
    idC = idC
    t1 = t1
    t2 = t2
    None = None
    NaN = NaN
    Requests = {r1, r2, r3}
    Mandates <- AllMandates
    Budgets = {idA, idB, idC}
    Tools = {t1, t2}
    Prices = {1, 3, NaN}
    DayLen = 2
    MaxTime = 2
    MaxRestarts = 1
SYMMETRY Symmetry
INVARIANTS
    TypeOK
    TrackersMatchLedger
    BudgetsHold
PROPERTIES
    ImplementsLedger
    ChargesCovered
CHECK_DEADLOCK FALSE
