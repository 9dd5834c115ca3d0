SPECIFICATION FairSpec
CONSTANTS
    r1 = r1
    r2 = r2
    r3 = r3
    c1 = c1
    c2 = c2
    None = None
    Requests = {r1, r2, r3}
    Calls = {c1, c2}
    TTL = 2
    MaxTime = 3
    SameTurn = TRUE
INVARIANTS
    TypeOK
    StoredForWindow
    NoImmortalEntry
PROPERTIES
    NoLateDuplicate
    EntriesExpire
    EveryRequestDecided
CHECK_DEADLOCK FALSE
