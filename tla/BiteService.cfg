SPECIFICATION FairSpec
CONSTANTS
    c1 = c1
    c2 = c2
    c3 = c3
    i1 = i1
    x1 = x1
    x2 = x2
    a1 = a1
    None = None
    Wallet = Wallet
    Others = {a1}
    Protocol = Protocol
    Calls = {c1, c2, c3}
    Intents = {i1}
    Texts = {x1, x2}
    Asks <- AnchorsAndReveals
    MaxRestarts = 1
INVARIANTS
    TypeOK
    NoNonceCollision
    GapOnlyAfterFailure
    RevealConfirmed
    PlaintextKept
PROPERTIES
    ImplementsLife
    EveryCallAnswered
CHECK_DEADLOCK FALSE
