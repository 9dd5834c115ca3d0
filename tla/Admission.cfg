SPECIFICATION Spec
CONSTANTS
    r1 = r1
    r2 = r2
    w1 = w1
    n1 = n1
    key = key
    Unset = Unset
    Requests = {r1, r2}
    Agents = {"7"}
    Incoming <- Callers
    Wallets = {w1}
    Networks = {n1}
    ApiKeys = {key}
    Addresses = {"0xa"}
    Env <- EnvOnly
    DefaultNetwork = n1
    TTL = 1
    MaxTime = 1
SYMMETRY Symmetry
INVARIANTS
    TypeOK
    BarredStayOut
    AckedSettingsFiled
    StandingFresh
