SPECIFICATION Spec
CONSTANTS
    w1 = w1
    w2 = w2
    n1 = n1
    n2 = n2
    Unset = Unset
    Wallets = {w1, w2}
    Networks = {n1, n2}
    ApiKeys = {"key"}
    Addresses = {"0xa", "0xb"}
    Env <- EnvAtHome
    DefaultNetwork = n1
PROPERTY
    ConfiguredWalletReceives
