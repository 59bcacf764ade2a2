SPECIFICATION OrderedSpec
CONSTANTS
    None = None
    NoIndex = NoIndex
    c1 = c1
    c2 = c2
    c3 = c3
    a = a
    b = b
    h1 = h1
    h2 = h2
    h3 = h3
    k1 = k1
    k2 = k2
    Claims <- Three
    Keys = {a, b}
    Handles = {h1, h2}
    KeysOf <- ThreeKeys
    HandleOf <- ThreeHandles
    Coins = {k1, k2}
    CoinOf <- ThreeCoins
    Stamps = {1, 2, 3}
    MaxChecks = 5
    MaxRestarts = 1
INVARIANTS
    OneLiveClaimPerCoin
    IndexNamesLive
PROPERTIES
    BlockedByLiveOnly
    ImplementsRegistry
CHECK_DEADLOCK FALSE
