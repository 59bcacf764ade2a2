SPECIFICATION LateSpec
CONSTANTS
    None = None
    NoIndex = NoIndex
    c1 = c1
    c2 = c2
    c3 = c3
    a = a
    b = b
    h1 = h1
    h2 = h2
    h3 = h3
    k1 = k1
    k2 = k2
    Claims <- Three
    Keys = {a}
    Handles = {h1, h2, h3}
    KeysOf <- OneKey
    HandleOf <- ApartHandles
    Coins = {k1}
    CoinOf <- OneCoin
    Stamps = {1}
    MaxChecks = 4
    MaxRestarts = 0
INVARIANT
    OneLiveClaimPerCoin
