\* Beside the runs: two claims of one address with two keys, no late check and no
\* condition on the records. OneLiveClaimPerCoin does not hold (README, Known limits).
SPECIFICATION Spec
CONSTANTS
    None = None
    NoIndex = NoIndex
    c1 = c1
    c2 = c2
    c3 = c3
    a = a
    b = b
    h1 = h1
    h2 = h2
    h3 = h3
    k1 = k1
    k2 = k2
    Claims <- Two
    Keys = {a, b}
    Handles = {h1}
    KeysOf <- AllKeys
    HandleOf <- OneHandle
    Coins = {k1}
    CoinOf <- OneCoin
    Stamps = {1, 2}
    MaxChecks = 4
    MaxRestarts = 0
INVARIANT
    OneLiveClaimPerCoin
