SPECIFICATION SidecarSpec
CONSTANTS
    None = None
    NoIndex = NoIndex
    c1 = c1
    c2 = c2
    a = a
    b = b
    h1 = h1
    h2 = h2
    k1 = k1
    Claims <- Two
    Keys = {a, b}
    Handles = {h1, h2}
    KeysOf <- TwoKeys
    HandleOf <- TwoHandles
    Coins = {k1}
    CoinOf <- TwoOnOneCoin
    Stamps = {1}
    MaxChecks = 3
    MaxRestarts = 1
    Reasons = {"accept", "refused"}
    Other = "other"
    MaxReasons = 1
    KeepDays = 2
    LastDay = 2
INVARIANTS
    SidecarTypeOK
    AnswersCounted
