SPECIFICATION FairSpec
CONSTANTS
    NoAnswer = NoAnswer
    e1 = e1
    e2 = e2
    e3 = e3
    e4 = e4
    f1 = f1
    k1 = k1
    k2 = k2
    Ids <- Five
    At <- Seconds
    Kinds = {k1, k2}
    KindOf <- TwoKinds
    LastSecond = 2
    Limit = 2
    Pages = 3
INVARIANTS
    NothingSkipped
PROPERTIES
    StuckOnlyWhereCrowded
    ImplementsRelayRead
    ReadEnds
