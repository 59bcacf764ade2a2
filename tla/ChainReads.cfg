SPECIFICATION Spec
CONSTANTS
    Nothing = Nothing
    c1 = c1
    c2 = c2
    ip = ip
    Checks = {c1, c2}
    Sources = {ip}
    Proofs <- Stamped
    Minute = 2
    ReadsAll = 2
    ReadsEach = 2
    Deep = 2
    CacheMax = 1
    Reorg = 1
    Mined = 1
    FirstTip = 1
    LastTip = 3
SYMMETRY
    Interchangeable
INVARIANTS
    TypeOK
    BudgetHeld
    FinalIsFinal
    AnchorsStand
