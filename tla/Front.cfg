SPECIFICATION FairSpec
CONSTANTS
    None = None
    Requests = {r1, r2}
    DayLength = 1
    LogEvery = 2
    MaxTime = 2
INVARIANTS
    TypeOK
    OneSaltADay
    SaltNotKept
    LogLinesApart
    GoneOnReturn
    SuccessOnlyWhenTold
PROPERTY
    RunReturns
