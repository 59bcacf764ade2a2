SPECIFICATION Spec
CONSTANTS
    None = None
    Sources = {s1, s2, s3}
    Sizes = {1}
    Burst = 1
    Refill = 2
    DayEvents = 4
    DayBytes = 4
    BrakeRefusals = 2
    BrakeFor = 3
    MaxSources = 2
    FlushEvery = 2
    DayLength = 3
    MaxTime = 3
    MaxEvents = 5
    MaxRestarts = 1
    MaxBacks = 1
    MaxOutages = 1
SYMMETRY Pseudonyms
INVARIANTS
    TypeOK
    RememberedWhileRecent
    LimitedSourcesCounted
    CountsAgree
