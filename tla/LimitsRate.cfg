SPECIFICATION Spec
CONSTANTS
    None = None
    Sources = {s1}
    Sizes = {1, 2}
    Burst = 2
    Refill = 2
    DayEvents = 3
    DayBytes = 4
    BrakeRefusals = 2
    BrakeFor = 3
    MaxSources = 1
    FlushEvery = 1
    DayLength = 6
    MaxTime = 7
    MaxEvents = 5
    MaxRestarts = 0
    MaxBacks = 1
    MaxOutages = 0
INVARIANTS
    BurstBound
    DayCaps
    BrakeHolds
    BrakeEarned
