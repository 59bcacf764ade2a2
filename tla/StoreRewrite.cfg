SPECIFICATION FairSpec
CONSTANTS
    Ids = {e1, e2}
    MaxStops = 2
INVARIANTS
    DoneMeansCleared
PROPERTIES
    BootKeepsEvents
    RelayStarts
