SPECIFICATION FairSpec
CONSTANTS
    None = None
    dir1 = dir1
    dir2 = dir2
    stamp = stamp
    spam = spam
    Events <- MCEvents
    Family <- MCFamily
    Gated <- MCGated
    Big <- MCBig
    MaxAsks = 2
INVARIANTS
    NoLateAnswer
PROPERTIES
    ImplementsWriteGate
    ShortLinesAnswered
