SPECIFICATION Spec
SYMMETRY Symmetric
CONSTANTS
    Pays = {p1, p2}
    Sends = {s1, s2}
    TargetSize = 1
    MaxKeys = 4
    MaxCrashes = 1
    MaxUnlocks = 2
INVARIANTS SentAreSafe KeyPoolIsSound UnlockedIsTimed
CHECK_DEADLOCK FALSE
