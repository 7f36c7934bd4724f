CONSTANTS
    c1 = c1   c2 = c2   t1 = t1   t2 = t2   t3 = t3   t4 = t4   t5 = t5
    Coins <- TwoCoins
    Txn <- Family
    Room = 9
    Day = 0
    MaxTime = 1
    MaxBlocks = 1
    MaxOrphans = 2
SPECIFICATION FilterSpec
CHECK_DEADLOCK FALSE
INVARIANTS   IndexMatchesOrphans
PROPERTY OrphansAreRetried
