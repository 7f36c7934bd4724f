CONSTANTS
    Limit = 1
    ForkLens = {0, 2}
    FirstTips = {2, 3}
    MaxTip = 4
    MaxDrops = 1
SPECIFICATION Spec
CHECK_DEADLOCK FALSE
INVARIANTS OrphansAreDisconnected QuietMeansDone
PROPERTY Synchronised
