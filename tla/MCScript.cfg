SPECIFICATION Spec
CONSTANTS
    Pushes <- MCPushes
    Starts <- MCStarts
    MaxFree = 3
    MaxOpCount = 5
    MaxStack = 9
    MaxKeys = 3
INVARIANTS
    StackIsSound
    MultisigIsMatching
    
    OwnersCanSpend
CHECK_DEADLOCK FALSE
