CONSTANTS
    spendables = spendables   snapshot = snapshot
    Tries = {spendables, snapshot}
    Bits = 3
    Keys = {0, 2, 3, 7}
SPECIFICATION Spec
INVARIANT TriesAreCanonical
PROPERTY TriesAreSets
