CONSTANTS
    Genesis = g
    NoHash = null
    Hash = {g, b1, b2, b3, b4, b5, b6}
    Works = {1, 3}
SPECIFICATION LevelSpec
SYMMETRY HashSymmetry
CHECK_DEADLOCK FALSE
 
PROPERTIES ChangesAreExact ImplementsHeaviestChain
