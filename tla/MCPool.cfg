CONSTANTS
    a = a   b = b   m1 = m1   m2 = m2
    Blocks = {a, b}
    Genesis = a
    Miners = {m1, m2}
    Threshold = 1
    Nodes = {1, 2, 3}
    MaxClaims = 1
SPECIFICATION Spec
CHECK_DEADLOCK FALSE
INVARIANT HandlersAreSound
PROPERTIES TemplatesAreSound PollsReturn
