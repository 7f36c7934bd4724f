CONSTANTS
    g = g   p = p   q = q   r = r   s = s   a1 = a1   a2 = a2   a3 = a3
    b1 = b1   b2 = b2   b3 = b3   y1 = y1   y2 = y2   l1 = l1   l2 = l2   l3 = l3
    z1 = z1   z2 = z2   n0 = n0   n1 = n1   f0 = f0   t1 = t1   t2 = t2   t3 = t3
    t4 = t4   t5 = t5   t6 = t6   t7 = t7   u1 = u1   u2 = u2   u3 = u3   u4 = u4
    Genesis = g
    NoHash = null
    Block <- FailingFork
    Txn <- Txns
    Maturity = 2
    Depth = 1
    Expiry = 2
    Depths = {0}
    Persistence = {"FULL"}
    Estimate = 4
    VerifyDepth <- Always
SPECIFICATION Spec
CHECK_DEADLOCK FALSE
INVARIANT TreeMatchesDatabase
