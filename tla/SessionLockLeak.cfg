SPECIFICATION Spec
CONSTANTS
    c1 = c1
    c2 = c2
    c3 = c3
    k1 = k1
    k2 = k2
    w1 = w1
    w2 = w2
    None = None
    Cmds = {c1}
    Op <- MCOpControl
    Connects = {k1}
    Workers = {w1}
    MaxTries = 2
INVARIANTS
    LockMeansExchange
CHECK_DEADLOCK FALSE
