SPECIFICATION Spec
CONSTANTS
    c1 = c1
    c2 = c2
    c3 = c3
    k1 = k1
    k2 = k2
    w1 = w1
    w2 = w2
    None = None
    Cmds = {c1, c2}
    Op <- MCOpPlaylist
    Connects = {k1, k2}
    Workers = {w1, w2}
    MaxTries = 1
SYMMETRY MCSymmetry
INVARIANTS
    ExchangePinsSocket
    LiveTasksAreOfThisSession
    OneLiveTaskPerField
CHECK_DEADLOCK FALSE
