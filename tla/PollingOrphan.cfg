SPECIFICATION Spec
CONSTANTS
    t1 = t1
    t2 = t2
    s1 = s1
    s2 = s2
    s3 = s3
    k1 = k1
    None = None
    Timers = {t1, t2}
    Syncs = {s1, s2}
    Connects = {k1}
SYMMETRY MCSymmetry
INVARIANTS
    NoForeignTeardown
CHECK_DEADLOCK FALSE
