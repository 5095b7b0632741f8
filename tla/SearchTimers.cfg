SPECIFICATION Spec
CONSTANTS
    a = a
    b = b
    kartrol = kartrol
    t1 = t1
    None = None
    Boxes = {kartrol}
    Kartrol = {kartrol}
    Timers = {t1}
    Pinging = TRUE
    MaxPending = 0
INVARIANTS
    ScanFlagHonest
CONSTRAINT MCOneThread
CHECK_DEADLOCK FALSE
