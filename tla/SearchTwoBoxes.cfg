SPECIFICATION FairSpec
CONSTANTS
    a = a
    b = b
    kartrol = kartrol
    t1 = t1
    None = None
    Boxes = {a, b}
    Kartrol = {}
    Timers = {}
    Pinging = FALSE
    MaxPending = 0
INVARIANTS
    TypeOK
    ScanFlagHonest
PROPERTIES
    LoginRemembersChosen
    AutoSparesSession
    ScanEnds
CHECK_DEADLOCK FALSE
