SPECIFICATION FairSpec
CONSTANTS
    pkg = pkg
    v1 = v1
    v2 = v2
    a = a
    b = b
    h = h
    NoVersion = NoVersion
    NoBox = NoBox
    Version = {pkg, v1, v2}
    Package = pkg
    Toc <- MCToc
    Row <- MCRow
    Box = {a, h}
    BoxVersion <- MCTwoBoxes
    OtherModels = {h}
    MaxFaults = 1
    MaxCrashes = 1
    MaxResets = 1
    MaxLosses = 1
INVARIANTS
    TypeOK
    SongsAreWhole
    SuccessIsWhole
    SavedDescribesDatabase
PROPERTIES
    Converges
