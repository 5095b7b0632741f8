SPECIFICATION Spec
CONSTANTS
    pkg = pkg
    v1 = v1
    v2 = v2
    a = a
    b = b
    h = h
    NoVersion = NoVersion
    NoBox = NoBox
    Version = {pkg, v1, v2}
    Package = pkg
    Toc <- MCToc
    Row <- MCRow
    Box = {a, b, h}
    BoxVersion <- MCBoxes
    OtherModels = {h}
    MaxFaults = 0
    MaxCrashes = 1
    MaxResets = 0
    MaxLosses = 0
INVARIANTS
    NoUpdateMeansUpToDate
