CONSTANTS
    d1 = d1
    d2 = d2
    x1 = x1
    n1 = n1
    n2 = n2
    Items <- MCItems
    Dirs <- MCDirs
    Names <- MCNames
    InitParent <- MCParent
    InitName <- MCName
    SavedAtLoad <- MCSaved
    MaxInFlight = 2
    MaxStack = 3
    MaxOps = 1
    Root = Root
    Recycled = Recycled

SPECIFICATION Spec
INVARIANT FBTypeOK
INVARIANT SelectionShown
