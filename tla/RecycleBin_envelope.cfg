CONSTANTS
    i1 = i1
    i2 = i2
    Items <- MCItems
    EnvModes = {TRUE}
    Acts = {h1, h2}
    MaxLists = 3
    MaxFaults = 1

SPECIFICATION Spec

INVARIANT BinShown
