CONSTANTS
    Ops = {o1, o2}
    Kinds = {"resolve", "batch"}
    n1 = n1
    n2 = n2
    Names = {n1, n2}
    RawPaths <- MCRawPaths1
    BatchPaths <- MCBatchPaths1
    RootWords = {"root", "Root"}
    MaxDepth = 1
    PageSize = 10
    MaxExternal = 1
    ExternalNames = {}
    MkdirNames = {n1}
    None = None

SPECIFICATION Spec

INVARIANT NoFalseNotFound
