CONSTANTS
    Ops = {o1, o2}
    Kinds = {"resolve", "ensure", "batch"}
    n1 = n1
    n2 = n2
    Names = {n1, n2}
    RawPaths <- MCRawPaths
    BatchPaths <- MCBatchPaths
    RootWords = {"root", "Root"}
    MaxDepth = 2
    PageSize = 10
    MaxExternal = 1
    ExternalNames = {n1}
    MkdirNames = {n2}
    None = None

SPECIFICATION Spec

INVARIANT ResolvedIsFolder
INVARIANT NoConsistencyError
