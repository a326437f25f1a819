CONSTANTS
    Ops = {o1, o2, o3}
    Kinds = {"resolve", "ensure"}
    n1 = n1
    n2 = n2
    Names = {n1, n2}
    RawPaths <- MCRawPaths1
    BatchPaths = {}
    RootWords = {"root", "Root"}
    MaxDepth = 1
    PageSize = 10
    MaxExternal = 0
    ExternalNames = {}
    MkdirNames = {}
    None = None

SPECIFICATION Spec

INVARIANT NeverForgetsFound
