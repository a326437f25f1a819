CONSTANTS
    f1 = f1
    f2 = f2
    c1 = c1
    c2 = c2
    Files = {f1, f2}
    Contents = {c1, c2}
    None = None
    ContentOf <- MCContentOf
    SizeOf <- MCSizeOf
    Attempts = {b1, b2, m}
    BatchAtts = {b1, b2}
    Selections <- MCSelections
    ChunkInputs = {0}
    FolderChunkInputs = {0}
    DefaultChunkMB = 5
    MaxFaults = 1

SPECIFICATION FUSpec

INVARIANT FUTypeOK
INVARIANT StoredObjectsIntact
INVARIANT CompletedBatchStored
PROPERTY BatchEnds
PROPERTY AttemptsTerminate
PROPERTY ImplementsAbstractUpload
