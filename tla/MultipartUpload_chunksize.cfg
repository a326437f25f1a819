CONSTANTS
    Files = {f1, f2}
    Contents = {c1}
    None = None
    ContentOf <- MCContentOf
    SizeOf <- MCSizeOf
    Attempts = {a1, a2}
    ChunkInputs = {0, 4}
    DefaultChunkMB = 5
    MaxFaults = 1

SPECIFICATION Spec

INVARIANT StoredObjectsIntact
