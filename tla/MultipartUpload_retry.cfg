CONSTANTS
    Files = {f1, f2}
    Contents = {c1}
    None = None
    ContentOf <- MCContentOf
    SizeOf <- MCSizeOf
    Attempts = {a1, a2}
    ChunkInputs = {0}
    DefaultChunkMB = 5
    MaxFaults = 2

SPECIFICATION Spec

INVARIANT RestartMaterializesOnce
