CONSTANTS
    Files = {f1, f2}
    Contents = {c1, c2}
    None = None
    Empty = Empty
    ContentOf <- MCContentOf
    SizeOf <- MCSizeOf
    Attempts = {a1, a2}
    HashJobs = {h1, h2}
    ChunkInputs = {0}
    DefaultChunkMB = 5
    MaxFaults = 1

SPECIFICATION IUSpec
INVARIANT IUTypeOK
INVARIANT SuccessesHaveRecords
INVARIANT AtMostOneRecordPerClick
PROPERTY InstantClicksEnd
