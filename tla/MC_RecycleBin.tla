--------------------------- MODULE MC_RecycleBin ---------------------------
EXTENDS RecycleBin

CONSTANTS i1, i2

MCItems == {i1, i2}

=============================================================================
