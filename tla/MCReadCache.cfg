SPECIFICATION Spec
CONSTANTS
    f1 = f1
    f2 = f2
    Files = {f1, f2}
    Size <- MCSize
    Byte = {0, 1}
    ChunkSize = 4
    None = None
INVARIANTS
    CacheTypeOK
    RangesApart
    ReadsLatest
