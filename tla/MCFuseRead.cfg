SPECIFICATION FairSpec
CONSTANTS
    f1 = f1
    f2 = f2
    p1 = p1
    p2 = p2
    None = None
    Files = {f1, f2}
    Size <- MCSize
    Byte <- MCByte
    Content <- MCContent
    Paths <- MCPaths
    Reads <- MCReads
    Errnos = {"EIO"}
    ChunkSize = 2
    MaxRead = 3
INVARIANTS
    CacheIsContent
    DataIsContent
    WholeWhenAnsweredInFull
    RequestsFit
    NeverAsksForKnown
PROPERTIES
    CallReturns
