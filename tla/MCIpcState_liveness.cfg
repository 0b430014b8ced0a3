SPECIFICATION FairSpec
CONSTANTS
    c1 = c1
    fuse = fuse
    Conns = {c1}
    Readers = {fuse, c1}
    Strays = {}
    MaxProviders = 1
    MaxPromises = 1
    MaxRequests = 2
    None = None
PROPERTIES
    ReadReturns
    CloseEndsProvider
