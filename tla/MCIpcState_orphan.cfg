SPECIFICATION Spec
CONSTANTS
    c1 = c1
    c2 = c2
    fuse = fuse
    Conns = {c1, c2}
    Readers = {fuse}
    Strays = {}
    MaxProviders = 1
    MaxPromises = 1
    MaxRequests = 1
    None = None
INVARIANT
    LiveSessionHasConnection
