SPECIFICATION Spec
CONSTANTS
    c1 = c1
    c2 = c2
    fuse = fuse
    Conns = {c1, c2}
    Readers = {fuse, c2}
    Strays = {c2}
    MaxProviders = 1
    MaxPromises = 1
    MaxRequests = 2
    None = None
INVARIANTS
    PendingHasReader
    OneAnswerPerRead
    ResponseFromRegistrant
