SPECIFICATION Spec
CONSTANTS
    c1 = c1
    c2 = c2
    fuse = fuse
    Conns = {c1, c2}
    Readers = {fuse}
    Strays = {}
    MaxProviders = 2
    MaxPromises = 1
    MaxRequests = 1
    None = None
INVARIANTS
    AvailableHasLiveProvider
    ClosedConnectionServesNothing
    GoneProviderLosesRoute
PROPERTY
    ImplementsService
