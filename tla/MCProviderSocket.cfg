CONSTANTS
    None = None
    Readers = {fuse, mat}
    Fuse = fuse
    DownCap = 1
    UpCap = 2
    MaxRequests = 2
    MaxQueries = 1
    MaxLeft = 1
SPECIFICATION FairSpec
INVARIANTS
    FramesWhole
    HelperServes
    NoCallbackAfterUnregister
    UnregisteredIsGone
PROPERTIES
    EveryReadEnds
    UnregisterEnds
\* The provider may be gone, and the requests and queries used up.
CHECK_DEADLOCK FALSE
