CONSTANTS
    d1 = d1  d2 = d2  d3 = d3
    a1 = a1  a2 = a2
    Daemons = {d1, d2, d3}
    Apps = {a1, a2}
    MaxProviders = 1
    MaxTokens = 2
    None = None

SPECIFICATION FairSpec
INVARIANTS
    MountedKeepsSocket CommitByRegistrant ReadyIsMounted DeadMountWasKilled
PROPERTY OneServes
\* Every daemon may have ended, and no application has anything to do.
CHECK_DEADLOCK FALSE
