SPECIFICATION Spec
CONSTANTS
    MaxPromises = 12
    Before <- MCBefore
INVARIANTS
    ListingComplete
    RepeatsAreCommits
