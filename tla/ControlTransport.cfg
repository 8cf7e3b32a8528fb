SPECIFICATION FairSpec
CONSTANTS
    Hosts <- MCHosts
    Strays <- MCStrays
    Leaf <- MCLeaf
    Pin <- MCPin
    Secret <- MCSecret
    OffersH2 <- MCHosts
    MaxHandshakes = 2
INVARIANT MutuallyPinned
INVARIANT ExitReleases
PROPERTY BacklogDrains
CHECK_DEADLOCK FALSE
