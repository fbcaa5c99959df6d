\* A period of 2 ticks, a run of 1, a collection of at most 1 every 2.
CONSTANTS
    i1 = i1
    i2 = i2
    Inode <- Inodes
    NoFile = NoFile
    Listed <- Listings
    MinPeriod = 2
    MaxPeriod = 2
    MaxRun = 1
    Stale = 5
    Tolerance = 1
    Hold = 2
    MaxBlock = 1
    Cap = 11
SPECIFICATION Spec
SYMMETRY AnyInode
INVARIANTS
    ClaimIsEarned ContentNeverRefused
PROPERTIES
    OneLossTolerated
