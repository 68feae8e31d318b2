SPECIFICATION FairSpec
CONSTANTS
    Threads = {t1, t2, t3}
    NoThread = NoThread
    NoGil = NoGil
    MaxAcquire = 2
INVARIANTS
    MutualExclusion
    RecursionBalanced
PROPERTIES
    OwnerReleases
