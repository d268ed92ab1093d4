SPECIFICATION FairSpec
CONSTANTS
    Skus = {s1}
    s1 = s1
    Threads = {t1, t2}
    t1 = t1
    t2 = t2
    OnSale = {}
    LockTTL = 2
    EmptyTTL = 1
    SpinSleep = 2
    MaxVersion = 2
    MaxFailures = 1
    Blank = Blank
    Empty = Empty
    NoThread = NoThread
INVARIANTS
    TypeOK
    MutualExclusion
PROPERTIES
    ReleasesOwnLock
    CacheNeverGoesBack
    MonotonicReads
    NullIsTimely
    LockIsFreed
    CallReturns
