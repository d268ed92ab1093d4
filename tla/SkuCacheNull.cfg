SPECIFICATION Spec
CONSTANTS
    Skus = {s1}
    s1 = s1
    Threads = {t1, t2}
    t1 = t1
    t2 = t2
    OnSale = {s1}
    LockTTL = 2
    EmptyTTL = 1
    SpinSleep = 2
    MaxVersion = 1
    MaxFailures = 0
    Blank = Blank
    Empty = Empty
    NoThread = NoThread
PROPERTIES
    NullMeansMissing
