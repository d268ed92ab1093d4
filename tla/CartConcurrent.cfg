SPECIFICATION FairSpec
CONSTANTS
    Users = {u1}
    u1 = u1
    HomeUser = u1
    Guest = Guest
    Skus = {s1}
    s1 = s1
    Browsers = {b1}
    b1 = b1
    Requests = {r1, r2}
    r1 = r1
    r2 = r2
    MaxPosted = 1
    MaxRepeats = 1
INVARIANTS
    HashHasRows
PROPERTIES
    RequestEnds
