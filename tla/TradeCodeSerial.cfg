SPECIFICATION Spec
CONSTANTS
    Users = {u1, u2}
    u1 = u1
    u2 = u2
    Codes = {c1, c2, c3}
    c1 = c1
    c2 = c2
    c3 = c3
    Requests = {r1, r2}
    r1 = r1
    r2 = r2
    MaxRetries = 1
    Serial = TRUE
    NoCode = NoCode
INVARIANTS
    PaidOnce
PROPERTIES
    OneShotSpec
