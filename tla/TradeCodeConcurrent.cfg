SPECIFICATION Spec
CONSTANTS
    Users = {u1}
    u1 = u1
    Codes = {c1, c2}
    c1 = c1
    c2 = c2
    Requests = {r1, r2, r3}
    r1 = r1
    r2 = r2
    r3 = r3
    MaxRetries = 1
    Serial = FALSE
    NoCode = NoCode
SYMMETRY Symmetry
INVARIANTS
    TypeOK
    ResubmitRefused
    StoredCodeIsFresh
