SPECIFICATION FairSpec
CONSTANTS
    Users = {u1, u2}
    u1 = u1
    u2 = u2
    Addresses = {a1, a2}
    a1 = a1
    a2 = a2
    Tabs = {t1, t2}
    t1 = t1
    t2 = t2
    Required = {toTrade}
    toTrade = toTrade
    Optional = {cartList}
    cartList = cartList
    CookieTTL = 2
    MaxMoves = 1
    MaxFailures = 1
    NoToken = NoToken
    NoPage = NoPage
    Guest = Guest
INVARIANTS
    TypeOK
    ServedHere
    LoginServesItsUser
PROPERTIES
    ReachesPage
