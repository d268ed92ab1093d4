SPECIFICATION Spec
CONSTANTS
    Users = {u1, u2}
    u1 = u1
    u2 = u2
    HomeUser = u1
    Guest = Guest
    Skus = {s1, s2}
    s1 = s1
    s2 = s2
    Browsers = {b1}
    b1 = b1
    Requests = {r1}
    r1 = r1
    MaxPosted = 3
    MaxRepeats = 0
PROPERTIES
    LoginBringsCookie
