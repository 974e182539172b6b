CONSTANTS
    Users = {u1, u2}
    Sessions = {s1, s2}
    Requests = {r1, r2}
    None = None
    TTL = 2
    MaxTime = 3
    XsrfTokens = {x1, x2}
    StoreFaults = FALSE

SPECIFICATION Spec
PROPERTY XsrfTokenStable
