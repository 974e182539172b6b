CONSTANTS
    Users = {u1, u2}
    Sessions = {s1, s2}
    Requests = {r1}
    None = None
    TTL = 2
    MaxTime = 4
    XsrfTokens = {x1, x2}
    StoreFaults = FALSE

SPECIFICATION Spec
INVARIANT TypeOK
INVARIANT SessionNotBeyondToken
PROPERTY ImplementsSessionService
