\* Two concurrent requests, no failing database calls.
CONSTANTS
    Ids = {i1, i2}
    Requests = {r1, r2}
    Passwords = {p1, p2}
    Emails = {e1, e2}
    Names = {n1, n2}
    NoEmail = NoEmail
    None = None
    DbFaults = FALSE

SPECIFICATION Spec
\* A state with no step has used up the model's two GUIDs with no row
\* stored; the server would go on serving with new GUIDs.
CHECK_DEADLOCK FALSE
PROPERTY PasswordOnlyByUpdatePassword
