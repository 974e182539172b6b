CONSTANTS
    b1 = b1
    b2 = b2
    alice = alice
    mallory = mallory
    e1 = e1
    home = home
    away = away
    console = console
    elsewhere = elsewhere
    Browsers <- MCBrowsers
    Owner <- MCOwner
    Endpoints = {e1}
    States = {home}
    StateHost <- MCStateHost
    ConsoleHost = console
    UAA = UAA
    Logout = Logout
    NoGuid = NoGuid
    None = None
    SSOLogin = TRUE
    SSOOptions <- MCSSOOptions
    MaxCodes = 3
    Forwarding = TRUE

SPECIFICATION Spec
INVARIANT TypeOK
INVARIANT ExchangeMatchesIssue
