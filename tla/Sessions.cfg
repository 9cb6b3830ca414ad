SPECIFICATION BothSpec
CONSTANTS
    Tabs = {t1, t2}
    Calls = {k1, k2}
    Users = {u1, u2}
    None = None
    MaxTokens = 3
    Max401 = 3
    MaxIncidents = 2
    Handlers = {h1, h2}
    OtpMaxRequests = 1
    MaxGuesses = 2
    MaxCodes = 2
    MaxServed = 6
    MaxDeaths = 2
INVARIANTS
    LineUnforked
    NotThrownOut
    TabActsForItsUser
    SignOutEndsLine
    CodesHold
    LockoutEnds
SYMMETRY Symm
CHECK_DEADLOCK FALSE
