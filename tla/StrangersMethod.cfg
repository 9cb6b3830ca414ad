SPECIFICATION FrontEndSpec
CONSTANTS
    Customers = {b1, b2}
    NoOne = NoOne
    Garments = {g1, g2}
    Thobe = g1
    p1 = p1
    p2 = p2
    Presses = {p1, p2}
    MaxLines = 2
    MaxCarts = 1
    MaxMeasured = 1
    MaxOrders = 2
    MaxRefreshes = 1
    Clients = {c1}
    Calls = {q1, q2}
    Days = 2
    DayLength = 2
    Opens = 1
    Closes = 2
    MaxTurns = 1
    Durations = {1, 2}
    MaxBookings = 2
    MaxEdits = 1
    MaxNow = 1
    k1 = k1
    k2 = k2
    Tickets = {k1, k2}
    Tablets = {w1}
    NoTicket = NoTicket
    OrderedAt <- MCOrderedAt
    MaxVersion = 2
    MaxCalls = 2
    MaxTaps = 4
    s1 = s1
    s2 = s2
    Stores = {s1, s2}
    NoStore = NoStore
    NoRole = NoRole
    Roster <- MCRoster
    All = All
    NoPage = NoPage
    NoAnswer = NoAnswer
    MaxChanges = 1
INVARIANTS
    MethodIsTheirs
SYMMETRY Alike
CHECK_DEADLOCK FALSE
