SPECIFICATION TenancySpec
CONSTANTS
    Visits = {x1, x2, x3}
    MaxVisitDeaths = 1
    People = {a, b, c}
    Founder = a
    Requests = {r1, r2}
    Limits <- TwoPlans
    MaxInvites = 2
    MaxBranches = 3
    MaxActs = 4
    Servers = {v1, v2}
    Tiers = {p1, p2}
    Unknown = Unknown
    MaxChanges = 2
    MaxSubs = 2
    MaxMishaps = 1
INVARIANTS
    PayerIsKnown
    PlanLimitsHold
    RowFollowsStripe
SYMMETRY Alike
CHECK_DEADLOCK FALSE
