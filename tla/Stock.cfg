\* Checkouts, cuts by two racing tablets and walk-in sales over one shelf, or two
\* stores that stock the same batch code and send it to each other.
SPECIFICATION StockSpec
CONSTANTS
    Rolls <- MCRolls
    StoreOf <- StoreOfRoll
    CodeOf <- CodeOfRoll
    Age <- AgeOfRoll
    Items = {i1, i2}
    Workers = {w1, w2}
    MinUsable = 1
    Quantities = {1, 2}
    MaxMetres = 5
    MaxTransfers = 2
    None = None
INVARIANTS
    HoldsExactUnlessRecut
    NoPhantomHold
    MovementsExplainBalance
PROPERTIES
    ProductionKeepsMargin
    RequestsEnd
\* Rolls can end up empty and every item cut: the shop may then stop.
CHECK_DEADLOCK FALSE
