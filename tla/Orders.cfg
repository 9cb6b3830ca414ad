SPECIFICATION OrdersSpec
CONSTANTS
    o1 = o1
    i1 = i1
    i2 = i2
    Orders <- OneOrder
    Items <- TwoItems
    OrderOf <- OrderOfItem
    Workers = {w1, w2}
    None = None
    Totals <- MCTotals
    Amounts <- MCAmounts
    Cashiers = {w1, w2}
    MaxPayments = 3
    NoPayment = NoPayment
    Invoices = {v1}
    Filers = {w1, w2}
    MaxKeys = 3
    Missing = Missing
INVARIANTS
    CutBeforeStitching
    AllReadyNoticed
    MoneyAddsUp
    VatAccountedFor
    StampsVerify
    FilingRecordsTrue
PROPERTIES
    StatusFollowsTable
SYMMETRY Alike
\* A cancelled order, a paid one that is delivered and a filed invoice may admit
\* no further request.
CHECK_DEADLOCK FALSE
