\* One request at a time: no race is needed.
SPECIFICATION OrdersSpec
CONSTANTS
    o1 = o1
    i1 = i1
    i2 = i2
    Orders <- OneOrder
    Items <- TwoItems
    OrderOf <- OrderOfItem
    Workers = {w1}
    None = None
    Totals <- MCTotals
    Amounts <- MCAmounts
    Cashiers = {w1}
    MaxPayments = 3
    NoPayment = NoPayment
    Invoices = {v1}
    Filers = {w1}
    MaxKeys = 1
    Missing = Missing
INVARIANTS
    ReadyIsAnnounced
\* A cancelled order, a paid one that is delivered and a filed invoice may admit
\* no further request.
CHECK_DEADLOCK FALSE
