SPECIFICATION Spec
CONSTANTS
    Orders = {o1, o2}
    Workers = {w1, w2}
    Hashes <- MCHashes
    Genesis = Genesis
    None = None
INVARIANTS
    AuditVerdictExact
PROPERTIES
    IssuesInOneLog
    CreatedIsIssued
