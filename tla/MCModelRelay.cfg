\* Two POSTs and a DELETE over up to two tunnel connections.
SPECIFICATION Spec
CONSTANTS
    Requests = {p1, p2, d1}
    Deletes = {d1}
    MaxConcurrent = 1
    MaxConnections = 2
SYMMETRY PostSymmetry
INVARIANTS
    TypeOK
    Accounting
    FailClosed
    DropOnlyAfterTimeout
CHECK_DEADLOCK FALSE
