SPECIFICATION PooledFairSpec
CONSTANTS
    Documents  = {d1}
    Operators  = {o1}
    Requests   = {r1, r2, r3}
    CreatedAt  = {1}
    NoOperator = NoOperator
    NoRequest  = NoRequest
    NoDocument = NoDocument
    p1         = p1
    p2         = p2
    Remote     = r3
    Processes  = {p1, p2}
    ProcessOf  <- MCProcessOf
    Others     = {relay}
    PoolLimit  = 2
INVARIANTS
    PooledTypeOK
    LocksAreConnected
PROPERTIES
    EveryArrivalLeaves
