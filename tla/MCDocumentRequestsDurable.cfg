SPECIFICATION Spec
CONSTANTS
    Documents  = {d1}
    Operators  = {o1}
    Requests   = {r1, r2}
    CreatedAt  = {1}
    NoOperator = NoOperator
    NoRequest  = NoRequest
    NoDocument = NoDocument
INVARIANTS
    SuccessIsDurable
