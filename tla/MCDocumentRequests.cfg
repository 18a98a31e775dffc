SPECIFICATION Spec
CONSTANTS
    Documents  = {d1, d2}
    Operators  = {o1, o2}
    Requests   = {r1, r2, r3}
    CreatedAt  = {1, 2}
    NoOperator = NoOperator
    NoRequest  = NoRequest
    NoDocument = NoDocument
SYMMETRY Symmetry
INVARIANTS
    TypeOK
    NoDoubleClaim
    NoLostUpdate
    OutboxMatchesDocuments
    OldestFirst
    EmptyQueueIsEmpty
    OneSuccessEach
PROPERTIES
    QueueSpec
    DocumentsMoveForward
