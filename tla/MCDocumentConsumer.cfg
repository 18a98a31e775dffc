SPECIFICATION Spec
CONSTANTS
    Documents     = {d1}
    NoId          = NoId
    Malformed     = Malformed
    Payloads      = {d1, Malformed}
    Partitions    = {p1, p2}
    Consumers     = {c1, c2}
    NoConsumer    = NoConsumer
    BatchSize     = 2
    MaxMessages   = 2
    MaxCrashes    = 1
    MaxRebalances = 1
SYMMETRY Symmetry
INVARIANTS
    TypeOK
    OnlyGivenUpIsLost
    
PROPERTIES
    CommittedGrows
