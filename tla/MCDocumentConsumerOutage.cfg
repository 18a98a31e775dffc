SPECIFICATION Spec
CONSTANTS
    Documents     = {d1, d2}
    NoId          = NoId
    Malformed     = Malformed
    Payloads      = {d1, d2}
    Partitions    = {p1}
    Consumers     = {c1}
    NoConsumer    = NoConsumer
    BatchSize     = 2
    MaxMessages   = 2
    MaxCrashes    = 0
    MaxRebalances = 0
INVARIANTS
    CommittedIsKept
