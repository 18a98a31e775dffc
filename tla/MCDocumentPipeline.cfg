SPECIFICATION PipelineFairSpec
CONSTANTS
    Documents     = {d1}
    Operators     = {o1}
    Requests      = {r1, r2}
    CreatedAt     = {1}
    NoOperator    = NoOperator
    NoRequest     = NoRequest
    NoDocument    = NoDocument
    NoId          = NoId
    Malformed     = Malformed
    Payloads      = {d1}
    Partitions    = {p1}
    Consumers     = {c1}
    NoConsumer    = NoConsumer
    ConsumerBatch = 1
    MaxMessages   = 2
    MaxCrashes    = 1
    MaxRebalances = 0
    MaxRetries    = 2
    Relays        = {w1}
    NoRelay       = NoRelay
    NoEvent       = NoEvent
    RelayBatch    = 1
    Oversized     = {r2}
    MaxAborts     = 1
    MaxLostAcks   = 0
    MaxOutages    = 0
INVARIANTS
    
    PublishedIsDecided
PROPERTIES
    EveryMessageDealtWith
    EveryDecisionLeaves
CHECK_DEADLOCK FALSE
