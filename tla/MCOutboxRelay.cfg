SPECIFICATION FairSpec
CONSTANTS
    Events      = {e1, e2}
    EventTimes  = {1}
    MaxRetries  = 2
    Relays      = {w1, w2}
    NoRelay     = NoRelay
    NoEvent     = NoEvent
    BatchSize   = 2
    Oversized   = {e2}
    MaxAborts   = 1
    MaxLostAcks = 1
    MaxOutages  = 1
INVARIANTS
    TypeOK
    OneRelayEach
    DuplicatesExplained
    PublishedIsDelivered
PROPERTIES
    DeliverySpec
    SettledIsFinal
    EverySettled
