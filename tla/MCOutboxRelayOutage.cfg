SPECIFICATION FairSpec
CONSTANTS
    Events      = {e1}
    EventTimes  = {1}
    MaxRetries  = 5
    Relays      = {w1}
    NoRelay     = NoRelay
    NoEvent     = NoEvent
    BatchSize   = 2
    Oversized   = {}
    MaxAborts   = 0
    MaxLostAcks = 0
    MaxOutages  = 1
PROPERTIES
    EventuallyPublished
