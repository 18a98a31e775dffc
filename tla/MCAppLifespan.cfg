SPECIFICATION FairSpec
CONSTANTS
    MaxAttempts = 3
INVARIANTS
    TypeOK
    RelayHasProducer
    ShutdownIsOrderly
PROPERTIES
    ShutdownEnds
