SPECIFICATION FairSpec
CONSTANTS
    Usernames    = {"operator_1", "admin", "root", "ann"}
    Emails       = {"operator_1@", "admin@", "root@", "ann@"}
    Requests     = {r1, r2}
    Seeds        = {s1, s2}
    ByHand       = ByHand
    Registrable  <- MCRegistrable
    SeedAccounts <- MCSeedAccounts
    HandAccounts <- MCHandAccounts
    MaxChanges   = 1
INVARIANTS
    TypeOK
    OneAccountEach
    RegisteredIsKept
    
    ServedWithRights
PROPERTIES
    EveryWriterEnds
CHECK_DEADLOCK FALSE
