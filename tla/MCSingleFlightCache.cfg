SPECIFICATION FairSpec
CONSTANTS
    k1 = k1
    l1 = l1
    l2 = l2
    l3 = l3
    c1 = c1
    c2 = c2
    Keys <- OneKey
    Loads <- ThreeLoads
    Callers <- TwoCallers
    TTL = 2
    MaxTime = 4
    Forcing = TRUE
INVARIANTS
    TypeOK
    NothingOrphaned
    FreshEnough
    CacheNeverRegresses
    DuplicatesAreForced
PROPERTIES
    ImplementsContract
    CallersAreAnswered
