SPECIFICATION ServerSpec
CONSTANTS
    SlotCount = 2
    Reads = {x1, x2}
    MaxVersion = 2
    MaxSamples = 1
    Callers = {c1, c2, c3}
    Aborting = {c1, c2}
    Operations = {statusRead, cities}
    Fetches = {f1, f2, f3}
    Items = {i1}
    Pair = {i1, i2}
    Pages = {p1}
    TmpNames = {n1}
    MaxOps = 1
    Missing = Missing
    Torn = Torn
    Unread = Unread
    g1 = g1
    g2 = g2
    g3 = g3
    g4 = g4
    Files <- FourFiles
    Control <- LastFile
    Rank <- InOrder
    Bytes <- Lengths
    Budget = 3
    FileCap = 2
    MaxFiles = 2
    ListCap = 3
    MaxMoves = 1
    None = None
    Inputs <- RuleCases
CONSTRAINT FewProbes
SYMMETRY Symmetry
INVARIANTS
    ReportsAreHonest
    TypesOK
    ReadsAreShared
    TrendIsChronological
    CacheIsWhole
    ShownIsCurrent
    TriageIsSorted
PROPERTIES
    SnapshotsAreRetained
    NoSlingIsLost
CHECK_DEADLOCK FALSE
