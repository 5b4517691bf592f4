SPECIFICATION LiveSpec
CONSTANTS
    Null = Null
    Jobs = {j1, j2, j3}
    MaxConcurrent = 1
    Callers = {c1, c2, c3}
    Aborting = {c1, c2}
    Operations = {status, cities}
    Fetches = {f1, f2}
    Items = {i1}
    Pages = {p1}
    TmpNames = {n1}
    MaxOps = 1
    Missing = Missing
    Torn = Torn
    Unread = Unread
    Window = 2
    MaxTime = 6
    MaxEvents = 3
    Interval = 3
    InitialBackoff = 1
    MaxBackoff = 7
    MaxFailures = 4
    Slowest = 4
INVARIANTS
    TypeOK
    TypesOK
    SemaphoreIsExact
    FirstComeFirstServed
    KilledIsTimeout
    TimersAreArmed
PROPERTIES
    WorkEnds
    Throttled
    NotStuckOpen
    LoadsLand
