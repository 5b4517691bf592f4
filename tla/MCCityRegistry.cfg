SPECIFICATION FairSpec
CONSTANTS
    racoon = racoon
    hawkins = hawkins
    dotdot = dotdot
    r1 = r1
    r2 = r2
    q1 = q1
    q2 = q2
    Cities <- TwoCities
    BadNames <- Invalid
    Workers = 2
    Runtimes <- TwoRuntimes
    Requests <- TwoRequests
INVARIANTS
    TypeOK
    OneRuntime
    ShutdownIsComplete
PROPERTY RequestsAreAnswered
