CONSTANTS
    Callers = {c1, c2, c3}
    PoolSize = 2
    MinConnected = 0
    CheckPeriod = 2
SPECIFICATION Spec
INVARIANTS
    ConnOwnership
    CommandsBounded
    SleepersMissedNotify
PROPERTIES
    CloseReturns
    ImplementsPool
