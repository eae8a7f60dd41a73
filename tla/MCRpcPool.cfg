CONSTANTS
    Callers = {c1, c2, c3, c4}
    PoolSize = 2
SPECIFICATION Spec
INVARIANTS
    StubOwnership
    NoLostWakeup
PROPERTIES
    CallsReturn
    ImplementsPool
