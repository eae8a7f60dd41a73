CONSTANTS
    Callers = {c1, c2, c3}
    PoolSize = 2
    MaxOutages = 1
SPECIFICATION Spec
INVARIANTS
    ConnAccounting
    NoLostWakeup
PROPERTIES
    StoppedCallersStay
    StatementsReturn
    ConnectionsHeal
    ImplementsPool
