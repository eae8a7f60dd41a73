CONSTANTS
    Callers = {c1, c2, c3}
    PoolSize = 2
    MinConnected = 2
    CheckPeriod = 2
SPECIFICATION Spec
PROPERTY
    GracefulShutdown
