CONSTANTS
    MaxSessions <- MCMaxSessions
    Size <- MCSize
SPECIFICATION ServerSpec
CHECK_DEADLOCK FALSE
INVARIANTS
    RegistrySound
PROPERTY
    SignalEndsInCrash
