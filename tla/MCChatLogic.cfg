CONSTANTS
    Posters = {p1, p2}
    MaxPosts = 3
SPECIFICATION Spec
INVARIANTS
    HandledInOrder
    NoLostWakeup
    JoinBlocksOnlyIfMissed
    DrainedAtExit
PROPERTIES
    EveryMessageHandled
    DtorReturns
