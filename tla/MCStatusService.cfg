CONSTANTS
    Listed <- MCListed
    Handlers = {h1, h2}
    Uids = {u1}
    MaxCount = 1
    PoolSize = 7
SPECIFICATION Spec
INVARIANTS
    ScanChoosesMin
    MixedNeedsOverlap
    LoginOnlyEmptyToken
    AnswersBounded
PROPERTY
    FirstStaysLost
