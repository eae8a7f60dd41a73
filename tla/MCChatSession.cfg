CONSTANTS
    Frames <- MCFrames
    Base = 4
    MAX_LENGTH = 4
    MAX_SENDQUE = 1
    MaxFrames = 2
    MaxSends = 4
SPECIFICATION Spec
INVARIANTS
    Reassembly
    SendOrder
    StoppedIsCleared
PROPERTIES
    ImplementsChannels
    FramesArrive
    SendsFlushed
CHECK_DEADLOCK FALSE
