\* A depth at which the quarter steps come to a stop before the end.
SPECIFICATION Spec
CONSTANTS
    Headers <- MCHeaders
    Data <- MCData
    QueueSize = 3
    MaxPos = 9
    Depth = 5
    Frames = 2
    MaxReports = 2
    MaxWindows = 2
INVARIANTS
    TypeOK
    OnlyTopInFront
    CursorShown
PROPERTY
    AnimationEnds
CHECK_DEADLOCK FALSE
