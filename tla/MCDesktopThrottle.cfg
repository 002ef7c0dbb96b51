\* The constants of the desktop run.
SPECIFICATION Spec
CONSTANTS
    Headers <- MCHeaders
    Data <- MCData
    QueueSize = 3
    MaxPos = 9
    Depth = 5
    Frames = 2
    MaxReports = 2
    MaxWindows = 2
INVARIANT
    ThrottleOnlyDelays
CHECK_DEADLOCK FALSE
