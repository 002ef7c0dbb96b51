\* Ten descriptors, and frames enough to announce more than the ring holds.
SPECIFICATION Spec
CONSTANTS
    N = 10
    IdxMod = 20
    CapLists <- MCCapLists
    FirstCap = 1
    MaxHops = 4
    MaxFrames = 9
INVARIANTS
    TypeOK
    FreeListSound
    Reported
    LastFrameShown
PROPERTY
    ReachesScreen
CHECK_DEADLOCK FALSE
