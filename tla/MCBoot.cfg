\* A memory map of 14 frames with two gaps; the bus with each driver's device
\* first, behind another function, unreachable or without a memory BAR; policies
\* of up to two conditions, their bytecode cut at every byte; rings of two and
\* three descriptors with packets enough to lap them.
CONSTANTS
    Usable <- MCUsable
    Pages = {1, 2, 3, 4, 5, 6, 7, 8}
    MaxTables = 1
    HashLen = 2
    StackSize = 2
    Policies <- MCPolicies
    NumTx = 2
    NumRx = 3
    Ips <- MCIps
    SourceIp <- MCSourceIp
    Payload <- MCPayload
    MaxSends = 2
    MaxArrivals = 4
    Boards <- MCBoards
    Heap = {7, 8}
    QueuePages = 3
    BackingPages = 5
    OldCodes <- MCOldCodes
SPECIFICATION Spec
INVARIANTS TypeOK RunsDisjoint DriveFound VmInBounds PolicyHonoured
    SliceShowsNextPacket SentOneByOne ChecksumsVerify
PROPERTIES VmProgress BootEnds
CHECK_DEADLOCK FALSE
