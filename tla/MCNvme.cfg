\* An I/O queue of three entries, which wraps on every third command, an admin
\* queue that bring-up fills to its last entry, and buffers of two pieces of
\* which a logical block is one, like a drive of 512-byte sectors.
CONSTANTS
    AdminSize = 4
    IoSize = 3
    Lbas = {0, 1}
    Chunks = {z, a}
    Zero = z
    BufChunks = 2
    LbaChunks = 1
SPECIFICATION FairSpec
CHECK_DEADLOCK FALSE
INVARIANTS TypeOK OwnCompletion DoorbellHeard
PROPERTIES ImplementsStore CallReturns
