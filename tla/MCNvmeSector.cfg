\* A logical block is half of the driver's buffer.
CONSTANTS
    AdminSize = 4
    IoSize = 3
    Lbas = {0, 1}
    Chunks = {z, a}
    Zero = z
    BufChunks = 2
    LbaChunks = 1
SPECIFICATION HistSpec
CHECK_DEADLOCK FALSE
INVARIANTS WholeBufferReadsBack
