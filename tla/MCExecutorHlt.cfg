\* The tasks kernel_main spawns, with one input stream for the three: the
\* physics task yields on every poll and never finishes.
CONSTANTS
    Streams = {kbd}
    Tickers = {physics}
    Mortal = {}
    BufSize = 3
    QueueCap = 5
    MaxBytes = 2
    NoTask = NoTask
SPECIFICATION FairSpec
PROPERTY QuietKernelHalts
