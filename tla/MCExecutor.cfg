\* Two devices with rings that wrap and fill, and one task that yields, may
\* finish, and may leave its id behind.
CONSTANTS
    Streams = {kbd, mouse}
    Tickers = {job}
    Mortal = {job}
    BufSize = 3
    QueueCap = 9
    MaxBytes = 3
    NoTask = NoTask
SPECIFICATION FairSpec
INVARIANTS TypeOK NoLostWakeup NeverSleepsOnWork
PROPERTIES ImplementsChannel EveryByteRead
