\* One device and one yielding task; the ready queue has twice as many places
\* as there are tasks.
CONSTANTS
    Streams = {kbd}
    Tickers = {physics}
    Mortal = {}
    BufSize = 3
    QueueCap = 4
    MaxBytes = 5
    NoTask = NoTask
SPECIFICATION Spec
INVARIANT WakeNeverPanics
