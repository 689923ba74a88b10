\* A pool of fixed size: a driver and a spooler hand requests to two threads.
CONSTANTS
    d1 = d1
    s1 = s1
    c1 = c1
    c2 = c2
    NULL = NULL
    Drivers = {d1}
    Spoolers = {s1}
    Conns = {c1, c2}
    Admins = {}
    MaxConns = 2
    MinThreads = 2
    MaxThreads = 2
    LowWatermark = 0
    HighWatermark = 2
    ConnsPerThread = 0
    RejectOverrun = TRUE
    MaxQueueSize = 3
    PipeSize = 1
    CanStop = FALSE
SPECIFICATION Spec
SYMMETRY Symmetry
INVARIANTS
    TypeOK
    ConnInOnePlace
    NoConnLost
    AssignsToIdle
    LoopAssertions
    ThreadQueueIdle
