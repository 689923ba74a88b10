\* minthreads and maxthreads are changed at run time, by one thread at a time.
CONSTANTS
    d1 = d1
    c1 = c1
    c2 = c2
    a1 = a1
    NULL = NULL
    Drivers = {d1}
    Spoolers = {}
    Conns = {c1, c2}
    Admins = {a1}
    MaxConns = 2
    MinThreads = 1
    MaxThreads = 2
    LowWatermark = 0
    HighWatermark = 2
    ConnsPerThread = 0
    RejectOverrun = FALSE
    MaxQueueSize = 1
    PipeSize = 1
    CanStop = FALSE
SPECIFICATION Spec
SYMMETRY Symmetry
INVARIANTS
    ThreadAccounting
    
