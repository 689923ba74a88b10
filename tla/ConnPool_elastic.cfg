\* Two callers create threads, which leave after one request or when idle.
CONSTANTS
    d1 = d1
    s1 = s1
    c1 = c1
    c2 = c2
    NULL = NULL
    Drivers = {d1}
    Spoolers = {s1}
    Conns = {c1, c2}
    Admins = {}
    MaxConns = 2
    MinThreads = 1
    MaxThreads = 2
    LowWatermark = 0
    HighWatermark = 2
    ConnsPerThread = 1
    RejectOverrun = FALSE
    MaxQueueSize = 1
    PipeSize = 1
    CanStop = FALSE
SPECIFICATION Spec
SYMMETRY Symmetry
INVARIANTS
    ThreadAccounting
    BoundedOvershoot
