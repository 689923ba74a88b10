\* An idle thread times out while a driver gives it a request.
CONSTANTS
    d1 = d1
    c1 = c1
    c2 = c2
    NULL = NULL
    Drivers = {d1}
    Spoolers = {}
    Conns = {c1, c2}
    Admins = {}
    MaxConns = 2
    MinThreads = 1
    MaxThreads = 2
    LowWatermark = 0
    HighWatermark = 2
    ConnsPerThread = 0
    RejectOverrun = FALSE
    MaxQueueSize = 2
    PipeSize = 1
    CanStop = FALSE
SPECIFICATION Spec
SYMMETRY Symmetry
INVARIANTS
    AssignsToIdle
