\* One thread at a time, which leaves after every request; the server is stopped.
CONSTANTS
    d1 = d1
    c1 = c1
    c2 = c2
    NULL = NULL
    Drivers = {d1}
    Spoolers = {}
    Conns = {c1, c2}
    Admins = {}
    MaxConns = 2
    MinThreads = 1
    MaxThreads = 1
    LowWatermark = 2
    HighWatermark = 2
    ConnsPerThread = 1
    RejectOverrun = FALSE
    MaxQueueSize = 2
    PipeSize = 1
    CanStop = TRUE
SPECIFICATION FairSpec
PROPERTIES
    
    ThreadsReplaced
    BusyServesWaiting
CHECK_DEADLOCK FALSE
