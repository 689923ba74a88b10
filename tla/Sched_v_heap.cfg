\* Six events in the queue, and no event threads.
SPECIFICATION Spec
CONSTANTS
    ThreadEvents = {}
    SyncEvents = {s1, s2, s3, s4, s5, s6}
    Once = {}
    Threads = {}
    ThreadTimes = {}
    SyncTimes = {1, 2}
    JobsPerThread = 0
    ResumeRunning = FALSE
    Pausable = {}
    NULL = NULL
INVARIANT QueueOrdered
CHECK_DEADLOCK FALSE
