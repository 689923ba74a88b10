\* Jobs are queued and waited for; threads leave only when the pool is stopped.
SPECIFICATION FairSpec
CONSTANTS
    q1 = q1
    q2 = q2
    j1 = j1
    j2 = j2
    c1 = c1
    c2 = c2
    t1 = t1
    t2 = t2
    NULL = NULL
    Queues = {q1, q2}
    Jobs = {j1, j2}
    QueueOf <- MCQueueOf
    Detached = {}
    MaxThreadsOf <- MCMaxThreads
    Callers = {c1, c2}
    Threads = {t1, t2}
    Commands = {"queue", "wait"}
    JobsPerThread = 0
    IdleTimeout = FALSE
    CanStop = TRUE
PROPERTIES PendingJobRuns WaitReturns StopEndsThreads
CHECK_DEADLOCK FALSE
