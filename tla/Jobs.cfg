\* All commands; threads leave after one job and when they are idle.
SPECIFICATION Spec
CONSTANTS
    q1 = q1
    q2 = q2
    j1 = j1
    j2 = j2
    c1 = c1
    c2 = c2
    t1 = t1
    t2 = t2
    NULL = NULL
    Queues = {q1, q2}
    Jobs = {j1, j2}
    QueueOf <- MCQueueOf
    Detached = {j2}
    MaxThreadsOf <- MCMaxThreads
    Callers = {c1, c2}
    Threads = {t1, t2}
    Commands = {"delete", "queue", "wait", "timedwait", "waitany", "timedwaitany", "cancel", "exists"}
    JobsPerThread = 1
    IdleTimeout = TRUE
    CanStop = TRUE
SYMMETRY Symmetry
INVARIANTS TypeOK PoolCounts QueueReferences QueueLimits 
CHECK_DEADLOCK FALSE
