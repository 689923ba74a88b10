\* Two handles, a thread with and one without a timeout, and one bounce.
SPECIFICATION FairSpec
CONSTANTS
    Handles = {h1, h2}
    Threads = {t1, t2}
    Timed = {t2}
    Bouncers = {b1}
    Sched = sched
    Aging = TRUE
    MaxBounce = 1
    NULL = NULL
INVARIANTS TypeOK ConnectedFirst OneCollector BouncedAreStale HandleInOnePlace
PROPERTIES GrantsAllOrNothing GetReturns
