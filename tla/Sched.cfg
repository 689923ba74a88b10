\* Two thread events, one of them to be run once, and one event of SchedThread.
SPECIFICATION FairSpec
CONSTANTS
    ThreadEvents = {e1, e2}
    SyncEvents = {s1}
    Once = {e2}
    Threads = {t1, t2}
    ThreadTimes = {1}
    SyncTimes = {2}
    JobsPerThread = 0
    ResumeRunning = FALSE
    Pausable = {e1}
    NULL = NULL
INVARIANTS TypeOK ThreadCounts  
PROPERTIES ThreadEventsTaken DrainTerminates
CHECK_DEADLOCK FALSE
