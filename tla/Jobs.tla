-------------------------------- MODULE Jobs --------------------------------
(***************************************************************************)
(* Job queues (nsd/tcljob.c): ns_job commands of several threads, the      *)
(* global pool of job threads, reference counted queues and the shutdown.  *)
(*                                                                         *)
(* One step is one region under the locks that it needs.  A thread that    *)
(* waits for one lock while it holds another is in a state of its own, so  *)
(* that the order of tp.queuelock and the locks of the queues is part of   *)
(* the model.  A lookup that fails changes nothing and is left out.  The   *)
(* script of a job ends at some point, whether it was cancelled or not.    *)
(***************************************************************************)
EXTENDS Integers, Sequences, FiniteSets, FiniteSetsExt

CONSTANTS
    Queues,         \* names of queues
    Jobs,           \* job ids
    QueueOf,        \* the queue of every job
    Detached,       \* jobs that are queued with -detached
    MaxThreadsOf,   \* the maxthreads argument of "ns_job create", per queue
    Callers,        \* threads that run ns_job commands
    Commands,       \* bound: the subcommands that they use
    Threads,        \* bound: job threads that can exist at a time
    JobsPerThread,  \* tp.jobsPerThread, 0 for no limit
    IdleTimeout,    \* whether tp.timeout is set
    CanStop,        \* bound: whether the server is shut down
    NULL

ASSUME JobsAssumption ==
    /\ IsFiniteSet(Threads) /\ IsFiniteSet(Callers) /\ IsFiniteSet(Queues)
    /\ Threads \intersect Callers = {} /\ NULL \notin Threads \union Callers \union Jobs \union Queues
    /\ QueueOf \in [Jobs -> Queues] /\ Detached \subseteq Jobs
    /\ MaxThreadsOf \in [Queues -> Nat \ {0}]
    /\ Commands \subseteq {"delete", "queue", "wait", "timedwait", "waitany",
                       "timedwaitany", "cancel", "exists"}
    /\ JobsPerThread \in Nat /\ IdleTimeout \in BOOLEAN /\ CanStop \in BOOLEAN

VARIABLES
    queuelock,   \* the thread that holds tp.queuelock between two steps
    queues,      \* queues in tp.queues
    stop,        \* tp.req = THREADPOOL_REQ_STOP
    maxThreads, nthreads, nidle,
    firstPtr,    \* the list of pending jobs
    lock,        \* the thread that holds Queue.lock between two steps
    deleting,    \* queues with QUEUE_REQ_DELETE
    nRunning, refCount,
    jobs,        \* the jobs in the tables of all queues
    state,       \* Job.state
    waited,      \* jobs with JOB_WAIT
    tpc, tjob, njobs,          \* of a job thread
    cpc, ccmd, cqueue, cjob,   \* of a caller: where it is, and in which command
    mpc                        \* of the main thread, in the shutdown

poolVars   == <<queues, stop, maxThreads, nthreads, nidle, firstPtr>>
queueVars  == <<deleting, nRunning, refCount, jobs>>
jobVars    == <<state, waited>>
threadVars == <<tpc, tjob, njobs>>
callVars   == <<cpc, ccmd, cqueue, cjob>>
vars == <<queuelock, lock, poolVars, queueVars, jobVars, threadVars, callVars, mpc>>

Init ==
    /\ queuelock = NULL /\ lock = [q \in Queues |-> NULL]
    /\ queues = {} /\ stop = FALSE
    /\ maxThreads = 0 /\ nthreads = 0 /\ nidle = 0 /\ firstPtr = <<>>
    /\ deleting = {} /\ nRunning = [q \in Queues |-> 0]
    /\ refCount = [q \in Queues |-> 0] /\ jobs = {}
    /\ state = [j \in Jobs |-> "done"] /\ waited = {}
    /\ tpc = [t \in Threads |-> "none"] /\ tjob = [t \in Threads |-> NULL]
    /\ njobs = [t \in Threads |-> 0]
    /\ cpc = [c \in Callers |-> "idle"] /\ ccmd = [c \in Callers |-> NULL]
    /\ cqueue = [c \in Callers |-> NULL] /\ cjob = [c \in Callers |-> NULL]
    /\ mpc = "up"

-----------------------------------------------------------------------------
JobsIn(q, js) == {j \in js : QueueOf[j] = q}
AnyDone(q, js) == \E j \in JobsIn(q, js) : state[j] = "done"

(* Mutants: a broadcast that is left out.                                  *)
WakeNoThread(pcs) == pcs
WakeNoCaller(pcs, q) == pcs

(* Broadcasts: of tp.cond to the job threads, of Queue.cond to the callers *)
(* in JobWait and JobWaitAny.                                              *)
WakeThreads(pcs) == [t \in Threads |-> IF pcs[t] = "wait" THEN "woken" ELSE pcs[t]]
WakeCallers(pcs, q) ==
    [c \in Callers |-> IF pcs[c] = "waiting" /\ cqueue[c] = q THEN "woken" ELSE pcs[c]]

(* Mutant: a queue is deleted under those who refer to it.                 *)
DeletableWhenEmpty(q, refs, del, js) == q \in del /\ JobsIn(q, js) = {}

(* ReleaseQueue deletes a queue that is to be deleted, that nobody else    *)
(* refers to, and that has no jobs.                                        *)
Deletable(q, refs, del, js) == q \in del /\ refs <= 0 /\ JobsIn(q, js) = {}

(* Mutant: the threads of a deleted queue stay counted.                    *)
ReleaseKeepsThreads(q, refs, js) ==
    /\ refCount' = [refCount EXCEPT ![q] = refs]
    /\ IF Deletable(q, refs, deleting, js)
       THEN queues' = queues \ {q} /\ deleting' = deleting \ {q}
       ELSE UNCHANGED <<queues, deleting>>
    /\ UNCHANGED maxThreads

(* ReleaseQueue(queue, NS_TRUE).                                           *)
ReleaseLocked(q, refs, js) ==
    /\ refCount' = [refCount EXCEPT ![q] = refs]
    /\ IF Deletable(q, refs, deleting, js)
       THEN /\ queues' = queues \ {q} /\ deleting' = deleting \ {q}
            /\ maxThreads' = maxThreads - MaxThreadsOf[q]
       ELSE UNCHANGED <<queues, deleting, maxThreads>>

(* The caller's command is over.                                           *)
Return(c, pcs) ==
    /\ cpc' = [pcs EXCEPT ![c] = "idle"]
    /\ ccmd' = [ccmd EXCEPT ![c] = NULL]
    /\ cqueue' = [cqueue EXCEPT ![c] = NULL]
    /\ cjob' = [cjob EXCEPT ![c] = NULL]

(* ReleaseQueue(queue, NS_FALSE): to delete the queue it takes             *)
(* tp.queuelock, while it holds the lock of the queue.                     *)
ReleaseQueue(c, refs, del, js, pcs) ==
    LET q == cqueue[c] IN
    /\ refCount' = [refCount EXCEPT ![q] = refs]
    /\ IF Deletable(q, refs, del, js)
       THEN /\ lock' = [lock EXCEPT ![q] = c]
            /\ cpc' = [pcs EXCEPT ![c] = "release"]
            /\ UNCHANGED <<ccmd, cqueue, cjob>>
       ELSE Return(c, pcs) /\ UNCHANGED lock

ReleaseDelete(c) ==
    LET q == cqueue[c] IN
    /\ cpc[c] = "release" /\ queuelock = NULL
    /\ queues' = queues \ {q} /\ deleting' = deleting \ {q}
    /\ maxThreads' = maxThreads - MaxThreadsOf[q]
    /\ lock' = [lock EXCEPT ![q] = NULL]
    /\ tpc' = IF ccmd[c] = "delete" THEN WakeThreads(tpc) ELSE tpc
    /\ Return(c, cpc)
    /\ UNCHANGED <<queuelock, stop, nthreads, nidle, firstPtr, nRunning, refCount, jobs,
                   jobVars, tjob, njobs, mpc>>

-----------------------------------------------------------------------------
(* The commands.                                                           *)

JobCreate(q) ==
    /\ queuelock = NULL /\ q \notin queues
    /\ queues' = queues \union {q} /\ maxThreads' = maxThreads + MaxThreadsOf[q]
    /\ nRunning' = [nRunning EXCEPT ![q] = 0] /\ refCount' = [refCount EXCEPT ![q] = 0]
    /\ UNCHANGED <<queuelock, lock, stop, nthreads, nidle, firstPtr, deleting, jobs,
                   jobVars, threadVars, callVars, mpc>>

(* The commands that name a queue and no job.                              *)
QueueCommands == {"delete", "waitany", "timedwaitany"}

(* LookupQueue holds tp.queuelock while it waits for the lock of the queue.*)
LookupQueue(c, cmd, q, j) ==
    /\ cpc[c] = "idle" /\ queuelock = NULL /\ q \in queues
    /\ queuelock' = c
    /\ cpc' = [cpc EXCEPT ![c] = "locking"] /\ ccmd' = [ccmd EXCEPT ![c] = cmd]
    /\ cqueue' = [cqueue EXCEPT ![c] = q] /\ cjob' = [cjob EXCEPT ![c] = j]
    /\ UNCHANGED <<lock, poolVars, queueVars, jobVars, threadVars, mpc>>

Locked(c, cmd) == cpc[c] = "locking" /\ ccmd[c] = cmd /\ lock[cqueue[c]] = NULL

JobDelete(c) ==
    /\ Locked(c, "delete") /\ queuelock' = NULL
    /\ deleting' = deleting \union {cqueue[c]}
    /\ ReleaseQueue(c, refCount[cqueue[c]], deleting', jobs, cpc)
    /\ tpc' = IF cpc'[c] = "release" THEN tpc ELSE WakeThreads(tpc)
    /\ UNCHANGED <<poolVars, nRunning, jobs, jobVars, tjob, njobs, mpc>>

(* JobQueue holds both locks.  The new job is put at either end of the     *)
(* list of pending jobs.  A thread is created after the locks are released.*)
JobQueue(c) ==
    LET j == cjob[c]
        q == cqueue[c]
        refused == stop \/ q \in deleting \/ j \in jobs
        create == ~refused /\ nidle = 0 /\ nthreads < maxThreads
    IN
    /\ Locked(c, "queue") /\ queuelock' = NULL
    /\ jobs' = jobs \union (IF refused THEN {} ELSE {j})
    /\ IF refused
       THEN UNCHANGED <<state, waited, firstPtr, tpc>>
       ELSE /\ state' = [state EXCEPT ![j] = "scheduled"] /\ waited' = waited \ {j}
            /\ firstPtr' \in {<<j>> \o firstPtr, Append(firstPtr, j)}
            /\ tpc' = WakeThreads(tpc)
    /\ nthreads' = IF create THEN nthreads + 1 ELSE nthreads
    /\ ReleaseLocked(q, refCount[q], jobs')
    /\ IF create
       THEN cpc' = [cpc EXCEPT ![c] = "create"] /\ UNCHANGED <<ccmd, cqueue, cjob>>
       ELSE Return(c, cpc)
    /\ UNCHANGED <<lock, stop, nidle, nRunning, tjob, njobs, mpc>>

ThreadCreate(c) ==
    /\ cpc[c] = "create"
    /\ \E t \in Threads : tpc[t] = "none" /\ tpc' = [tpc EXCEPT ![t] = "start"]
    /\ Return(c, cpc)
    /\ UNCHANGED <<queuelock, lock, poolVars, queueVars, jobVars, tjob, njobs, mpc>>

(* A caller in a loop around Queue.cond keeps its reference to the queue.  *)
Await(c) ==
    /\ cpc' = [cpc EXCEPT ![c] = "waiting"]
    /\ refCount' = [refCount EXCEPT ![cqueue[c]] = @ + (IF cpc[c] = "locking" THEN 1 ELSE 0)]
    /\ UNCHANGED <<lock, ccmd, cqueue, cjob>>

(* It leaves, with js the jobs that are left.                              *)
Leave(c, js) ==
    ReleaseQueue(c, refCount[cqueue[c]] - (IF cpc[c] = "locking" THEN 0 ELSE 1),
                 deleting, js, cpc)

(* The caller has the lock of the queue: first in the command, where it    *)
(* lets tp.queuelock go, and after every wait.                             *)
HasLock(c, cmds) ==
    /\ ccmd[c] \in cmds /\ cpc[c] \in {"locking", "woken"} /\ lock[cqueue[c]] = NULL
    /\ queuelock' = IF cpc[c] = "locking" THEN NULL ELSE queuelock

(* Mutant: a second caller may wait for a job.                             *)
JobRefusedOnce(j) == j \notin jobs \/ j \in Detached

(* What "ns_job wait" refuses.                                             *)
JobRefused(j) == j \notin jobs \/ j \in Detached \/ j \in waited

(* Who has waited for a job takes it out of the queue and frees it.        *)
JobWait(c) ==
    LET j == cjob[c]
        refused == cpc[c] = "locking" /\ JobRefused(j)
    IN
    /\ HasLock(c, {"wait", "timedwait"})
    /\ \/ /\ refused
          /\ Leave(c, jobs) /\ UNCHANGED <<jobs, waited>>
       \/ /\ ~refused /\ state[j] = "done"
          /\ jobs' = jobs \ {j} /\ waited' = waited \ {j}
          /\ Leave(c, jobs')
       \/ /\ ~refused /\ state[j] # "done"
          /\ waited' = waited \union {j}
          /\ Await(c) /\ UNCHANGED jobs
    /\ UNCHANGED <<poolVars, deleting, nRunning, state, threadVars, mpc>>

(* With a timeout the loop also ends when the search through the table,    *)
(* which goes on by one entry with every wait, is over.                    *)
JobWaitAny(c) ==
    LET q == cqueue[c]
        mayEnd == ccmd[c] = "timedwaitany" /\ cpc[c] = "woken"
    IN
    /\ HasLock(c, {"waitany", "timedwaitany"})
    /\ \/ (JobsIn(q, jobs) = {} \/ AnyDone(q, jobs) \/ mayEnd) /\ Leave(c, jobs)
       \/ JobsIn(q, jobs) # {} /\ ~AnyDone(q, jobs) /\ Await(c)
    /\ UNCHANGED <<poolVars, deleting, nRunning, jobs, jobVars, threadVars, mpc>>

(* The time is up.  A broadcast that comes later does not change that.     *)
WaitTimeout(c) ==
    /\ ccmd[c] \in {"timedwait", "timedwaitany"} /\ cpc[c] \in {"waiting", "woken"}
    /\ lock[cqueue[c]] = NULL
    /\ waited' = waited \ {cjob[c]}
    /\ Leave(c, jobs)
    /\ UNCHANGED <<queuelock, poolVars, deleting, nRunning, jobs, state, threadVars, mpc>>

JobCancel(c) ==
    LET found == cjob[c] \in jobs \ waited IN
    /\ Locked(c, "cancel") /\ queuelock' = NULL
    /\ tpc' = IF found THEN WakeThreads(tpc) ELSE tpc
    /\ ReleaseQueue(c, refCount[cqueue[c]], deleting, jobs,
                    IF found THEN WakeCallers(cpc, cqueue[c]) ELSE cpc)
    /\ UNCHANGED <<poolVars, deleting, nRunning, jobs, jobVars, tjob, njobs, mpc>>

JobExists(c) ==
    /\ Locked(c, "exists") /\ queuelock' = NULL
    /\ ReleaseQueue(c, refCount[cqueue[c]], deleting, jobs, cpc)
    /\ UNCHANGED <<poolVars, deleting, nRunning, jobs, jobVars, threadVars, mpc>>

-----------------------------------------------------------------------------
(* JobThread.                                                              *)

(* Mutant: one job too many.                                               *)
RunnableOneMore(k) ==
    LET q == QueueOf[firstPtr[k]] IN nRunning[q] <= MaxThreadsOf[q]

(* The pending jobs that GetNextJob does not skip; it takes the first.     *)
Runnable(k) ==
    LET q == QueueOf[firstPtr[k]] IN nRunning[q] < MaxThreadsOf[q]
GetNextJob(k) == Runnable(k) /\ \A i \in 1 .. k - 1 : ~Runnable(i)

(* The thread has tp.queuelock: since it finished a job, or anew.          *)
HasQueuelock(t) ==
    \/ tpc[t] = "next" /\ queuelock = t
    \/ tpc[t] \in {"start", "woken"} /\ queuelock = NULL

(* The end of JobThread.  Its broadcast is the one that NsWaitJobsShutdown *)
(* waits for; the others wake it to find nthreads as it was.               *)
Exit(t) ==
    /\ tpc' = [WakeThreads(tpc) EXCEPT ![t] = "none"]
    /\ nthreads' = nthreads - 1
    /\ queuelock' = NULL
    /\ mpc' = IF mpc = "waiting" THEN "stopping" ELSE mpc

(* Mutant: tp.nidle is decremented for a thread that did not wait.         *)
WasIdleAlways(t) == 1

(* The thread was idle: counted in tp.nidle.                               *)
WasIdle(t) == IF tpc[t] \in {"wait", "woken"} THEN 1 ELSE 0

StopThread(t) ==
    /\ HasQueuelock(t) /\ stop
    /\ nidle' = nidle - WasIdle(t)
    /\ Exit(t)
    /\ UNCHANGED <<lock, queues, stop, maxThreads, firstPtr, queueVars, jobVars,
                   tjob, njobs, callVars>>

(* A thread whose time is up does not look at the pending jobs any more.   *)
IdleTimedOut(t) ==
    /\ IdleTimeout /\ tpc[t] \in {"wait", "woken"} /\ queuelock = NULL
    /\ nidle' = nidle - 1
    /\ Exit(t)
    /\ UNCHANGED <<lock, queues, stop, maxThreads, firstPtr, queueVars, jobVars,
                   tjob, njobs, callVars>>

WaitForJob(t) ==
    /\ HasQueuelock(t) /\ ~stop /\ \A k \in 1 .. Len(firstPtr) : ~GetNextJob(k)
    /\ nidle' = nidle + 1 - WasIdle(t)
    /\ tpc' = [tpc EXCEPT ![t] = "wait"]
    /\ njobs' = IF tpc[t] = "start" THEN [njobs EXCEPT ![t] = JobsPerThread] ELSE njobs
    /\ queuelock' = NULL
    /\ UNCHANGED <<lock, queues, stop, maxThreads, nthreads, firstPtr, queueVars, jobVars,
                   tjob, callVars, mpc>>

(* The list of pending jobs without its k-th element.                      *)
Unlink(s, k) == [i \in 1 .. Len(s) - 1 |-> s[IF i < k THEN i ELSE i + 1]]

RunJob(t, k) ==
    LET j == firstPtr[k]
        q == QueueOf[j]
    IN
    /\ HasQueuelock(t) /\ ~stop /\ GetNextJob(k) /\ lock[q] = NULL
    /\ firstPtr' = Unlink(firstPtr, k)
    /\ nidle' = nidle - WasIdle(t)
    /\ state' = [state EXCEPT ![j] = "running"]
    /\ nRunning' = [nRunning EXCEPT ![q] = @ + 1]
    /\ refCount' = [refCount EXCEPT ![q] = @ + 1]
    /\ tpc' = [tpc EXCEPT ![t] = "run"] /\ tjob' = [tjob EXCEPT ![t] = j]
    /\ njobs' = IF tpc[t] = "start" THEN [njobs EXCEPT ![t] = JobsPerThread] ELSE njobs
    /\ queuelock' = NULL
    /\ UNCHANGED <<lock, queues, stop, maxThreads, nthreads, deleting, jobs, waited,
                   callVars, mpc>>

(* The script has ended.                                                   *)
JobDone(t) ==
    LET j == tjob[t]
        q == QueueOf[j]
        left == njobs[t] - 1
    IN
    /\ tpc[t] = "run" /\ queuelock = NULL /\ lock[q] = NULL
    /\ nRunning' = [nRunning EXCEPT ![q] = @ - 1]
    /\ state' = [state EXCEPT ![j] = "done"]
    /\ jobs' = IF j \in Detached THEN jobs \ {j} ELSE jobs
    /\ cpc' = WakeCallers(cpc, q)
    /\ ReleaseLocked(q, refCount[q] - 1, jobs')
    /\ tjob' = [tjob EXCEPT ![t] = NULL]
    /\ njobs' = IF JobsPerThread = 0 THEN njobs ELSE [njobs EXCEPT ![t] = left]
    /\ IF JobsPerThread # 0 /\ left <= 0
       THEN Exit(t)
       ELSE tpc' = [tpc EXCEPT ![t] = "next"] /\ queuelock' = t /\ UNCHANGED <<nthreads, mpc>>
    /\ UNCHANGED <<lock, stop, nidle, firstPtr, waited, ccmd, cqueue, cjob>>

-----------------------------------------------------------------------------
(* The shutdown, by the main thread.  Both loops run over the queues, so   *)
(* nothing happens when there is none.                                     *)

NsStartJobsShutdown ==
    /\ CanStop /\ mpc = "up" /\ queuelock = NULL
    /\ mpc' = "stopping"
    /\ IF queues = {} THEN UNCHANGED <<stop, tpc>>
                      ELSE stop' = TRUE /\ tpc' = WakeThreads(tpc)
    /\ UNCHANGED <<queuelock, lock, queues, maxThreads, nthreads, nidle, firstPtr, queueVars,
                   jobVars, tjob, njobs, callVars>>

NsWaitJobsShutdown ==
    /\ mpc = "stopping" /\ queuelock = NULL
    /\ mpc' = IF queues = {} \/ nthreads = 0 THEN "done" ELSE "waiting"
    /\ UNCHANGED <<queuelock, lock, poolVars, queueVars, jobVars, threadVars, callVars>>

ShutdownTimeout ==
    /\ mpc \in {"waiting", "stopping"} /\ nthreads > 0 /\ queuelock = NULL
    /\ mpc' = "timedout"
    /\ UNCHANGED <<queuelock, lock, poolVars, queueVars, jobVars, threadVars, callVars>>

-----------------------------------------------------------------------------
CallerStep(c) ==
    \/ JobDelete(c) \/ JobQueue(c) \/ ThreadCreate(c) \/ JobWait(c) \/ JobWaitAny(c)
    \/ JobCancel(c) \/ JobExists(c) \/ ReleaseDelete(c)

ThreadStep(t) ==
    \/ StopThread(t) \/ WaitForJob(t) \/ JobDone(t)
    \/ \E k \in 1 .. Len(firstPtr) : RunJob(t, k)

Next ==
    \/ \E q \in Queues : JobCreate(q)
    \/ \E c \in Callers, cmd \in Commands, q \in Queues :
         \E j \in IF cmd \in QueueCommands THEN {NULL} ELSE JobsIn(q, Jobs) :
            LookupQueue(c, cmd, q, j)
    \/ \E c \in Callers : CallerStep(c) \/ WaitTimeout(c)
    \/ \E t \in Threads : ThreadStep(t) \/ IdleTimedOut(t)
    \/ NsStartJobsShutdown \/ NsWaitJobsShutdown \/ ShutdownTimeout

Spec == Init /\ [][Next]_vars

(* Threads run and get their locks, and scripts end.                       *)
FairSpec ==
    /\ Spec
    /\ \A c \in Callers : SF_vars(CallerStep(c))
    /\ \A t \in Threads : SF_vars(ThreadStep(t))
    /\ SF_vars(NsWaitJobsShutdown)

-----------------------------------------------------------------------------
TypeOK ==
    /\ queuelock \in Callers \union Threads \union {NULL}
    /\ lock \in [Queues -> Callers \union {NULL}]
    /\ queues \subseteq Queues /\ deleting \subseteq queues /\ stop \in BOOLEAN
    /\ maxThreads \in Nat /\ nthreads \in Nat /\ nidle \in Nat
    /\ firstPtr \in Seq(Jobs) /\ jobs \subseteq Jobs /\ waited \subseteq jobs
    /\ nRunning \in [Queues -> Nat] /\ refCount \in [Queues -> Nat]
    /\ state \in [Jobs -> {"scheduled", "running", "done"}]
    /\ tpc \in [Threads -> {"none", "start", "wait", "woken", "run", "next"}]
    /\ tjob \in [Threads -> Jobs \union {NULL}] /\ njobs \in [Threads -> 0 .. JobsPerThread]
    /\ cpc \in [Callers -> {"idle", "locking", "waiting", "woken", "create", "release"}]
    /\ ccmd \in [Callers -> Commands \union {NULL}]
    /\ cqueue \in [Callers -> Queues \union {NULL}] /\ cjob \in [Callers -> Jobs \union {NULL}]
    /\ mpc \in {"up", "stopping", "waiting", "timedout", "done"}

Running(q) == {t \in Threads : tpc[t] = "run" /\ QueueOf[tjob[t]] = q}
Waiting(q) == {c \in Callers : cpc[c] \in {"waiting", "woken"} /\ cqueue[c] = q}

(* The counters by which "ns_job queue" decides whether to create a thread *)
(* are exact, also between the decision and the creation, and while queues *)
(* with their own maxthreads come and go.                                  *)
PoolCounts ==
    /\ nthreads = Cardinality({t \in Threads : tpc[t] # "none"})
                  + Cardinality({c \in Callers : cpc[c] = "create"})
    /\ nidle = Cardinality({t \in Threads : tpc[t] \in {"wait", "woken"}})
    /\ maxThreads = MapThenSumSet(LAMBDA q : MaxThreadsOf[q], queues)

(* A queue is not freed under a job that runs or a caller that waits: they *)
(* are what refCount counts, and nothing else is.                          *)
QueueReferences ==
    \A q \in Queues :
        /\ refCount[q] = Cardinality(Running(q)) + Cardinality(Waiting(q))
        /\ refCount[q] > 0 => q \in queues /\ lock[q] = NULL
        /\ q \in queues \/ JobsIn(q, jobs) = {}

(* No queue runs more jobs at once than its maxthreads, and nRunning, by   *)
(* which GetNextJob skips jobs, is exact.                                  *)
QueueLimits ==
    \A q \in Queues :
        nRunning[q] = Cardinality(Running(q)) /\ nRunning[q] <= MaxThreadsOf[q]

(* A job is pending once, or run by one thread, or done: none is lost, run *)
(* twice, or freed while a thread or a waiting caller uses it.             *)
JobInOnePlace ==
    \A j \in Jobs :
        LET pending == {k \in 1 .. Len(firstPtr) : firstPtr[k] = j}
            runners == {t \in Threads : tjob[t] = j}
            waiters == {c \in Callers : cjob[c] = j /\ ccmd[c] \in {"wait", "timedwait"}
                                                 /\ cpc[c] \in {"waiting", "woken"}}
        IN /\ Cardinality(pending) = IF j \in jobs /\ state[j] = "scheduled" THEN 1 ELSE 0
           /\ Cardinality(runners) = IF j \in jobs /\ state[j] = "running" THEN 1 ELSE 0
           /\ Cardinality(waiters) = IF j \in waited THEN 1 ELSE 0
           /\ j \in waited => j \in jobs \ Detached

(* A pending job is run: "ns_job queue" creates threads only when none is  *)
(* idle, jobs of full queues are skipped, and yet none is stranded.        *)
PendingJobRuns ==
    \A j \in Jobs : (j \in jobs /\ state[j] = "scheduled") ~> (state[j] # "scheduled" \/ stop)

(* "ns_job wait" returns: the broadcast at the end of the job is not lost. *)
WaitReturns ==
    \A c \in Callers : (cpc[c] = "waiting" /\ ccmd[c] = "wait") ~> (cpc[c] = "idle" \/ stop)

(* Once the pool is told to stop, its threads exit, those that are being   *)
(* created included.                                                       *)
StopEndsThreads == stop ~> (nthreads = 0)

(* "To avoid deadlock, when locking both the queuelock and queue's lock,   *)
(* lock the queuelock first": no two threads each hold the lock that the   *)
(* other one waits for.                                                    *)
NoDeadlock ==
    ~\E c, d \in Callers :
        /\ cpc[c] = "locking" /\ queuelock = c
        /\ cpc[d] = "release" /\ lock[cqueue[c]] = d
=============================================================================
