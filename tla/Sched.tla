------------------------------- MODULE Sched --------------------------------
(***************************************************************************)
(* Scheduled procedures (nsd/sched.c): the event queue, SchedThread, the   *)
(* event threads, the calls that schedule, cancel, pause and resume an     *)
(* event, and the shutdown of the scheduler.                               *)
(*                                                                         *)
(* One step is one region under the mutex lock of sched.c, or one access   *)
(* without it.  Of the times only their order is kept: an event that is    *)
(* queued gets some time, and SchedThread finds some prefix of the times   *)
(* to be due; the time of an event that is not queued is forgotten.  Daily *)
(* and weekly events differ only in that time.                             *)
(***************************************************************************)
EXTENDS EventHeap, FiniteSets, Functions

CONSTANTS
    ThreadEvents,  \* events with NS_SCHED_THREAD
    SyncEvents,    \* events that SchedThread runs itself
    Once,          \* events with NS_SCHED_ONCE
    Threads,       \* bound: event threads that can exist
    ThreadTimes,   \* bound: the times a thread event can be queued for
    SyncTimes,     \* bound: the times an event of SchedThread can be queued for
    JobsPerThread, \* nsconf.sched.jobsperthread, 0 for no limit
    ResumeRunning, \* bound: whether Ns_Resume is called for events in a run
    Pausable,      \* bound: events for which Ns_Pause is called
    NULL

Events == ThreadEvents \union SyncEvents
Times == ThreadTimes \union SyncTimes

ASSUME SchedAssumption ==
    /\ IsFiniteSet(Threads) /\ NULL \notin Threads \union Events
    /\ ThreadEvents \intersect SyncEvents = {} /\ Once \subseteq Events
    /\ Times \subseteq Nat \ {0} /\ JobsPerThread \in Nat
    /\ ResumeRunning \in BOOLEAN /\ Pausable \subseteq Events

VARIABLES
    alive,         \* events that are allocated
    hashed,        \* events in eventsTable: hPtr # NULL
    paused,        \* events with NS_SCHED_PAUSED
    heap,          \* queue and qid
    nextqueue,     \* Event.nextqueue, of the queued events; 0 of the others
    first,         \* the list of thread events to run, firstEventPtr
    ready,         \* the list of events SchedThread is to run, readyPtr
    nThreads,
    nIdleThreads,
    running,
    shutdownPending,
    spc,           \* where SchedThread is
    sev,           \* its ePtr
    tpc,           \* where every event thread is
    tev,           \* its ePtr
    njobs,         \* its njobs
    mpc,           \* where the main thread is in the shutdown
    woken,         \* waiters of schedcond that were signalled
    lock           \* event thread that keeps the mutex for its next step

eventVars  == <<alive, hashed, paused>>
queueVars  == <<heap, nextqueue>>
countVars  == <<nThreads, nIdleThreads>>
schedVars  == <<ready, sev, spc>>
threadVars == <<tpc, tev, njobs>>
vars == <<eventVars, queueVars, first, countVars, schedVars, threadVars,
          running, shutdownPending, mpc, woken, lock>>

SchedPcs  == {"off", "start", "loop", "run", "ran", "wait", "timedwait", "drain",
              "cleanup", "cleaned", "done"}
ThreadPcs == {"none", "begin", "wait", "run", "free", "freed", "exit"}
MainPcs   == {"up", "stop", "waiting", "timedout", "done"}

Init ==
    /\ alive = {} /\ hashed = {} /\ paused = {}
    /\ heap = [queue |-> <<>>, qid |-> [e \in Events |-> 0]]
    /\ nextqueue = [e \in Events |-> 0]
    /\ first = <<>> /\ ready = <<>>
    /\ nThreads = 0 /\ nIdleThreads = 0
    /\ running = FALSE /\ shutdownPending = FALSE
    /\ spc = "off" /\ sev = NULL
    /\ tpc = [t \in Threads |-> "none"]
    /\ tev = [t \in Threads |-> NULL]
    /\ njobs = [t \in Threads |-> 0]
    /\ mpc = "up" /\ woken = {} /\ lock = NULL

-----------------------------------------------------------------------------
(* SchedThread and the main thread wait for the same condition, and a      *)
(* signal wakes one of them.                                               *)
SchedWaiters ==
    {w \in {"sched", "main"} :
        /\ w \notin woken
        /\ IF w = "sched" THEN spc \in {"wait", "timedwait", "drain"} ELSE mpc = "waiting"}

SignalSched ==
    \/ SchedWaiters = {} /\ UNCHANGED woken
    \/ \E w \in SchedWaiters : woken' = woken \union {w}

(* Only queued events have a time.                                         *)
Forget(h) == nextqueue' = [e \in Events |-> IF h.qid[e] > 0 THEN nextqueue[e] ELSE 0]

(* The outcomes of a signal of eventcond, with the threads where tp says.  *)
SignalEvent(tp) ==
    LET waiting == {t \in Threads : tp[t] = "wait"} IN
    IF waiting = {} THEN {tp} ELSE {[tp EXCEPT ![t] = "begin"] : t \in waiting}

(* QueueEvent: a paused event is not queued; whoever queues an event       *)
(* signals SchedThread or creates it.                                      *)
QueueEvent(e, isPaused) ==
    \/ isPaused /\ UNCHANGED <<queueVars, running, woken>>
    \/ /\ ~isPaused
       /\ \E time \in IF e \in SyncEvents THEN SyncTimes ELSE ThreadTimes :
            nextqueue' = [nextqueue EXCEPT ![e] = time]
       /\ heap' = Enqueue(heap, nextqueue', e)
       /\ running' = TRUE
       /\ IF running THEN SignalSched ELSE UNCHANGED woken

-----------------------------------------------------------------------------
(* The calls.  Each is one region under the mutex.                         *)

Ns_ScheduleProcEx(e) ==
    /\ lock = NULL /\ ~shutdownPending
    /\ e \notin alive
    /\ alive' = alive \union {e} /\ hashed' = hashed \union {e} /\ paused' = paused \ {e}
    /\ QueueEvent(e, FALSE)
    /\ spc' = IF running THEN spc ELSE "start"
    /\ UNCHANGED <<first, ready, sev, countVars, threadVars, shutdownPending, mpc, lock>>

(* Mutant: the event keeps its entry in the table.                         *)
CancelKeepsEntry(e) ==
    /\ lock = NULL /\ ~shutdownPending
    /\ e \in hashed
    /\ IF heap.qid[e] > 0
       THEN /\ heap' = DeQueueEvent(heap, nextqueue, heap.qid[e])
            /\ alive' = alive \ {e}
       ELSE UNCHANGED <<heap, alive>>
    /\ Forget(heap')
    /\ UNCHANGED <<hashed, paused, first, countVars, schedVars, threadVars,
                   running, shutdownPending, mpc, woken, lock>>

(* Mutant: the event is freed although it runs.                            *)
CancelFrees(e) ==
    /\ lock = NULL /\ ~shutdownPending
    /\ e \in hashed
    /\ hashed' = hashed \ {e}
    /\ heap' = IF heap.qid[e] > 0 THEN DeQueueEvent(heap, nextqueue, heap.qid[e]) ELSE heap
    /\ alive' = alive \ {e}
    /\ Forget(heap')
    /\ UNCHANGED <<paused, first, countVars, schedVars, threadVars,
                   running, shutdownPending, mpc, woken, lock>>

(* An event that is not queued stays with whoever runs it.                 *)
Ns_Cancel(e) ==
    /\ lock = NULL /\ ~shutdownPending
    /\ e \in hashed
    /\ hashed' = hashed \ {e}
    /\ IF heap.qid[e] > 0
       THEN /\ heap' = DeQueueEvent(heap, nextqueue, heap.qid[e])
            /\ alive' = alive \ {e}
       ELSE UNCHANGED <<heap, alive>>
    /\ Forget(heap')
    /\ UNCHANGED <<paused, first, countVars, schedVars, threadVars,
                   running, shutdownPending, mpc, woken, lock>>

Ns_Pause(e) ==
    /\ lock = NULL /\ ~shutdownPending
    /\ e \in (hashed \ paused) \intersect Pausable
    /\ paused' = paused \union {e}
    /\ heap' = IF heap.qid[e] > 0 THEN DeQueueEvent(heap, nextqueue, heap.qid[e]) ELSE heap
    /\ Forget(heap')
    /\ UNCHANGED <<alive, hashed, first, countVars, schedVars, threadVars,
                   running, shutdownPending, mpc, woken, lock>>

(* Ns_Resume queues the event, also when it is in a run.                   *)
InRun(e) ==
    \/ e \in Range(first) \union Range(ready) \union {sev}
    \/ \E t \in Threads : tev[t] = e
Ns_Resume(e) ==
    /\ lock = NULL /\ ~shutdownPending
    /\ e \in hashed \intersect paused
    /\ ResumeRunning \/ ~InRun(e)
    /\ paused' = paused \ {e}
    /\ QueueEvent(e, FALSE)
    /\ UNCHANGED <<alive, hashed, first, countVars, schedVars, threadVars,
                   shutdownPending, mpc, lock>>

-----------------------------------------------------------------------------
(* SchedThread.                                                            *)

(* After Ns_WaitForStartup, late events are reset to the current time.     *)
SchedStart(now) ==
    /\ spc = "start" /\ lock = NULL
    /\ nextqueue' = [e \in Events |-> IF heap.qid[e] > 0 /\ nextqueue[e] <= now
                                      THEN now ELSE nextqueue[e]]
    /\ spc' = "loop"
    /\ UNCHANGED <<eventVars, heap, first, ready, sev, countVars, threadVars,
                   running, shutdownPending, mpc, woken, lock>>

(* The first event leaves the queue if it is due, to the front of its list.*)
PopOnce(s, now) ==
    LET e == s.heap.queue[1] IN
    IF s.heap.queue # <<>> /\ nextqueue[e] <= now
      THEN [heap   |-> DeQueueEvent(s.heap, nextqueue, 1),
            hashed |-> IF e \in Once THEN s.hashed \ {e} ELSE s.hashed,
            first  |-> IF e \in ThreadEvents THEN <<e>> \o s.first ELSE s.first,
            ready  |-> IF e \in ThreadEvents THEN s.ready ELSE <<e>> \o s.ready]
      ELSE s

(* All events that are due leave the queue.                                *)
PopDue(now) ==
    LET step[n \in Nat] ==
          IF n = 0 THEN [heap |-> heap, hashed |-> hashed, first |-> first, ready |-> <<>>]
          ELSE PopOnce(step[n - 1], now)
    IN  step[Len(heap.queue)]

(* A thread is created for the list if no thread is idle; one is woken.    *)
Dispatch(list) ==
    \/ list = <<>> /\ UNCHANGED <<countVars, threadVars>>
    \/ /\ list # <<>> /\ nIdleThreads = 0
       /\ \E t \in Threads :
            /\ tpc[t] = "none"
            /\ tpc' \in SignalEvent([tpc EXCEPT ![t] = "begin"])
            /\ njobs' = [njobs EXCEPT ![t] = JobsPerThread]
       /\ nIdleThreads' = nIdleThreads + 1 /\ nThreads' = nThreads + 1
       /\ UNCHANGED tev
    \/ /\ list # <<>> /\ nIdleThreads # 0
       /\ tpc' \in SignalEvent(tpc)
       /\ UNCHANGED <<countVars, tev, njobs>>

(* SchedThread runs the next event of its list, or waits: without a time   *)
(* if the queue is empty, otherwise until its first event is due.          *)
RunOrWait(list, h) ==
    \/ /\ list # <<>>
       /\ sev' = Head(list) /\ ready' = Tail(list) /\ spc' = "run"
    \/ /\ list = <<>>
       /\ sev' = NULL /\ ready' = <<>>
       /\ spc' = IF h.queue = <<>> THEN "wait"
                 ELSE IF ~shutdownPending THEN "timedwait" ELSE "loop"

SchedLoop(now) ==
    /\ spc = "loop" /\ lock = NULL /\ ~shutdownPending
    /\ LET s == PopDue(now) IN
       /\ heap' = s.heap /\ hashed' = s.hashed /\ first' = s.first
       /\ Forget(s.heap)
       /\ Dispatch(s.first)
       /\ RunOrWait(s.ready, s.heap)
    /\ UNCHANGED <<alive, paused, running, shutdownPending, mpc, woken, lock>>

(* The procedure has returned; hPtr is read without the mutex.             *)
SchedRan ==
    /\ spc = "run"
    /\ spc' = "ran"
    /\ IF sev \in hashed THEN UNCHANGED <<alive, sev>>
                         ELSE alive' = alive \ {sev} /\ sev' = NULL
    /\ UNCHANGED <<hashed, paused, queueVars, first, ready, countVars, threadVars,
                   running, shutdownPending, mpc, woken, lock>>

SchedRequeue ==
    /\ spc = "ran" /\ lock = NULL
    /\ IF sev # NULL THEN QueueEvent(sev, sev \in paused)
                     ELSE UNCHANGED <<queueVars, running, woken>>
    /\ RunOrWait(ready, heap')
    /\ UNCHANGED <<eventVars, first, countVars, threadVars, shutdownPending, mpc, lock>>

(* A signal, or the time of the first event.                               *)
SchedWake ==
    /\ spc \in {"wait", "timedwait"} /\ lock = NULL
    /\ "sched" \in woken \/ spc = "timedwait"
    /\ spc' = "loop" /\ woken' = woken \ {"sched"}
    /\ UNCHANGED <<eventVars, queueVars, first, ready, sev, countVars, threadVars,
                   running, shutdownPending, mpc, lock>>

(* Mutant: the idle event threads are not woken.                           *)
SchedDrainQuietly ==
    /\ spc = "loop" /\ lock = NULL /\ shutdownPending
    /\ spc' = "drain"
    /\ UNCHANGED <<eventVars, queueVars, first, ready, sev, countVars, threadVars,
                   running, shutdownPending, mpc, woken, lock>>

(* At shutdown all event threads are woken.  The wait for them is timed    *)
(* with a time that passes, so it looks at their number again and again.   *)
SchedDrain ==
    /\ spc = "loop" /\ lock = NULL /\ shutdownPending
    /\ tpc' = [t \in Threads |-> IF tpc[t] = "wait" THEN "begin" ELSE tpc[t]]
    /\ spc' = "drain"
    /\ UNCHANGED <<eventVars, queueVars, first, ready, sev, countVars, tev, njobs,
                   running, shutdownPending, mpc, woken, lock>>

SchedDrained ==
    /\ spc = "drain" /\ lock = NULL /\ nThreads = 0
    /\ spc' = "cleanup" /\ woken' = woken \ {"sched"}
    /\ UNCHANGED <<eventVars, queueVars, first, ready, sev, countVars, threadVars,
                   running, shutdownPending, mpc, lock>>

(* The queue and the table are freed without the mutex.                    *)
SchedCleanup ==
    /\ spc = "cleanup"
    /\ alive' = {e \in alive : heap.qid[e] = 0}
    /\ heap' = [queue |-> <<>>, qid |-> [e \in Events |-> 0]]
    /\ Forget(heap')
    /\ hashed' = {}
    /\ spc' = "cleaned"
    /\ UNCHANGED <<paused, first, ready, sev, countVars, threadVars,
                   running, shutdownPending, mpc, woken, lock>>

SchedDone ==
    /\ spc = "cleaned" /\ lock = NULL
    /\ running' = FALSE /\ spc' = "done"
    /\ woken' = woken \union SchedWaiters
    /\ UNCHANGED <<eventVars, queueVars, first, ready, sev, countVars, threadVars,
                   shutdownPending, mpc, lock>>

-----------------------------------------------------------------------------
(* EventThread.  A thread that has requeued its event keeps the mutex.     *)

TakeEvent(t) ==
    /\ tpc[t] = "begin" /\ lock \in {NULL, t}
    /\ first # <<>>
    /\ tev' = [tev EXCEPT ![t] = Head(first)] /\ first' = Tail(first)
    /\ LET tp == [tpc EXCEPT ![t] = "run"] IN
       tpc' \in IF Tail(first) # <<>> THEN SignalEvent(tp) ELSE {tp}
    /\ nIdleThreads' = nIdleThreads - 1
    /\ lock' = NULL
    /\ UNCHANGED <<eventVars, queueVars, nThreads, schedVars, njobs, running,
                   shutdownPending, mpc, woken>>

WaitOrLeave(t) ==
    /\ tpc[t] = "begin" /\ lock \in {NULL, t}
    /\ first = <<>>
    /\ \/ ~shutdownPending /\ tpc' = [tpc EXCEPT ![t] = "wait"] /\ lock' = NULL
       \/ shutdownPending /\ tpc' = [tpc EXCEPT ![t] = "exit"] /\ lock' = t
    /\ UNCHANGED <<eventVars, queueVars, first, countVars, schedVars, tev, njobs,
                   running, shutdownPending, mpc, woken>>

(* Mutant: the thread waits for a signal before it looks at the list.      *)
JobServedWaits(t) ==
    /\ njobs' = IF JobsPerThread = 0 THEN njobs ELSE [njobs EXCEPT ![t] = @ - 1]
    /\ tpc' = [tpc EXCEPT ![t] = IF JobsPerThread # 0 /\ njobs'[t] = 0 THEN "exit" ELSE "wait"]
    /\ lock' = NULL

(* One job less; the last one ends the thread.                             *)
JobServed(t) ==
    /\ njobs' = IF JobsPerThread = 0 THEN njobs ELSE [njobs EXCEPT ![t] = @ - 1]
    /\ tpc' = [tpc EXCEPT ![t] = IF JobsPerThread # 0 /\ njobs'[t] = 0 THEN "exit" ELSE "begin"]
    /\ lock' = t

EventRan(t) ==
    /\ tpc[t] = "run" /\ lock = NULL
    /\ nIdleThreads' = nIdleThreads + 1
    /\ IF tev[t] \in hashed
       THEN /\ QueueEvent(tev[t], tev[t] \in paused)
            /\ tev' = [tev EXCEPT ![t] = NULL]
            /\ JobServed(t)
       ELSE /\ tpc' = [tpc EXCEPT ![t] = "free"]
            /\ UNCHANGED <<queueVars, running, woken, tev, njobs, lock>>
    /\ UNCHANGED <<eventVars, first, nThreads, schedVars, shutdownPending, mpc>>

(* FreeEvent, without the mutex.                                           *)
EventFree(t) ==
    /\ tpc[t] = "free"
    /\ alive' = alive \ {tev[t]}
    /\ tev' = [tev EXCEPT ![t] = NULL] /\ tpc' = [tpc EXCEPT ![t] = "freed"]
    /\ UNCHANGED <<hashed, paused, queueVars, first, countVars, schedVars, njobs,
                   running, shutdownPending, mpc, woken, lock>>

EventFreed(t) ==
    /\ tpc[t] = "freed" /\ lock = NULL
    /\ JobServed(t)
    /\ UNCHANGED <<eventVars, queueVars, first, countVars, schedVars, tev,
                   running, shutdownPending, mpc, woken>>

(* Mutant: the exiting thread stays counted as idle.                       *)
EventExitIdle(t) ==
    /\ tpc[t] = "exit" /\ lock = t
    /\ nThreads' = nThreads - 1
    /\ SignalSched
    /\ tpc' = [tpc EXCEPT ![t] = "none"] /\ lock' = NULL
    /\ UNCHANGED <<eventVars, queueVars, first, nIdleThreads, schedVars, tev, njobs,
                   running, shutdownPending, mpc>>

EventExit(t) ==
    /\ tpc[t] = "exit" /\ lock = t
    /\ nThreads' = nThreads - 1 /\ nIdleThreads' = nIdleThreads - 1
    /\ SignalSched
    /\ tpc' = [tpc EXCEPT ![t] = "none"] /\ lock' = NULL
    /\ UNCHANGED <<eventVars, queueVars, first, schedVars, tev, njobs,
                   running, shutdownPending, mpc>>

-----------------------------------------------------------------------------
(* The shutdown, by the main thread.                                       *)

NsStartSchedShutdown ==
    /\ mpc = "up" /\ lock = NULL
    /\ mpc' = "stop"
    /\ IF running THEN shutdownPending' = TRUE /\ SignalSched
                  ELSE UNCHANGED <<shutdownPending, woken>>
    /\ UNCHANGED <<eventVars, queueVars, first, countVars, schedVars, threadVars,
                   running, lock>>

NsWaitSchedShutdown ==
    /\ mpc = "stop" /\ lock = NULL
    /\ mpc' = IF running THEN "waiting" ELSE "done"
    /\ UNCHANGED <<eventVars, queueVars, first, countVars, schedVars, threadVars,
                   running, shutdownPending, woken, lock>>

ShutdownWoken ==
    /\ mpc = "waiting" /\ "main" \in woken /\ lock = NULL
    /\ mpc' = "stop" /\ woken' = woken \ {"main"}
    /\ UNCHANGED <<eventVars, queueVars, first, countVars, schedVars, threadVars,
                   running, shutdownPending, lock>>

ShutdownTimeout ==
    /\ mpc = "waiting" /\ "main" \notin woken /\ lock = NULL
    /\ mpc' = "timedout"
    /\ UNCHANGED <<eventVars, queueVars, first, countVars, schedVars, threadVars,
                   running, shutdownPending, woken, lock>>

-----------------------------------------------------------------------------
SchedStep ==
    \/ \E now \in Times \union {0} : SchedStart(now) \/ SchedLoop(now)
    \/ SchedRan \/ SchedRequeue \/ SchedWake
    \/ SchedDrain \/ SchedDrained \/ SchedCleanup \/ SchedDone

EventStep(t) ==
    \/ TakeEvent(t) \/ WaitOrLeave(t) \/ EventRan(t)
    \/ EventFree(t) \/ EventFreed(t) \/ EventExit(t)

MainStep == NsWaitSchedShutdown \/ ShutdownWoken

Next ==
    \/ \E e \in Events : Ns_ScheduleProcEx(e) \/ Ns_Cancel(e) \/ Ns_Pause(e) \/ Ns_Resume(e)
    \/ SchedStep
    \/ \E t \in Threads : EventStep(t)
    \/ NsStartSchedShutdown \/ MainStep \/ ShutdownTimeout

Spec == Init /\ [][Next]_vars

(* Procedures return, threads are scheduled and get the mutex.             *)
FairSpec ==
    /\ Spec
    /\ SF_vars(SchedStep) /\ SF_vars(MainStep)
    /\ \A t \in Threads : SF_vars(EventStep(t))
-----------------------------------------------------------------------------
TypeOK ==
    /\ alive \subseteq Events /\ hashed \subseteq alive /\ paused \subseteq Events
    /\ heap.queue \in Seq(Events) /\ heap.qid \in [Events -> Nat]
    /\ nextqueue \in [Events -> Times \union {0}]
    /\ first \in Seq(ThreadEvents) /\ ready \in Seq(SyncEvents)
    /\ nThreads \in Nat /\ nIdleThreads \in Nat
    /\ spc \in SchedPcs /\ sev \in SyncEvents \union {NULL}
    /\ tpc \in [Threads -> ThreadPcs] /\ tev \in [Threads -> ThreadEvents \union {NULL}]
    /\ njobs \in [Threads -> 0 .. JobsPerThread]
    /\ mpc \in MainPcs /\ woken \subseteq {"sched", "main"} /\ lock \in Threads \union {NULL}

(* The counters by which SchedThread decides whether to create a thread    *)
(* and whether all have exited: every thread counts from its creation to   *)
(* its exit, and as idle unless it runs a procedure.                       *)
ThreadCounts ==
    /\ nThreads = Cardinality({t \in Threads : tpc[t] # "none"})
    /\ nIdleThreads = Cardinality({t \in Threads : tpc[t] \notin {"none", "run"}})

(* How often an event is in the queue, in a list or with a thread.         *)
InSeq(s, e)  == Cardinality({k \in 1 .. Len(s) : s[k] = e})
Places(e) ==
    InSeq(heap.queue, e) + InSeq(first, e) + InSeq(ready, e)
    + (IF sev = e THEN 1 ELSE 0) + Cardinality({t \in Threads : tev[t] = e})

(* An event has one owner, and whoever owns an event owns one that is      *)
(* allocated: no event is run by two threads, queued while it runs, or     *)
(* used after FreeEvent, and one that nobody owns is paused.               *)
EventInOnePlace ==
    \A e \in Events :
        /\ Places(e) <= 1
        /\ Places(e) = 1 => e \in alive
        /\ e \in alive /\ Places(e) = 0 => e \in paused

(* Every queued event knows its position, which Ns_Cancel and Ns_Pause     *)
(* rely on, through all exchanges in the array; no other event has one.    *)
PositionsKnown ==
    /\ QidsMatch(heap)
    /\ \A e \in Events : heap.qid[e] > 0 => heap.queue[heap.qid[e]] = e

(* QueueConsistencyCheck: "Check if all parent nodes (k/2) are earlier     *)
(* then the child nodes".                                                  *)
QueueOrdered == IsHeap(heap, nextqueue)

(* As long as thread events are due, event threads take them, although     *)
(* threads are created one at a time and woken one at a time.              *)
ThreadEventsTaken ==
    <>[](first # <<>>) => []<><<\E t \in Threads : TakeEvent(t)>>_vars

(* When SchedThread sees the shutdown, all event threads finish their      *)
(* work and exit, and the scheduler says that it has stopped.              *)
DrainTerminates == (spc = "drain") ~> (spc = "done")
=============================================================================
