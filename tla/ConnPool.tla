------------------------------ MODULE ConnPool ------------------------------
(***************************************************************************)
(* The connection thread pool of a virtual server (nsd/queue.c) together   *)
(* with the part of the driver loop (nsd/driver.c) that feeds it: drivers  *)
(* hand parsed requests to the pool with NsQueueConn, connection threads   *)
(* serve them, idle threads time out, and the main thread shuts the server *)
(* down.                                                                   *)
(*                                                                         *)
(* One step is one region that the code runs under a mutex, or one access  *)
(* of shared state that it makes without one.  ConnThreadArg.state is      *)
(* always assigned where the thread moves on, so it is derived from the    *)
(* thread's control state (operator state).  The free list and the stack   *)
(* of idle threads are sets: which member is taken is not observable.      *)
(* Statistics, connection ids, names and logging are left out.             *)
(***************************************************************************)
EXTENDS Integers, Sequences, FiniteSets

CONSTANTS
    Drivers,         \* driver threads
    Spoolers,        \* spooler threads
    Conns,           \* the Conn structures of the pool (maxconnections)
    Admins,          \* Tcl threads running "ns_server minthreads/maxthreads"
    MaxConns,        \* wqueue.maxconns, also the number of ConnThreadArg slots
    MinThreads,      \* minthreads of the configuration
    MaxThreads,      \* maxthreads of the configuration
    LowWatermark,    \* wqueue.lowwatermark
    HighWatermark,   \* wqueue.highwatermark
    ConnsPerThread,  \* threads.connsperthread, 0 for no limit
    RejectOverrun,   \* wqueue.rejectoverrun
    MaxQueueSize,    \* bound: sockets that carry a request at the same time
    PipeSize,        \* bound: bytes that fit into the trigger pipe of a driver
    CanStop,         \* bound: whether the main thread may shut the server down
    NULL             \* the null pointer

ASSUME ThreadRangeAssumption ==
    /\ MaxConns \in Nat /\ MinThreads \in Nat /\ MaxThreads \in Nat
    /\ 1 <= MinThreads /\ MinThreads <= MaxThreads /\ MaxThreads <= MaxConns

ASSUME WatermarkAssumption ==
    LowWatermark \in Nat /\ HighWatermark \in Nat

ASSUME LimitAssumption ==
    /\ ConnsPerThread \in Nat /\ MaxQueueSize \in Nat /\ PipeSize \in Nat
    /\ RejectOverrun \in BOOLEAN /\ CanStop \in BOOLEAN

Slots == 1 .. MaxConns

(* The threads that call NsQueueConn.                                      *)
Callers == Drivers \union Spoolers

ASSUME IdentityAssumption ==
    /\ IsFiniteSet(Callers) /\ IsFiniteSet(Conns)
    /\ Drivers \intersect Spoolers = {}
    /\ NULL \notin Conns /\ NULL \notin Slots /\ NULL \notin Drivers

VARIABLES
    (* wqueue, threads and tqueue of the ConnPool structure *)
    free,       \* Conns on the free list
    wait,       \* the waiting queue, oldest first
    tqueue,     \* slots on the stack of idle connection threads
    current,    \* threads.current
    creating,   \* threads.creating
    idle,       \* threads.idle
    tmin,       \* threads.min
    tmax,       \* threads.max
    (* the connection threads, one per ConnThreadArg slot *)
    pc,         \* where the thread of the slot is, "none" when there is none
    argConn,    \* argPtr->connPtr
    cur,        \* the local connPtr of NsConnThread
    ncons,      \* the local ncons, cut off at zero
    timedout,   \* status == NS_TIMEOUT when the idle loop is left
    inShutdown, \* the local duringShutdown
    joining,    \* slot of the exiting thread that Ns_ThreadJoin waits for
    (* the driver and spooler threads *)
    dpc,        \* where the caller is
    dconn,      \* connPtr of NsQueueConn
    darg,       \* argPtr of NsQueueConn
    dcreate,    \* create of NsQueueConn
    reanim,     \* reanimation: this iteration was started by the trigger
    trig,       \* bytes in the trigger pipe
    nwait,      \* sockets on waitPtr: NsQueueConn returned NS_TIMEOUT
    nretry,     \* sockets still to be retried in this iteration
    nclose,     \* sockets on drvPtr->closePtr
    qsize,      \* sockets that carry a request
    connDrv,    \* connPtr->drvPtr
    (* the server and the main thread *)
    shutdown,   \* pools.shutdown
    joinThread, \* pools.joinThread, NULL also when that thread has terminated
    mpc,        \* where the main thread is
    mi,         \* loop index of WakeupConnThreads
    mjoin,      \* slot of the thread that NsWaitServer joins
    aset        \* the setting an ns_server command has validated

poolVars   == <<free, wait, tqueue>>
countVars  == <<current, creating, idle>>
threadVars == <<pc, argConn, cur, ncons, timedout, inShutdown, joining>>
callVars   == <<dconn, darg, dcreate, connDrv>>
loopVars   == <<reanim, trig, nwait, nretry, nclose, qsize>>
driverVars == <<dpc, callVars, loopVars>>
serverVars == <<shutdown, joinThread, mpc, mi, mjoin>>
adminVars  == <<tmin, tmax, aset>>
vars == <<poolVars, countVars, threadVars, driverVars, serverVars, adminVars>>

-----------------------------------------------------------------------------
(* Control states of a connection thread, grouped by argPtr->state.        *)

IdlePcs  == {"idlecheck", "waiting", "signaled", "leave"}
ReadyPcs == {"ready", "dequeue", "toidle", "enqueue", "freeing", "snapshot"}
BusyPcs  == {"unidle", "run", "running", "exit"}
DeadPcs  == {"dead", "unjoined", "join"}
ThreadPcs == {"none", "start", "warm"} \union IdlePcs \union ReadyPcs
                \union BusyPcs \union DeadPcs

DriverPcs == {"poll", "serve", "popidle", "assign", "need",
              "signal", "append", "incr", "slot", "nocreate", "stopped"}

MainPcs == {"run", "stopserver", "stopping", "wakeup", "check", "towait",
            "waiting", "join", "done"}

(* argPtr->state.  A thread that took its request from the waiting queue   *)
(* is still "ready" while it runs it; no reader tells that from "busy".    *)
state(i) ==
    CASE pc[i] = "none"     -> "free"
      [] pc[i] = "start"    -> "initial"
      [] pc[i] = "warm"     -> "warmup"
      [] pc[i] \in IdlePcs  -> "idle"
      [] pc[i] \in ReadyPcs -> "ready"
      [] pc[i] \in BusyPcs  -> "busy"
      [] OTHER              -> "dead"

(* Locks that a thread holds from one step to the next.                    *)
ArgLockFree(i)   == pc[i] # "idlecheck"
PoolsLockFree    == mpc # "towait"
TqueueLockFree   == mpc # "wakeup"

(* Mutants: the limit is not looked at; only the queue length is.          *)
NeededIgnoringMax(waiting) ==
    /\ creating = 0 \/ waiting > HighWatermark
    /\ current < tmin \/ waiting > LowWatermark
    /\ ~shutdown

NeededIgnoringMin(waiting) ==
    /\ creating = 0 \/ waiting > HighWatermark
    /\ waiting > LowWatermark
    /\ current < tmax
    /\ ~shutdown

(* The condition under which another connection thread is wanted.          *)
neededAdditionalConnectionThreads(waiting) ==
    /\ creating = 0 \/ waiting > HighWatermark
    /\ current < tmin \/ waiting > LowWatermark
    /\ current < tmax
    /\ ~shutdown

(* SockTrigger: one byte into the trigger pipe of driver d, if cond holds; *)
(* the sender blocks while the pipe is full.  What is sent to a driver     *)
(* that has stopped is never read.                                         *)
SockTrigger(d, cond) ==
    LET send == cond /\ dpc[d] # "stopped" IN
    /\ send => trig[d] < PipeSize
    /\ trig' = IF send THEN [trig EXCEPT ![d] = @ + 1] ELSE trig

-----------------------------------------------------------------------------
(* NsStartServer has created MinThreads threads; no driver runs yet.       *)
Init ==
    /\ free = Conns /\ wait = <<>> /\ tqueue = {}
    /\ current = MinThreads /\ creating = MinThreads /\ idle = 0
    /\ tmin = MinThreads /\ tmax = MaxThreads
    /\ pc = [i \in Slots |-> IF i <= MinThreads THEN "start" ELSE "none"]
    /\ argConn = [i \in Slots |-> NULL]
    /\ cur = [i \in Slots |-> NULL]
    /\ ncons = [i \in Slots |-> ConnsPerThread]
    /\ timedout = [i \in Slots |-> FALSE]
    /\ inShutdown = [i \in Slots |-> FALSE]
    /\ joining = [i \in Slots |-> NULL]
    /\ dpc = [d \in Callers |-> IF d \in Drivers THEN "poll" ELSE "serve"]
    /\ dconn = [d \in Callers |-> NULL]
    /\ darg = [d \in Callers |-> NULL]
    /\ dcreate = [d \in Callers |-> FALSE]
    /\ reanim = [d \in Callers |-> FALSE]
    /\ trig = [d \in Drivers |-> 0]
    /\ nwait = [d \in Callers |-> 0]
    /\ nretry = [d \in Callers |-> 0]
    /\ nclose = [d \in Drivers |-> 0]
    /\ qsize = 0
    /\ connDrv = [c \in Conns |-> NULL]
    /\ shutdown = FALSE /\ joinThread = NULL
    /\ mpc = "run" /\ mi = 1 /\ mjoin = NULL
    /\ aset = [a \in Admins |-> NULL]

-----------------------------------------------------------------------------
(* CreateConnThread, for a thread that is already counted in current and   *)
(* creating.                                                               *)

(* The first free slot is occupied and the thread is started.              *)
CreateConnThread(d) ==
    LET avail == {i \in Slots : i <= tmax /\ state(i) = "free"} IN
    /\ dpc[d] = "slot"
    /\ TqueueLockFree
    /\ IF avail = {}
       THEN /\ dpc' = [dpc EXCEPT ![d] = "nocreate"]
            /\ UNCHANGED threadVars
       ELSE /\ \E i \in avail :
                  /\ \A j \in avail : i <= j
                  /\ pc' = [pc EXCEPT ![i] = "start"]
                  /\ argConn' = [argConn EXCEPT ![i] = NULL]
            /\ dpc' = [dpc EXCEPT ![d] = "serve"]
            /\ UNCHANGED <<cur, ncons, timedout, inShutdown, joining>>
    /\ UNCHANGED <<poolVars, countVars, callVars, loopVars, serverVars, adminVars>>

(* There was no free slot: the counters are taken back.                    *)
CreateFailed(d) ==
    /\ dpc[d] = "nocreate"
    /\ current' = current - 1
    /\ creating' = creating - 1
    /\ dpc' = [dpc EXCEPT ![d] = "serve"]
    /\ UNCHANGED <<poolVars, idle, threadVars, callVars, loopVars, serverVars, adminVars>>

-----------------------------------------------------------------------------
(* The driver loop, as far as the pool is concerned.  A spooler thread     *)
(* stays in the middle of it: it queues what it has read and retries.      *)

(* Decision and counting are one critical section here.                    *)
NsEnsureRunningConnectionThreads(d) ==
    /\ PoolsLockFree
    /\ IF neededAdditionalConnectionThreads(Len(wait))
       THEN /\ current' = current + 1
            /\ creating' = creating + 1
            /\ dpc' = [dpc EXCEPT ![d] = "slot"]
       ELSE /\ dpc' = [dpc EXCEPT ![d] = "serve"]
            /\ UNCHANGED <<current, creating>>

(* PollWait returns because of the trigger, or with a timeout.  Both check *)
(* the number of connection threads.                                       *)
DriverTriggered(d) ==
    /\ dpc[d] = "poll"
    /\ trig[d] > 0
    /\ trig' = [trig EXCEPT ![d] = @ - 1]
    /\ reanim' = [reanim EXCEPT ![d] = TRUE]
    /\ NsEnsureRunningConnectionThreads(d)
    /\ UNCHANGED <<poolVars, idle, threadVars, callVars, nwait, nretry, nclose, qsize,
                   serverVars, adminVars>>

PollTimeout(d) ==
    /\ dpc[d] = "poll"
    /\ trig[d] = 0
    /\ NsEnsureRunningConnectionThreads(d)
    /\ UNCHANGED <<poolVars, idle, threadVars, callVars, loopVars, serverVars, adminVars>>

(* NsQueueConn up to the point where it owns a Conn, for a new socket or   *)
(* for one that was tried before.                                          *)

(* On NS_ERROR the socket is released, on NS_TIMEOUT it goes to the        *)
(* caller's waitPtr list.  A socket is rejected when it is tried first.    *)
QueueFull(d, new) ==
    /\ IF shutdown \/ (RejectOverrun /\ new)
       THEN /\ qsize' = IF new THEN qsize ELSE qsize - 1
            /\ UNCHANGED nwait
       ELSE /\ nwait' = [nwait EXCEPT ![d] = @ + 1]
            /\ qsize' = IF new THEN qsize + 1 ELSE qsize
    /\ dpc' = [dpc EXCEPT ![d] = "serve"]
    /\ UNCHANGED <<free, dconn, connDrv>>

QueueConnGetFree(d, new) ==
    /\ IF shutdown \/ free = {}
       THEN QueueFull(d, new)
       ELSE /\ \E c \in free, drv \in IF d \in Drivers THEN {d} ELSE Drivers :
                  /\ free' = free \ {c}
                  /\ dconn' = [dconn EXCEPT ![d] = c]
                  /\ connDrv' = [connDrv EXCEPT ![c] = drv]
            /\ dpc' = [dpc EXCEPT ![d] = "popidle"]
            /\ qsize' = IF new THEN qsize + 1 ELSE qsize
            /\ UNCHANGED nwait
    /\ UNCHANGED <<wait, tqueue, countVars, threadVars, darg, dcreate, reanim, trig,
                   nclose, serverVars, adminVars>>

(* A socket has a complete request: it was read, or just accepted.  The    *)
(* poll reported it, alone or together with the trigger.                   *)
QueueNew(d) ==
    /\ dpc[d] = "serve" \/ (dpc[d] = "poll" /\ trig[d] = 0)
    /\ nretry[d] = 0
    /\ qsize < MaxQueueSize
    /\ QueueConnGetFree(d, TRUE)
    /\ UNCHANGED nretry

(* A driver retries its waitPtr list only in an iteration that was started *)
(* by the trigger, a spooler in every iteration.                           *)
StartRetry(d) ==
    /\ dpc[d] = "serve"
    /\ nretry[d] = 0 /\ nwait[d] > 0
    /\ reanim[d] \/ d \in Spoolers
    /\ nretry' = [nretry EXCEPT ![d] = nwait[d]]
    /\ nwait' = [nwait EXCEPT ![d] = 0]
    /\ reanim' = [reanim EXCEPT ![d] = FALSE]
    /\ UNCHANGED <<poolVars, countVars, threadVars, dpc, callVars, trig, nclose, qsize,
                   serverVars, adminVars>>

QueueWaiting(d) ==
    /\ dpc[d] = "serve"
    /\ nretry[d] > 0
    /\ nretry' = [nretry EXCEPT ![d] = @ - 1]
    /\ QueueConnGetFree(d, FALSE)

(* The end of the iteration: the sockets that connection threads returned  *)
(* are collected; on shutdown the sockets still waiting are closed.        *)
DriverCollect(d) ==
    /\ dpc[d] = "serve"
    /\ nretry[d] = 0 /\ (reanim[d] => nwait[d] = 0)
    /\ reanim' = [reanim EXCEPT ![d] = FALSE]
    /\ nclose' = [nclose EXCEPT ![d] = 0]
    /\ IF mpc = "run"
       THEN /\ qsize' = qsize - nclose[d]
            /\ dpc' = [dpc EXCEPT ![d] = "poll"]
            /\ UNCHANGED nwait
       ELSE /\ qsize' = qsize - nclose[d] - nwait[d]
            /\ nwait' = [nwait EXCEPT ![d] = 0]
            /\ dpc' = [dpc EXCEPT ![d] = "stopped"]
    /\ UNCHANGED <<poolVars, countVars, threadVars, callVars, trig, nretry, serverVars,
                   adminVars>>

-----------------------------------------------------------------------------
(* NsQueueConn once it owns a Conn.                                        *)

(* Mutant: the thread stays on the queue.                                  *)
PopIdleThreadQueued(d) ==
    /\ dpc[d] = "popidle"
    /\ TqueueLockFree
    /\ IF tqueue = {}
       THEN /\ dpc' = [dpc EXCEPT ![d] = "append"]
            /\ UNCHANGED darg
       ELSE /\ \E i \in tqueue : darg' = [darg EXCEPT ![d] = i]
            /\ dpc' = [dpc EXCEPT ![d] = "assign"]
    /\ UNCHANGED <<poolVars, countVars, threadVars, dconn, dcreate, connDrv, loopVars,
                   serverVars, adminVars>>

(* An idle thread is taken off the thread queue, if there is one.          *)
PopIdleThread(d) ==
    /\ dpc[d] = "popidle"
    /\ TqueueLockFree
    /\ IF tqueue = {}
       THEN /\ dpc' = [dpc EXCEPT ![d] = "append"]
            /\ UNCHANGED <<tqueue, darg>>
       ELSE /\ \E i \in tqueue :
                  /\ tqueue' = tqueue \ {i}
                  /\ darg' = [darg EXCEPT ![d] = i]
            /\ dpc' = [dpc EXCEPT ![d] = "assign"]
    /\ UNCHANGED <<free, wait, countVars, threadVars, dconn, dcreate, connDrv, loopVars,
                   serverVars, adminVars>>

(* argPtr->connPtr = connPtr, under no lock.                               *)
AssignConn(d) ==
    /\ dpc[d] = "assign"
    /\ argConn' = [argConn EXCEPT ![darg[d]] = dconn[d]]
    /\ dconn' = [dconn EXCEPT ![d] = NULL]
    /\ dpc' = [dpc EXCEPT ![d] = "need"]
    /\ UNCHANGED <<poolVars, countVars, pc, cur, ncons, timedout, inShutdown, joining,
                   darg, dcreate, connDrv, loopVars, serverVars, adminVars>>

DecideCreate(d) ==
    /\ dpc[d] = "need"
    /\ PoolsLockFree
    /\ dcreate' = [dcreate EXCEPT ![d] = neededAdditionalConnectionThreads(Len(wait))]
    /\ dpc' = [dpc EXCEPT ![d] = "signal"]
    /\ UNCHANGED <<poolVars, countVars, threadVars, dconn, darg, connDrv, loopVars,
                   serverVars, adminVars>>

(* Ns_CondSignal(&argPtr->cond) reaches the thread only if it is waiting.  *)
SignalThread(d) ==
    /\ dpc[d] = "signal"
    /\ ArgLockFree(darg[d])
    /\ pc' = [pc EXCEPT ![darg[d]] = IF @ = "waiting" THEN "signaled" ELSE @]
    /\ darg' = [darg EXCEPT ![d] = NULL]
    /\ dpc' = [dpc EXCEPT ![d] = IF dcreate[d] THEN "incr" ELSE "serve"]
    /\ UNCHANGED <<poolVars, countVars, argConn, cur, ncons, timedout, inShutdown,
                   joining, dconn, dcreate, connDrv, loopVars, serverVars, adminVars>>

AppendWaiting(d) ==
    LET create == neededAdditionalConnectionThreads(Len(wait) + 1) IN
    /\ dpc[d] = "append"
    /\ PoolsLockFree
    /\ wait' = Append(wait, dconn[d])
    /\ dconn' = [dconn EXCEPT ![d] = NULL]
    /\ dcreate' = [dcreate EXCEPT ![d] = create]
    /\ dpc' = [dpc EXCEPT ![d] = IF create THEN "incr" ELSE "serve"]
    /\ UNCHANGED <<free, tqueue, countVars, threadVars, darg, connDrv, loopVars,
                   serverVars, adminVars>>

(* The counting, in a critical section of its own.                         *)
CountCreate(d) ==
    /\ dpc[d] = "incr"
    /\ current' = current + 1
    /\ creating' = creating + 1
    /\ dcreate' = [dcreate EXCEPT ![d] = FALSE]
    /\ dpc' = [dpc EXCEPT ![d] = "slot"]
    /\ UNCHANGED <<poolVars, idle, threadVars, dconn, darg, connDrv, loopVars,
                   serverVars, adminVars>>

-----------------------------------------------------------------------------
(* NsConnThread.                                                           *)

Goto(i, next) == pc' = [pc EXCEPT ![i] = next]

(* Mutant: threads.creating is not taken back.                             *)
ConnThreadStartUncounted(i) ==
    /\ pc[i] = "start"
    /\ Goto(i, "warm")
    /\ UNCHANGED <<poolVars, countVars, argConn, cur, ncons, timedout, inShutdown,
                   joining, driverVars, serverVars, adminVars>>

(* The thread is warming up and no longer counts as being created.         *)
ConnThreadStart(i) ==
    /\ pc[i] = "start"
    /\ Goto(i, "warm")
    /\ creating' = IF creating > 0 THEN creating - 1 ELSE creating
    /\ UNCHANGED <<poolVars, current, idle, argConn, cur, ncons, timedout, inShutdown,
                   joining, driverVars, serverVars, adminVars>>

ConnThreadReady(i) ==
    /\ pc[i] = "warm"
    /\ Goto(i, "ready")
    /\ UNCHANGED <<poolVars, countVars, argConn, cur, ncons, timedout, inShutdown,
                   joining, driverVars, serverVars, adminVars>>

(* Mutant: the waiting queue is not looked at.                             *)
LoopTopIgnoringQueue(i) ==
    /\ pc[i] = "ready"
    /\ Goto(i, IF argConn[i] = NULL THEN "toidle" ELSE "run")
    /\ UNCHANGED <<poolVars, countVars, argConn, cur, ncons, timedout, inShutdown,
                   joining, driverVars, serverVars, adminVars>>

(* The top of the loop looks at the waiting queue without its lock.        *)
LoopTop(i) ==
    /\ pc[i] = "ready"
    /\ Goto(i, CASE wait # <<>>       -> "dequeue"
                 [] argConn[i] = NULL -> "toidle"
                 [] OTHER             -> "run")
    /\ UNCHANGED <<poolVars, countVars, argConn, cur, ncons, timedout, inShutdown,
                   joining, driverVars, serverVars, adminVars>>

DequeueConn(i) ==
    /\ pc[i] = "dequeue"
    /\ IF wait = <<>>
       THEN /\ argConn' = [argConn EXCEPT ![i] = NULL]
            /\ cur' = [cur EXCEPT ![i] = NULL]
            /\ Goto(i, "toidle")
            /\ UNCHANGED wait
       ELSE /\ argConn' = [argConn EXCEPT ![i] = Head(wait)]
            /\ cur' = [cur EXCEPT ![i] = Head(wait)]
            /\ wait' = Tail(wait)
            /\ Goto(i, "run")
    /\ UNCHANGED <<free, tqueue, countVars, ncons, timedout, inShutdown, joining,
                   driverVars, serverVars, adminVars>>

EnterIdle(i) ==
    /\ pc[i] = "toidle"
    /\ idle' = idle + 1
    /\ Goto(i, "enqueue")
    /\ UNCHANGED <<poolVars, current, creating, argConn, cur, ncons, timedout,
                   inShutdown, joining, driverVars, serverVars, adminVars>>

(* The thread takes its own lock before others can find it on the queue.   *)
EnqueueThread(i) ==
    /\ pc[i] = "enqueue"
    /\ TqueueLockFree
    /\ tqueue' = tqueue \union {i}
    /\ Goto(i, "idlecheck")
    /\ UNCHANGED <<free, wait, countVars, argConn, cur, ncons, timedout, inShutdown,
                   joining, driverVars, serverVars, adminVars>>

(* Mutant: shutdown is not looked at in the idle loop.                     *)
IdleWaitIgnoringShutdown(i) ==
    /\ pc[i] = "idlecheck"
    /\ Goto(i, "waiting")
    /\ UNCHANGED <<poolVars, countVars, argConn, cur, ncons, timedout, inShutdown,
                   joining, driverVars, serverVars, adminVars>>

IdleWait(i) ==
    /\ pc[i] = "idlecheck"
    /\ Goto(i, IF shutdown THEN "leave" ELSE "waiting")
    /\ UNCHANGED <<poolVars, countVars, argConn, cur, ncons, timedout, inShutdown,
                   joining, driverVars, serverVars, adminVars>>

(* Mutant: the wait is not in a loop.                                      *)
AwakeUnchecked(i) ==
    /\ Goto(i, "leave")
    /\ UNCHANGED <<poolVars, countVars, argConn, cur, ncons, timedout, inShutdown,
                   joining, driverVars, serverVars, adminVars>>

(* Ns_CondTimedWait returns NS_OK: after a signal, or spuriously.          *)
Awake(i) ==
    /\ Goto(i, IF argConn[i] # NULL THEN "leave" ELSE "idlecheck")
    /\ UNCHANGED <<poolVars, countVars, argConn, cur, ncons, timedout, inShutdown,
                   joining, driverVars, serverVars, adminVars>>

IdleSignaled(i) == pc[i] = "signaled" /\ Awake(i)
IdleSpurious(i) == pc[i] = "waiting" /\ Awake(i)

(* Mutant: minthreads is not looked at.                                    *)
IdleTimeoutIgnoringMin(i) ==
    /\ pc[i] = "waiting"
    /\ Goto(i, "leave")
    /\ timedout' = [timedout EXCEPT ![i] = argConn[i] = NULL]
    /\ UNCHANGED <<poolVars, countVars, argConn, cur, ncons, inShutdown, joining,
                   driverVars, serverVars, adminVars>>

(* Ns_CondTimedWait returns NS_TIMEOUT.                                    *)
IdleTimeout(i) ==
    /\ pc[i] = "waiting"
    /\ IF argConn[i] = NULL /\ current <= tmin
       THEN Goto(i, "idlecheck") /\ UNCHANGED timedout
       ELSE /\ Goto(i, "leave")
            /\ timedout' = [timedout EXCEPT ![i] = argConn[i] = NULL]
    /\ UNCHANGED <<poolVars, countVars, argConn, cur, ncons, inShutdown, joining,
                   driverVars, serverVars, adminVars>>

(* Mutant: threads.idle is not taken back when the thread is to exit.      *)
IdleDoneUncounted(i) ==
    /\ pc[i] = "unidle"
    /\ idle' = IF shutdown \/ timedout[i] THEN idle ELSE idle - 1
    /\ Goto(i, IF shutdown \/ timedout[i] THEN "exit" ELSE "run")
    /\ UNCHANGED <<poolVars, current, creating, argConn, cur, ncons, timedout,
                   inShutdown, joining, driverVars, serverVars, adminVars>>

(* The thread takes itself off the queue, unless a driver already did.     *)
LeaveIdle(i) ==
    /\ pc[i] = "leave"
    /\ TqueueLockFree
    /\ tqueue' = tqueue \ {i}
    /\ Goto(i, "unidle")
    /\ UNCHANGED <<free, wait, countVars, argConn, cur, ncons, timedout, inShutdown,
                   joining, driverVars, serverVars, adminVars>>

IdleDone(i) ==
    /\ pc[i] = "unidle"
    /\ idle' = idle - 1
    /\ Goto(i, IF shutdown \/ timedout[i] THEN "exit" ELSE "run")
    /\ UNCHANGED <<poolVars, current, creating, argConn, cur, ncons, timedout,
                   inShutdown, joining, driverVars, serverVars, adminVars>>

ConnRunStart(i) ==
    /\ pc[i] = "run"
    /\ cur' = [cur EXCEPT ![i] = argConn[i]]
    /\ Goto(i, "running")
    /\ UNCHANGED <<poolVars, countVars, argConn, ncons, timedout, inShutdown, joining,
                   driverVars, serverVars, adminVars>>

(* ConnRun ends with Ns_ConnClose and NsSockClose: the socket goes back to *)
(* its driver, which is triggered if its close list was empty.             *)
ConnRunClose(i) ==
    LET d == connDrv[cur[i]] IN
    /\ pc[i] = "running"
    /\ Goto(i, "freeing")
    /\ nclose' = [nclose EXCEPT ![d] = @ + 1]
    /\ SockTrigger(d, nclose[d] = 0)
    /\ UNCHANGED <<poolVars, countVars, argConn, cur, ncons, timedout, inShutdown,
                   joining, dpc, callVars, reanim, nwait, nretry, qsize, serverVars,
                   adminVars>>

(* Mutants: the slot keeps its Conn; what is freed is read after the       *)
(* reset; nothing is put on the free list.                                 *)
FreeConnKeptInSlot(i) ==
    /\ pc[i] = "freeing"
    /\ free' = free \union {cur[i]}
    /\ Goto(i, IF ConnsPerThread > 0 THEN "snapshot" ELSE "ready")
    /\ UNCHANGED <<wait, tqueue, countVars, argConn, cur, ncons, timedout, inShutdown,
                   joining, driverVars, serverVars, adminVars>>

FreeConnAfterReset(i) ==
    /\ pc[i] = "freeing"
    /\ argConn' = [argConn EXCEPT ![i] = NULL]
    /\ free' = free \union {argConn'[i]}
    /\ Goto(i, IF ConnsPerThread > 0 THEN "snapshot" ELSE "ready")
    /\ UNCHANGED <<wait, tqueue, countVars, cur, ncons, timedout, inShutdown, joining,
                   driverVars, serverVars, adminVars>>

FreeConnLeaked(i) ==
    /\ pc[i] = "freeing"
    /\ argConn' = [argConn EXCEPT ![i] = NULL]
    /\ Goto(i, IF ConnsPerThread > 0 THEN "snapshot" ELSE "ready")
    /\ UNCHANGED <<poolVars, countVars, cur, ncons, timedout, inShutdown, joining,
                   driverVars, serverVars, adminVars>>

(* The Conn goes back to the free list, after the socket was returned.     *)
FreeConn(i) ==
    /\ pc[i] = "freeing"
    /\ argConn' = [argConn EXCEPT ![i] = NULL]
    /\ free' = free \union {cur[i]}
    /\ Goto(i, IF ConnsPerThread > 0 THEN "snapshot" ELSE "ready")
    /\ UNCHANGED <<wait, tqueue, countVars, cur, ncons, timedout, inShutdown, joining,
                   driverVars, serverVars, adminVars>>

(* With connsperthread a thread leaves after its last request, unless      *)
(* requests wait and it is needed.                                         *)
Snapshot(i) ==
    LET left == IF ncons[i] > 0 THEN ncons[i] - 1 ELSE 0 IN
    /\ pc[i] = "snapshot"
    /\ ncons' = [ncons EXCEPT ![i] = left]
    /\ Goto(i, IF \/ left > 0
                  \/ Len(wait) > 0 /\ (Len(wait) > LowWatermark \/ current <= 1)
               THEN "ready" ELSE "exit")
    /\ UNCHANGED <<poolVars, countVars, argConn, cur, timedout, inShutdown, joining,
                   driverVars, serverVars, adminVars>>

(* The state becomes dead; duringShutdown is read under pools.lock.        *)
ConnThreadDead(i) ==
    /\ pc[i] = "exit"
    /\ PoolsLockFree
    /\ inShutdown' = [inShutdown EXCEPT ![i] = shutdown]
    /\ Goto(i, "dead")
    /\ UNCHANGED <<poolVars, countVars, argConn, cur, ncons, timedout, joining,
                   driverVars, serverVars, adminVars>>

(* The thread stops counting.  It wakes the driver of its last request if  *)
(* there are now too few threads, or signals the main thread on shutdown:  *)
(* that signal is sent without pools.lock and is lost on a thread that is  *)
(* not yet waiting.                                                        *)
ConnThreadUncount(i) ==
    /\ pc[i] = "dead"
    /\ current' = current - 1
    /\ IF cur[i] # NULL
       THEN SockTrigger(connDrv[cur[i]], current - 1 < tmin /\ ~inShutdown[i])
       ELSE UNCHANGED trig
    /\ mpc' = IF inShutdown[i] /\ mpc = "waiting" THEN "check" ELSE mpc
    /\ Goto(i, "unjoined")
    /\ UNCHANGED <<poolVars, creating, idle, argConn, cur, ncons, timedout, inShutdown,
                   joining, dpc, callVars, reanim, nwait, nretry, nclose, qsize,
                   shutdown, joinThread, mi, mjoin, adminVars>>

(* Every exiting thread leaves itself for the next one to join.            *)
JoinPrevious(i) ==
    /\ pc[i] = "unjoined"
    /\ PoolsLockFree
    /\ joining' = [joining EXCEPT ![i] = joinThread]
    /\ joinThread' = i
    /\ Goto(i, "join")
    /\ UNCHANGED <<poolVars, countVars, argConn, cur, ncons, timedout, inShutdown,
                   driverVars, shutdown, mpc, mi, mjoin, adminVars>>

(* The slot is free again and the thread terminates: its locals are gone,  *)
(* and whoever joins it can go on.                                         *)
ConnThreadExit(i) ==
    /\ pc[i] = "join"
    /\ joining[i] = NULL
    /\ TqueueLockFree
    /\ Goto(i, "none")
    /\ cur' = [cur EXCEPT ![i] = NULL]
    /\ ncons' = [ncons EXCEPT ![i] = ConnsPerThread]
    /\ timedout' = [timedout EXCEPT ![i] = FALSE]
    /\ inShutdown' = [inShutdown EXCEPT ![i] = FALSE]
    /\ joining' = [j \in Slots |-> IF joining[j] = i THEN NULL ELSE joining[j]]
    /\ joinThread' = IF joinThread = i THEN NULL ELSE joinThread
    /\ mjoin' = IF mjoin = i THEN NULL ELSE mjoin
    /\ UNCHANGED <<poolVars, countVars, argConn, driverVars, shutdown, mpc, mi, adminVars>>

-----------------------------------------------------------------------------
(* The main thread: NsStopDrivers, NsStopServer and NsWaitServer.          *)

NsStopDrivers ==
    /\ CanStop /\ mpc = "run"
    /\ \A d \in Drivers : trig[d] < PipeSize
    /\ trig' = [d \in Drivers |-> trig[d] + 1]
    /\ mpc' = "stopserver"
    /\ UNCHANGED <<poolVars, countVars, threadVars, dpc, callVars, reanim, nwait, nretry,
                   nclose, qsize, shutdown, joinThread, mi, mjoin, adminVars>>

NsStopServer ==
    /\ mpc = "stopserver"
    /\ shutdown' = TRUE
    /\ mpc' = "stopping"
    /\ UNCHANGED <<poolVars, countVars, threadVars, driverVars, joinThread, mi, mjoin,
                   adminVars>>

(* WakeupConnThreads holds tqueue.lock and visits the slots below max.     *)
WakeupStart ==
    /\ mpc = "stopping"
    /\ mpc' = "wakeup"
    /\ mi' = 1
    /\ UNCHANGED <<poolVars, countVars, threadVars, driverVars, shutdown, joinThread,
                   mjoin, adminVars>>

WakeupConnThreads ==
    /\ mpc = "wakeup"
    /\ IF mi <= tmax
       THEN /\ state(mi) = "idle" => ArgLockFree(mi)
            /\ pc' = [pc EXCEPT ![mi] = IF @ = "waiting" THEN "signaled" ELSE @]
            /\ mi' = mi + 1
            /\ UNCHANGED mpc
       ELSE /\ mpc' = "check"
            /\ UNCHANGED <<pc, mi>>
    /\ UNCHANGED <<poolVars, countVars, argConn, cur, ncons, timedout, inShutdown,
                   joining, driverVars, shutdown, joinThread, mjoin, adminVars>>

(* NsWaitServer checks under pools.lock, which guards neither the waiting  *)
(* queue nor the thread count, then waits; after the timeout it gives up.  *)
MainTakesJoin ==
    /\ mjoin' = joinThread
    /\ joinThread' = NULL

WaitServerCheck ==
    /\ mpc = "check"
    /\ IF wait # <<>> \/ current > 0
       THEN mpc' = "towait" /\ UNCHANGED <<mjoin, joinThread>>
       ELSE mpc' = "join" /\ MainTakesJoin
    /\ UNCHANGED <<poolVars, countVars, threadVars, driverVars, shutdown, mi, adminVars>>

WaitServerWait ==
    /\ mpc = "towait"
    /\ mpc' = "waiting"
    /\ UNCHANGED <<poolVars, countVars, threadVars, driverVars, shutdown, joinThread, mi,
                   mjoin, adminVars>>

WaitServerTimeout ==
    /\ mpc = "waiting"
    /\ mpc' = "done"
    /\ joinThread' = NULL
    /\ UNCHANGED <<poolVars, countVars, threadVars, driverVars, shutdown, mi, mjoin,
                   adminVars>>

WaitServerJoin ==
    /\ mpc = "join"
    /\ mjoin = NULL
    /\ mpc' = "done"
    /\ UNCHANGED <<poolVars, countVars, threadVars, driverVars, shutdown, joinThread, mi,
                   mjoin, adminVars>>

-----------------------------------------------------------------------------
(* "ns_server maxthreads" and "ns_server minthreads": the value is checked *)
(* against the other limit first and stored under threads.lock later.      *)

(* Mutant: maxthreads is not checked against minthreads.                   *)
AdminParseUnchecked(a) ==
    /\ aset[a] = NULL
    /\ \/ \E v \in 1 .. MaxConns : aset' = [aset EXCEPT ![a] = <<"max", v>>]
       \/ \E v \in 1 .. tmax : aset' = [aset EXCEPT ![a] = <<"min", v>>]
    /\ UNCHANGED <<poolVars, countVars, threadVars, driverVars, serverVars, tmin, tmax>>

AdminParse(a) ==
    /\ aset[a] = NULL
    /\ \/ \E v \in tmin .. MaxConns : aset' = [aset EXCEPT ![a] = <<"max", v>>]
       \/ \E v \in 1 .. tmax : aset' = [aset EXCEPT ![a] = <<"min", v>>]
    /\ UNCHANGED <<poolVars, countVars, threadVars, driverVars, serverVars, tmin, tmax>>

SetPoolAttribute(a) ==
    /\ aset[a] # NULL
    /\ tmax' = IF aset[a][1] = "max" THEN aset[a][2] ELSE tmax
    /\ tmin' = IF aset[a][1] = "min" THEN aset[a][2] ELSE tmin
    /\ aset' = [aset EXCEPT ![a] = NULL]
    /\ UNCHANGED <<poolVars, countVars, threadVars, driverVars, serverVars>>

-----------------------------------------------------------------------------
(* What a connection thread, a driver and the main thread do by themselves *)
(* once they can; timeouts, spurious wakeups, new requests, the decision   *)
(* to stop and ns_server commands come from outside.                       *)

ThreadStep(i) ==
    \/ ConnThreadStart(i) \/ ConnThreadReady(i) \/ LoopTop(i) \/ DequeueConn(i)
    \/ EnterIdle(i) \/ EnqueueThread(i) \/ IdleWait(i) \/ IdleSignaled(i)
    \/ LeaveIdle(i) \/ IdleDone(i) \/ ConnRunStart(i) \/ ConnRunClose(i)
    \/ FreeConn(i) \/ Snapshot(i) \/ ConnThreadDead(i) \/ ConnThreadUncount(i)
    \/ JoinPrevious(i) \/ ConnThreadExit(i)

CallStep(d) ==
    \/ CreateConnThread(d) \/ CreateFailed(d) \/ QueueWaiting(d)
    \/ PopIdleThread(d) \/ AssignConn(d) \/ DecideCreate(d) \/ SignalThread(d)
    \/ AppendWaiting(d) \/ CountCreate(d)

MainStep ==
    \/ NsStopServer \/ WakeupStart \/ WakeupConnThreads
    \/ WaitServerCheck \/ WaitServerWait \/ WaitServerJoin

Next ==
    \/ \E i \in Slots : ThreadStep(i) \/ IdleTimeout(i) \/ IdleSpurious(i)
    \/ \E d \in Callers : CallStep(d) \/ StartRetry(d) \/ QueueNew(d)
    \/ \E d \in Drivers : DriverTriggered(d) \/ PollTimeout(d) \/ DriverCollect(d)
    \/ MainStep \/ NsStopDrivers \/ WaitServerTimeout
    \/ \E a \in Admins : AdminParse(a) \/ SetPoolAttribute(a)

Spec == Init /\ [][Next]_vars

(* Every thread is scheduled and gets a lock, or room in a pipe, that      *)
(* others keep releasing; requests terminate, timed waits time out, and an *)
(* iteration of the driver loop ends: it handles each socket that poll     *)
(* reported once.  The wait of NsWaitServer is the exception: its timeout  *)
(* is the failure that the signals are there to avoid.                     *)
Fairness ==
    /\ \A i \in Slots : SF_vars(ThreadStep(i)) /\ WF_vars(IdleTimeout(i))
    /\ \A d \in Callers : SF_vars(CallStep(d)) /\ SF_vars(StartRetry(d))
    /\ \A d \in Drivers : /\ WF_vars(DriverTriggered(d)) /\ WF_vars(PollTimeout(d))
                          /\ SF_vars(DriverCollect(d))
    /\ SF_vars(MainStep)

FairSpec == Spec /\ Fairness

-----------------------------------------------------------------------------
(* Properties.                                                             *)

PoolTypeOK ==
    free \subseteq Conns /\ wait \in Seq(Conns) /\ tqueue \subseteq Slots

LimitTypeOK ==
    /\ current \in Int /\ creating \in Int /\ idle \in Int
    /\ tmin \in 1 .. MaxConns /\ tmax \in 1 .. MaxConns
    /\ aset \in [Admins -> {NULL} \union ({"min", "max"} \X (1 .. MaxConns))]

ThreadTypeOK ==
    /\ pc \in [Slots -> ThreadPcs]
    /\ argConn \in [Slots -> Conns \union {NULL}]
    /\ cur \in [Slots -> Conns \union {NULL}]
    /\ ncons \in [Slots -> 0 .. ConnsPerThread]
    /\ timedout \in [Slots -> BOOLEAN] /\ inShutdown \in [Slots -> BOOLEAN]
    /\ joining \in [Slots -> Slots \union {NULL}]

CallTypeOK ==
    /\ dpc \in [Callers -> DriverPcs]
    /\ dconn \in [Callers -> Conns \union {NULL}]
    /\ darg \in [Callers -> Slots \union {NULL}]
    /\ dcreate \in [Callers -> BOOLEAN]
    /\ connDrv \in [Conns -> Drivers \union {NULL}]

LoopTypeOK ==
    /\ reanim \in [Callers -> BOOLEAN]
    /\ trig \in [Drivers -> Nat] /\ nclose \in [Drivers -> Nat]
    /\ nwait \in [Callers -> Nat] /\ nretry \in [Callers -> Nat]
    /\ qsize \in Int

ServerTypeOK ==
    /\ shutdown \in BOOLEAN /\ joinThread \in Slots \union {NULL}
    /\ mpc \in MainPcs /\ mi \in 1 .. MaxConns + 1 /\ mjoin \in Slots \union {NULL}

TypeOK ==
    /\ PoolTypeOK /\ LimitTypeOK /\ ThreadTypeOK
    /\ CallTypeOK /\ LoopTypeOK /\ ServerTypeOK

(* Threads that count in threads.current, in threads.creating and in       *)
(* threads.idle, and drivers whose new thread counts but has no slot yet.  *)
CountedPcs == ThreadPcs \ {"none", "unjoined", "join"}
Counted  == {i \in Slots : pc[i] \in CountedPcs}
Starting == {i \in Slots : pc[i] \in {"start"}}
IdleSet  == {i \in Slots : pc[i] \in IdlePcs \union {"enqueue", "unidle"}}
Creators == {d \in Callers : dpc[d] \in {"slot", "nocreate"}}
Pending  == {d \in Callers : dcreate[d] \in {TRUE}}

(* The counters that decide about thread creation and thread exit are      *)
(* exact: current and creating count the threads that exist and those that *)
(* are promised by a caller of CreateConnThread, although they are updated *)
(* by several threads, partly before and partly after the event.           *)
ThreadAccounting ==
    /\ current = Cardinality(Counted) + Cardinality(Creators)
    /\ creating = Cardinality(Starting) + Cardinality(Creators)
    /\ idle = Cardinality(IdleSet)

(* NsQueueConn decides about a new thread in one critical section and      *)
(* counts it in another: with several callers threads.current can exceed   *)
(* maxthreads, but by less than the number of callers.                     *)
BoundedOvershoot ==
    Admins = {} /\ Callers # {} =>
        current + Cardinality(Pending) <= MaxThreads + Cardinality(Callers) - 1

(* Where a Conn can be: a thread that runs a request works on its local    *)
(* connPtr, every other Conn of a slot is the one in its argument.         *)
Running(i) == pc[i] \in {"running", "freeing"}
Holds(i)   == IF Running(i) THEN cur[i] ELSE argConn[i]

(* A Conn is in one place only: never on the free list while queued,       *)
(* assigned or running, never queued twice, never with two threads.        *)
QueuedOnce ==
    \A k \in 1 .. Len(wait) : /\ wait[k] \notin free
                              /\ \A l \in 1 .. Len(wait) : wait[k] = wait[l] => k = l

CallerOwns ==
    \A d \in Callers : dconn[d] # NULL =>
        /\ dconn[d] \notin free
        /\ \A k \in 1 .. Len(wait) : wait[k] # dconn[d]
        /\ \A e \in Callers : dconn[e] = dconn[d] => e = d
        /\ \A i \in Slots : Holds(i) # dconn[d]

ThreadOwns ==
    \A i \in Slots : Holds(i) # NULL =>
        /\ Holds(i) \notin free
        /\ \A k \in 1 .. Len(wait) : wait[k] # Holds(i)
        /\ \A j \in Slots : Holds(j) = Holds(i) => j = i

ConnInOnePlace == QueuedOnce /\ CallerOwns /\ ThreadOwns

(* No request is lost: every Conn is free, in the hands of a driver,       *)
(* queued, or assigned to a thread that is going to run it.                *)
NoConnLost ==
    \A c \in Conns :
        \/ c \in free
        \/ \E d \in Callers : dconn[d] = c
        \/ \E k \in 1 .. Len(wait) : wait[k] = c
        \/ \E i \in Slots : Holds(i) = c /\ pc[i] \in {"idlecheck", "waiting", "signaled",
                                "leave", "unidle", "run", "running", "freeing"}

(* assert(argPtr->state == connThread_idle) in NsQueueConn: the thread     *)
(* that a driver took off the queue is still idle when it is given a Conn. *)
AssignsToIdle ==
    \A d \in Callers : dpc[d] = "assign" => state(darg[d]) = "idle"

(* Both assertions at the top of the loop of NsConnThread: a thread that   *)
(* looks for work has none, and a thread that runs has one.                *)
LoopAssertions ==
    \A i \in Slots : /\ pc[i] = "ready" => argConn[i] = NULL
                     /\ pc[i] = "run" => argConn[i] # NULL

(* A thread on the thread queue is idle, has no Conn, and no driver is     *)
(* about to give it one: the next driver may take it.                      *)
ThreadQueueIdle ==
    \A i \in tqueue : /\ state(i) = "idle" /\ argConn[i] = NULL
                      /\ \A d \in Callers : dpc[d] = "assign" => darg[d] # i

(* The limits stay ordered: "ns_server minthreads" and "maxthreads" check  *)
(* a new value against the other limit before they store it.               *)
LimitsOrdered == tmin <= tmax

(* A request on the waiting queue does not stay there for ever.            *)
WaitingIsServed ==
    \A c \in Conns : (\E k \in 1 .. Len(wait) : wait[k] = c)
                      ~> (~ \E k \in 1 .. Len(wait) : wait[k] = c)

(* As long as requests keep coming in, a thread that is served by them     *)
(* looks at the waiting queue again: no request stays there for ever.      *)
BusyServesWaiting ==
    []<><<\E d \in Callers : QueueNew(d)>>_vars => WaitingIsServed

(* If threads exited and too few are left, the drivers create new ones.    *)
ThreadsReplaced ==
    []<>(current >= tmin \/ shutdown)

(* After NsStopServer all connection threads terminate.                    *)
ShutdownTerminates ==
    shutdown ~> \A i \in Slots : pc[i] = "none"
=============================================================================
