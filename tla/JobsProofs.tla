----------------------------- MODULE JobsProofs -----------------------------
(***************************************************************************)
(* The safety properties of the job queues for any number of queues, jobs, *)
(* callers and threads, and any maxthreads of each queue: a queue outlives *)
(* its references, no queue runs more than its maxthreads, a job is in one *)
(* place, and the counters of the pool are exact.  The inductive invariant *)
(* states what the holder of each lock may rely on.                        *)
(***************************************************************************)
EXTENDS Jobs, Counting

WaitPcs == {"waiting", "woken"}
CallerPcs == WaitPcs \union {"idle", "locking", "create", "release"}
ThreadPcs == {"none", "start", "wait", "woken", "run", "next"}

(* The queue of the job that a thread runs, and the queue in whose loop a  *)
(* caller waits.                                                           *)
RunQ(pcs, js) == [t \in Threads |-> IF pcs[t] = "run" THEN QueueOf[js[t]] ELSE NULL]
WaitQ(pcs, qs) == [c \in Callers |-> IF pcs[c] \in WaitPcs THEN qs[c] ELSE NULL]

(* QueueLimits and the counting part of QueueReferences.                   *)
Referenced(rq, wq, n, r) ==
    \A q \in Queues :
        /\ n[q] = Count(Threads, rq, {q}) /\ n[q] <= MaxThreadsOf[q]
        /\ r[q] = Count(Threads, rq, {q}) + Count(Callers, wq, {q})

PoolTypes ==
    /\ queues \subseteq Queues /\ firstPtr \in Seq(Jobs) /\ jobs \subseteq Jobs
    /\ nRunning \in [Queues -> Int] /\ refCount \in [Queues -> Int]
    /\ state \in [Jobs -> {"scheduled", "running", "done"}]
    /\ tpc \in [Threads -> ThreadPcs] /\ tjob \in [Threads -> Jobs \union {NULL}]
CallTypes ==
    /\ lock \in [Queues -> Callers \union {NULL}]
    /\ cpc \in [Callers -> CallerPcs] /\ ccmd \in [Callers -> Commands \union {NULL}]
    /\ cqueue \in [Callers -> Queues \union {NULL}]
    /\ cjob \in [Callers -> Jobs \union {NULL}]

(* A caller in a command knows its queue, and its job if it names one.     *)
Calls ==
    \A c \in Callers : cpc[c] # "idle" =>
        /\ cqueue[c] \in Queues
        /\ ccmd[c] \notin QueueCommands => cjob[c] \in Jobs /\ QueueOf[cjob[c]] = cqueue[c]
        /\ ccmd[c] \in QueueCommands => cjob[c] = NULL
        /\ cpc[c] = "locking" => queuelock = c /\ cqueue[c] \in queues

(* The lock of a queue is kept between two steps only to delete the queue. *)
Locks ==
    /\ \A q \in Queues : lock[q] # NULL =>
          /\ cpc[lock[q]] = "release" /\ cqueue[lock[q]] = q
          /\ q \in queues /\ refCount[q] = 0 /\ JobsIn(q, jobs) = {}
    /\ \A c \in Callers : cpc[c] = "release" => lock[cqueue[c]] = c

Refs ==
    /\ Referenced(RunQ(tpc, tjob), WaitQ(cpc, cqueue), nRunning, refCount)
    /\ \A q \in Queues : q \notin queues => refCount[q] = 0 /\ JobsIn(q, jobs) = {}

Pending ==
    /\ \A k \in 1 .. Len(firstPtr) :
          /\ firstPtr[k] \in jobs /\ state[firstPtr[k]] = "scheduled"
          /\ \A i \in 1 .. Len(firstPtr) : firstPtr[i] = firstPtr[k] => i = k
    /\ \A j \in jobs : state[j] = "scheduled" => \E k \in 1 .. Len(firstPtr) : firstPtr[k] = j

Runners ==
    /\ \A t \in Threads : tpc[t] = "run" <=> tjob[t] # NULL
    /\ \A t \in Threads : tjob[t] # NULL =>
          /\ tjob[t] \in jobs /\ state[tjob[t]] = "running"
          /\ \A u \in Threads : tjob[u] = tjob[t] => u = t
    /\ \A j \in jobs : state[j] = "running" => \E t \in Threads : tjob[t] = j

IsWaiter(c) == cpc[c] \in WaitPcs /\ ccmd[c] \in {"wait", "timedwait"}
Waiters ==
    /\ \A c \in Callers : IsWaiter(c) =>
          /\ cjob[c] \in waited
          /\ \A d \in Callers : IsWaiter(d) /\ cjob[d] = cjob[c] => d = c
    /\ \A j \in waited : \E c \in Callers : IsWaiter(c) /\ cjob[c] = j
    /\ waited \subseteq jobs \ Detached

JobsInv == PoolTypes /\ CallTypes /\ Calls /\ Locks /\ Refs /\ Pending /\ Runners /\ Waiters

-----------------------------------------------------------------------------
(* What the counters count.                                                *)

LEMMA CountInside ==
    ASSUME NEW D, IsFiniteSet(D), NEW f, NEW P, NEW x \in D, f[x] \in P
    PROVE  Count(D, f, P) >= 1
<1> DEFINE S == {y \in D : f[y] \in P}
<1>1. S \in SUBSET D /\ x \in S  BY Zenon
<1>2. IsFiniteSet(S)  BY Zenon, <1>1, FS_Subset
<1>3. Cardinality(S) \in Nat /\ S # {}  BY Zenon, <1>1, <1>2, FS_CardinalityType
<1>4. Cardinality(S) # 0  BY Zenon, <1>2, <1>3, FS_EmptySet
<1> HIDE DEF S
<1>5. Cardinality(S) >= 1  BY <1>3, <1>4
<1> QED  BY Zenon, <1>5 DEF S, Count

LEMMA RefTypes ==
    ASSUME NEW rq, NEW wq, NEW n, NEW r, Referenced(rq, wq, n, r), NEW q \in Queues
    PROVE  n[q] \in Nat /\ r[q] \in Nat /\ n[q] <= r[q]
<1>1. Count(Threads, rq, {q}) \in Nat /\ Count(Callers, wq, {q}) \in Nat
  BY Zenon, CountType, JobsAssumption
<1> QED  BY <1>1 DEF Referenced

(* A queue with a waiting caller or a running job is referred to.          *)
LEMMA RefWaiting ==
    ASSUME NEW rq, NEW wq, NEW n, NEW r, Referenced(rq, wq, n, r),
           NEW c \in Callers, wq[c] \in Queues
    PROVE  r[wq[c]] >= 1
<1>1. Count(Callers, wq, {wq[c]}) >= 1  BY Zenon, CountInside, JobsAssumption
<1>2. Count(Threads, rq, {wq[c]}) \in Nat /\ Count(Callers, wq, {wq[c]}) \in Nat
  BY Zenon, CountType, JobsAssumption
<1> QED  BY <1>1, <1>2 DEF Referenced

LEMMA RefRunning ==
    ASSUME NEW rq, NEW wq, NEW n, NEW r, Referenced(rq, wq, n, r),
           NEW t \in Threads, rq[t] \in Queues
    PROVE  n[rq[t]] >= 1 /\ r[rq[t]] >= 1
<1>1. Count(Threads, rq, {rq[t]}) >= 1  BY Zenon, CountInside, JobsAssumption
<1>2. Count(Threads, rq, {rq[t]}) \in Nat /\ Count(Callers, wq, {rq[t]}) \in Nat
  BY Zenon, CountType, JobsAssumption
<1> QED  BY <1>1, <1>2 DEF Referenced

(* One caller begins or ends to wait.                                      *)
LEMMA RefCaller ==
    ASSUME NEW rq, NEW wq, NEW n, NEW r, Referenced(rq, wq, n, r), NEW c \in Callers,
           NEW wq2, DiffersAt(Callers, wq, wq2, c), NEW r2,
           \A q \in Queues : r2[q] = r[q] - Ind(wq[c], {q}) + Ind(wq2[c], {q})
    PROVE  Referenced(rq, wq2, n, r2)
<1> SUFFICES ASSUME NEW q \in Queues
             PROVE  r2[q] = Count(Threads, rq, {q}) + Count(Callers, wq2, {q})
  BY Zenon DEF Referenced
<1>1. /\ r[q] = Count(Threads, rq, {q}) + Count(Callers, wq, {q})
      /\ r2[q] = r[q] - Ind(wq[c], {q}) + Ind(wq2[c], {q})
  BY Zenon DEF Referenced
<1>2. Count(Callers, wq2, {q}) = Count(Callers, wq, {q}) - Ind(wq[c], {q}) + Ind(wq2[c], {q})
  BY CountUpdate, JobsAssumption, SMTT(30)
<1>3. Count(Threads, rq, {q}) \in Nat /\ Count(Callers, wq, {q}) \in Nat
  BY Zenon, CountType, JobsAssumption
<1>4. Ind(wq[c], {q}) \in Int /\ Ind(wq2[c], {q}) \in Int  BY DEF Ind
<1> QED  BY <1>1, <1>2, <1>3, <1>4

(* One thread begins or ends to run a job.                                 *)
RunMoves(t, rq, rq2, n, n2, r, r2) ==
    /\ DiffersAt(Threads, rq, rq2, t)
    /\ \A q \in Queues : /\ n2[q] = n[q] - Ind(rq[t], {q}) + Ind(rq2[t], {q})
                         /\ r2[q] = r[q] - Ind(rq[t], {q}) + Ind(rq2[t], {q})
                         /\ n2[q] <= MaxThreadsOf[q]

LEMMA RefThread ==
    ASSUME NEW rq, NEW wq, NEW n, NEW r, Referenced(rq, wq, n, r), NEW t \in Threads,
           NEW rq2, NEW n2, NEW r2, RunMoves(t, rq, rq2, n, n2, r, r2)
    PROVE  Referenced(rq2, wq, n2, r2)
<1> SUFFICES ASSUME NEW q \in Queues
             PROVE  /\ n2[q] = Count(Threads, rq2, {q})
                    /\ r2[q] = Count(Threads, rq2, {q}) + Count(Callers, wq, {q})
  BY Zenon DEF Referenced, RunMoves
<1>1. /\ n[q] = Count(Threads, rq, {q})
      /\ r[q] = Count(Threads, rq, {q}) + Count(Callers, wq, {q})
      /\ n2[q] = n[q] - Ind(rq[t], {q}) + Ind(rq2[t], {q})
      /\ r2[q] = r[q] - Ind(rq[t], {q}) + Ind(rq2[t], {q})
  BY Zenon DEF Referenced, RunMoves
<1>2. Count(Threads, rq2, {q}) = Count(Threads, rq, {q}) - Ind(rq[t], {q}) + Ind(rq2[t], {q})
  BY CountUpdate, JobsAssumption, SMTT(30) DEF RunMoves
<1>3. Count(Threads, rq, {q}) \in Nat /\ Count(Callers, wq, {q}) \in Nat
  BY Zenon, CountType, JobsAssumption
<1>4. Ind(rq[t], {q}) \in Int /\ Ind(rq2[t], {q}) \in Int  BY DEF Ind
<1> QED  BY <1>1, <1>2, <1>3, <1>4

-----------------------------------------------------------------------------
(* Steps that leave a part of the invariant alone.                         *)

(* No thread begins or ends a job, and no caller begins or ends to wait.   *)
SameRuns ==
    tjob' = tjob /\ \A t \in Threads : tpc'[t] = "run" <=> tpc[t] = "run"
SameWaits ==
    \A c \in Callers :
        /\ cpc'[c] \in WaitPcs <=> cpc[c] \in WaitPcs
        /\ cpc[c] \in WaitPcs =>
              cqueue'[c] = cqueue[c] /\ ccmd'[c] = ccmd[c] /\ cjob'[c] = cjob[c]

LEMMA RunQSame == ASSUME SameRuns PROVE RunQ(tpc', tjob') = RunQ(tpc, tjob)
BY Zenon DEF SameRuns, RunQ

LEMMA WaitQSame == ASSUME SameWaits PROVE WaitQ(cpc', cqueue') = WaitQ(cpc, cqueue)
BY Zenon DEF SameWaits, WaitQ

LEMMA RefsFrame ==
    ASSUME Refs, SameRuns, SameWaits, UNCHANGED <<nRunning, refCount, queues>>,
           jobs' \subseteq jobs
    PROVE  Refs'
<1>1. RunQ(tpc', tjob') = RunQ(tpc, tjob) /\ WaitQ(cpc', cqueue') = WaitQ(cpc, cqueue)
  BY Zenon, RunQSame, WaitQSame
<1>2. \A q \in Queues : JobsIn(q, jobs') \subseteq JobsIn(q, jobs)  BY Zenon DEF JobsIn
<1> QED  BY Zenon, <1>1, <1>2 DEF Refs

LEMMA PendingFrame ==
    ASSUME Pending, firstPtr' = firstPtr, state' = state, jobs' \subseteq jobs,
           \A j \in jobs \ jobs' : state[j] = "done"
    PROVE  Pending'
BY DEF Pending

LEMMA RunnersFrame ==
    ASSUME Runners, SameRuns, state' = state, jobs' \subseteq jobs,
           \A j \in jobs \ jobs' : state[j] = "done"
    PROVE  Runners'
BY ZenonT(30) DEF Runners, SameRuns

LEMMA WaitersFrame ==
    ASSUME Waiters, SameWaits, waited' = waited, waited \subseteq jobs'
    PROVE  Waiters'
<1>1. \A c \in Callers : (IsWaiter(c)' <=> IsWaiter(c)) /\ (IsWaiter(c) => cjob'[c] = cjob[c])
  BY Zenon DEF IsWaiter, SameWaits
<1> QED  BY Zenon, <1>1 DEF Waiters

LEMMA LocksFrame ==
    ASSUME Locks, lock' = lock, CallTypes,
           \A q \in Queues : lock[q] # NULL =>
               (q \in queues => q \in queues') /\ refCount'[q] = refCount[q]
                  /\ (JobsIn(q, jobs) = {} => JobsIn(q, jobs') = {}),
           \A c \in Callers : (cpc'[c] = "release" <=> cpc[c] = "release")
                  /\ (cpc[c] = "release" => cqueue'[c] = cqueue[c])
    PROVE  Locks'
<1>1. \A q \in Queues : lock[q] # NULL => lock[q] \in Callers  BY Zenon DEF CallTypes
<1> QED  BY Zenon, <1>1 DEF Locks

(* Every caller is where it was, or further in its command, or done.       *)
LEMMA CallsFrame ==
    ASSUME Calls,
           \A c \in Callers :
               \/ cpc'[c] = "idle"
               \/ /\ cpc[c] # "idle" /\ cqueue'[c] = cqueue[c] /\ ccmd'[c] = ccmd[c]
                  /\ cjob'[c] = cjob[c]
                  /\ cpc'[c] = "locking" => /\ cpc[c] = "locking" /\ queuelock' = queuelock
                                            /\ cqueue[c] \in queues'
    PROVE  Calls'
BY ZenonT(30) DEF Calls

-----------------------------------------------------------------------------
(* Steps that change neither a queue nor a job.                            *)

LEMMA Quiet ==
    ASSUME JobsInv, SameRuns, SameWaits, tpc' \in [Threads -> ThreadPcs], CallTypes', Calls',
           UNCHANGED <<lock, queues, firstPtr, nRunning, refCount, jobs, state, waited>>,
           \A c \in Callers : (cpc'[c] = "release" <=> cpc[c] = "release")
                                 /\ (cpc[c] = "release" => cqueue'[c] = cqueue[c])
    PROVE  JobsInv'
<1>1. PoolTypes'  BY Zenon DEF JobsInv, PoolTypes, SameRuns
<1>2. Locks'  BY Zenon, LocksFrame DEF JobsInv
<1>3. Refs'  BY Zenon, RefsFrame DEF JobsInv
<1>4. Pending'  BY Zenon, PendingFrame DEF JobsInv
<1>5. Runners'  BY Zenon, RunnersFrame DEF JobsInv
<1>6. Waiters'
  <2>1. waited \subseteq jobs'  BY Zenon DEF JobsInv, Waiters
  <2> QED  BY Zenon, <2>1, WaitersFrame DEF JobsInv
<1> QED  BY Zenon, <1>1, <1>2, <1>3, <1>4, <1>5, <1>6 DEF JobsInv

LEMMA ThreadQuiet ==
    ASSUME JobsInv, SameRuns, tpc' \in [Threads -> ThreadPcs],
           UNCHANGED <<lock, queues, firstPtr, nRunning, refCount, jobs, state, waited, callVars>>,
           queuelock' = queuelock \/ queuelock \notin Callers
    PROVE  JobsInv'
<1>1. UNCHANGED <<cpc, ccmd, cqueue, cjob>>  BY Zenon DEF callVars
<1>2. CallTypes'  BY Zenon, <1>1 DEF JobsInv, CallTypes
<1>3. SameWaits  BY Zenon, <1>1 DEF SameWaits
<1>4. \A c \in Callers : cpc[c] = "locking" => queuelock = c  BY Zenon DEF JobsInv, Calls
<1>5. Calls'  BY Zenon, <1>1, <1>4 DEF JobsInv, Calls
<1> QED  BY Zenon, <1>1, <1>2, <1>3, <1>5, Quiet

LEMMA Woken ==
    ASSUME NEW p \in [Threads -> ThreadPcs]
    PROVE  /\ WakeThreads(p) \in [Threads -> ThreadPcs]
           /\ \A t \in Threads : WakeThreads(p)[t] = "run" <=> p[t] = "run"
BY Zenon DEF WakeThreads, ThreadPcs

(* A thread with tp.queuelock neither runs a job, nor is a caller in its   *)
(* way.                                                                    *)
LEMMA LockIsThreads ==
    ASSUME NEW t \in Threads, HasQueuelock(t)
    PROVE  queuelock \notin Callers /\ tpc[t] # "run"
BY Zenon, JobsAssumption DEF HasQueuelock

LEMMA ExitRuns ==
    ASSUME JobsInv, NEW t \in Threads, tpc[t] # "run", tjob' = tjob,
           tpc' = [WakeThreads(tpc) EXCEPT ![t] = "none"]
    PROVE  SameRuns /\ tpc' \in [Threads -> ThreadPcs]
<1>1. tpc \in [Threads -> ThreadPcs]  BY Zenon DEF JobsInv, PoolTypes
<1>2. WakeThreads(tpc) \in [Threads -> ThreadPcs]
      /\ \A u \in Threads : WakeThreads(tpc)[u] = "run" <=> tpc[u] = "run"
  BY Zenon, <1>1, Woken
<1>3. "none" \in ThreadPcs  BY Zenon DEF ThreadPcs
<1> QED  BY Zenon, <1>2, <1>3 DEF SameRuns

LEMMA InvStopThread ==
    ASSUME JobsInv, NEW t \in Threads, StopThread(t)
    PROVE  JobsInv'
<1>1. queuelock \notin Callers /\ tpc[t] # "run"  BY Zenon, LockIsThreads DEF StopThread
<1>2. /\ tpc' = [WakeThreads(tpc) EXCEPT ![t] = "none"] /\ tjob' = tjob
      /\ UNCHANGED <<lock, queues, firstPtr, nRunning, refCount, jobs, state, waited, callVars>>
  BY Zenon DEF StopThread, Exit, queueVars, jobVars
<1> QED  BY Zenon, <1>1, <1>2, ExitRuns, ThreadQuiet

LEMMA InvIdleTimedOut ==
    ASSUME JobsInv, NEW t \in Threads, IdleTimedOut(t)
    PROVE  JobsInv'
<1>1. queuelock \notin Callers /\ tpc[t] # "run"
  BY Zenon, JobsAssumption DEF IdleTimedOut
<1>2. /\ tpc' = [WakeThreads(tpc) EXCEPT ![t] = "none"] /\ tjob' = tjob
      /\ UNCHANGED <<lock, queues, firstPtr, nRunning, refCount, jobs, state, waited, callVars>>
  BY Zenon DEF IdleTimedOut, Exit, queueVars, jobVars
<1> QED  BY Zenon, <1>1, <1>2, ExitRuns, ThreadQuiet

LEMMA InvWaitForJob ==
    ASSUME JobsInv, NEW t \in Threads, WaitForJob(t)
    PROVE  JobsInv'
<1>1. queuelock \notin Callers /\ tpc[t] # "run"  BY Zenon, LockIsThreads DEF WaitForJob
<1>2. /\ tpc' = [tpc EXCEPT ![t] = "wait"] /\ tjob' = tjob
      /\ UNCHANGED <<lock, queues, firstPtr, nRunning, refCount, jobs, state, waited, callVars>>
  BY Zenon DEF WaitForJob, queueVars, jobVars
<1>3. tpc \in [Threads -> ThreadPcs] /\ "wait" \in ThreadPcs
  BY Zenon DEF JobsInv, PoolTypes, ThreadPcs
<1>4. SameRuns /\ tpc' \in [Threads -> ThreadPcs]  BY Zenon, <1>1, <1>2, <1>3 DEF SameRuns
<1> QED  BY Zenon, <1>1, <1>2, <1>4, ThreadQuiet

LEMMA InvMain ==
    ASSUME JobsInv, NsStartJobsShutdown \/ NsWaitJobsShutdown \/ ShutdownTimeout
    PROVE  JobsInv'
<1>1. /\ tpc' = tpc \/ tpc' = WakeThreads(tpc)
      /\ tjob' = tjob /\ queuelock' = queuelock
      /\ UNCHANGED <<lock, queues, firstPtr, nRunning, refCount, jobs, state, waited, callVars>>
  BY Zenon DEF NsStartJobsShutdown, NsWaitJobsShutdown, ShutdownTimeout, poolVars, queueVars,
     jobVars, threadVars
<1>2. tpc \in [Threads -> ThreadPcs]  BY Zenon DEF JobsInv, PoolTypes
<1>3. SameRuns /\ tpc' \in [Threads -> ThreadPcs]
  BY Zenon, <1>1, <1>2, Woken DEF SameRuns
<1> QED  BY Zenon, <1>1, <1>3, ThreadQuiet

(* A caller enters a command, or comes back after it created a thread.     *)
LEMMA InvLookupQueue ==
    ASSUME JobsInv, NEW c \in Callers, NEW cmd \in Commands, NEW q \in Queues,
           NEW j \in IF cmd \in QueueCommands THEN {NULL} ELSE JobsIn(q, Jobs),
           LookupQueue(c, cmd, q, j)
    PROVE  JobsInv'
<1>1. /\ cpc[c] = "idle" /\ queuelock = NULL /\ q \in queues /\ queuelock' = c
      /\ cpc' = [cpc EXCEPT ![c] = "locking"] /\ ccmd' = [ccmd EXCEPT ![c] = cmd]
      /\ cqueue' = [cqueue EXCEPT ![c] = q] /\ cjob' = [cjob EXCEPT ![c] = j]
      /\ UNCHANGED <<lock, queues, firstPtr, nRunning, refCount, jobs, state, waited, tpc, tjob>>
  BY Zenon DEF LookupQueue, poolVars, queueVars, jobVars, threadVars
<1>2. /\ cmd \notin QueueCommands => j \in Jobs /\ QueueOf[j] = q
      /\ cmd \in QueueCommands => j = NULL
      /\ j \in Jobs \union {NULL}
  BY Zenon DEF JobsIn
<1>3. CallTypes'  BY Zenon, <1>1, <1>2 DEF JobsInv, CallTypes, CallerPcs
<1>4. /\ cpc'[c] = "locking" /\ ccmd'[c] = cmd /\ cqueue'[c] = q /\ cjob'[c] = j
      /\ \A d \in Callers : d # c => /\ cpc'[d] = cpc[d] /\ ccmd'[d] = ccmd[d]
                                     /\ cqueue'[d] = cqueue[d] /\ cjob'[d] = cjob[d]
  BY Zenon, <1>1 DEF JobsInv, CallTypes
<1>5. \A d \in Callers : d # NULL  BY Zenon, JobsAssumption
<1>6. Calls'  BY <1>1, <1>2, <1>4, <1>5 DEF JobsInv, Calls
<1>7. SameWaits /\ \A d \in Callers : (cpc'[d] = "release" <=> cpc[d] = "release")
                                        /\ (cpc[d] = "release" => cqueue'[d] = cqueue[d])
  BY Zenon, <1>1, <1>4 DEF SameWaits, WaitPcs
<1>8. SameRuns /\ tpc' \in [Threads -> ThreadPcs]
  BY Zenon, <1>1 DEF SameRuns, JobsInv, PoolTypes
<1> QED  BY Zenon, <1>1, <1>3, <1>6, <1>7, <1>8, Quiet

(* What Return does to the callers.                                        *)
LEMMA Returns ==
    ASSUME CallTypes, NEW c \in Callers, NEW pcs \in [Callers -> CallerPcs], Return(c, pcs)
    PROVE  /\ cpc' \in [Callers -> CallerPcs] /\ ccmd' \in [Callers -> Commands \union {NULL}]
           /\ cqueue' \in [Callers -> Queues \union {NULL}]
           /\ cjob' \in [Callers -> Jobs \union {NULL}]
           /\ cpc'[c] = "idle"
           /\ \A d \in Callers : d # c => /\ cpc'[d] = pcs[d] /\ ccmd'[d] = ccmd[d]
                                          /\ cqueue'[d] = cqueue[d] /\ cjob'[d] = cjob[d]
<1>1. "idle" \in CallerPcs  BY Zenon DEF CallerPcs
<1> QED  BY Zenon, <1>1 DEF Return, CallTypes

LEMMA InvThreadCreate ==
    ASSUME JobsInv, NEW c \in Callers, ThreadCreate(c)
    PROVE  JobsInv'
<1>1. PICK t \in Threads : tpc[t] = "none" /\ tpc' = [tpc EXCEPT ![t] = "start"]
  BY Zenon DEF ThreadCreate
<1>2. /\ cpc[c] = "create" /\ Return(c, cpc) /\ tjob' = tjob /\ queuelock' = queuelock
      /\ UNCHANGED <<lock, queues, firstPtr, nRunning, refCount, jobs, state, waited>>
  BY Zenon DEF ThreadCreate, poolVars, queueVars, jobVars
<1>3. tpc \in [Threads -> ThreadPcs] /\ "start" \in ThreadPcs
  BY Zenon DEF JobsInv, PoolTypes, ThreadPcs
<1>4. SameRuns /\ tpc' \in [Threads -> ThreadPcs]  BY Zenon, <1>1, <1>2, <1>3 DEF SameRuns
<1>5. CallTypes /\ cpc \in [Callers -> CallerPcs]  BY Zenon DEF JobsInv, CallTypes
<1>6. /\ CallTypes' /\ cpc'[c] = "idle"
      /\ \A d \in Callers : d # c => /\ cpc'[d] = cpc[d] /\ ccmd'[d] = ccmd[d]
                                     /\ cqueue'[d] = cqueue[d] /\ cjob'[d] = cjob[d]
  BY Zenon, <1>2, <1>5, Returns DEF CallTypes
<1>7. SameWaits /\ \A d \in Callers : (cpc'[d] = "release" <=> cpc[d] = "release")
                                        /\ (cpc[d] = "release" => cqueue'[d] = cqueue[d])
  BY Zenon, <1>2, <1>6 DEF SameWaits, WaitPcs
<1>8. Calls'
  <2>1. Calls  BY Zenon DEF JobsInv
  <2>2. \A d \in Callers : cpc[d] = "locking" => cqueue[d] \in queues
    BY Zenon, <2>1 DEF Calls
  <2> QED  BY Zenon, <1>2, <1>6, <2>1, <2>2 DEF Calls
<1> QED  BY Zenon, <1>2, <1>4, <1>6, <1>7, <1>8, Quiet

-----------------------------------------------------------------------------
(* A caller leaves its command by ReleaseQueue.                            *)

HasRef(c) == cpc[c] \in WaitPcs
InQueue(c) == cpc[c] = "locking" \/ HasRef(c)

(* The queue of a caller exists while the caller has its lock or waits.    *)
LEMMA InQueueExists ==
    ASSUME JobsInv, NEW c \in Callers, InQueue(c)
    PROVE  cqueue[c] \in queues /\ cqueue[c] \in Queues
<1>1. cqueue[c] \in Queues  BY Zenon DEF JobsInv, Calls, InQueue, HasRef, WaitPcs
<1>2. CASE cpc[c] = "locking"  BY Zenon, <1>1, <1>2 DEF JobsInv, Calls
<1>3. CASE HasRef(c)
  <2> DEFINE wq == WaitQ(cpc, cqueue)
  <2>1. wq[c] = cqueue[c]  BY Zenon, <1>3 DEF WaitQ, HasRef
  <2>2. Referenced(RunQ(tpc, tjob), wq, nRunning, refCount)  BY Zenon DEF JobsInv, Refs
  <2> HIDE DEF wq
  <2>3. refCount[cqueue[c]] >= 1  BY Zenon, <1>1, <2>1, <2>2, RefWaiting
  <2> QED  BY <1>1, <2>3 DEF JobsInv, Refs
<1> QED  BY Zenon, <1>2, <1>3 DEF InQueue

(* What ReleaseQueue does: the caller is done, or has the queue to delete. *)
Released(c, q, refs, js, pcs) ==
    /\ CallTypes' /\ refCount' = [refCount EXCEPT ![q] = refs]
    /\ \A d \in Callers : d # c => /\ cpc'[d] = pcs[d] /\ ccmd'[d] = ccmd[d]
                                   /\ cqueue'[d] = cqueue[d] /\ cjob'[d] = cjob[d]
    /\ \/ cpc'[c] = "idle" /\ lock' = lock
       \/ /\ cpc'[c] = "release" /\ lock' = [lock EXCEPT ![q] = c]
          /\ refs <= 0 /\ JobsIn(q, js) = {}
          /\ cqueue'[c] = q /\ ccmd'[c] = ccmd[c] /\ cjob'[c] = cjob[c]

LEMMA Releases ==
    ASSUME CallTypes, NEW c \in Callers, cqueue[c] \in Queues, NEW refs, NEW del, NEW js,
           NEW pcs \in [Callers -> CallerPcs], ReleaseQueue(c, refs, del, js, pcs)
    PROVE  Released(c, cqueue[c], refs, js, pcs)
<1> DEFINE q == cqueue[c]
<1>1. CASE Deletable(q, refs, del, js)
  <2>1. /\ lock' = [lock EXCEPT ![q] = c] /\ cpc' = [pcs EXCEPT ![c] = "release"]
        /\ UNCHANGED <<ccmd, cqueue, cjob>> /\ refCount' = [refCount EXCEPT ![q] = refs]
    BY Zenon, <1>1 DEF ReleaseQueue
  <2>2. refs <= 0 /\ JobsIn(q, js) = {}  BY Zenon, <1>1 DEF Deletable
  <2>3. "release" \in CallerPcs  BY Zenon DEF CallerPcs
  <2>4. CallTypes'  BY Zenon, <2>1, <2>3 DEF CallTypes
  <2>5. cpc'[c] = "release" /\ \A d \in Callers : d # c => cpc'[d] = pcs[d]
    BY Zenon, <2>1
  <2> QED  BY Zenon, <2>1, <2>2, <2>4, <2>5 DEF Released
<1>2. CASE ~Deletable(q, refs, del, js)
  <2>1. Return(c, pcs) /\ lock' = lock /\ refCount' = [refCount EXCEPT ![q] = refs]
    BY Zenon, <1>2 DEF ReleaseQueue
  <2>2. /\ cpc' \in [Callers -> CallerPcs] /\ ccmd' \in [Callers -> Commands \union {NULL}]
        /\ cqueue' \in [Callers -> Queues \union {NULL}]
        /\ cjob' \in [Callers -> Jobs \union {NULL}]
        /\ cpc'[c] = "idle"
        /\ \A d \in Callers : d # c => /\ cpc'[d] = pcs[d] /\ ccmd'[d] = ccmd[d]
                                       /\ cqueue'[d] = cqueue[d] /\ cjob'[d] = cjob[d]
    BY Zenon, <2>1, Returns
  <2>3. CallTypes'  BY Zenon, <2>1, <2>2 DEF CallTypes
  <2> QED  BY Zenon, <2>1, <2>2, <2>3 DEF Released
<1> QED  BY Zenon, <1>1, <1>2

(* The other callers at most wake up.                                      *)
OthersWait(c, pcs) ==
    \A d \in Callers : pcs[d] = cpc[d] \/ (pcs[d] \in WaitPcs /\ cpc[d] \in WaitPcs)

(* The caller c leaves queue q.                                            *)
Leaving(c, q, refs, js, pcs) ==
    /\ InQueue(c) /\ q = cqueue[c] /\ lock[q] = NULL
    /\ refs = refCount[q] - (IF HasRef(c) THEN 1 ELSE 0)
    /\ Released(c, q, refs, js, pcs) /\ OthersWait(c, pcs)
    /\ jobs' = js /\ js \subseteq jobs /\ UNCHANGED <<queues, nRunning>> /\ SameRuns
    /\ queuelock' = IF cpc[c] = "locking" THEN NULL ELSE queuelock

LEMMA LeavingCalls ==
    ASSUME JobsInv, NEW c \in Callers, NEW q, NEW refs, NEW js, NEW pcs,
           Leaving(c, q, refs, js, pcs)
    PROVE  Calls'
<1>1. Calls  BY Zenon DEF JobsInv
<1>2. cpc[c] # "idle" /\ cqueue[c] = q  BY Zenon DEF Leaving, InQueue, HasRef, WaitPcs
<1>3. \/ cpc'[c] = "idle"
      \/ /\ cpc'[c] = "release" /\ cqueue'[c] = q /\ ccmd'[c] = ccmd[c] /\ cjob'[c] = cjob[c]
  BY Zenon DEF Leaving, Released
<1>4. \A d \in Callers : d # c => /\ cqueue'[d] = cqueue[d] /\ ccmd'[d] = ccmd[d]
                                  /\ cjob'[d] = cjob[d] /\ cpc'[d] = pcs[d]
  BY Zenon DEF Leaving, Released
<1>5. \A d \in Callers : pcs[d] = cpc[d] \/ (pcs[d] \in WaitPcs /\ cpc[d] \in WaitPcs)
  BY Zenon DEF Leaving, OthersWait
<1>6. queues' = queues  BY Zenon DEF Leaving
<1>7. \A d \in Callers : d # c /\ cpc[d] = "locking" =>
         queuelock' = queuelock /\ cqueue[d] \in queues
  BY Zenon, <1>1 DEF Leaving, Calls
<1>8. \A d \in Callers : d # c => pcs[d] = "idle" \/ cpc[d] # "idle"
  BY Zenon, <1>5 DEF WaitPcs
<1>9. \A d \in Callers : d # c /\ pcs[d] = "locking" => cpc[d] = "locking"
  BY Zenon, <1>5 DEF WaitPcs
<1> QED  BY Zenon, <1>1, <1>2, <1>3, <1>4, <1>6, <1>7, <1>8, <1>9, CallsFrame

LEMMA LeavingRefs ==
    ASSUME JobsInv, NEW c \in Callers, NEW q, NEW refs, NEW js, NEW pcs,
           Leaving(c, q, refs, js, pcs)
    PROVE  Refs' /\ refs \in Nat
<1> DEFINE wq == WaitQ(cpc, cqueue)
           wq2 == WaitQ(cpc', cqueue')
           rq == RunQ(tpc, tjob)
<1>1. q \in Queues /\ q \in queues /\ q = cqueue[c]  BY Zenon, InQueueExists DEF Leaving
<1>2. Referenced(rq, wq, nRunning, refCount)  BY Zenon DEF JobsInv, Refs
<1>3. refCount \in [Queues -> Int] /\ refCount' = [refCount EXCEPT ![q] = refs]
      /\ refs = refCount[q] - (IF HasRef(c) THEN 1 ELSE 0)
  BY Zenon DEF Leaving, Released, JobsInv, PoolTypes
<1>4. cpc'[c] \notin WaitPcs  BY Zenon DEF Leaving, Released, WaitPcs
<1>5. wq[c] = (IF HasRef(c) THEN q ELSE NULL) /\ wq2[c] = NULL
  BY Zenon, <1>1, <1>4 DEF WaitQ, HasRef
<1>6. \A d \in Callers : d # c => (cpc'[d] \in WaitPcs <=> cpc[d] \in WaitPcs)
                                    /\ cqueue'[d] = cqueue[d]
  BY Zenon DEF Leaving, Released, OthersWait
<1>7. DiffersAt(Callers, wq, wq2, c)  BY Zenon, <1>6 DEF DiffersAt, WaitQ
<1> HIDE DEF wq, wq2
<1>8. \A p \in Queues : refCount'[p] = refCount[p] - Ind(wq[c], {p}) + Ind(wq2[c], {p})
  BY <1>1, <1>3, <1>5, JobsAssumption DEF Ind
<1>9. Referenced(rq, wq2, nRunning, refCount')  BY SMTT(30), <1>2, <1>7, <1>8, RefCaller
<1>10. RunQ(tpc', tjob') = rq /\ nRunning' = nRunning  BY Zenon, RunQSame DEF Leaving
<1>11. Referenced(RunQ(tpc', tjob'), wq2, nRunning', refCount')  BY Zenon, <1>9, <1>10
<1>12. refs \in Nat
  <2>1. refCount'[q] \in Nat  BY Zenon, <1>1, <1>9, RefTypes
  <2>2. refCount'[q] = refs  BY Zenon, <1>1, <1>3
  <2> QED  BY Zenon, <2>1, <2>2
<1>13. \A p \in Queues : p \notin queues => refCount'[p] = 0 /\ JobsIn(p, js) = {}
  <2>1. \A p \in Queues : p \notin queues => refCount[p] = 0 /\ JobsIn(p, jobs) = {}
    BY Zenon DEF JobsInv, Refs
  <2>2. \A p \in Queues : JobsIn(p, js) \subseteq JobsIn(p, jobs)
    BY Zenon DEF Leaving, JobsIn
  <2> QED  BY Zenon, <1>1, <1>3, <2>1, <2>2
<1>14. jobs' = js /\ queues' = queues  BY Zenon DEF Leaving
<1> QED  BY Zenon, <1>11, <1>12, <1>13, <1>14 DEF Refs, wq2

LEMMA LeavingLocks ==
    ASSUME JobsInv, NEW c \in Callers, NEW q, NEW refs, NEW js, NEW pcs,
           Leaving(c, q, refs, js, pcs)
    PROVE  Locks'
<1>1. q \in Queues /\ q \in queues /\ q = cqueue[c]  BY Zenon, InQueueExists DEF Leaving
<1>2. refs \in Nat  BY Zenon, LeavingRefs
<1>3. /\ lock \in [Queues -> Callers \union {NULL}] /\ refCount \in [Queues -> Int]
      /\ lock[q] = NULL /\ refCount' = [refCount EXCEPT ![q] = refs] /\ queues' = queues
      /\ jobs' = js
  BY Zenon DEF JobsInv, CallTypes, PoolTypes, Leaving, Released
<1>4. \A p \in Queues : JobsIn(p, jobs) = {} => JobsIn(p, js) = {}
  BY Zenon DEF Leaving, JobsIn
<1>5. Locks  BY Zenon DEF JobsInv
<1>6. \A d \in Callers : d # c => (cpc'[d] = "release" <=> cpc[d] = "release")
                                    /\ cqueue'[d] = cqueue[d]
  BY Zenon DEF Leaving, Released, OthersWait, WaitPcs
<1>7. cpc[c] # "release"  BY Zenon DEF Leaving, InQueue, HasRef, WaitPcs
<1>8. ASSUME NEW p \in Queues, p # q, lock[p] # NULL
      PROVE  /\ lock[p] \in Callers /\ lock[p] # c /\ cpc'[lock[p]] = "release"
             /\ cqueue'[lock[p]] = p /\ p \in queues /\ refCount'[p] = 0 /\ JobsIn(p, js) = {}
  BY <1>1, <1>3, <1>4, <1>5, <1>6, <1>7, <1>8 DEF Locks
<1>9. ASSUME NEW d \in Callers, d # c, cpc'[d] = "release"
      PROVE  cqueue'[d] # q /\ cqueue'[d] = cqueue[d] /\ lock[cqueue[d]] = d
  <2>1. lock[cqueue[d]] = d /\ cqueue'[d] = cqueue[d]
    BY Zenon, <1>5, <1>6, <1>9 DEF Locks
  <2>2. d # NULL  BY Zenon, JobsAssumption
  <2> QED  BY Zenon, <1>3, <2>1, <2>2
<1>10. CASE cpc'[c] = "idle" /\ lock' = lock
  BY Zenon, <1>3, <1>8, <1>9, <1>10 DEF Locks
<1>11. CASE /\ cpc'[c] = "release" /\ lock' = [lock EXCEPT ![q] = c]
            /\ refs <= 0 /\ JobsIn(q, js) = {} /\ cqueue'[c] = q
  <2>1. lock'[q] = c /\ \A p \in Queues : p # q => lock'[p] = lock[p]
    BY Zenon, <1>1, <1>3, <1>11
  <2>2. refCount'[q] = 0  BY <1>1, <1>2, <1>3, <1>11
  <2>3. \A p \in Queues : lock'[p] # NULL =>
           /\ cpc'[lock'[p]] = "release" /\ cqueue'[lock'[p]] = p
           /\ p \in queues' /\ refCount'[p] = 0 /\ JobsIn(p, jobs') = {}
    BY Zenon, <1>1, <1>3, <1>8, <1>11, <2>1, <2>2
  <2>4. \A d \in Callers : cpc'[d] = "release" => lock'[cqueue'[d]] = d
    <3> SUFFICES ASSUME NEW d \in Callers, cpc'[d] = "release"
                 PROVE  lock'[cqueue'[d]] = d
      BY Zenon
    <3>1. CASE d = c  BY Zenon, <1>11, <2>1, <3>1
    <3>2. CASE d # c
      <4>1. cqueue'[d] # q /\ cqueue'[d] = cqueue[d] /\ lock[cqueue[d]] = d
        BY Zenon, <1>9, <3>2
      <4>2. cqueue[d] \in Queues
        <5>1. cpc[d] = "release"  BY Zenon, <1>6, <3>2
        <5> QED  BY Zenon, <5>1 DEF JobsInv, Calls
      <4> QED  BY Zenon, <2>1, <4>1, <4>2
    <3> QED  BY Zenon, <3>1, <3>2
  <2> QED  BY Zenon, <2>3, <2>4 DEF Locks
<1> QED  BY Zenon, <1>10, <1>11 DEF Leaving, Released

(* No waiter but c is affected.                                            *)
LEMMA LeavingWaiters ==
    ASSUME JobsInv, NEW c \in Callers, NEW q, NEW refs, NEW js, NEW pcs,
           Leaving(c, q, refs, js, pcs), waited' \subseteq js,
           waited' = IF IsWaiter(c) THEN waited \ {cjob[c]} ELSE waited
    PROVE  Waiters'
<1>1. Waiters /\ jobs' = js  BY Zenon DEF JobsInv, Leaving
<1>2. ~IsWaiter(c)'  BY Zenon DEF Leaving, Released, IsWaiter, WaitPcs
<1>3. \A d \in Callers : d # c => (IsWaiter(d)' <=> IsWaiter(d)) /\ cjob'[d] = cjob[d]
  BY Zenon DEF Leaving, Released, OthersWait, IsWaiter
<1>4. \A d \in Callers : IsWaiter(d)' => cjob'[d] \in waited'
  BY Zenon, <1>1, <1>2, <1>3 DEF Waiters
<1>5. \A d \in Callers : IsWaiter(d)' =>
         \A e \in Callers : IsWaiter(e)' /\ cjob'[e] = cjob'[d] => e = d
  BY Zenon, <1>1, <1>2, <1>3 DEF Waiters
<1>6. ASSUME NEW j \in waited' PROVE \E d \in Callers : IsWaiter(d)' /\ cjob'[d] = j
  <2>1. PICK d \in Callers : IsWaiter(d) /\ cjob[d] = j  BY Zenon, <1>1 DEF Waiters
  <2>2. d # c  BY Zenon, <2>1
  <2> QED  BY Zenon, <1>3, <2>1, <2>2
<1>7. waited' \subseteq jobs' \ Detached  BY Zenon, <1>1 DEF Waiters
<1> QED  BY Zenon, <1>4, <1>5, <1>6, <1>7 DEF Waiters

LEMMA LeavingInv ==
    ASSUME JobsInv, NEW c \in Callers, NEW q, NEW refs, NEW js, NEW pcs,
           Leaving(c, q, refs, js, pcs), UNCHANGED <<firstPtr, state>>,
           tpc' \in [Threads -> ThreadPcs], \A j \in jobs \ js : state[j] = "done",
           waited' \subseteq js, waited' = IF IsWaiter(c) THEN waited \ {cjob[c]} ELSE waited
    PROVE  JobsInv'
<1>1. Calls' /\ Refs' /\ Locks' /\ Waiters' /\ refs \in Nat
  BY Zenon, LeavingCalls, LeavingRefs, LeavingLocks, LeavingWaiters
<1>2. /\ CallTypes' /\ refCount' = [refCount EXCEPT ![q] = refs] /\ SameRuns
      /\ jobs' = js /\ js \subseteq jobs /\ UNCHANGED <<queues, nRunning>>
  BY Zenon DEF Leaving, Released
<1>3. PoolTypes'
  <2>1. refCount \in [Queues -> Int]  BY Zenon DEF JobsInv, PoolTypes
  <2>2. refs \in Int  BY <1>1
  <2>3. refCount' = [refCount EXCEPT ![q] = refs]  BY Zenon, <1>2
  <2>4. refCount' \in [Queues -> Int]  BY Zenon, <2>1, <2>2, <2>3
  <2> QED  BY Zenon, <1>2, <2>4 DEF JobsInv, PoolTypes, SameRuns
<1>4. Pending'  BY Zenon, <1>2, PendingFrame DEF JobsInv
<1>5. Runners'  BY Zenon, <1>2, RunnersFrame DEF JobsInv
<1> QED  BY Zenon, <1>1, <1>2, <1>3, <1>4, <1>5 DEF JobsInv

LEMMA WokenCallers ==
    ASSUME CallTypes, NEW q
    PROVE  /\ WakeCallers(cpc, q) \in [Callers -> CallerPcs]
           /\ \A d \in Callers : \/ WakeCallers(cpc, q)[d] = cpc[d]
                                 \/ WakeCallers(cpc, q)[d] \in WaitPcs /\ cpc[d] \in WaitPcs
<1>1. "woken" \in CallerPcs  BY Zenon DEF CallerPcs, WaitPcs
<1> QED  BY Zenon, <1>1 DEF WakeCallers, CallTypes, WaitPcs

(* The commands that have the locks of LookupQueue and change no job.      *)
LEMMA InvReleases ==
    ASSUME JobsInv, NEW c \in Callers, NEW cmd, NEW del, NEW pcs \in [Callers -> CallerPcs],
           Locked(c, cmd), queuelock' = NULL,
           ReleaseQueue(c, refCount[cqueue[c]], del, jobs, pcs), OthersWait(c, pcs),
           tpc' = tpc \/ tpc' = WakeThreads(tpc), tjob' = tjob,
           UNCHANGED <<queues, firstPtr, nRunning, jobs, state, waited>>
    PROVE  JobsInv'
<1> DEFINE q == cqueue[c]
<1>1. cpc[c] = "locking" /\ InQueue(c) /\ ~HasRef(c) /\ ~IsWaiter(c) /\ lock[q] = NULL
  BY Zenon DEF Locked, InQueue, HasRef, WaitPcs, IsWaiter
<1>2. q \in Queues  BY Zenon, <1>1, InQueueExists
<1>3. CallTypes /\ refCount[q] \in Int /\ tpc \in [Threads -> ThreadPcs]
      /\ waited \subseteq jobs
  BY Zenon, <1>2 DEF JobsInv, PoolTypes, Waiters
<1>4. Released(c, q, refCount[q], jobs, pcs)  BY Zenon, <1>2, <1>3, Releases
<1>5. SameRuns /\ tpc' \in [Threads -> ThreadPcs]  BY Zenon, <1>3, Woken DEF SameRuns
<1>6. refCount[q] = refCount[q] - (IF HasRef(c) THEN 1 ELSE 0)  BY <1>1, <1>3
<1>7. Leaving(c, q, refCount[q], jobs, pcs)  BY Zenon, <1>1, <1>4, <1>5, <1>6 DEF Leaving
<1> QED  BY Zenon, <1>1, <1>3, <1>5, <1>7, LeavingInv

LEMMA InvQueueCommands ==
    ASSUME JobsInv, NEW c \in Callers, JobDelete(c) \/ JobCancel(c) \/ JobExists(c)
    PROVE  JobsInv'
<1>1. CallTypes /\ cpc \in [Callers -> CallerPcs] /\ OthersWait(c, cpc)
  BY Zenon DEF JobsInv, CallTypes, OthersWait
<1>2. /\ WakeCallers(cpc, cqueue[c]) \in [Callers -> CallerPcs]
      /\ OthersWait(c, WakeCallers(cpc, cqueue[c]))
  BY Zenon, <1>1, WokenCallers DEF OthersWait
<1>3. CASE JobDelete(c)
  <2>1. /\ Locked(c, "delete") /\ queuelock' = NULL
        /\ ReleaseQueue(c, refCount[cqueue[c]], deleting', jobs, cpc)
        /\ tpc' = tpc \/ tpc' = WakeThreads(tpc)
        /\ UNCHANGED <<queues, firstPtr, nRunning, jobs, state, waited, tjob>>
    BY Zenon, <1>3 DEF JobDelete, poolVars, jobVars
  <2> QED  BY Zenon, <1>1, <2>1, InvReleases
<1>4. CASE JobCancel(c)
  <2>1. /\ Locked(c, "cancel") /\ queuelock' = NULL
        /\ \/ ReleaseQueue(c, refCount[cqueue[c]], deleting, jobs, cpc)
           \/ ReleaseQueue(c, refCount[cqueue[c]], deleting, jobs, WakeCallers(cpc, cqueue[c]))
        /\ tpc' = tpc \/ tpc' = WakeThreads(tpc)
        /\ UNCHANGED <<queues, firstPtr, nRunning, jobs, state, waited, tjob>>
    BY Zenon, <1>4 DEF JobCancel, poolVars, jobVars
  <2> QED  BY Zenon, <1>1, <1>2, <2>1, InvReleases
<1>5. CASE JobExists(c)
  <2>1. /\ Locked(c, "exists") /\ queuelock' = NULL
        /\ ReleaseQueue(c, refCount[cqueue[c]], deleting, jobs, cpc) /\ tpc' = tpc
        /\ UNCHANGED <<queues, firstPtr, nRunning, jobs, state, waited, tjob>>
    BY Zenon, <1>5 DEF JobExists, poolVars, jobVars, threadVars
  <2> QED  BY Zenon, <1>1, <2>1, InvReleases
<1> QED  BY Zenon, <1>3, <1>4, <1>5

(* It leaves the loop of JobWait or JobWaitAny, or does not enter it.      *)
LEMMA InvLeave ==
    ASSUME JobsInv, NEW c \in Callers, NEW js, InQueue(c), lock[cqueue[c]] = NULL,
           Leave(c, js), jobs' = js, js \subseteq jobs,
           queuelock' = IF cpc[c] = "locking" THEN NULL ELSE queuelock,
           \A j \in jobs \ js : state[j] = "done",
           waited' \subseteq js, waited' = IF IsWaiter(c) THEN waited \ {cjob[c]} ELSE waited,
           UNCHANGED <<queues, firstPtr, nRunning, state, tpc, tjob>>
    PROVE  JobsInv'
<1> DEFINE q == cqueue[c]
           refs == refCount[q] - (IF HasRef(c) THEN 1 ELSE 0)
<1>1. q \in Queues  BY Zenon, InQueueExists
<1>2. CallTypes /\ tpc' \in [Threads -> ThreadPcs] /\ SameRuns
      /\ cpc \in [Callers -> CallerPcs] /\ OthersWait(c, cpc)
  BY Zenon DEF JobsInv, PoolTypes, CallTypes, SameRuns, OthersWait
<1>3. refs = refCount[q] - (IF cpc[c] = "locking" THEN 0 ELSE 1)
  BY Zenon DEF InQueue, HasRef, WaitPcs
<1>4. ReleaseQueue(c, refs, deleting, js, cpc)  BY Zenon, <1>3 DEF Leave
<1>5. Released(c, q, refs, js, cpc)
  <2> HIDE DEF refs
  <2> QED  BY Zenon, <1>1, <1>2, <1>4, Releases
<1>6. Leaving(c, q, refs, js, cpc)  BY Zenon, <1>2, <1>5 DEF Leaving
<1> HIDE DEF refs, q
<1> QED  BY Zenon, <1>2, <1>6, LeavingInv

(* It waits.                                                               *)
LEMMA AwaitRefs ==
    ASSUME JobsInv, NEW c \in Callers, InQueue(c), Await(c),
           UNCHANGED <<queues, nRunning, jobs, tpc, tjob>>
    PROVE  Refs' /\ refCount' \in [Queues -> Int]
<1> DEFINE wq == WaitQ(cpc, cqueue)
           wq2 == WaitQ(cpc', cqueue')
           rq == RunQ(tpc, tjob)
           q == cqueue[c]
<1>1. q \in Queues /\ q \in queues  BY Zenon, InQueueExists
<1>2. Referenced(rq, wq, nRunning, refCount)  BY Zenon DEF JobsInv, Refs
<1>3. /\ refCount \in [Queues -> Int] /\ cpc \in [Callers -> CallerPcs]
      /\ refCount' = [refCount EXCEPT ![q] = @ + (IF cpc[c] = "locking" THEN 1 ELSE 0)]
      /\ cpc' = [cpc EXCEPT ![c] = "waiting"] /\ cqueue' = cqueue
  BY Zenon DEF Await, JobsInv, PoolTypes, CallTypes
<1>4. HasRef(c) <=> cpc[c] # "locking"  BY Zenon DEF InQueue, HasRef, WaitPcs
<1>5. wq[c] = (IF HasRef(c) THEN q ELSE NULL) /\ wq2[c] = q
  BY Zenon, <1>3 DEF WaitQ, HasRef, WaitPcs
<1>6. DiffersAt(Callers, wq, wq2, c)  BY Zenon, <1>3 DEF DiffersAt, WaitQ
<1>7. refCount' \in [Queues -> Int]  BY <1>1, <1>3
<1> HIDE DEF wq, wq2
<1>8. \A p \in Queues : refCount'[p] = refCount[p] - Ind(wq[c], {p}) + Ind(wq2[c], {p})
  BY <1>1, <1>3, <1>4, <1>5, JobsAssumption DEF Ind
<1>9. Referenced(rq, wq2, nRunning, refCount')  BY <1>2, <1>6, <1>8, RefCaller
<1>10. Referenced(RunQ(tpc', tjob'), wq2, nRunning', refCount')  BY Zenon, <1>9
<1>11. \A p \in Queues : p \notin queues => refCount'[p] = 0 /\ JobsIn(p, jobs) = {}
  BY Zenon, <1>1, <1>3 DEF JobsInv, Refs
<1> QED  BY Zenon, <1>7, <1>10, <1>11 DEF Refs, wq2

LEMMA AwaitWaiters ==
    ASSUME JobsInv, NEW c \in Callers, Await(c), jobs' = jobs,
           \/ /\ ccmd[c] \in {"wait", "timedwait"} /\ waited' = waited \union {cjob[c]}
              /\ \/ IsWaiter(c)
                 \/ cjob[c] \in jobs \ (Detached \union waited)
           \/ ccmd[c] \notin {"wait", "timedwait"} /\ waited' = waited
    PROVE  Waiters'
<1>1. /\ UNCHANGED <<ccmd, cjob>> /\ cpc'[c] \in WaitPcs
      /\ \A d \in Callers : d # c => cpc'[d] = cpc[d]
  BY Zenon DEF Await, JobsInv, CallTypes, WaitPcs
<1>2. \A d \in Callers : d # c => (IsWaiter(d)' <=> IsWaiter(d))
  BY Zenon, <1>1 DEF IsWaiter
<1>3. IsWaiter(c)' <=> ccmd[c] \in {"wait", "timedwait"}  BY Zenon, <1>1 DEF IsWaiter
<1>4. Waiters  BY Zenon DEF JobsInv
<1>5. CASE IsWaiter(c)
  <2>1. waited' = waited  BY <1>4, <1>5 DEF Waiters, IsWaiter
  <2>2. IsWaiter(c)'  BY Zenon, <1>3, <1>5 DEF IsWaiter
  <2> QED  BY Zenon, <1>1, <1>2, <1>4, <1>5, <2>1, <2>2 DEF Waiters
<1>6. CASE ccmd[c] \notin {"wait", "timedwait"}
  <2>1. ~IsWaiter(c) /\ ~IsWaiter(c)' /\ waited' = waited
    BY Zenon, <1>3, <1>6 DEF IsWaiter
  <2> QED  BY Zenon, <1>1, <1>2, <1>4, <2>1 DEF Waiters
<1>7. CASE ~IsWaiter(c) /\ ccmd[c] \in {"wait", "timedwait"}
  <2>1. /\ IsWaiter(c)' /\ waited' = waited \union {cjob[c]}
        /\ cjob[c] \in jobs \ (Detached \union waited)
    BY Zenon, <1>3, <1>7
  <2>2. \A d \in Callers : d # c /\ IsWaiter(d)' => cjob[d] \in waited /\ cjob[d] # cjob[c]
    BY Zenon, <1>2, <1>4, <2>1 DEF Waiters
  <2>3. \A d \in Callers : IsWaiter(d)' =>
           /\ cjob'[d] \in waited'
           /\ \A e \in Callers : IsWaiter(e)' /\ cjob'[e] = cjob'[d] => e = d
    BY Zenon, <1>1, <1>2, <1>4, <2>1, <2>2 DEF Waiters
  <2>4. \A j \in waited' : \E d \in Callers : IsWaiter(d)' /\ cjob'[d] = j
    <3>1. \A j \in waited : \E d \in Callers : d # c /\ IsWaiter(d) /\ cjob[d] = j
      BY Zenon, <1>4, <1>7 DEF Waiters
    <3> QED  BY Zenon, <1>1, <1>2, <2>1, <3>1
  <2>5. waited' \subseteq jobs' \ Detached  BY Zenon, <1>4, <2>1 DEF Waiters
  <2> QED  BY Zenon, <2>3, <2>4, <2>5 DEF Waiters
<1> QED  BY Zenon, <1>5, <1>6, <1>7

LEMMA InvAwait ==
    ASSUME JobsInv, NEW c \in Callers, InQueue(c), lock[cqueue[c]] = NULL, Await(c),
           queuelock' = IF cpc[c] = "locking" THEN NULL ELSE queuelock,
           \/ /\ ccmd[c] \in {"wait", "timedwait"} /\ waited' = waited \union {cjob[c]}
              /\ \/ IsWaiter(c)
                 \/ cjob[c] \in jobs \ (Detached \union waited)
           \/ ccmd[c] \notin {"wait", "timedwait"} /\ waited' = waited,
           UNCHANGED <<queues, firstPtr, nRunning, jobs, state, tpc, tjob>>
    PROVE  JobsInv'
<1>1. Refs' /\ refCount' \in [Queues -> Int] /\ Waiters'
  BY Zenon, AwaitRefs, AwaitWaiters
<1>2. cqueue[c] \in Queues  BY Zenon, InQueueExists
<1>3. /\ cpc' = [cpc EXCEPT ![c] = "waiting"] /\ UNCHANGED <<lock, ccmd, cqueue, cjob>>
      /\ \A p \in Queues : p # cqueue[c] => refCount'[p] = refCount[p]
  BY Zenon, <1>2 DEF Await, JobsInv, PoolTypes
<1>4. CallTypes /\ "waiting" \in CallerPcs  BY Zenon DEF JobsInv, CallerPcs, WaitPcs
<1>5. CallTypes'  BY Zenon, <1>3, <1>4 DEF CallTypes
<1>6. /\ cpc'[c] = "waiting" /\ \A d \in Callers : d # c => cpc'[d] = cpc[d]
      /\ cpc[c] # "idle" /\ cpc[c] # "release"
  BY Zenon, <1>3, <1>4 DEF CallTypes, InQueue, HasRef, WaitPcs
<1>7. Calls'
  <2>1. Calls  BY Zenon DEF JobsInv
  <2>2. \A d \in Callers : d # c /\ cpc[d] = "locking" =>
           queuelock' = queuelock /\ cqueue[d] \in queues'
    BY Zenon, <2>1 DEF Calls
  <2> QED  BY Zenon, <1>3, <1>6, <2>1, <2>2, CallsFrame
<1>8. Locks'  BY Zenon, <1>3, <1>4, <1>6, LocksFrame DEF JobsInv
<1>9. SameRuns  BY Zenon DEF SameRuns
<1>10. Pending' /\ Runners'  BY Zenon, <1>9, PendingFrame, RunnersFrame DEF JobsInv
<1>11. PoolTypes'  BY Zenon, <1>1 DEF JobsInv, PoolTypes
<1> QED  BY Zenon, <1>1, <1>5, <1>7, <1>8, <1>10, <1>11 DEF JobsInv

LEMMA InvJobWait ==
    ASSUME JobsInv, NEW c \in Callers, JobWait(c)
    PROVE  JobsInv'
<1> DEFINE j == cjob[c]
           refused == cpc[c] = "locking" /\ JobRefused(j)
<1>1. /\ ccmd[c] \in {"wait", "timedwait"} /\ cpc[c] \in {"locking", "woken"}
      /\ lock[cqueue[c]] = NULL
      /\ queuelock' = IF cpc[c] = "locking" THEN NULL ELSE queuelock
      /\ UNCHANGED <<queues, firstPtr, nRunning, state, tpc, tjob>>
  BY Zenon DEF JobWait, HasLock, poolVars, threadVars
<1>2. InQueue(c) /\ (IsWaiter(c) <=> cpc[c] # "locking")
  BY Zenon, <1>1 DEF InQueue, HasRef, IsWaiter, WaitPcs
<1>3. waited \subseteq jobs /\ (IsWaiter(c) => j \in waited)
  BY Zenon DEF JobsInv, Waiters
<1>4. CASE refused /\ Leave(c, jobs) /\ UNCHANGED <<jobs, waited>>
  BY Zenon, <1>1, <1>2, <1>3, <1>4, InvLeave
<1>5. CASE /\ ~refused /\ state[j] = "done"
           /\ jobs' = jobs \ {j} /\ waited' = waited \ {j} /\ Leave(c, jobs')
  <2>1. ~IsWaiter(c) => j \notin waited  BY Zenon, <1>2, <1>5 DEF JobRefused
  <2>2. waited' = IF IsWaiter(c) THEN waited \ {j} ELSE waited  BY Zenon, <1>5, <2>1
  <2>3. /\ Leave(c, jobs \ {j}) /\ waited' \subseteq jobs \ {j} /\ jobs \ {j} \subseteq jobs
        /\ \A i \in jobs \ (jobs \ {j}) : state[i] = "done"
    BY Zenon, <1>3, <1>5
  <2> QED  BY Zenon, <1>1, <1>2, <1>5, <2>2, <2>3, InvLeave
<1>6. CASE /\ ~refused /\ state[j] # "done"
           /\ waited' = waited \union {j} /\ Await(c) /\ UNCHANGED jobs
  <2>1. IsWaiter(c) \/ j \in jobs \ (Detached \union waited)
    BY Zenon, <1>2, <1>6 DEF JobRefused
  <2> QED  BY Zenon, <1>1, <1>2, <1>6, <2>1, InvAwait
<1> QED  BY Zenon, <1>4, <1>5, <1>6 DEF JobWait

LEMMA InvJobWaitAny ==
    ASSUME JobsInv, NEW c \in Callers, JobWaitAny(c)
    PROVE  JobsInv'
<1>1. /\ ccmd[c] \in {"waitany", "timedwaitany"} /\ cpc[c] \in {"locking", "woken"}
      /\ lock[cqueue[c]] = NULL
      /\ queuelock' = IF cpc[c] = "locking" THEN NULL ELSE queuelock
      /\ UNCHANGED <<queues, firstPtr, nRunning, jobs, state, waited, tpc, tjob>>
      /\ Leave(c, jobs) \/ Await(c)
  BY Zenon DEF JobWaitAny, HasLock, poolVars, threadVars, jobVars
<1>2. InQueue(c) /\ ~IsWaiter(c) /\ ccmd[c] \notin {"wait", "timedwait"}
  BY Zenon, <1>1 DEF InQueue, HasRef, IsWaiter, WaitPcs
<1>3. waited \subseteq jobs  BY Zenon DEF JobsInv, Waiters
<1>4. CASE Leave(c, jobs)  BY Zenon, <1>1, <1>2, <1>3, <1>4, InvLeave
<1>5. CASE Await(c)  BY Zenon, <1>1, <1>2, <1>5, InvAwait
<1> QED  BY Zenon, <1>1, <1>4, <1>5

LEMMA InvWaitTimeout ==
    ASSUME JobsInv, NEW c \in Callers, WaitTimeout(c)
    PROVE  JobsInv'
<1>1. /\ ccmd[c] \in {"timedwait", "timedwaitany"} /\ cpc[c] \in WaitPcs
      /\ lock[cqueue[c]] = NULL /\ Leave(c, jobs) /\ waited' = waited \ {cjob[c]}
      /\ UNCHANGED <<queuelock, queues, firstPtr, nRunning, jobs, state, tpc, tjob>>
  BY Zenon DEF WaitTimeout, WaitPcs, poolVars, threadVars
<1>2. InQueue(c) /\ cpc[c] # "locking" /\ cpc[c] # "idle"
  BY Zenon, <1>1 DEF InQueue, HasRef, WaitPcs
<1>3. waited \subseteq jobs /\ jobs \subseteq Jobs
  BY Zenon DEF JobsInv, Waiters, PoolTypes
<1>4. ~IsWaiter(c) => cjob[c] \notin waited
  <2>1. ~IsWaiter(c) => ccmd[c] \in QueueCommands
    BY Zenon, <1>1 DEF IsWaiter, QueueCommands
  <2>2. ~IsWaiter(c) => cjob[c] = NULL  BY Zenon, <1>2, <2>1 DEF JobsInv, Calls
  <2> QED  BY Zenon, <1>3, <2>2, JobsAssumption
<1>5. waited' = IF IsWaiter(c) THEN waited \ {cjob[c]} ELSE waited  BY Zenon, <1>1, <1>4
<1>6. waited' \subseteq jobs  BY Zenon, <1>1, <1>3
<1> QED  BY Zenon, <1>1, <1>2, <1>5, <1>6, InvLeave

-----------------------------------------------------------------------------
(* Queues come and go.                                                     *)

LEMMA InvJobCreate ==
    ASSUME JobsInv, NEW q \in Queues, JobCreate(q)
    PROVE  JobsInv'
<1>1. /\ q \notin queues /\ queues' = queues \union {q}
      /\ nRunning' = [nRunning EXCEPT ![q] = 0] /\ refCount' = [refCount EXCEPT ![q] = 0]
      /\ UNCHANGED <<queuelock, lock, firstPtr, jobs, state, waited, tpc, tjob, callVars>>
  BY Zenon DEF JobCreate, jobVars, threadVars
<1>2. UNCHANGED <<cpc, ccmd, cqueue, cjob>>  BY Zenon, <1>1 DEF callVars
<1>3. Refs /\ nRunning \in [Queues -> Int] /\ refCount \in [Queues -> Int]
  BY Zenon DEF JobsInv, PoolTypes
<1>4. refCount[q] = 0  BY Zenon, <1>1, <1>3 DEF Refs
<1>5. nRunning[q] = 0
  <2>1. nRunning[q] \in Nat /\ nRunning[q] <= refCount[q]
    BY Zenon, <1>3, RefTypes DEF Refs
  <2> QED  BY <1>4, <2>1
<1>6. nRunning' = nRunning  BY Zenon, <1>1, <1>3, <1>5
<1>7. refCount' = refCount  BY Zenon, <1>1, <1>3, <1>4
<1>8. PoolTypes'  BY Zenon, <1>1, <1>6, <1>7 DEF JobsInv, PoolTypes
<1>9. CallTypes'  BY Zenon, <1>1, <1>2 DEF JobsInv, CallTypes
<1>10. Calls'  BY Zenon, <1>1, <1>2 DEF JobsInv, Calls
<1>11. Locks'  BY Zenon, <1>1, <1>2, <1>7 DEF JobsInv, Locks
<1>12. Refs'  BY Zenon, <1>1, <1>2, <1>3, <1>6, <1>7 DEF Refs
<1>13. SameRuns /\ SameWaits  BY Zenon, <1>1, <1>2 DEF SameRuns, SameWaits
<1>14. waited \subseteq jobs'  BY Zenon, <1>1 DEF JobsInv, Waiters
<1>15. Pending' /\ Runners' /\ Waiters'
  BY Zenon, <1>1, <1>13, <1>14, PendingFrame, RunnersFrame, WaitersFrame DEF JobsInv
<1> QED  BY Zenon, <1>8, <1>9, <1>10, <1>11, <1>12, <1>15 DEF JobsInv

(* A queue without references and jobs may go.                             *)
Gone(q) == queues' = queues \/ (queues' = queues \ {q} /\ refCount'[q] = 0 /\ JobsIn(q, jobs') = {})

LEMMA RefsGone ==
    ASSUME Refs, SameRuns, SameWaits, NEW q \in Queues, Gone(q), UNCHANGED <<nRunning, refCount>>,
           jobs' \subseteq jobs
    PROVE  Refs'
<1>1. RunQ(tpc', tjob') = RunQ(tpc, tjob) /\ WaitQ(cpc', cqueue') = WaitQ(cpc, cqueue)
  BY Zenon, RunQSame, WaitQSame
<1>2. \A p \in Queues : JobsIn(p, jobs') \subseteq JobsIn(p, jobs)  BY Zenon DEF JobsIn
<1>3. \A p \in Queues : p \notin queues' => p \notin queues \/ p = q  BY Zenon DEF Gone
<1> QED  BY Zenon, <1>1, <1>2, <1>3 DEF Refs, Gone

LEMMA InvReleaseDelete ==
    ASSUME JobsInv, NEW c \in Callers, ReleaseDelete(c)
    PROVE  JobsInv'
<1> DEFINE q == cqueue[c]
<1>1. /\ cpc[c] = "release" /\ queuelock = NULL /\ queues' = queues \ {q}
      /\ lock' = [lock EXCEPT ![q] = NULL] /\ Return(c, cpc)
      /\ tpc' = tpc \/ tpc' = WakeThreads(tpc)
      /\ UNCHANGED <<firstPtr, nRunning, refCount, jobs, state, waited, tjob>>
  BY Zenon DEF ReleaseDelete, jobVars
<1>2. CallTypes /\ Calls /\ Locks /\ Refs /\ cpc \in [Callers -> CallerPcs]
      /\ lock \in [Queues -> Callers \union {NULL}] /\ tpc \in [Threads -> ThreadPcs]
  BY Zenon DEF JobsInv, CallTypes, PoolTypes
<1>3. q \in Queues /\ lock[q] = c /\ c # NULL
  BY <1>1, <1>2, JobsAssumption DEF Calls, Locks
<1>4. refCount[q] = 0 /\ JobsIn(q, jobs) = {}  BY Zenon, <1>2, <1>3 DEF Locks
<1>5. /\ cpc' \in [Callers -> CallerPcs] /\ ccmd' \in [Callers -> Commands \union {NULL}]
      /\ cqueue' \in [Callers -> Queues \union {NULL}]
      /\ cjob' \in [Callers -> Jobs \union {NULL}]
      /\ cpc'[c] = "idle"
      /\ \A d \in Callers : d # c => /\ cpc'[d] = cpc[d] /\ ccmd'[d] = ccmd[d]
                                     /\ cqueue'[d] = cqueue[d] /\ cjob'[d] = cjob[d]
  BY Zenon, <1>1, <1>2, Returns
<1>6. CallTypes'
  <2>1. lock' \in [Queues -> Callers \union {NULL}]  BY Zenon, <1>1, <1>2
  <2> QED  BY Zenon, <1>5, <2>1 DEF CallTypes
<1>7. Calls'
  <2>1. \A d \in Callers : cpc[d] # "locking"
    BY Zenon, <1>1, <1>2, JobsAssumption DEF Calls
  <2> QED  BY Zenon, <1>2, <1>5, <2>1, CallsFrame
<1>8. SameRuns /\ tpc' \in [Threads -> ThreadPcs]
  BY Zenon, <1>1, <1>2, Woken DEF SameRuns
<1>9. SameWaits  BY Zenon, <1>1, <1>5 DEF SameWaits, WaitPcs
<1>10. Refs'
  <2>1. Gone(q)  BY Zenon, <1>1, <1>4 DEF Gone
  <2> QED  BY Zenon, <1>1, <1>2, <1>3, <1>8, <1>9, <2>1, RefsGone
<1>11. Locks'
  <2>1. lock'[q] = NULL /\ \A p \in Queues : p # q => lock'[p] = lock[p]
    BY Zenon, <1>1, <1>2, <1>3
  <2>2. \A p \in Queues : lock[p] # NULL /\ p # q => lock[p] \in Callers /\ lock[p] # c
    BY ZenonT(30), <1>2 DEF Locks
  <2>3. \A p \in Queues : lock'[p] # NULL =>
           /\ cpc'[lock'[p]] = "release" /\ cqueue'[lock'[p]] = p
           /\ p \in queues' /\ refCount'[p] = 0 /\ JobsIn(p, jobs') = {}
    BY <1>1, <1>2, <1>5, <2>1, <2>2 DEF Locks
  <2>4. ASSUME NEW d \in Callers, cpc'[d] = "release" PROVE lock'[cqueue'[d]] = d
    <3>1. d # c /\ cpc[d] = "release" /\ cqueue'[d] = cqueue[d]  BY Zenon, <1>5, <2>4
    <3>2. lock[cqueue[d]] = d /\ cqueue[d] \in Queues
      BY Zenon, <1>2, <3>1 DEF Locks, Calls
    <3>3. cqueue[d] # q  BY Zenon, <1>3, <3>1, <3>2
    <3> QED  BY Zenon, <2>1, <3>1, <3>2, <3>3
  <2> QED  BY Zenon, <2>3, <2>4 DEF Locks
<1>12. waited \subseteq jobs'  BY Zenon, <1>1 DEF JobsInv, Waiters
<1>13. Pending' /\ Runners' /\ Waiters'
  BY Zenon, <1>1, <1>8, <1>9, <1>12, PendingFrame, RunnersFrame, WaitersFrame DEF JobsInv
<1>14. PoolTypes'  BY Zenon, <1>1, <1>8 DEF JobsInv, PoolTypes
<1> QED  BY Zenon, <1>6, <1>7, <1>10, <1>11, <1>13, <1>14 DEF JobsInv

-----------------------------------------------------------------------------
(* A job is queued.                                                        *)

LEMMA PendingAdd ==
    ASSUME Pending, firstPtr \in Seq(Jobs), NEW j \in Jobs, j \notin jobs,
           jobs' = jobs \union {j}, state' = [state EXCEPT ![j] = "scheduled"],
           state \in [Jobs -> {"scheduled", "running", "done"}], jobs \subseteq Jobs,
           firstPtr' \in {<<j>> \o firstPtr, Append(firstPtr, j)}
    PROVE  Pending' /\ firstPtr' \in Seq(Jobs)
<1> DEFINE n == Len(firstPtr)
<1>1. n \in Nat  OBVIOUS
<1>2. \A k \in 1 .. n : firstPtr[k] \in jobs /\ firstPtr[k] # j  BY Zenon DEF Pending
<1>3. state'[j] = "scheduled" /\ \A i \in Jobs : i # j => state'[i] = state[i]  BY Zenon
<1>4. \A k \in 1 .. n : /\ state'[firstPtr[k]] = "scheduled"
                        /\ \A i \in 1 .. n : firstPtr[i] = firstPtr[k] => i = k
  BY Zenon, <1>2, <1>3 DEF Pending
<1>5. \A i \in jobs : i # j /\ (state'[i] = "scheduled" => \E k \in 1 .. n : firstPtr[k] = i)
  BY Zenon, <1>3 DEF Pending
<1>6. CASE firstPtr' = <<j>> \o firstPtr
  <2>1. /\ firstPtr' \in Seq(Jobs) /\ Len(firstPtr') = n + 1 /\ firstPtr'[1] = j
        /\ \A k \in 1 .. n : firstPtr'[k + 1] = firstPtr[k]
    BY <1>6
  <2> HIDE DEF n
  <2>2. \A k \in 1 .. Len(firstPtr') : k = 1 \/ (k - 1 \in 1 .. n /\ firstPtr'[k] = firstPtr[k - 1])
    <3> SUFFICES ASSUME NEW k \in 1 .. n + 1, k # 1
                 PROVE  k - 1 \in 1 .. n /\ firstPtr'[k] = firstPtr[k - 1]
      BY Zenon, <2>1
    <3>1. k - 1 \in 1 .. n /\ (k - 1) + 1 = k  BY <1>1
    <3> QED  BY Zenon, <2>1, <3>1
  <2>3. \A k \in 1 .. Len(firstPtr') :
           /\ firstPtr'[k] \in jobs' /\ state'[firstPtr'[k]] = "scheduled"
           /\ \A i \in 1 .. Len(firstPtr') : firstPtr'[i] = firstPtr'[k] => i = k
    <3> SUFFICES ASSUME NEW k \in 1 .. Len(firstPtr')
                 PROVE  /\ firstPtr'[k] \in jobs' /\ state'[firstPtr'[k]] = "scheduled"
                        /\ \A i \in 1 .. Len(firstPtr') : firstPtr'[i] = firstPtr'[k] => i = k
      BY Zenon
    <3>1. firstPtr'[k] \in jobs' /\ state'[firstPtr'[k]] = "scheduled"
      <4>1. CASE k = 1  BY Zenon, <1>3, <2>1, <4>1
      <4>2. CASE k # 1
        <5>1. k - 1 \in 1 .. n /\ firstPtr'[k] = firstPtr[k - 1]  BY Zenon, <2>2, <4>2
        <5>2. firstPtr[k - 1] \in jobs /\ state'[firstPtr[k - 1]] = "scheduled"
          BY Zenon, <1>2, <1>4, <5>1
        <5> QED  BY Zenon, <5>1, <5>2
      <4> QED  BY Zenon, <4>1, <4>2
    <3>2. ASSUME NEW i \in 1 .. Len(firstPtr'), firstPtr'[i] = firstPtr'[k] PROVE i = k
      <4>1. i = 1 <=> k = 1  BY Zenon, <1>2, <2>1, <2>2, <3>2
      <4>2. CASE i # 1 /\ k # 1
        <5>1. /\ i - 1 \in 1 .. n /\ k - 1 \in 1 .. n
              /\ firstPtr[i - 1] = firstPtr[k - 1]
          BY Zenon, <2>2, <3>2, <4>2
        <5>2. i - 1 = k - 1  BY Zenon, <1>4, <5>1
        <5> QED  BY <5>2
      <4> QED  BY Zenon, <4>1, <4>2
    <3> QED  BY Zenon, <3>1, <3>2
  <2>4. ASSUME NEW i \in jobs', state'[i] = "scheduled"
        PROVE  \E k \in 1 .. Len(firstPtr') : firstPtr'[k] = i
    <3>1. CASE i = j
      <4>1. 1 \in 1 .. Len(firstPtr')  BY <1>1, <2>1
      <4> QED  BY Zenon, <2>1, <3>1, <4>1
    <3>2. CASE i # j
      <4>1. PICK k \in 1 .. n : firstPtr[k] = i  BY Zenon, <1>5, <2>4, <3>2
      <4>2. k + 1 \in 1 .. Len(firstPtr') /\ firstPtr'[k + 1] = i  BY <1>1, <2>1, <4>1
      <4> QED  BY Zenon, <4>2
    <3> QED  BY Zenon, <3>1, <3>2
  <2> QED  BY Zenon, <2>1, <2>3, <2>4 DEF Pending
<1>7. CASE firstPtr' = Append(firstPtr, j)
  <2>1. /\ firstPtr' \in Seq(Jobs) /\ Len(firstPtr') = n + 1 /\ firstPtr'[n + 1] = j
        /\ \A k \in 1 .. n : firstPtr'[k] = firstPtr[k]
    BY <1>7
  <2> HIDE DEF n
  <2>2. \A k \in 1 .. Len(firstPtr') : k = n + 1 \/ (k \in 1 .. n /\ firstPtr'[k] = firstPtr[k])
    BY <1>1, <2>1
  <2>3. \A k \in 1 .. Len(firstPtr') :
           /\ firstPtr'[k] \in jobs' /\ state'[firstPtr'[k]] = "scheduled"
           /\ \A i \in 1 .. Len(firstPtr') : firstPtr'[i] = firstPtr'[k] => i = k
    BY SMTT(30), <1>1, <1>2, <1>3, <1>4, <2>1, <2>2
  <2>4. ASSUME NEW i \in jobs', state'[i] = "scheduled"
        PROVE  \E k \in 1 .. Len(firstPtr') : firstPtr'[k] = i
    <3>1. CASE i = j
      <4>1. n + 1 \in 1 .. Len(firstPtr')  BY <1>1, <2>1
      <4> QED  BY Zenon, <2>1, <3>1, <4>1
    <3>2. CASE i # j
      <4>1. PICK k \in 1 .. n : firstPtr[k] = i  BY Zenon, <1>5, <2>4, <3>2
      <4>2. k \in 1 .. Len(firstPtr') /\ firstPtr'[k] = i  BY <1>1, <2>1, <4>1
      <4> QED  BY Zenon, <4>2
    <3> QED  BY Zenon, <3>1, <3>2
  <2> QED  BY Zenon, <2>1, <2>3, <2>4 DEF Pending
<1> QED  BY Zenon, <1>6, <1>7

(* What JobQueue does to its caller: it is done, or creates a thread.      *)
Queued(c) ==
    /\ CallTypes' /\ Calls' /\ SameWaits
    /\ \A d \in Callers : (cpc'[d] = "release" <=> cpc[d] = "release")
                             /\ (cpc[d] = "release" => cqueue'[d] = cqueue[d])

LEMMA QueuedCaller ==
    ASSUME JobsInv, NEW c \in Callers, cpc[c] = "locking", lock' = lock,
           \/ cpc' = [cpc EXCEPT ![c] = "create"] /\ UNCHANGED <<ccmd, cqueue, cjob>>
           \/ Return(c, cpc)
    PROVE  Queued(c)
<1>1. CallTypes /\ Calls /\ cpc \in [Callers -> CallerPcs] /\ "create" \in CallerPcs
  BY Zenon DEF JobsInv, CallTypes, CallerPcs
<1>2. /\ CallTypes'
      /\ \/ cpc'[c] = "idle"
         \/ cpc'[c] = "create" /\ ccmd'[c] = ccmd[c] /\ cqueue'[c] = cqueue[c] /\ cjob'[c] = cjob[c]
      /\ \A d \in Callers : d # c => /\ cpc'[d] = cpc[d] /\ ccmd'[d] = ccmd[d]
                                     /\ cqueue'[d] = cqueue[d] /\ cjob'[d] = cjob[d]
  <2>1. CASE Return(c, cpc)
    <3>1. /\ cpc' \in [Callers -> CallerPcs] /\ ccmd' \in [Callers -> Commands \union {NULL}]
          /\ cqueue' \in [Callers -> Queues \union {NULL}]
          /\ cjob' \in [Callers -> Jobs \union {NULL}]
          /\ cpc'[c] = "idle"
          /\ \A d \in Callers : d # c => /\ cpc'[d] = cpc[d] /\ ccmd'[d] = ccmd[d]
                                         /\ cqueue'[d] = cqueue[d] /\ cjob'[d] = cjob[d]
      BY Zenon, <1>1, <2>1, Returns
    <3>2. lock' \in [Queues -> Callers \union {NULL}]  BY Zenon, <1>1 DEF CallTypes
    <3> QED  BY Zenon, <3>1, <3>2 DEF CallTypes
  <2>2. CASE cpc' = [cpc EXCEPT ![c] = "create"] /\ UNCHANGED <<ccmd, cqueue, cjob>>
    BY Zenon, <1>1, <2>2 DEF CallTypes
  <2> QED  BY Zenon, <2>1, <2>2
<1>3. \A d \in Callers : d # c => cpc[d] # "locking"  BY Zenon, <1>1 DEF Calls
<1>4. Calls'  BY Zenon, <1>1, <1>2, <1>3, CallsFrame
<1>5. SameWaits  BY Zenon, <1>2 DEF SameWaits, WaitPcs
<1> QED  BY Zenon, <1>2, <1>4, <1>5 DEF Queued

(* JobQueue refuses the job.  It may be the one to delete the queue then.  *)
LEMMA QueueRefused ==
    ASSUME JobsInv, NEW c \in Callers, NEW q \in Queues, Queued(c), lock' = lock, lock[q] = NULL,
           ReleaseLocked(q, refCount[q], jobs),
           UNCHANGED <<firstPtr, nRunning, jobs, state, waited, tpc, tjob>>
    PROVE  JobsInv'
<1>1. refCount \in [Queues -> Int] /\ Refs /\ CallTypes /\ Locks
  BY Zenon DEF JobsInv, PoolTypes
<1>2. refCount[q] \in Nat  BY Zenon, <1>1, RefTypes DEF Refs
<1>3. refCount' = refCount  BY Zenon, <1>1 DEF ReleaseLocked
<1>4. queues' = queues \/ (queues' = queues \ {q} /\ refCount[q] <= 0 /\ JobsIn(q, jobs) = {})
  BY Zenon DEF ReleaseLocked, Deletable
<1>5. Gone(q)  BY <1>2, <1>3, <1>4 DEF Gone
<1>6. SameRuns  BY Zenon DEF SameRuns
<1>7. Refs'  BY Zenon, <1>1, <1>3, <1>5, <1>6, RefsGone DEF Queued
<1>8. \A p \in Queues : lock[p] # NULL => (p \in queues => p \in queues')  BY Zenon, <1>4
<1>9. Locks'  BY Zenon, <1>1, <1>3, <1>8, LocksFrame DEF Queued
<1>10. PoolTypes'  BY Zenon, <1>3, <1>4 DEF JobsInv, PoolTypes
<1>11. waited \subseteq jobs'  BY Zenon DEF JobsInv, Waiters
<1>12. Pending' /\ Runners' /\ Waiters'
  BY Zenon, <1>6, <1>11, PendingFrame, RunnersFrame, WaitersFrame DEF JobsInv, Queued
<1> QED  BY Zenon, <1>7, <1>9, <1>10, <1>12 DEF JobsInv, Queued

LEMMA QueueAccepted ==
    ASSUME JobsInv, NEW c \in Callers, NEW j \in Jobs, j \notin jobs, Queued(c), lock' = lock,
           QueueOf[j] \in queues, lock[QueueOf[j]] = NULL, jobs' = jobs \union {j},
           ReleaseLocked(QueueOf[j], refCount[QueueOf[j]], jobs'),
           state' = [state EXCEPT ![j] = "scheduled"], waited' = waited \ {j},
           firstPtr' \in {<<j>> \o firstPtr, Append(firstPtr, j)}, tpc' = WakeThreads(tpc),
           UNCHANGED <<nRunning, tjob>>
    PROVE  JobsInv'
<1> DEFINE q == QueueOf[j]
<1>1. /\ refCount \in [Queues -> Int] /\ Refs /\ CallTypes /\ Locks /\ Pending /\ Runners
      /\ Waiters /\ tpc \in [Threads -> ThreadPcs] /\ firstPtr \in Seq(Jobs)
      /\ state \in [Jobs -> {"scheduled", "running", "done"}] /\ jobs \subseteq Jobs
  BY Zenon DEF JobsInv, PoolTypes
<1>2. q \in Queues  BY Zenon, JobsAssumption
<1>3. refCount' = refCount  BY Zenon, <1>1, <1>2 DEF ReleaseLocked
<1>4. queues' = queues
  <2>1. j \in JobsIn(q, jobs')  BY Zenon DEF JobsIn
  <2> QED  BY Zenon, <2>1 DEF ReleaseLocked, Deletable
<1>5. SameRuns /\ tpc' \in [Threads -> ThreadPcs]  BY Zenon, <1>1, Woken DEF SameRuns
<1>6. \A p \in Queues : p # q => JobsIn(p, jobs') = JobsIn(p, jobs)  BY Zenon DEF JobsIn
<1>7. Refs'
  <2>1. RunQ(tpc', tjob') = RunQ(tpc, tjob) /\ WaitQ(cpc', cqueue') = WaitQ(cpc, cqueue)
    BY Zenon, <1>5, RunQSame, WaitQSame DEF Queued
  <2>2. \A p \in Queues : p \notin queues' => refCount'[p] = 0 /\ JobsIn(p, jobs') = {}
    BY Zenon, <1>1, <1>3, <1>4, <1>6 DEF Refs
  <2> QED  BY Zenon, <1>1, <1>3, <2>1, <2>2 DEF Refs
<1>8. Locks'
  <2>1. \A p \in Queues : lock[p] # NULL => p # q  BY Zenon
  <2> QED  BY Zenon, <1>1, <1>3, <1>4, <1>6, <2>1, LocksFrame DEF Queued
<1>9. Pending' /\ firstPtr' \in Seq(Jobs)  BY Zenon, <1>1, PendingAdd
<1>10. state' \in [Jobs -> {"scheduled", "running", "done"}]  BY Zenon, <1>1
<1>11. state'[j] = "scheduled" /\ \A i \in Jobs : i # j => state'[i] = state[i]
  BY Zenon, <1>1
<1>12. Runners'
  <2>1. \A i \in jobs : i # j /\ i \in Jobs /\ state'[i] = state[i]  BY Zenon, <1>1, <1>11
  <2> QED  BY <1>1, <1>5, <1>11, <2>1 DEF Runners, SameRuns
<1>13. Waiters'
  <2>1. waited' = waited /\ waited \subseteq jobs'  BY <1>1 DEF Waiters
  <2> QED  BY Zenon, <1>1, <2>1, WaitersFrame DEF Queued
<1>14. PoolTypes'  BY Zenon, <1>1, <1>3, <1>4, <1>5, <1>9, <1>10 DEF JobsInv, PoolTypes
<1> QED  BY Zenon, <1>7, <1>8, <1>9, <1>12, <1>13, <1>14 DEF JobsInv, Queued

LEMMA InvJobQueue ==
    ASSUME JobsInv, NEW c \in Callers, JobQueue(c)
    PROVE  JobsInv'
<1> DEFINE j == cjob[c]
           q == cqueue[c]
           refused == stop \/ q \in deleting \/ j \in jobs
<1>1. /\ cpc[c] = "locking" /\ ccmd[c] = "queue" /\ lock[q] = NULL
      /\ ReleaseLocked(q, refCount[q], jobs') /\ UNCHANGED <<lock, nRunning, tjob>>
  BY Zenon DEF JobQueue, Locked
<1>2. /\ q \in Queues /\ q \in queues /\ j \in Jobs /\ QueueOf[j] = q
  BY Zenon, <1>1 DEF JobsInv, Calls, QueueCommands
<1>3. \/ cpc' = [cpc EXCEPT ![c] = "create"] /\ UNCHANGED <<ccmd, cqueue, cjob>>
      \/ Return(c, cpc)
  BY Zenon DEF JobQueue
<1>4. Queued(c)  BY Zenon, <1>1, <1>3, QueuedCaller
<1>5. CASE refused
  <2>1. UNCHANGED <<jobs, state, waited, firstPtr, tpc>>  BY Zenon, <1>5 DEF JobQueue
  <2> QED  BY Zenon, <1>1, <1>2, <1>4, <2>1, QueueRefused
<1>6. CASE ~refused
  <2>1. /\ j \notin jobs /\ jobs' = jobs \union {j}
        /\ state' = [state EXCEPT ![j] = "scheduled"] /\ waited' = waited \ {j}
        /\ firstPtr' \in {<<j>> \o firstPtr, Append(firstPtr, j)} /\ tpc' = WakeThreads(tpc)
    BY Zenon, <1>6 DEF JobQueue
  <2> QED  BY Zenon, <1>1, <1>2, <1>4, <2>1, QueueAccepted
<1> QED  BY Zenon, <1>5, <1>6

-----------------------------------------------------------------------------
(* A job is run.                                                           *)

LEMMA Unlinked ==
    ASSUME NEW S, NEW s \in Seq(S), NEW k \in 1 .. Len(s)
    PROVE  /\ Unlink(s, k) \in Seq(S) /\ Len(Unlink(s, k)) = Len(s) - 1
           /\ \A i \in 1 .. Len(s) - 1 : Unlink(s, k)[i] = s[IF i < k THEN i ELSE i + 1]
<1> DEFINE n == Len(s) - 1
           u == Unlink(s, k)
<1>1. n \in Nat  OBVIOUS
<1>2. \A i \in 1 .. n : (IF i < k THEN i ELSE i + 1) \in 1 .. Len(s)  OBVIOUS
<1>3. \A i \in 1 .. n : s[IF i < k THEN i ELSE i + 1] \in S  BY <1>2
<1>4. u \in [1 .. n -> S]  BY Zenon, <1>3 DEF Unlink
<1>5. \A i \in 1 .. n : u[i] = s[IF i < k THEN i ELSE i + 1]  BY Zenon DEF Unlink
<1> HIDE DEF u, n
<1>6. u \in Seq(S) /\ Len(u) = n  BY <1>1, <1>4
<1> QED  BY Zenon, <1>5, <1>6 DEF u, n

LEMMA PendingRemove ==
    ASSUME Pending, firstPtr \in Seq(Jobs), NEW k \in 1 .. Len(firstPtr), jobs' = jobs,
           firstPtr' = Unlink(firstPtr, k),
           state' = [state EXCEPT ![firstPtr[k]] = "running"], jobs \subseteq Jobs,
           state \in [Jobs -> {"scheduled", "running", "done"}]
    PROVE  Pending' /\ firstPtr' \in Seq(Jobs)
<1> DEFINE n == Len(firstPtr)
           j == firstPtr[k]
           At(i) == IF i < k THEN i ELSE i + 1
<1>1. n \in Nat /\ k \in 1 .. n /\ j \in Jobs  OBVIOUS
<1>2. /\ firstPtr' \in Seq(Jobs) /\ Len(firstPtr') = n - 1
      /\ \A i \in 1 .. n - 1 : firstPtr'[i] = firstPtr[At(i)]
  BY Zenon, Unlinked
<1>0. 1 .. Len(firstPtr') = 1 .. n - 1  BY Zenon, <1>2
<1>3. \A i \in 1 .. n : /\ firstPtr[i] \in jobs /\ state[firstPtr[i]] = "scheduled"
                        /\ \A l \in 1 .. n : firstPtr[l] = firstPtr[i] => l = i
  BY Zenon DEF Pending
<1>4. \A i \in jobs : state[i] = "scheduled" => \E l \in 1 .. n : firstPtr[l] = i
  BY Zenon DEF Pending
<1>5. state'[j] = "running" /\ \A i \in Jobs : i # j => state'[i] = state[i]
  BY Zenon, <1>1
<1> HIDE DEF n, j
<1>6. \A i \in 1 .. n - 1 : At(i) \in 1 .. n /\ At(i) # k  BY <1>1
<1>7. \A i, l \in 1 .. n - 1 : At(i) = At(l) => i = l  BY <1>1
<1>8. ASSUME NEW i \in 1 .. n, i # k
      PROVE  \E l \in 1 .. n - 1 : At(l) = i
  <2>1. CASE i < k
    <3>1. i \in 1 .. n - 1 /\ At(i) = i  BY <1>1, <2>1
    <3> QED  BY Zenon, <3>1
  <2>2. CASE ~(i < k)
    <3>1. i - 1 \in 1 .. n - 1 /\ At(i - 1) = i  BY <1>1, <1>8, <2>2
    <3> QED  BY Zenon, <3>1
  <2> QED  BY Zenon, <2>1, <2>2
<1> HIDE DEF At
<1>9. ASSUME NEW i \in 1 .. Len(firstPtr')
      PROVE  /\ firstPtr'[i] \in jobs' /\ state'[firstPtr'[i]] = "scheduled"
             /\ \A l \in 1 .. Len(firstPtr') : firstPtr'[l] = firstPtr'[i] => l = i
  <2>1. At(i) \in 1 .. n /\ At(i) # k /\ firstPtr'[i] = firstPtr[At(i)]
    BY Zenon, <1>0, <1>2, <1>6
  <2>2. firstPtr[At(i)] \in jobs /\ state[firstPtr[At(i)]] = "scheduled"
    BY Zenon, <1>3, <2>1
  <2>3. firstPtr[At(i)] # j  BY Zenon, <1>1, <1>3, <2>1 DEF j
  <2>4. state'[firstPtr[At(i)]] = "scheduled"  BY Zenon, <1>5, <2>2, <2>3
  <2>5. ASSUME NEW l \in 1 .. Len(firstPtr'), firstPtr'[l] = firstPtr'[i] PROVE l = i
    <3>1. At(l) \in 1 .. n /\ firstPtr[At(l)] = firstPtr[At(i)]
      BY Zenon, <1>0, <1>2, <1>6, <2>1, <2>5
    <3>2. At(l) = At(i)  BY Zenon, <1>3, <2>1, <3>1
    <3> QED  BY Zenon, <1>0, <1>7, <3>2
  <2> QED  BY Zenon, <2>1, <2>2, <2>4, <2>5
<1>10. ASSUME NEW i \in jobs', state'[i] = "scheduled"
       PROVE  \E l \in 1 .. Len(firstPtr') : firstPtr'[l] = i
  <2>1. i # j /\ i \in jobs /\ state[i] = "scheduled"  BY Zenon, <1>5, <1>10
  <2>2. PICK m \in 1 .. n : firstPtr[m] = i  BY Zenon, <1>4, <2>1
  <2>3. m # k  BY Zenon, <2>1, <2>2 DEF j
  <2>4. PICK l \in 1 .. Len(firstPtr') : At(l) = m  BY Zenon, <1>0, <1>8, <2>3
  <2> QED  BY Zenon, <1>0, <1>2, <2>2, <2>4
<1> QED  BY Zenon, <1>2, <1>9, <1>10 DEF Pending

(* A thread takes the job j, or comes back from the one that it ran.       *)
LEMMA RunnersStart ==
    ASSUME Runners, NEW t \in Threads, NEW j \in jobs, tpc[t] # "run", state[j] = "scheduled",
           jobs \subseteq Jobs, tpc \in [Threads -> ThreadPcs],
           tjob \in [Threads -> Jobs \union {NULL}],
           state \in [Jobs -> {"scheduled", "running", "done"}],
           tpc' = [tpc EXCEPT ![t] = "run"], tjob' = [tjob EXCEPT ![t] = j],
           state' = [state EXCEPT ![j] = "running"], jobs' = jobs
    PROVE  Runners'
<1>1. j \in Jobs /\ j # NULL /\ tjob[t] = NULL  BY JobsAssumption DEF Runners
<1>2. /\ tpc'[t] = "run" /\ tjob'[t] = j
      /\ \A u \in Threads : u # t => tpc'[u] = tpc[u] /\ tjob'[u] = tjob[u]
  BY Zenon
<1>3. state'[j] = "running" /\ \A i \in Jobs : i # j => state'[i] = state[i]
  BY Zenon, <1>1
<1>4. \A u \in Threads : tjob[u] # NULL => tjob[u] # j /\ tjob[u] \in jobs
  BY Zenon DEF Runners
<1>5. \A u \in Threads : tpc'[u] = "run" <=> tjob'[u] # NULL  BY <1>1, <1>2 DEF Runners
<1>6. \A u \in Threads : tjob'[u] # NULL =>
         /\ tjob'[u] \in jobs' /\ state'[tjob'[u]] = "running"
         /\ \A v \in Threads : tjob'[v] = tjob'[u] => v = u
  BY <1>1, <1>2, <1>3, <1>4 DEF Runners
<1>7. ASSUME NEW i \in jobs', state'[i] = "running" PROVE \E u \in Threads : tjob'[u] = i
  <2>1. CASE i = j  BY Zenon, <1>2, <2>1
  <2>2. CASE i # j
    <3>1. PICK u \in Threads : tjob[u] = i  BY Zenon, <1>3, <1>7, <2>2 DEF Runners
    <3>2. u # t  BY Zenon, <1>1, <1>7, <3>1, JobsAssumption
    <3> QED  BY Zenon, <1>2, <3>1, <3>2
  <2> QED  BY Zenon, <2>1, <2>2
<1> QED  BY Zenon, <1>5, <1>6, <1>7 DEF Runners

LEMMA RunRefs ==
    ASSUME JobsInv, NEW t \in Threads, tpc[t] # "run", NEW q \in Queues, q \in queues,
           nRunning[q] < MaxThreadsOf[q],
           nRunning' = [nRunning EXCEPT ![q] = @ + 1],
           refCount' = [refCount EXCEPT ![q] = @ + 1],
           tpc' = [tpc EXCEPT ![t] = "run"], NEW j \in Jobs, tjob' = [tjob EXCEPT ![t] = j],
           QueueOf[j] = q, UNCHANGED <<queues, jobs, cpc, cqueue>>
    PROVE  /\ Refs' /\ nRunning' \in [Queues -> Int] /\ refCount' \in [Queues -> Int]
           /\ \A p \in Queues : p # q => refCount'[p] = refCount[p]
<1> DEFINE rq == RunQ(tpc, tjob)
           rq2 == RunQ(tpc', tjob')
           wq == WaitQ(cpc, cqueue)
<1>1. /\ nRunning \in [Queues -> Int] /\ refCount \in [Queues -> Int] /\ Refs
      /\ tpc \in [Threads -> ThreadPcs] /\ tjob \in [Threads -> Jobs \union {NULL}]
  BY Zenon DEF JobsInv, PoolTypes
<1>2. rq[t] = NULL /\ rq2[t] = q /\ DiffersAt(Threads, rq, rq2, t)
  BY Zenon, <1>1 DEF RunQ, DiffersAt
<1>3. Referenced(rq, wq, nRunning, refCount)  BY Zenon, <1>1 DEF Refs
<1>4. /\ nRunning' \in [Queues -> Int] /\ refCount' \in [Queues -> Int]
      /\ nRunning'[q] = nRunning[q] + 1 /\ refCount'[q] = refCount[q] + 1
      /\ \A p \in Queues : p # q => nRunning'[p] = nRunning[p] /\ refCount'[p] = refCount[p]
  BY <1>1
<1> HIDE DEF rq, rq2, wq
<1>5. ASSUME NEW p \in Queues
      PROVE  /\ nRunning'[p] = nRunning[p] - Ind(rq[t], {p}) + Ind(rq2[t], {p})
             /\ refCount'[p] = refCount[p] - Ind(rq[t], {p}) + Ind(rq2[t], {p})
             /\ nRunning'[p] <= MaxThreadsOf[p]
  <2>1. Ind(rq[t], {p}) = 0 /\ Ind(rq2[t], {p}) = IF p = q THEN 1 ELSE 0
    BY Zenon, <1>2, JobsAssumption DEF Ind
  <2>2. nRunning[p] \in Int /\ refCount[p] \in Int /\ MaxThreadsOf[p] \in Int
    BY <1>1, JobsAssumption
  <2>3. nRunning[p] <= MaxThreadsOf[p]  BY Zenon, <1>3 DEF Referenced
  <2> QED  BY <1>4, <2>1, <2>2, <2>3
<1>6. Referenced(rq2, wq, nRunning', refCount')
  <2>1. RunMoves(t, rq, rq2, nRunning, nRunning', refCount, refCount')
    BY Zenon, <1>2, <1>5 DEF RunMoves
  <2> QED  BY Zenon, <1>3, <2>1, RefThread
<1>7. Referenced(rq2, WaitQ(cpc', cqueue'), nRunning', refCount')  BY Zenon, <1>6 DEF wq
<1>8. \A p \in Queues : p \notin queues' => refCount'[p] = 0 /\ JobsIn(p, jobs') = {}
  BY Zenon, <1>1, <1>4 DEF Refs
<1> QED  BY Zenon, <1>4, <1>7, <1>8 DEF Refs, rq2

LEMMA InvRunJob ==
    ASSUME JobsInv, NEW t \in Threads, NEW k \in 1 .. Len(firstPtr), RunJob(t, k)
    PROVE  JobsInv'
<1> DEFINE j == firstPtr[k]
           q == QueueOf[j]
<1>1. /\ lock[q] = NULL /\ nRunning[q] < MaxThreadsOf[q]
      /\ firstPtr' = Unlink(firstPtr, k)
      /\ state' = [state EXCEPT ![j] = "running"]
      /\ nRunning' = [nRunning EXCEPT ![q] = @ + 1]
      /\ refCount' = [refCount EXCEPT ![q] = @ + 1]
      /\ tpc' = [tpc EXCEPT ![t] = "run"] /\ tjob' = [tjob EXCEPT ![t] = j]
      /\ UNCHANGED <<lock, queues, jobs, waited, callVars>>
  BY Zenon DEF RunJob, GetNextJob, Runnable
<1>2. queuelock \notin Callers /\ tpc[t] # "run"  BY Zenon, LockIsThreads DEF RunJob
<1>3. UNCHANGED <<cpc, ccmd, cqueue, cjob>>  BY Zenon, <1>1 DEF callVars
<1>4. /\ Pending /\ Runners /\ Refs /\ CallTypes /\ Calls /\ Locks /\ jobs \subseteq Jobs
      /\ firstPtr \in Seq(Jobs) /\ tpc \in [Threads -> ThreadPcs] /\ Waiters
      /\ tjob \in [Threads -> Jobs \union {NULL}] /\ queues \subseteq Queues
      /\ state \in [Jobs -> {"scheduled", "running", "done"}]
  BY Zenon DEF JobsInv, PoolTypes
<1>5. j \in jobs /\ j \in Jobs /\ state[j] = "scheduled"  BY Zenon, <1>4 DEF Pending
<1>6. q \in Queues /\ q \in queues
  <2>1. q \in Queues /\ j \in JobsIn(q, jobs)  BY Zenon, <1>5, JobsAssumption DEF JobsIn
  <2> QED  BY Zenon, <1>4, <2>1 DEF Refs
<1>7. Pending' /\ firstPtr' \in Seq(Jobs)  BY Zenon, <1>1, <1>4, PendingRemove
<1> HIDE DEF j, q
<1>8. Runners'  BY Zenon, <1>1, <1>2, <1>4, <1>5, RunnersStart
<1>9. /\ Refs' /\ nRunning' \in [Queues -> Int] /\ refCount' \in [Queues -> Int]
      /\ \A p \in Queues : p # q => refCount'[p] = refCount[p]
  <2>1. QueueOf[j] = q  BY Zenon DEF q
  <2> QED  BY Zenon, <1>1, <1>2, <1>3, <1>5, <1>6, <2>1, RunRefs
<1>10. Locks'  BY Zenon, <1>1, <1>3, <1>4, <1>9, LocksFrame
<1>11. CallTypes'  BY Zenon, <1>1, <1>3, <1>4 DEF CallTypes
<1>12. Calls'  BY Zenon, <1>1, <1>2, <1>3, <1>4 DEF Calls
<1>13. Waiters'
  <2>1. SameWaits  BY Zenon, <1>3 DEF SameWaits
  <2>2. waited \subseteq jobs'  BY Zenon, <1>1, <1>4 DEF Waiters
  <2> QED  BY Zenon, <1>1, <1>4, <2>1, <2>2, WaitersFrame
<1>14. /\ state' \in [Jobs -> {"scheduled", "running", "done"}]
       /\ tpc' \in [Threads -> ThreadPcs] /\ tjob' \in [Threads -> Jobs \union {NULL}]
  BY Zenon, <1>1, <1>4, <1>5 DEF ThreadPcs
<1>15. PoolTypes'  BY Zenon, <1>1, <1>4, <1>7, <1>9, <1>14 DEF PoolTypes
<1> QED  BY Zenon, <1>7, <1>8, <1>9, <1>10, <1>11, <1>12, <1>13, <1>15 DEF JobsInv

-----------------------------------------------------------------------------
(* A job ends: the thread t is back from j.                                *)
Ended(t, j) ==
    /\ tpc' \in [Threads -> ThreadPcs] /\ tpc'[t] # "run" /\ tjob' = [tjob EXCEPT ![t] = NULL]
    /\ \A u \in Threads : u # t => (tpc'[u] = "run" <=> tpc[u] = "run")
    /\ state' = [state EXCEPT ![j] = "done"]
    /\ jobs' = IF j \in Detached THEN jobs \ {j} ELSE jobs

LEMMA EndedJobs ==
    ASSUME JobsInv, NEW t \in Threads, tpc[t] = "run", Ended(t, tjob[t]), firstPtr' = firstPtr
    PROVE  /\ Pending' /\ Runners' /\ state' \in [Jobs -> {"scheduled", "running", "done"}]
           /\ tjob' \in [Threads -> Jobs \union {NULL}]
<1> DEFINE j == tjob[t]
<1>1. /\ Pending /\ Runners /\ jobs \subseteq Jobs
      /\ tjob \in [Threads -> Jobs \union {NULL}]
      /\ state \in [Jobs -> {"scheduled", "running", "done"}]
  BY Zenon DEF JobsInv, PoolTypes
<1>2. j \in jobs /\ j \in Jobs /\ state[j] = "running" /\ j # NULL
  BY Zenon, <1>1 DEF Runners
<1>3. /\ tjob' = [tjob EXCEPT ![t] = NULL] /\ state' = [state EXCEPT ![j] = "done"]
      /\ (jobs' = jobs \/ jobs' = jobs \ {j}) /\ jobs' \subseteq jobs
      /\ \A u \in Threads : u # t => (tpc'[u] = "run" <=> tpc[u] = "run")
      /\ tpc'[t] # "run"
  BY Zenon DEF Ended
<1>4. state'[j] = "done" /\ \A i \in Jobs : i # j => state'[i] = state[i]
  BY Zenon, <1>1, <1>2, <1>3
<1>5. tjob'[t] = NULL /\ \A u \in Threads : u # t => tjob'[u] = tjob[u]
  BY Zenon, <1>1, <1>3
<1>6. \A i \in jobs : i # j => i \in jobs' /\ i \in Jobs  BY Zenon, <1>1, <1>3
<1>7. Pending'
  <2>1. \A k \in 1 .. Len(firstPtr) : firstPtr[k] # j  BY Zenon, <1>1, <1>2 DEF Pending
  <2>2. \A i \in jobs' : i \in jobs /\ (state'[i] = "scheduled" => i # j)
    BY Zenon, <1>3, <1>4
  <2> QED  BY <1>1, <1>4, <1>6, <2>1, <2>2 DEF Pending
<1>8. Runners'
  <2>1. \A u \in Threads : tpc'[u] = "run" <=> tjob'[u] # NULL
    BY <1>1, <1>3, <1>5 DEF Runners
  <2>2. \A u \in Threads : u # t /\ tjob[u] # NULL => tjob[u] # j
    BY Zenon, <1>1 DEF Runners
  <2>3. \A u \in Threads : tjob'[u] # NULL =>
           /\ tjob'[u] \in jobs' /\ state'[tjob'[u]] = "running"
           /\ \A v \in Threads : tjob'[v] = tjob'[u] => v = u
    BY <1>1, <1>4, <1>5, <1>6, <2>2 DEF Runners
  <2>4. ASSUME NEW i \in jobs', state'[i] = "running" PROVE \E u \in Threads : tjob'[u] = i
    <3>1. i # j /\ i \in jobs /\ state[i] = "running"  BY Zenon, <1>1, <1>3, <1>4, <2>4
    <3>2. PICK u \in Threads : tjob[u] = i  BY Zenon, <1>1, <3>1 DEF Runners
    <3>3. u # t  BY Zenon, <3>1, <3>2
    <3> QED  BY Zenon, <1>5, <3>2, <3>3
  <2> QED  BY Zenon, <2>1, <2>3, <2>4 DEF Runners
<1>9. /\ state' \in [Jobs -> {"scheduled", "running", "done"}]
      /\ tjob' \in [Threads -> Jobs \union {NULL}]
  BY Zenon, <1>1, <1>3
<1> QED  BY Zenon, <1>7, <1>8, <1>9

LEMMA EndedRefs ==
    ASSUME JobsInv, NEW t \in Threads, tpc[t] = "run", Ended(t, tjob[t]), SameWaits,
           NEW q \in Queues, q = QueueOf[tjob[t]],
           nRunning' = [nRunning EXCEPT ![q] = @ - 1],
           ReleaseLocked(q, refCount[q] - 1, jobs')
    PROVE  /\ Refs' /\ nRunning' \in [Queues -> Int] /\ refCount' \in [Queues -> Int]
           /\ \A p \in Queues : p # q => refCount'[p] = refCount[p]
           /\ queues' = queues \/ queues' = queues \ {q}
<1> DEFINE rq == RunQ(tpc, tjob)
           rq2 == RunQ(tpc', tjob')
           wq == WaitQ(cpc, cqueue)
<1>1. /\ nRunning \in [Queues -> Int] /\ refCount \in [Queues -> Int] /\ Refs
      /\ tpc \in [Threads -> ThreadPcs] /\ tjob \in [Threads -> Jobs \union {NULL}]
  BY Zenon DEF JobsInv, PoolTypes
<1>2. rq[t] = q /\ rq2[t] = NULL  BY Zenon DEF RunQ, Ended
<1>3. DiffersAt(Threads, rq, rq2, t)
  <2>1. \A u \in Threads : u # t => tjob'[u] = tjob[u]  BY Zenon, <1>1 DEF Ended
  <2> QED  BY <2>1 DEF RunQ, DiffersAt, Ended
<1>4. Referenced(rq, wq, nRunning, refCount)  BY Zenon, <1>1 DEF Refs
<1>5. refCount' = [refCount EXCEPT ![q] = refCount[q] - 1]  BY Zenon DEF ReleaseLocked
<1>6. /\ nRunning' \in [Queues -> Int] /\ refCount' \in [Queues -> Int]
      /\ nRunning'[q] = nRunning[q] - 1 /\ refCount'[q] = refCount[q] - 1
      /\ \A p \in Queues : p # q => nRunning'[p] = nRunning[p] /\ refCount'[p] = refCount[p]
  BY <1>1, <1>5
<1> HIDE DEF rq, rq2, wq
<1>7. ASSUME NEW p \in Queues
      PROVE  /\ nRunning'[p] = nRunning[p] - Ind(rq[t], {p}) + Ind(rq2[t], {p})
             /\ refCount'[p] = refCount[p] - Ind(rq[t], {p}) + Ind(rq2[t], {p})
             /\ nRunning'[p] <= MaxThreadsOf[p]
  <2>1. Ind(rq2[t], {p}) = 0 /\ Ind(rq[t], {p}) = IF p = q THEN 1 ELSE 0
    BY Zenon, <1>2, JobsAssumption DEF Ind
  <2>2. nRunning[p] \in Int /\ refCount[p] \in Int /\ MaxThreadsOf[p] \in Int
    BY <1>1, JobsAssumption
  <2>3. nRunning[p] <= MaxThreadsOf[p]  BY Zenon, <1>4 DEF Referenced
  <2> QED  BY <1>6, <2>1, <2>2, <2>3
<1>8. Referenced(rq2, wq, nRunning', refCount')
  <2>1. RunMoves(t, rq, rq2, nRunning, nRunning', refCount, refCount')
    BY Zenon, <1>3, <1>7 DEF RunMoves
  <2> QED  BY Zenon, <1>4, <2>1, RefThread
<1>9. Referenced(rq2, WaitQ(cpc', cqueue'), nRunning', refCount')
  BY Zenon, <1>8, WaitQSame DEF wq
<1>10. \/ queues' = queues
       \/ queues' = queues \ {q} /\ refCount[q] - 1 <= 0 /\ JobsIn(q, jobs') = {}
  BY Zenon DEF ReleaseLocked, Deletable
<1>11. refCount'[q] \in Nat  BY ZenonT(30), <1>8, RefTypes
<1>12. q \in queues
  <2>1. refCount[q] >= 1  BY Zenon, <1>2, <1>4, RefRunning
  <2> QED  BY <1>1, <2>1 DEF Refs
<1>13. ASSUME NEW p \in Queues, p \notin queues' PROVE refCount'[p] = 0 /\ JobsIn(p, jobs') = {}
  <2>1. CASE p = q
    <3>1. refCount[q] - 1 <= 0 /\ JobsIn(q, jobs') = {}
      BY Zenon, <1>10, <1>12, <1>13, <2>1
    <3> QED  BY <1>6, <1>11, <2>1, <3>1
  <2>2. CASE p # q
    <3>1. p \notin queues  BY Zenon, <1>10, <1>13, <2>2
    <3>2. refCount[p] = 0 /\ JobsIn(p, jobs) = {}  BY Zenon, <1>1, <3>1 DEF Refs
    <3>3. JobsIn(p, jobs') \subseteq JobsIn(p, jobs)  BY Zenon DEF JobsIn, Ended
    <3> QED  BY Zenon, <1>6, <2>2, <3>2, <3>3
  <2> QED  BY Zenon, <2>1, <2>2
<1> QED  BY Zenon, <1>6, <1>9, <1>10, <1>13 DEF Refs, rq2

LEMMA InvJobDone ==
    ASSUME JobsInv, NEW t \in Threads, JobDone(t)
    PROVE  JobsInv'
<1> DEFINE j == tjob[t]
           q == QueueOf[j]
<1>1. /\ tpc[t] = "run" /\ queuelock = NULL /\ lock[q] = NULL
      /\ nRunning' = [nRunning EXCEPT ![q] = @ - 1]
      /\ state' = [state EXCEPT ![j] = "done"]
      /\ jobs' = IF j \in Detached THEN jobs \ {j} ELSE jobs
      /\ cpc' = WakeCallers(cpc, q) /\ ReleaseLocked(q, refCount[q] - 1, jobs')
      /\ tjob' = [tjob EXCEPT ![t] = NULL]
      /\ UNCHANGED <<lock, firstPtr, waited, ccmd, cqueue, cjob>>
  BY Zenon DEF JobDone
<1>2. \/ tpc' = [WakeThreads(tpc) EXCEPT ![t] = "none"]
      \/ tpc' = [tpc EXCEPT ![t] = "next"]
  BY Zenon DEF JobDone, Exit
<1>3. /\ Runners /\ CallTypes /\ Calls /\ Locks /\ Waiters /\ jobs \subseteq Jobs
      /\ tpc \in [Threads -> ThreadPcs] /\ queues \subseteq Queues /\ firstPtr \in Seq(Jobs)
  BY Zenon DEF JobsInv, PoolTypes
<1>4. j \in jobs /\ j \in Jobs /\ q \in Queues
  BY Zenon, <1>1, <1>3, JobsAssumption DEF Runners
<1>5. Ended(t, j)
  <2>1. /\ WakeThreads(tpc) \in [Threads -> ThreadPcs]
        /\ \A u \in Threads : WakeThreads(tpc)[u] = "run" <=> tpc[u] = "run"
    BY Zenon, <1>3, Woken
  <2>2. "none" \in ThreadPcs /\ "next" \in ThreadPcs  BY Zenon DEF ThreadPcs
  <2>3. /\ tpc' \in [Threads -> ThreadPcs] /\ tpc'[t] # "run"
        /\ \A u \in Threads : u # t => (tpc'[u] = "run" <=> tpc[u] = "run")
    BY Zenon, <1>2, <1>3, <2>1, <2>2
  <2> QED  BY Zenon, <1>1, <2>3 DEF Ended
<1>6. /\ cpc' \in [Callers -> CallerPcs]
      /\ \A d \in Callers : cpc'[d] = cpc[d] \/ (cpc'[d] \in WaitPcs /\ cpc[d] \in WaitPcs)
  BY Zenon, <1>1, <1>3, WokenCallers
<1>7. SameWaits  BY Zenon, <1>1, <1>6 DEF SameWaits
<1> HIDE DEF q
<1>8. /\ Refs' /\ nRunning' \in [Queues -> Int] /\ refCount' \in [Queues -> Int]
      /\ \A p \in Queues : p # q => refCount'[p] = refCount[p]
      /\ queues' = queues \/ queues' = queues \ {q}
  <2>1. q = QueueOf[tjob[t]]  BY Zenon DEF q
  <2> QED  BY Zenon, <1>1, <1>4, <1>5, <1>7, <2>1, EndedRefs
<1>9. /\ Pending' /\ Runners' /\ state' \in [Jobs -> {"scheduled", "running", "done"}]
      /\ tjob' \in [Threads -> Jobs \union {NULL}]
  BY Zenon, <1>1, <1>5, EndedJobs
<1>10. CallTypes'  BY Zenon, <1>1, <1>3, <1>6 DEF CallTypes
<1>11. Calls'
  <2>1. \A d \in Callers : cpc[d] # "locking"
    BY Zenon, <1>1, <1>3, JobsAssumption DEF Calls
  <2>2. \A d \in Callers : cpc'[d] # "locking" /\ (cpc'[d] # "idle" => cpc[d] # "idle")
    BY Zenon, <1>6, <2>1 DEF WaitPcs
  <2> QED  BY Zenon, <1>1, <1>3, <2>2, CallsFrame
<1>12. Locks'
  <2>1. \A d \in Callers : cpc'[d] = "release" <=> cpc[d] = "release"
    BY Zenon, <1>6 DEF WaitPcs
  <2>2. \A p \in Queues : lock[p] # NULL => p # q  BY Zenon, <1>1
  <2>3. \A p \in Queues : JobsIn(p, jobs) = {} => JobsIn(p, jobs') = {}
    BY Zenon, <1>1 DEF JobsIn
  <2> QED  BY ZenonT(30), <1>1, <1>3, <1>8, <2>1, <2>2, <2>3, LocksFrame
<1>13. Waiters'
  <2>1. waited \subseteq jobs'  BY Zenon, <1>1, <1>3 DEF Waiters
  <2> QED  BY Zenon, <1>1, <1>3, <1>7, <2>1, WaitersFrame
<1>14. jobs' \subseteq Jobs /\ queues' \subseteq Queues  BY Zenon, <1>1, <1>3, <1>8
<1>15. PoolTypes'  BY Zenon, <1>1, <1>3, <1>5, <1>8, <1>9, <1>14 DEF PoolTypes, Ended
<1> QED  BY Zenon, <1>8, <1>9, <1>10, <1>11, <1>12, <1>13, <1>15 DEF JobsInv

-----------------------------------------------------------------------------
(* The invariant, and the theorems.                                        *)

LEMMA InvInit == Init => JobsInv
<1> SUFFICES ASSUME Init PROVE JobsInv  BY Zenon
<1>1. PoolTypes /\ CallTypes /\ Calls /\ Locks /\ Pending /\ Runners
  BY JobsAssumption
  DEF Init, PoolTypes, CallTypes, Calls, Locks, Pending, Runners, ThreadPcs, CallerPcs
<1>2. Waiters  BY Zenon DEF Init, Waiters, IsWaiter, WaitPcs
<1>3. Refs
  <2> DEFINE rq == RunQ(tpc, tjob)
             wq == WaitQ(cpc, cqueue)
  <2>1. /\ \A t \in Threads : rq[t] = NULL
        /\ \A c \in Callers : wq[c] = NULL
    BY Zenon DEF Init, RunQ, WaitQ, WaitPcs
  <2> HIDE DEF rq, wq
  <2>2. ASSUME NEW q \in Queues PROVE Count(Threads, rq, {q}) = 0 /\ Count(Callers, wq, {q}) = 0
    <3>1. {t \in Threads : rq[t] \in {q}} = {} /\ {c \in Callers : wq[c] \in {q}} = {}
      BY Zenon, <2>1, JobsAssumption
    <3> QED  BY Zenon, <3>1, FS_EmptySet DEF Count
  <2>3. \A q \in Queues : MaxThreadsOf[q] \in Nat  BY Zenon, JobsAssumption
  <2>4. Referenced(rq, wq, nRunning, refCount)  BY <2>2, <2>3 DEF Referenced, Init
  <2> QED  BY Zenon, <2>4 DEF Refs, Init, JobsIn, rq, wq
<1> QED  BY Zenon, <1>1, <1>2, <1>3 DEF JobsInv

LEMMA InvStutters == ASSUME JobsInv, UNCHANGED vars PROVE JobsInv'
<1>1. SameRuns /\ SameWaits /\ tpc' \in [Threads -> ThreadPcs]
  BY Zenon DEF vars, threadVars, callVars, SameRuns, SameWaits, JobsInv, PoolTypes
<1>2. /\ UNCHANGED <<lock, queues, firstPtr, nRunning, refCount, jobs, state, waited, callVars>>
      /\ queuelock' = queuelock
  BY Zenon DEF vars, poolVars, queueVars, jobVars
<1> QED  BY Zenon, <1>1, <1>2, ThreadQuiet

LEMMA InvCallerStep ==
    ASSUME JobsInv, NEW c \in Callers, CallerStep(c) \/ WaitTimeout(c)
    PROVE  JobsInv'
BY ZenonT(60), InvQueueCommands, InvJobQueue, InvThreadCreate, InvJobWait, InvJobWaitAny,
   InvReleaseDelete, InvWaitTimeout DEF CallerStep

LEMMA InvThreadStep ==
    ASSUME JobsInv, NEW t \in Threads, ThreadStep(t) \/ IdleTimedOut(t)
    PROVE  JobsInv'
BY ZenonT(30), InvStopThread, InvWaitForJob, InvJobDone, InvRunJob, InvIdleTimedOut DEF ThreadStep

LEMMA InvStep == JobsInv /\ [Next]_vars => JobsInv'
<1> SUFFICES ASSUME JobsInv, [Next]_vars PROVE JobsInv'  BY Zenon
<1>1. CASE UNCHANGED vars  BY Zenon, <1>1, InvStutters
<1>2. ASSUME NEW q \in Queues, JobCreate(q) PROVE JobsInv'  BY Zenon, <1>2, InvJobCreate
<1>3. ASSUME NEW c \in Callers, NEW cmd \in Commands, NEW q \in Queues,
             NEW j \in IF cmd \in QueueCommands THEN {NULL} ELSE JobsIn(q, Jobs),
             LookupQueue(c, cmd, q, j)
      PROVE  JobsInv'
  BY Zenon, <1>3, InvLookupQueue
<1>4. ASSUME NEW c \in Callers, CallerStep(c) \/ WaitTimeout(c) PROVE JobsInv'
  BY Zenon, <1>4, InvCallerStep
<1>5. ASSUME NEW t \in Threads, ThreadStep(t) \/ IdleTimedOut(t) PROVE JobsInv'
  BY Zenon, <1>5, InvThreadStep
<1>6. CASE NsStartJobsShutdown \/ NsWaitJobsShutdown \/ ShutdownTimeout
  BY Zenon, <1>6, InvMain
<1> QED  BY <1>1, <1>2, <1>3, <1>4, <1>5, <1>6, Zenon DEF Next

LEMMA JobsInvariant == Spec => []JobsInv
BY InvInit, InvStep, PTL DEF Spec

LEMMA ReferencesCounted ==
    ASSUME JobsInv, NEW q \in Queues
    PROVE  /\ Cardinality(Running(q)) = Count(Threads, RunQ(tpc, tjob), {q})
           /\ Cardinality(Waiting(q)) = Count(Callers, WaitQ(cpc, cqueue), {q})
<1>1. Running(q) = {t \in Threads : RunQ(tpc, tjob)[t] \in {q}}
  BY Zenon, JobsAssumption DEF Running, RunQ
<1>2. Waiting(q) = {c \in Callers : WaitQ(cpc, cqueue)[c] \in {q}}
  BY Zenon, JobsAssumption DEF Waiting, WaitQ, WaitPcs
<1> QED  BY Zenon, <1>1, <1>2 DEF Count

(* A queue is not freed under a job that runs or a caller that waits, for  *)
(* any number of them: refCount counts them, and ReleaseQueue looks at it. *)
THEOREM QueuesOutliveReferences == Spec => []QueueReferences
<1>1. JobsInv => QueueReferences
  <2> SUFFICES ASSUME JobsInv, NEW q \in Queues
               PROVE  /\ refCount[q] = Cardinality(Running(q)) + Cardinality(Waiting(q))
                      /\ refCount[q] > 0 => q \in queues /\ lock[q] = NULL
                      /\ q \in queues \/ JobsIn(q, jobs) = {}
    BY Zenon DEF QueueReferences
  <2>1. refCount[q] = Cardinality(Running(q)) + Cardinality(Waiting(q))
    BY ZenonT(30), ReferencesCounted DEF JobsInv, Refs, Referenced
  <2>2. refCount[q] > 0 => q \in queues /\ lock[q] = NULL  BY DEF JobsInv, Refs, Locks
  <2>3. q \in queues \/ JobsIn(q, jobs) = {}  BY Zenon DEF JobsInv, Refs
  <2> QED  BY Zenon, <2>1, <2>2, <2>3
<1> QED  BY <1>1, JobsInvariant, PTL

(* No queue runs more jobs at once than its maxthreads: nRunning, by which *)
(* GetNextJob skips the jobs of full queues, is exact.                     *)
THEOREM QueuesWithinLimits == Spec => []QueueLimits
<1>1. JobsInv => QueueLimits
  BY Zenon, ReferencesCounted DEF JobsInv, Refs, Referenced, QueueLimits
<1> QED  BY <1>1, JobsInvariant, PTL

LEMMA AtMostOne ==
    ASSUME NEW S, NEW B \in BOOLEAN, B => \E x : S = {x}, ~B => S = {}
    PROVE  Cardinality(S) = IF B THEN 1 ELSE 0
BY ZenonT(30), FS_EmptySet, FS_Singleton

(* A job is pending once, or run by one thread, or done, and is not freed  *)
(* while a thread or a caller in JobWait uses it.                          *)
THEOREM JobsInOnePlace == Spec => []JobInOnePlace
<1>1. ASSUME JobsInv, NEW j \in Jobs
      PROVE  LET pending == {k \in 1 .. Len(firstPtr) : firstPtr[k] = j}
                 runners == {t \in Threads : tjob[t] = j}
                 waiters == {c \in Callers : cjob[c] = j /\ ccmd[c] \in {"wait", "timedwait"}
                                                      /\ cpc[c] \in {"waiting", "woken"}}
             IN /\ Cardinality(pending) = IF j \in jobs /\ state[j] = "scheduled" THEN 1 ELSE 0
                /\ Cardinality(runners) = IF j \in jobs /\ state[j] = "running" THEN 1 ELSE 0
                /\ Cardinality(waiters) = IF j \in waited THEN 1 ELSE 0
                /\ j \in waited => j \in jobs \ Detached
  <2> DEFINE pending == {k \in 1 .. Len(firstPtr) : firstPtr[k] = j}
             runners == {t \in Threads : tjob[t] = j}
             waiters == {c \in Callers : cjob[c] = j /\ ccmd[c] \in {"wait", "timedwait"}
                                                  /\ cpc[c] \in {"waiting", "woken"}}
             scheduled == j \in jobs /\ state[j] = "scheduled"
             running == j \in jobs /\ state[j] = "running"
  <2>1. Pending /\ Runners /\ Waiters /\ j # NULL
    BY Zenon, <1>1, JobsAssumption DEF JobsInv
  <2>2. Cardinality(pending) = IF scheduled THEN 1 ELSE 0
    <3>1. scheduled => \E x : pending = {x}
      <4>1. \A k \in pending : pending = {k}  BY <2>1 DEF Pending
      <4>2. scheduled => \E k \in 1 .. Len(firstPtr) : k \in pending
        BY Zenon, <2>1 DEF Pending
      <4> HIDE DEF pending
      <4> QED  BY Zenon, <4>1, <4>2
    <3>2. ~scheduled => pending = {}  BY <2>1 DEF Pending
    <3> HIDE DEF pending
    <3> QED  BY Zenon, <3>1, <3>2, AtMostOne
  <2>3. Cardinality(runners) = IF running THEN 1 ELSE 0
    <3>1. running => \E x : runners = {x}
      <4>1. \A t \in runners : runners = {t}  BY <2>1 DEF Runners
      <4>2. running => \E t \in Threads : t \in runners  BY Zenon, <2>1 DEF Runners
      <4> HIDE DEF runners
      <4> QED  BY ZenonT(30), <4>1, <4>2
    <3>2. ~running => runners = {}  BY <2>1 DEF Runners
    <3> HIDE DEF runners
    <3> QED  BY Zenon, <3>1, <3>2, AtMostOne
  <2>4. Cardinality(waiters) = IF j \in waited THEN 1 ELSE 0
    <3>1. waiters = {c \in Callers : IsWaiter(c) /\ cjob[c] = j}
      BY Zenon DEF IsWaiter, WaitPcs
    <3> HIDE DEF waiters
    <3>2. j \in waited => \E x : waiters = {x}
      <4>1. \A c \in waiters : waiters = {c}  BY <2>1, <3>1 DEF Waiters
      <4>2. j \in waited => \E c \in Callers : c \in waiters
        BY Zenon, <2>1, <3>1 DEF Waiters
      <4> QED  BY Zenon, <4>1, <4>2
    <3>3. j \notin waited => waiters = {}  BY <2>1, <3>1 DEF Waiters
    <3> QED  BY Zenon, <3>2, <3>3, AtMostOne
  <2>5. j \in waited => j \in jobs \ Detached  BY Zenon, <2>1 DEF Waiters
  <2> QED  BY Zenon, <2>2, <2>3, <2>4, <2>5
<1>2. JobsInv => JobInOnePlace  BY Zenon, <1>1 DEF JobInOnePlace
<1> QED  BY <1>2, JobsInvariant, PTL

-----------------------------------------------------------------------------
(* A set of subsets of a finite set has a least element.                   *)
LEMMA LeastSet ==
    ASSUME NEW S, IsFiniteSet(S), NEW B \in SUBSET SUBSET S, B # {}
    PROVE  \E s \in B : \A x \in s : s \ {x} \notin B
<1> DEFINE N == {Cardinality(s) : s \in B}
<1>1. \A s \in B : IsFiniteSet(s)  BY Zenon, FS_Subset
<1>2. N \in SUBSET Nat  BY Zenon, <1>1, FS_CardinalityType
<1>3. PICK n \in N : \A m \in N : n <= m
  <2>1. N # {}  BY Zenon
  <2> HIDE DEF N
  <2> QED  BY Zenon, <1>2, <2>1, LeastNumber
<1>4. PICK s \in B : n = Cardinality(s)  BY Zenon
<1>5. ASSUME NEW x \in s, s \ {x} \in B PROVE FALSE
  <2>1. n <= Cardinality(s \ {x})  BY Zenon, <1>3, <1>5
  <2>2. Cardinality(s \ {x}) = n - 1  BY Zenon, <1>1, <1>4, <1>5, FS_RemoveElement
  <2>3. n \in Nat  BY Zenon, <1>2
  <2> QED  BY <2>1, <2>2, <2>3
<1> QED  BY Zenon, <1>5

(* One place for every thread that the maxthreads of a queue allows.       *)
Places(qs) == UNION {{q} \X (1 .. MaxThreadsOf[q]) : q \in qs}

LEMMA PlacesAdd ==
    ASSUME NEW s \in SUBSET Queues, NEW q \in Queues \ s, IsFiniteSet(Places(s))
    PROVE  /\ IsFiniteSet(Places(s \union {q}))
           /\ Cardinality(Places(s \union {q})) = Cardinality(Places(s)) + MaxThreadsOf[q]
<1> DEFINE P == Places(s)
           n == MaxThreadsOf[q]
           R == {q} \X (1 .. n)
<1>1. n \in Nat /\ n # 0  BY Zenon, JobsAssumption
<1>2. IsFiniteSet(1 .. n) /\ Cardinality(1 .. n) = n
  <2> HIDE DEF n
  <2>1. 1 \in Int /\ n \in Int /\ ~(1 > n) /\ n - 1 + 1 = n  BY <1>1
  <2>2. IsFiniteSet(1 .. n) /\ Cardinality(1 .. n) = IF 1 > n THEN 0 ELSE n - 1 + 1
    BY Zenon, <2>1, FS_Interval
  <2> QED  BY Zenon, <2>1, <2>2
<1>3. IsFiniteSet(R) /\ Cardinality(R) = 1 * n
  <2>1. IsFiniteSet({q}) /\ Cardinality({q}) = 1  BY Zenon, FS_Singleton
  <2> HIDE DEF n
  <2>2. IsFiniteSet(R) /\ Cardinality(R) = Cardinality({q}) * Cardinality(1 .. n)
    BY <1>2, <2>1, FS_Product
  <2> QED  BY Zenon, <1>2, <2>1, <2>2
<1>4. Places(s \union {q}) = P \union R  BY Zenon DEF Places
<1>5. P \intersect R = {}
  <2> SUFFICES ASSUME NEW p \in P, p \in R PROVE FALSE  BY Zenon
  <2>1. PICK o \in s : p \in {o} \X (1 .. MaxThreadsOf[o])  BY Zenon DEF Places
  <2>2. p[1] = o /\ p[1] = q  BY <2>1
  <2> QED  BY Zenon, <2>1, <2>2
<1> HIDE DEF P, R, n
<1>6. /\ IsFiniteSet(P \union R)
      /\ Cardinality(P \union R) = Cardinality(P) + Cardinality(R) - Cardinality(P \intersect R)
  <2>1. IsFiniteSet(P)  BY Zenon DEF P
  <2> QED  BY Zenon, <1>3, <2>1, FS_Union
<1>7. Cardinality({}) = 0 /\ Cardinality(P) \in Nat
  BY Zenon, FS_EmptySet, FS_CardinalityType DEF P
<1>8. Cardinality(P \union R) = Cardinality(P) + n
  <2>1. Cardinality(P \union R) = Cardinality(P) + 1 * n - 0  BY Zenon, <1>3, <1>5, <1>6, <1>7
  <2> QED  BY <1>1, <1>7, <2>1
<1> QED  BY Zenon, <1>4, <1>6, <1>8 DEF P, n

LEMMA PlacesFinite == \A s \in SUBSET Queues : IsFiniteSet(Places(s))
<1> DEFINE B == {s \in SUBSET Queues : ~IsFiniteSet(Places(s))}
<1> SUFFICES ASSUME B # {} PROVE FALSE  BY Zenon
<1>1. PICK s \in B : \A x \in s : s \ {x} \notin B
  <2>1. B \in SUBSET SUBSET Queues  BY Zenon
  <2> HIDE DEF B
  <2> QED  BY Zenon, <2>1, JobsAssumption, LeastSet
<1>2. s # {}
  <2>1. Places({}) = {}  BY Zenon DEF Places
  <2> QED  BY Zenon, <2>1, FS_EmptySet
<1>3. PICK x \in s : TRUE  BY Zenon, <1>2
<1>4. IsFiniteSet(Places(s \ {x})) /\ s \ {x} \in SUBSET Queues /\ x \in Queues \ (s \ {x})
  BY Zenon, <1>1, <1>3
<1>5. (s \ {x}) \union {x} = s  BY Zenon, <1>3
<1> QED  BY Zenon, <1>4, <1>5, PlacesAdd

LEMMA PlacesRemove ==
    ASSUME NEW s \in SUBSET Queues, NEW q \in s
    PROVE  /\ Cardinality(Places(s)) = Cardinality(Places(s \ {q})) + MaxThreadsOf[q]
           /\ Cardinality(Places(s)) \in Nat /\ Cardinality(Places(s \ {q})) \in Nat
<1>1. s \ {q} \in SUBSET Queues /\ q \in Queues \ (s \ {q}) /\ (s \ {q}) \union {q} = s
  BY Zenon
<1>2. IsFiniteSet(Places(s \ {q})) /\ IsFiniteSet(Places(s))  BY Zenon, <1>1, PlacesFinite
<1>3. Cardinality(Places((s \ {q}) \union {q})) = Cardinality(Places(s \ {q})) + MaxThreadsOf[q]
  BY Zenon, <1>1, <1>2, PlacesAdd
<1> QED  BY Zenon, <1>1, <1>2, <1>3, FS_CardinalityType

(* The sum of the maxthreads of some queues is the number of their places: *)
(* it does not depend on the order in which the queues are added up.       *)
LEMMA SumIsPlaces ==
    ASSUME NEW Q \in SUBSET Queues
    PROVE  MapThenSumSet(LAMBDA q : MaxThreadsOf[q], Q) = Cardinality(Places(Q))
<1> DEFINE pick(s) == CHOOSE x \in s : TRUE
           h == [s \in SUBSET Q |-> Cardinality(Places(s))]
           r == CHOOSE r : r = [s \in SUBSET Q |->
                    IF s = {} THEN 0 ELSE MaxThreadsOf[pick(s)] + r[s \ {pick(s)}]]
<1>1. MapThenSumSet(LAMBDA q : MaxThreadsOf[q], Q) = r[Q]
  BY Zenon DEF MapThenSumSet, MapThenFoldSet
<1>2. \A s \in SUBSET Q : s # {} => pick(s) \in s  BY Zenon
<1> HIDE DEF pick
<1>3. \A s \in SUBSET Q : h[s] = IF s = {} THEN 0 ELSE MaxThreadsOf[pick(s)] + h[s \ {pick(s)}]
  <2> SUFFICES ASSUME NEW s \in SUBSET Q
               PROVE  h[s] = IF s = {} THEN 0 ELSE MaxThreadsOf[pick(s)] + h[s \ {pick(s)}]
    BY Zenon
  <2>1. CASE s = {}
    <3>1. Places({}) = {}  BY Zenon DEF Places
    <3> QED  BY Zenon, <2>1, <3>1, FS_EmptySet
  <2>2. CASE s # {}
    <3>1. pick(s) \in s /\ s \in SUBSET Queues /\ s \ {pick(s)} \in SUBSET Q
      BY Zenon, <1>2, <2>2
    <3>2. h[s] = Cardinality(Places(s)) /\ h[s \ {pick(s)}] = Cardinality(Places(s \ {pick(s)}))
      BY Zenon, <3>1
    <3>3. /\ Cardinality(Places(s)) = Cardinality(Places(s \ {pick(s)})) + MaxThreadsOf[pick(s)]
          /\ Cardinality(Places(s \ {pick(s)})) \in Nat
      BY Zenon, <3>1, PlacesRemove
    <3>4. MaxThreadsOf[pick(s)] \in Nat  BY Zenon, <3>1, JobsAssumption
    <3> HIDE DEF h
    <3>5. h[s] = MaxThreadsOf[pick(s)] + h[s \ {pick(s)}]  BY <3>2, <3>3, <3>4
    <3> QED  BY Zenon, <2>2, <3>5
  <2> QED  BY Zenon, <2>1, <2>2
<1>4. r = [s \in SUBSET Q |-> IF s = {} THEN 0 ELSE MaxThreadsOf[pick(s)] + r[s \ {pick(s)}]]
  <2>1. h = [s \in SUBSET Q |-> IF s = {} THEN 0 ELSE MaxThreadsOf[pick(s)] + h[s \ {pick(s)}]]
    BY Zenon, <1>3
  <2> HIDE DEF h
  <2> QED  BY Zenon, <2>1
<1> DEFINE B == {s \in SUBSET Q : r[s] # h[s]}
<1> HIDE DEF r
<1>5. B = {}
  <2> SUFFICES ASSUME B # {} PROVE FALSE  BY Zenon
  <2>1. PICK s \in B : \A x \in s : s \ {x} \notin B
    <3>1. B \in SUBSET SUBSET Q  BY Zenon
    <3>2. IsFiniteSet(Q)  BY Zenon, JobsAssumption, FS_Subset
    <3> HIDE DEF B
    <3> QED  BY Zenon, <3>1, <3>2, LeastSet
  <2> HIDE DEF h
  <2>2. s \in SUBSET Q /\ r[s] # h[s]  BY Zenon
  <2>3. s # {}  BY Zenon, <1>3, <1>4, <2>2
  <2>4. pick(s) \in s /\ s \ {pick(s)} \in SUBSET Q  BY Zenon, <1>2, <2>2, <2>3
  <2>5. r[s \ {pick(s)}] = h[s \ {pick(s)}]  BY Zenon, <2>1, <2>4
  <2> QED  BY Zenon, <1>3, <1>4, <2>2, <2>3, <2>5
<1>6. r[Q] = h[Q] /\ h[Q] = Cardinality(Places(Q))  BY Zenon, <1>5
<1> QED  BY Zenon, <1>1, <1>6
-----------------------------------------------------------------------------
(* The counters of the pool, and the types of what JobsInv leaves out.     *)
Alive(p) == {t \in Threads : p[t] # "none"}
Idle(p) == {t \in Threads : p[t] \in {"wait", "woken"}}
Creating(p) == {c \in Callers : p[c] = "create"}

Counters ==
    /\ nthreads = Cardinality(Alive(tpc)) + Cardinality(Creating(cpc))
    /\ nidle = Cardinality(Idle(tpc))
    /\ maxThreads = Cardinality(Places(queues))

MainPcs == {"up", "stopping", "waiting", "timedout", "done"}
LockTypes ==
    /\ queuelock \in Callers \union Threads \union {NULL}
    /\ stop \in BOOLEAN /\ mpc \in MainPcs

(* A thread that is to run jobs has a job left.                            *)
JobsLeft ==
    /\ njobs \in [Threads -> 0 .. JobsPerThread]
    /\ \A t \in Threads : tpc[t] \notin {"none", "start"} /\ JobsPerThread # 0 => njobs[t] # 0

ThreadsInv == Counters /\ LockTypes /\ JobsLeft /\ deleting \subseteq queues

LEMMA SetUpdate ==
    ASSUME NEW D, IsFiniteSet(D), NEW S \in SUBSET D, NEW T \in SUBSET D, NEW x,
           S \ {x} = T \ {x}
    PROVE  /\ Cardinality(S) \in Nat
           /\ Cardinality(T) = Cardinality(S) - Ind(x, S) + Ind(x, T)
<1>1. IsFiniteSet(S) /\ IsFiniteSet(T)  BY Zenon, FS_Subset
<1> DEFINE s == Cardinality(S)
           t == Cardinality(T)
           r == Cardinality(S \ {x})
<1>2. s \in Nat /\ t \in Nat  BY Zenon, <1>1, FS_CardinalityType
<1>3. /\ r = IF x \in S THEN s - 1 ELSE s
      /\ r = IF x \in T THEN t - 1 ELSE t
  BY Zenon, <1>1, FS_RemoveElement
<1> HIDE DEF s, t, r
<1>4. t = s - Ind(x, S) + Ind(x, T)  BY <1>2, <1>3 DEF Ind
<1> QED  BY Zenon, <1>2, <1>4 DEF s, t

(* Who exists, and who is idle, is not changed by a broadcast.             *)
LEMMA WakeKeeps ==
    ASSUME NEW p \in [Threads -> ThreadPcs], NEW t \in Threads
    PROVE  /\ WakeThreads(p)[t] = "none" <=> p[t] = "none"
           /\ WakeThreads(p)[t] = "start" <=> p[t] = "start"
           /\ WakeThreads(p)[t] \in {"wait", "woken"} <=> p[t] \in {"wait", "woken"}
BY Zenon DEF WakeThreads

(* Steps after which the threads, and the callers that create one, are the *)
(* same as before.                                                         *)
SameThreads == tpc' = tpc \/ tpc' = WakeThreads(tpc)
SameCreators == \A c \in Callers : cpc'[c] = "create" <=> cpc[c] = "create"

(* A queue comes or goes, or is marked to be deleted.                      *)
QueueMarks == UNCHANGED <<queues, maxThreads>> /\ deleting' \subseteq queues
QueueGoes(q) ==
    /\ q \in queues /\ queues' = queues \ {q} /\ deleting' = deleting \ {q}
    /\ maxThreads' = maxThreads - MaxThreadsOf[q]
QueueComes(q) ==
    /\ q \in Queues \ queues /\ queues' = queues \union {q} /\ deleting' = deleting
    /\ maxThreads' = maxThreads + MaxThreadsOf[q]

LEMMA QueueSteps ==
    ASSUME JobsInv, ThreadsInv,
           \/ QueueMarks
           \/ \E q \in Queues : QueueGoes(q) \/ QueueComes(q)
    PROVE  maxThreads' = Cardinality(Places(queues')) /\ deleting' \subseteq queues'
<1>1. /\ queues \in SUBSET Queues /\ deleting \subseteq queues
      /\ maxThreads = Cardinality(Places(queues))
  BY Zenon DEF JobsInv, PoolTypes, ThreadsInv, Counters
<1>2. CASE QueueMarks  BY Zenon, <1>1, <1>2 DEF QueueMarks
<1>3. ASSUME NEW q \in Queues, QueueGoes(q)
      PROVE  maxThreads' = Cardinality(Places(queues')) /\ deleting' \subseteq queues'
  <2>1. /\ q \in queues /\ queues' = queues \ {q} /\ deleting' = deleting \ {q}
        /\ maxThreads' = maxThreads - MaxThreadsOf[q]
    BY Zenon, <1>3 DEF QueueGoes
  <2>2. /\ Cardinality(Places(queues)) = Cardinality(Places(queues \ {q})) + MaxThreadsOf[q]
        /\ Cardinality(Places(queues \ {q})) \in Nat
    BY Zenon, <1>1, <2>1, PlacesRemove
  <2>3. MaxThreadsOf[q] \in Nat  BY Zenon, JobsAssumption
  <2>4. maxThreads' = Cardinality(Places(queues \ {q}))  BY <1>1, <2>1, <2>2, <2>3
  <2> QED  BY Zenon, <1>1, <2>1, <2>4
<1>4. ASSUME NEW q \in Queues, QueueComes(q)
      PROVE  maxThreads' = Cardinality(Places(queues')) /\ deleting' \subseteq queues'
  <2>1. IsFiniteSet(Places(queues))  BY Zenon, <1>1, PlacesFinite
  <2>2. Cardinality(Places(queues \union {q})) = Cardinality(Places(queues)) + MaxThreadsOf[q]
    BY Zenon, <1>1, <1>4, <2>1, PlacesAdd DEF QueueComes
  <2> QED  BY Zenon, <1>1, <1>4, <2>2 DEF QueueComes
<1> QED  BY Zenon, <1>2, <1>3, <1>4

LEMMA CreatorsKeep ==
    ASSUME SameCreators
    PROVE  Creating(cpc') = Creating(cpc)
BY Zenon DEF SameCreators, Creating

LEMMA ThreadsKeep ==
    ASSUME JobsInv, SameThreads
    PROVE  /\ Alive(tpc') = Alive(tpc) /\ Idle(tpc') = Idle(tpc)
           /\ JobsLeft /\ njobs' = njobs => JobsLeft'
<1>1. tpc \in [Threads -> ThreadPcs]  BY Zenon DEF JobsInv, PoolTypes
<1>2. ASSUME NEW t \in Threads
      PROVE  /\ tpc'[t] = "none" <=> tpc[t] = "none"
             /\ tpc'[t] = "start" <=> tpc[t] = "start"
             /\ tpc'[t] \in {"wait", "woken"} <=> tpc[t] \in {"wait", "woken"}
  <2>1. /\ WakeThreads(tpc)[t] = "none" <=> tpc[t] = "none"
        /\ WakeThreads(tpc)[t] = "start" <=> tpc[t] = "start"
        /\ WakeThreads(tpc)[t] \in {"wait", "woken"} <=> tpc[t] \in {"wait", "woken"}
    BY Zenon, <1>1, WakeKeeps
  <2>2. CASE tpc' = tpc  BY Zenon, <2>2
  <2>3. CASE tpc' = WakeThreads(tpc)  BY Zenon, <2>1, <2>3
  <2> QED  BY Zenon, <2>2, <2>3 DEF SameThreads
<1> QED  BY Zenon, <1>2 DEF Alive, Idle, JobsLeft

(* All steps of callers but two, and of the main thread.                   *)
QuietStep ==
    /\ SameThreads /\ SameCreators /\ UNCHANGED <<nthreads, nidle, njobs>>
    /\ queuelock' \in Callers \union {queuelock, NULL} /\ stop' \in BOOLEAN /\ mpc' \in MainPcs
    /\ QueueMarks \/ \E q \in Queues : QueueGoes(q) \/ QueueComes(q)

LEMMA QuietThreads ==
    ASSUME JobsInv, ThreadsInv, QuietStep
    PROVE  ThreadsInv'
<1>1. maxThreads' = Cardinality(Places(queues')) /\ deleting' \subseteq queues'
  BY Zenon, QueueSteps DEF QuietStep
<1>2. JobsLeft' /\ Alive(tpc') = Alive(tpc) /\ Idle(tpc') = Idle(tpc)
  BY Zenon, ThreadsKeep DEF QuietStep, ThreadsInv
<1>3. Creating(cpc') = Creating(cpc)  BY Zenon, CreatorsKeep DEF QuietStep
<1>4. Counters'  BY Zenon, <1>1, <1>2, <1>3 DEF Counters, ThreadsInv, QuietStep
<1>5. LockTypes'  BY Zenon DEF LockTypes, ThreadsInv, QuietStep
<1> QED  BY Zenon, <1>1, <1>2, <1>4, <1>5 DEF ThreadsInv

-----------------------------------------------------------------------------
(* The steps of the callers.                                               *)

LEMMA ReleaseCreators ==
    ASSUME JobsInv, NEW c \in Callers, cpc[c] # "create", NEW refs, NEW del, NEW js, NEW q,
           NEW pcs \in {cpc, WakeCallers(cpc, q)}, ReleaseQueue(c, refs, del, js, pcs)
    PROVE  SameCreators
<1>1. cpc \in [Callers -> CallerPcs]  BY Zenon DEF JobsInv, CallTypes
<1>2. /\ DOMAIN pcs = Callers /\ pcs = [d \in DOMAIN pcs |-> pcs[d]]
      /\ \A d \in Callers : pcs[d] = "create" <=> cpc[d] = "create"
  <2>1. CASE pcs = cpc  BY Zenon, <1>1, <2>1
  <2>2. CASE pcs = WakeCallers(cpc, q)  BY Zenon, <1>1, <2>2 DEF WakeCallers
  <2> QED  BY Zenon, <2>1, <2>2
<1>3. cpc' = [pcs EXCEPT ![c] = "release"] \/ cpc' = [pcs EXCEPT ![c] = "idle"]
  BY Zenon DEF ReleaseQueue, Return
<1>4. ASSUME NEW d \in Callers PROVE cpc'[d] = "create" <=> cpc[d] = "create"
  <2>1. CASE d = c  BY Zenon, <1>2, <1>3, <2>1
  <2>2. CASE d # c  BY Zenon, <1>2, <1>3, <2>2
  <2> QED  BY Zenon, <2>1, <2>2
<1> QED  BY Zenon, <1>4 DEF SameCreators

LEMMA AwaitCreators ==
    ASSUME JobsInv, NEW c \in Callers, cpc[c] # "create", Await(c)
    PROVE  SameCreators
<1>1. cpc \in [Callers -> CallerPcs]  BY Zenon DEF JobsInv, CallTypes
<1> QED  BY Zenon, <1>1 DEF Await, SameCreators

LEMMA ThreadsQueueCommands ==
    ASSUME JobsInv, ThreadsInv, NEW c \in Callers, JobDelete(c) \/ JobCancel(c) \/ JobExists(c)
    PROVE  ThreadsInv'
<1>1. cpc[c] = "locking" /\ cqueue[c] \in queues /\ deleting \subseteq queues
  BY Zenon DEF JobDelete, JobCancel, JobExists, Locked, JobsInv, Calls, ThreadsInv
<1>2. /\ SameThreads /\ queuelock' = NULL
      /\ UNCHANGED <<poolVars, mpc, njobs>>
      /\ deleting' = deleting \/ deleting' = deleting \union {cqueue[c]}
  BY Zenon DEF JobDelete, JobCancel, JobExists, SameThreads, threadVars
<1>3. SameCreators
  <2>1. CASE JobDelete(c)  BY Zenon, <1>1, <2>1, ReleaseCreators DEF JobDelete
  <2>2. CASE JobCancel(c)
    <3> DEFINE pcs == IF cjob[c] \in jobs \ waited THEN WakeCallers(cpc, cqueue[c]) ELSE cpc
    <3>1. ReleaseQueue(c, refCount[cqueue[c]], deleting, jobs, pcs)
      BY Zenon, <2>2 DEF JobCancel
    <3>2. pcs \in {cpc, WakeCallers(cpc, cqueue[c])}  BY Zenon
    <3> HIDE DEF pcs
    <3> QED  BY Zenon, <1>1, <3>1, <3>2, ReleaseCreators
  <2>3. CASE JobExists(c)  BY Zenon, <1>1, <2>3, ReleaseCreators DEF JobExists
  <2> QED  BY Zenon, <2>1, <2>2, <2>3
<1>4. QueueMarks  BY Zenon, <1>1, <1>2 DEF QueueMarks, poolVars
<1>5. QuietStep
  BY Zenon, <1>2, <1>3, <1>4 DEF QuietStep, poolVars, ThreadsInv, LockTypes
<1> QED  BY Zenon, <1>5, QuietThreads

LEMMA ThreadsWaits ==
    ASSUME JobsInv, ThreadsInv, NEW c \in Callers, JobWait(c) \/ JobWaitAny(c) \/ WaitTimeout(c)
    PROVE  ThreadsInv'
<1>1. cpc[c] # "create"  BY Zenon DEF JobWait, JobWaitAny, WaitTimeout, HasLock
<1>2. queuelock' \in {queuelock, NULL} /\ UNCHANGED <<poolVars, threadVars, deleting, mpc>>
  BY Zenon DEF JobWait, JobWaitAny, WaitTimeout, HasLock
<1>3. (\E js : Leave(c, js)) \/ Await(c)  BY Zenon DEF JobWait, JobWaitAny, WaitTimeout
<1>4. SameCreators
  <2>1. ASSUME NEW js, Leave(c, js) PROVE SameCreators
    BY Zenon, <1>1, <2>1, ReleaseCreators DEF Leave
  <2> QED  BY Zenon, <1>1, <1>3, <2>1, AwaitCreators
<1>5. QueueMarks  BY Zenon, <1>2 DEF QueueMarks, poolVars, ThreadsInv
<1>6. QuietStep
  BY Zenon, <1>2, <1>4, <1>5
  DEF QuietStep, SameThreads, poolVars, threadVars, ThreadsInv, LockTypes
<1> QED  BY Zenon, <1>6, QuietThreads

LEMMA ThreadsReleaseDelete ==
    ASSUME JobsInv, ThreadsInv, NEW c \in Callers, ReleaseDelete(c)
    PROVE  ThreadsInv'
<1>1. /\ cpc[c] = "release" /\ cqueue[c] \in Queues /\ lock[cqueue[c]] = c
      /\ cpc \in [Callers -> CallerPcs]
  BY Zenon DEF ReleaseDelete, JobsInv, Calls, Locks, CallTypes
<1>2. cqueue[c] \in queues
  <2>1. lock[cqueue[c]] # NULL  BY Zenon, <1>1, JobsAssumption
  <2> QED  BY Zenon, <1>1, <2>1 DEF JobsInv, Locks
<1>3. cpc' = [cpc EXCEPT ![c] = "idle"]  BY Zenon DEF ReleaseDelete, Return
<1>4. SameCreators  BY Zenon, <1>1, <1>3 DEF SameCreators
<1>5. QueueGoes(cqueue[c])  BY Zenon, <1>2 DEF ReleaseDelete, QueueGoes
<1>6. SameThreads /\ UNCHANGED <<queuelock, stop, nthreads, nidle, njobs, mpc>>
  BY Zenon DEF ReleaseDelete, SameThreads
<1>7. QuietStep
  BY Zenon, <1>1, <1>4, <1>5, <1>6 DEF QuietStep, ThreadsInv, LockTypes
<1> QED  BY Zenon, <1>7, QuietThreads

LEMMA ThreadsJobCreate ==
    ASSUME JobsInv, ThreadsInv, NEW q \in Queues, JobCreate(q)
    PROVE  ThreadsInv'
<1>1. QueueComes(q)  BY Zenon DEF JobCreate, QueueComes
<1>2. SameThreads /\ SameCreators
      /\ UNCHANGED <<queuelock, stop, nthreads, nidle, njobs, mpc>>
  BY Zenon DEF JobCreate, SameThreads, SameCreators, threadVars, callVars
<1>3. QuietStep  BY Zenon, <1>1, <1>2 DEF QuietStep, ThreadsInv, LockTypes
<1> QED  BY Zenon, <1>3, QuietThreads

LEMMA ThreadsLookupQueue ==
    ASSUME JobsInv, ThreadsInv, NEW c \in Callers, NEW cmd, NEW q, NEW j,
           LookupQueue(c, cmd, q, j)
    PROVE  ThreadsInv'
<1>1. cpc[c] = "idle" /\ cpc \in [Callers -> CallerPcs] /\ deleting \subseteq queues
  BY Zenon DEF LookupQueue, JobsInv, CallTypes, ThreadsInv
<1>2. /\ queuelock' = c /\ cpc' = [cpc EXCEPT ![c] = "locking"]
      /\ UNCHANGED <<poolVars, threadVars, deleting, mpc>>
  BY Zenon DEF LookupQueue, queueVars
<1>3. SameCreators  BY Zenon, <1>1, <1>2 DEF SameCreators
<1>4. QueueMarks  BY Zenon, <1>1, <1>2 DEF QueueMarks, poolVars
<1>5. QuietStep
  BY Zenon, <1>2, <1>3, <1>4
  DEF QuietStep, SameThreads, poolVars, threadVars, ThreadsInv, LockTypes
<1> QED  BY Zenon, <1>5, QuietThreads

LEMMA ThreadsMain ==
    ASSUME JobsInv, ThreadsInv,
           NsStartJobsShutdown \/ NsWaitJobsShutdown \/ ShutdownTimeout \/ UNCHANGED vars
    PROVE  ThreadsInv'
<1>1. /\ UNCHANGED <<queuelock, queues, maxThreads, nthreads, nidle, njobs, deleting, cpc>>
      /\ SameThreads
  BY Zenon DEF NsStartJobsShutdown, NsWaitJobsShutdown, ShutdownTimeout, vars, poolVars,
     queueVars, threadVars, callVars, SameThreads
<1>2. stop' \in BOOLEAN /\ mpc' \in MainPcs
  BY Zenon DEF NsStartJobsShutdown, NsWaitJobsShutdown, ShutdownTimeout, vars, poolVars,
     ThreadsInv, LockTypes, MainPcs
<1>3. QuietStep
  BY Zenon, <1>1, <1>2 DEF QuietStep, SameCreators, QueueMarks, ThreadsInv
<1> QED  BY Zenon, <1>3, QuietThreads

LEMMA LockedRelease ==
    ASSUME ThreadsInv, NEW q \in queues, NEW refs, NEW js, ReleaseLocked(q, refs, js)
    PROVE  QueueMarks \/ QueueGoes(q)
BY Zenon DEF ReleaseLocked, QueueMarks, QueueGoes, ThreadsInv

(* The caller that is to create a thread is counted before the thread is.  *)
LEMMA ThreadsJobQueue ==
    ASSUME JobsInv, ThreadsInv, NEW c \in Callers, JobQueue(c)
    PROVE  ThreadsInv'
<1> DEFINE q == cqueue[c]
<1>1. /\ cpc[c] = "locking" /\ q \in queues /\ q \in Queues
      /\ cpc \in [Callers -> CallerPcs]
  BY Zenon DEF JobQueue, Locked, JobsInv, Calls, CallTypes
<1>2. /\ SameThreads /\ queuelock' = NULL /\ UNCHANGED <<stop, nidle, njobs, mpc>>
      /\ ReleaseLocked(q, refCount[q], jobs')
      /\ \/ nthreads' = nthreads + 1 /\ cpc' = [cpc EXCEPT ![c] = "create"]
         \/ nthreads' = nthreads /\ cpc' = [cpc EXCEPT ![c] = "idle"]
  BY Zenon DEF JobQueue, SameThreads, Return
<1>3. QueueMarks \/ QueueGoes(q)  BY Zenon, <1>1, <1>2, LockedRelease
<1>4. maxThreads' = Cardinality(Places(queues')) /\ deleting' \subseteq queues'
  BY Zenon, <1>1, <1>3, QueueSteps
<1>5. CASE nthreads' = nthreads /\ cpc' = [cpc EXCEPT ![c] = "idle"]
  <2>1. SameCreators  BY Zenon, <1>1, <1>5 DEF SameCreators
  <2>2. QuietStep  BY Zenon, <1>1, <1>2, <1>3, <1>5, <2>1 DEF QuietStep, ThreadsInv, LockTypes
  <2> QED  BY Zenon, <2>2, QuietThreads
<1>6. CASE nthreads' = nthreads + 1 /\ cpc' = [cpc EXCEPT ![c] = "create"]
  <2>1. JobsLeft' /\ Alive(tpc') = Alive(tpc) /\ Idle(tpc') = Idle(tpc)
    BY Zenon, <1>2, ThreadsKeep DEF ThreadsInv
  <2> DEFINE S == Creating(cpc)
             T == Creating(cpc')
  <2>2. S \in SUBSET Callers /\ T \in SUBSET Callers  BY Zenon DEF Creating
  <2>3. S \ {c} = T \ {c} /\ c \notin S /\ c \in T  BY Zenon, <1>1, <1>6 DEF Creating
  <2> DEFINE a == Cardinality(Alive(tpc))
             s == Cardinality(S)
             u == Cardinality(T)
  <2>4. s \in Nat /\ u = s - Ind(c, S) + Ind(c, T)
    <3>1. IsFiniteSet(Callers)  BY Zenon, JobsAssumption
    <3> HIDE DEF S, T
    <3> QED  BY <2>2, <2>3, <3>1, SetUpdate
  <2>5. nthreads = a + s  BY Zenon DEF ThreadsInv, Counters
  <2>6. a \in Nat
    <3>1. Alive(tpc) \in SUBSET Threads  BY Zenon DEF Alive
    <3> QED  BY Zenon, <3>1, JobsAssumption, FS_Subset, FS_CardinalityType
  <2> HIDE DEF S, T, a, s, u
  <2>7. nthreads' = a + u  BY <1>6, <2>3, <2>4, <2>5, <2>6 DEF Ind
  <2>8. Counters'  BY Zenon, <1>2, <1>4, <2>1, <2>7 DEF Counters, ThreadsInv, a, u, T
  <2>9. LockTypes'  BY Zenon, <1>2 DEF LockTypes, ThreadsInv
  <2> QED  BY Zenon, <1>4, <2>1, <2>8, <2>9 DEF ThreadsInv
<1> QED  BY Zenon, <1>2, <1>5, <1>6

-----------------------------------------------------------------------------
(* The steps of the threads.                                               *)

(* Thread t goes to p, perhaps with a broadcast.                           *)
Goes(t, p) == tpc' = [tpc EXCEPT ![t] = p] \/ tpc' = [WakeThreads(tpc) EXCEPT ![t] = p]

LEMMA ThreadGoes ==
    ASSUME JobsInv, NEW t \in Threads, NEW p \in ThreadPcs, Goes(t, p)
    PROVE  /\ tpc'[t] = p
           /\ \A u \in Threads : u # t =>
                 (tpc'[u] \in {"none", "start"} <=> tpc[u] \in {"none", "start"})
           /\ Alive(tpc') \ {t} = Alive(tpc) \ {t}
           /\ Idle(tpc') \ {t} = Idle(tpc) \ {t}
<1>1. tpc \in [Threads -> ThreadPcs]  BY Zenon DEF JobsInv, PoolTypes
<1>2. WakeThreads(tpc) = [u \in Threads |-> WakeThreads(tpc)[u]]  BY Zenon DEF WakeThreads
<1>3. tpc'[t] = p  BY Zenon, <1>1, <1>2 DEF Goes
<1>4. ASSUME NEW u \in Threads, u # t
      PROVE  /\ tpc'[u] = "none" <=> tpc[u] = "none"
             /\ tpc'[u] = "start" <=> tpc[u] = "start"
             /\ tpc'[u] \in {"wait", "woken"} <=> tpc[u] \in {"wait", "woken"}
  <2>1. /\ WakeThreads(tpc)[u] = "none" <=> tpc[u] = "none"
        /\ WakeThreads(tpc)[u] = "start" <=> tpc[u] = "start"
        /\ WakeThreads(tpc)[u] \in {"wait", "woken"} <=> tpc[u] \in {"wait", "woken"}
    BY Zenon, <1>1, WakeKeeps
  <2>2. tpc'[u] = tpc[u] \/ tpc'[u] = WakeThreads(tpc)[u]  BY Zenon, <1>1, <1>2, <1>4 DEF Goes
  <2>3. CASE tpc'[u] = tpc[u]  BY Zenon, <2>3
  <2>4. CASE tpc'[u] = WakeThreads(tpc)[u]  BY Zenon, <2>1, <2>4
  <2> QED  BY Zenon, <2>2, <2>3, <2>4
<1>5. \A u \in Threads : u # t =>
         (tpc'[u] \in {"none", "start"} <=> tpc[u] \in {"none", "start"})
  BY Zenon, <1>4
<1>6. Alive(tpc') \ {t} = Alive(tpc) \ {t}  BY Zenon, <1>4 DEF Alive
<1>7. Idle(tpc') \ {t} = Idle(tpc) \ {t}  BY Zenon, <1>4 DEF Idle
<1> QED  BY Zenon, <1>3, <1>5, <1>6, <1>7

(* The counters follow it.                                                 *)
LEMMA GoesCounts ==
    ASSUME JobsInv, ThreadsInv, NEW t \in Threads, NEW p \in ThreadPcs, Goes(t, p)
    PROVE  /\ Cardinality(Alive(tpc)) \in Nat /\ Cardinality(Idle(tpc)) \in Nat
           /\ Cardinality(Alive(tpc')) = Cardinality(Alive(tpc))
                 - (IF tpc[t] # "none" THEN 1 ELSE 0) + (IF p # "none" THEN 1 ELSE 0)
           /\ Cardinality(Idle(tpc')) = Cardinality(Idle(tpc)) - WasIdle(t)
                 + (IF p \in {"wait", "woken"} THEN 1 ELSE 0)
<1>1. /\ Alive(tpc) \in SUBSET Threads /\ Alive(tpc') \in SUBSET Threads
      /\ Idle(tpc) \in SUBSET Threads /\ Idle(tpc') \in SUBSET Threads
      /\ IsFiniteSet(Threads)
  BY Zenon, JobsAssumption DEF Alive, Idle
<1>2. /\ tpc'[t] = p /\ Alive(tpc') \ {t} = Alive(tpc) \ {t}
      /\ Idle(tpc') \ {t} = Idle(tpc) \ {t}
  BY Zenon, ThreadGoes
<1>3. ASSUME NEW S \in SUBSET Threads, NEW T \in SUBSET Threads, T \ {t} = S \ {t}
      PROVE  /\ Cardinality(S) \in Nat
             /\ Cardinality(T) = Cardinality(S) - Ind(t, S) + Ind(t, T)
  BY <1>1, <1>3, SetUpdate
<1>4. /\ Cardinality(Alive(tpc)) \in Nat /\ Cardinality(Idle(tpc)) \in Nat
      /\ Cardinality(Alive(tpc')) = Cardinality(Alive(tpc)) - Ind(t, Alive(tpc))
                                    + Ind(t, Alive(tpc'))
      /\ Cardinality(Idle(tpc')) = Cardinality(Idle(tpc)) - Ind(t, Idle(tpc))
                                   + Ind(t, Idle(tpc'))
  BY Zenon, <1>1, <1>2, <1>3
<1>5. /\ Ind(t, Alive(tpc)) = IF tpc[t] # "none" THEN 1 ELSE 0
      /\ Ind(t, Alive(tpc')) = IF p # "none" THEN 1 ELSE 0
  BY Zenon, <1>2 DEF Ind, Alive
<1>6. /\ Ind(t, Idle(tpc)) = WasIdle(t)
      /\ Ind(t, Idle(tpc')) = IF p \in {"wait", "woken"} THEN 1 ELSE 0
  BY Zenon, <1>2 DEF Ind, Idle, WasIdle
<1> QED  BY Zenon, <1>4, <1>5, <1>6

(* All steps of threads, but the first.                                    *)
Moves(t, p) ==
    /\ Goes(t, p) /\ SameCreators /\ tpc[t] # "none"
    /\ nthreads' = IF p # "none" THEN nthreads ELSE nthreads - 1
    /\ nidle' = nidle - WasIdle(t) + (IF p \in {"wait", "woken"} THEN 1 ELSE 0)
    /\ queuelock' \in {t, NULL} /\ stop' = stop /\ mpc' \in MainPcs
    /\ QueueMarks \/ \E q \in Queues : QueueGoes(q)
    /\ njobs' \in [Threads -> 0 .. JobsPerThread]
    /\ \A u \in Threads : u # t => njobs'[u] = njobs[u]
    /\ p # "none" /\ JobsPerThread # 0 => njobs'[t] # 0

LEMMA MovesThreads ==
    ASSUME JobsInv, ThreadsInv, NEW t \in Threads, NEW p \in ThreadPcs, Moves(t, p)
    PROVE  ThreadsInv'
<1>1. maxThreads' = Cardinality(Places(queues')) /\ deleting' \subseteq queues'
  BY Zenon, QueueSteps DEF Moves
<1>2. Creating(cpc') = Creating(cpc)  BY Zenon, CreatorsKeep DEF Moves
<1> DEFINE a == Cardinality(Alive(tpc))
           b == Cardinality(Alive(tpc'))
           i == Cardinality(Idle(tpc))
           k == Cardinality(Idle(tpc'))
           c == Cardinality(Creating(cpc))
<1>3. /\ a \in Nat /\ i \in Nat
      /\ b = a - (IF tpc[t] # "none" THEN 1 ELSE 0) + (IF p # "none" THEN 1 ELSE 0)
      /\ k = i - WasIdle(t) + (IF p \in {"wait", "woken"} THEN 1 ELSE 0)
  BY Zenon, GoesCounts DEF Moves
<1>4. c \in Nat
  <2>1. Creating(cpc) \in SUBSET Callers  BY Zenon DEF Creating
  <2> QED  BY Zenon, <2>1, JobsAssumption, FS_Subset, FS_CardinalityType
<1>5. nthreads = a + c /\ nidle = i  BY Zenon DEF ThreadsInv, Counters
<1> HIDE DEF a, b, i, k, c
<1>6. nthreads' = b + c
  <2>1. b = IF p # "none" THEN a ELSE a - 1  BY <1>3 DEF Moves
  <2> QED  BY <1>3, <1>4, <1>5, <2>1 DEF Moves
<1>7. nidle' = k  BY Zenon, <1>3, <1>5 DEF Moves
<1>8. Counters'  BY Zenon, <1>1, <1>2, <1>6, <1>7 DEF Counters, b, c, k
<1>9. LockTypes'  BY Zenon DEF LockTypes, ThreadsInv, Moves
<1>10. JobsLeft'
  <2>1. /\ tpc'[t] = p
        /\ \A u \in Threads : u # t =>
              (tpc'[u] \in {"none", "start"} <=> tpc[u] \in {"none", "start"})
    BY Zenon, ThreadGoes DEF Moves
  <2> QED  BY Zenon, <2>1 DEF JobsLeft, ThreadsInv, Moves
<1> QED  BY Zenon, <1>1, <1>8, <1>9, <1>10 DEF ThreadsInv

LEMMA IdleTypes ==
    ASSUME ThreadsInv, NEW t \in Threads
    PROVE  nidle \in Nat /\ WasIdle(t) \in {0, 1}
<1>1. Idle(tpc) \in SUBSET Threads  BY Zenon DEF Idle
<1>2. Cardinality(Idle(tpc)) \in Nat
  BY Zenon, <1>1, JobsAssumption, FS_Subset, FS_CardinalityType
<1> QED  BY Zenon, <1>2 DEF WasIdle, ThreadsInv, Counters

LEMMA ThreadsExits ==
    ASSUME JobsInv, ThreadsInv, NEW t \in Threads, StopThread(t) \/ IdleTimedOut(t)
    PROVE  ThreadsInv'
<1>1. /\ Goes(t, "none") /\ nthreads' = nthreads - 1 /\ tpc[t] # "none" /\ queuelock' = NULL
      /\ mpc' \in {"stopping", mpc}
      /\ UNCHANGED <<stop, queues, maxThreads, deleting, njobs, cpc>>
  BY Zenon DEF StopThread, IdleTimedOut, Exit, Goes, HasQueuelock, queueVars, callVars
<1>2. nidle' = nidle - WasIdle(t)  BY Zenon DEF StopThread, IdleTimedOut, WasIdle
<1>3. nidle \in Nat /\ WasIdle(t) \in {0, 1}  BY Zenon, IdleTypes
<1>4. nidle' = nidle - WasIdle(t) + 0  BY <1>2, <1>3
<1>5. "none" \in ThreadPcs  BY Zenon DEF ThreadPcs
<1>6. Moves(t, "none")
  BY Zenon, <1>1, <1>4
  DEF Moves, SameCreators, QueueMarks, ThreadsInv, LockTypes, JobsLeft, MainPcs
<1> QED  BY Zenon, <1>5, <1>6, MovesThreads

(* A thread that starts has all its jobs before it.                        *)
LEMMA JobsOfStarter ==
    ASSUME ThreadsInv, NEW t \in Threads, tpc[t] # "none",
           njobs' = IF tpc[t] = "start" THEN [njobs EXCEPT ![t] = JobsPerThread] ELSE njobs
    PROVE  /\ njobs' \in [Threads -> 0 .. JobsPerThread]
           /\ \A u \in Threads : u # t => njobs'[u] = njobs[u]
           /\ JobsPerThread # 0 => njobs'[t] # 0
<1>1. JobsPerThread \in 0 .. JobsPerThread  BY JobsAssumption
<1> QED  BY Zenon, <1>1 DEF ThreadsInv, JobsLeft

LEMMA ThreadsWaitForJob ==
    ASSUME JobsInv, ThreadsInv, NEW t \in Threads, WaitForJob(t)
    PROVE  ThreadsInv'
<1>1. /\ Goes(t, "wait") /\ tpc[t] # "none" /\ queuelock' = NULL
      /\ njobs' = IF tpc[t] = "start" THEN [njobs EXCEPT ![t] = JobsPerThread] ELSE njobs
      /\ UNCHANGED <<stop, queues, maxThreads, nthreads, deleting, cpc, mpc>>
      /\ nidle' = nidle + 1 - WasIdle(t)
  BY Zenon DEF WaitForJob, Goes, HasQueuelock, queueVars, callVars
<1>2. nidle \in Nat /\ WasIdle(t) \in {0, 1}  BY Zenon, IdleTypes
<1>3. nidle' = nidle - WasIdle(t) + 1  BY <1>1, <1>2
<1>4. "wait" \in ThreadPcs  BY Zenon DEF ThreadPcs
<1>5. Moves(t, "wait")
  BY Zenon, <1>1, <1>3, JobsOfStarter DEF Moves, SameCreators, QueueMarks, ThreadsInv, LockTypes
<1> QED  BY Zenon, <1>4, <1>5, MovesThreads

LEMMA ThreadsRunJob ==
    ASSUME JobsInv, ThreadsInv, NEW t \in Threads, NEW k, RunJob(t, k)
    PROVE  ThreadsInv'
<1>1. /\ Goes(t, "run") /\ tpc[t] # "none" /\ queuelock' = NULL
      /\ njobs' = IF tpc[t] = "start" THEN [njobs EXCEPT ![t] = JobsPerThread] ELSE njobs
      /\ UNCHANGED <<stop, queues, maxThreads, nthreads, deleting, cpc, mpc>>
      /\ nidle' = nidle - WasIdle(t)
  BY Zenon DEF RunJob, Goes, HasQueuelock, callVars
<1>2. nidle \in Nat /\ WasIdle(t) \in {0, 1}  BY Zenon, IdleTypes
<1>3. nidle' = nidle - WasIdle(t) + 0  BY <1>1, <1>2
<1>4. "run" \in ThreadPcs  BY Zenon DEF ThreadPcs
<1>5. Moves(t, "run")
  BY Zenon, <1>1, <1>3, JobsOfStarter DEF Moves, SameCreators, QueueMarks, ThreadsInv, LockTypes
<1> QED  BY Zenon, <1>4, <1>5, MovesThreads

LEMMA ThreadsJobDone ==
    ASSUME JobsInv, ThreadsInv, NEW t \in Threads, JobDone(t)
    PROVE  ThreadsInv'
<1> DEFINE j == tjob[t]
           q == QueueOf[j]
           left == njobs[t] - 1
           p == IF JobsPerThread # 0 /\ left <= 0 THEN "none" ELSE "next"
<1>1. /\ tpc[t] = "run" /\ ReleaseLocked(q, refCount[q] - 1, jobs') /\ cpc' = WakeCallers(cpc, q)
      /\ njobs' = IF JobsPerThread = 0 THEN njobs ELSE [njobs EXCEPT ![t] = left]
      /\ UNCHANGED <<stop, nidle>>
  BY Zenon DEF JobDone
<1>2. /\ Goes(t, p) /\ queuelock' \in {t, NULL} /\ mpc' \in {"stopping", mpc}
      /\ nthreads' = IF p # "none" THEN nthreads ELSE nthreads - 1
  <2>1. CASE JobsPerThread # 0 /\ left <= 0  BY Zenon, <2>1 DEF JobDone, Exit, Goes
  <2>2. CASE ~(JobsPerThread # 0 /\ left <= 0)  BY Zenon, <2>2 DEF JobDone, Goes
  <2> QED  BY Zenon, <2>1, <2>2
<1>3. q \in queues /\ q \in Queues
  <2>1. j \in jobs /\ j \in Jobs  BY Zenon, <1>1 DEF JobsInv, Runners, PoolTypes
  <2>2. q \in Queues /\ j \in JobsIn(q, jobs)  BY Zenon, <2>1, JobsAssumption DEF JobsIn
  <2> QED  BY Zenon, <2>2 DEF JobsInv, Refs
<1>4. QueueMarks \/ QueueGoes(q)  BY Zenon, <1>1, <1>3, LockedRelease
<1>5. SameCreators
  <2>1. cpc \in [Callers -> CallerPcs]  BY Zenon DEF JobsInv, CallTypes
  <2> QED  BY Zenon, <1>1, <2>1 DEF WakeCallers, SameCreators
<1>6. nidle' = nidle - WasIdle(t) + 0
  <2>1. nidle \in Nat /\ WasIdle(t) = 0  BY Zenon, <1>1, IdleTypes DEF WasIdle
  <2> QED  BY <1>1, <2>1
<1>7. /\ njobs' \in [Threads -> 0 .. JobsPerThread]
      /\ \A u \in Threads : u # t => njobs'[u] = njobs[u]
      /\ p # "none" /\ JobsPerThread # 0 => njobs'[t] # 0
  <2>1. /\ njobs \in [Threads -> 0 .. JobsPerThread] /\ JobsPerThread \in Nat
        /\ JobsPerThread # 0 => njobs[t] # 0
    BY Zenon, <1>1, JobsAssumption DEF ThreadsInv, JobsLeft
  <2>2. CASE JobsPerThread = 0  BY Zenon, <1>1, <2>1, <2>2
  <2>3. CASE JobsPerThread # 0
    <3>1. njobs[t] \in 0 .. JobsPerThread /\ njobs[t] # 0  BY Zenon, <2>1, <2>3
    <3>2. left \in 0 .. JobsPerThread /\ (left = 0 => left <= 0)  BY <2>1, <3>1
    <3> QED  BY Zenon, <1>1, <2>1, <2>3, <3>2
  <2> QED  BY Zenon, <2>2, <2>3
<1>8. p \in ThreadPcs /\ p \notin {"wait", "woken"}  BY Zenon DEF ThreadPcs
<1> HIDE DEF p, q, left
<1>9. Moves(t, p)
  BY Zenon, <1>1, <1>2, <1>3, <1>4, <1>5, <1>6, <1>7, <1>8
  DEF Moves, ThreadsInv, LockTypes, MainPcs
<1> QED  BY Zenon, <1>8, <1>9, MovesThreads

(* The new thread is counted in place of the caller that creates it.       *)
LEMMA ThreadsThreadCreate ==
    ASSUME JobsInv, ThreadsInv, NEW c \in Callers, ThreadCreate(c)
    PROVE  ThreadsInv'
<1>1. PICK t \in Threads : tpc[t] = "none" /\ tpc' = [tpc EXCEPT ![t] = "start"]
  BY Zenon DEF ThreadCreate
<1>2. /\ cpc[c] = "create" /\ cpc' = [cpc EXCEPT ![c] = "idle"]
      /\ UNCHANGED <<queuelock, poolVars, deleting, njobs, mpc>>
  BY Zenon DEF ThreadCreate, Return, queueVars
<1>3. Goes(t, "start") /\ "start" \in ThreadPcs  BY Zenon, <1>1 DEF Goes, ThreadPcs
<1>4. cpc \in [Callers -> CallerPcs] /\ IsFiniteSet(Callers)
  BY Zenon, JobsAssumption DEF JobsInv, CallTypes
<1> DEFINE a == Cardinality(Alive(tpc))
           b == Cardinality(Alive(tpc'))
           i == Cardinality(Idle(tpc))
           k == Cardinality(Idle(tpc'))
           S == Creating(cpc)
           T == Creating(cpc')
<1>5. a \in Nat /\ i \in Nat /\ b = a - 0 + 1 /\ k = i - 0 + 0
  <2>1. WasIdle(t) = 0  BY Zenon, <1>1 DEF WasIdle
  <2>2. /\ a \in Nat /\ i \in Nat
        /\ b = a - (IF tpc[t] # "none" THEN 1 ELSE 0) + (IF "start" # "none" THEN 1 ELSE 0)
        /\ k = i - WasIdle(t) + (IF "start" \in {"wait", "woken"} THEN 1 ELSE 0)
    BY Zenon, <1>3, GoesCounts
  <2> QED  BY Zenon, <1>1, <2>1, <2>2
<1>6. S \in SUBSET Callers /\ T \in SUBSET Callers /\ S \ {c} = T \ {c} /\ c \in S /\ c \notin T
  BY Zenon, <1>2, <1>4 DEF Creating
<1>7. nthreads = a + Cardinality(S) /\ nidle = i  BY Zenon DEF ThreadsInv, Counters
<1> HIDE DEF a, b, i, k, S, T
<1>8. Cardinality(S) \in Nat /\ Cardinality(T) = Cardinality(S) - Ind(c, S) + Ind(c, T)
  BY <1>4, <1>6, SetUpdate
<1>9. Cardinality(T) = Cardinality(S) - 1  BY <1>6, <1>8 DEF Ind
<1>10. nthreads = b + Cardinality(T) /\ nidle = k  BY <1>5, <1>7, <1>8, <1>9
<1>11. Counters'
  BY Zenon, <1>2, <1>10 DEF Counters, ThreadsInv, poolVars, b, k, T
<1>12. JobsLeft'
  <2>1. /\ tpc'[t] = "start"
        /\ \A u \in Threads : u # t =>
              (tpc'[u] \in {"none", "start"} <=> tpc[u] \in {"none", "start"})
    BY Zenon, <1>3, ThreadGoes
  <2> QED  BY Zenon, <1>2, <2>1 DEF JobsLeft, ThreadsInv
<1> QED  BY Zenon, <1>2, <1>11, <1>12 DEF ThreadsInv, LockTypes, poolVars

LEMMA ThreadsInit == Init => ThreadsInv
<1> SUFFICES ASSUME Init PROVE ThreadsInv  BY Zenon
<1>1. /\ Alive(tpc) = {} /\ Idle(tpc) = {} /\ Creating(cpc) = {} /\ Places(queues) = {}
  BY Zenon DEF Init, Alive, Idle, Creating, Places
<1>2. Cardinality({}) = 0 /\ 0 = 0 + 0  BY FS_EmptySet
<1>3. Counters  BY Zenon, <1>1, <1>2 DEF Counters, Init
<1>4. 0 \in 0 .. JobsPerThread  BY JobsAssumption
<1> QED  BY Zenon, <1>3, <1>4 DEF ThreadsInv, LockTypes, JobsLeft, MainPcs, Init

LEMMA ThreadsCallerStep ==
    ASSUME JobsInv, ThreadsInv, NEW c \in Callers, CallerStep(c) \/ WaitTimeout(c)
    PROVE  ThreadsInv'
BY ZenonT(30), ThreadsQueueCommands, ThreadsJobQueue, ThreadsThreadCreate, ThreadsWaits,
   ThreadsReleaseDelete DEF CallerStep

LEMMA ThreadsThreadStep ==
    ASSUME JobsInv, ThreadsInv, NEW t \in Threads, ThreadStep(t) \/ IdleTimedOut(t)
    PROVE  ThreadsInv'
BY ZenonT(30), ThreadsExits, ThreadsWaitForJob, ThreadsJobDone, ThreadsRunJob DEF ThreadStep

LEMMA ThreadsStepInv == JobsInv /\ ThreadsInv /\ [Next]_vars => ThreadsInv'
<1> SUFFICES ASSUME JobsInv, ThreadsInv, [Next]_vars PROVE ThreadsInv'  BY Zenon
<1>1. ASSUME NEW q \in Queues, JobCreate(q) PROVE ThreadsInv'  BY Zenon, <1>1, ThreadsJobCreate
<1>2. ASSUME NEW c \in Callers, NEW cmd \in Commands, NEW q \in Queues,
             NEW j \in IF cmd \in QueueCommands THEN {NULL} ELSE JobsIn(q, Jobs),
             LookupQueue(c, cmd, q, j)
      PROVE  ThreadsInv'
  BY Zenon, <1>2, ThreadsLookupQueue
<1>3. ASSUME NEW c \in Callers, CallerStep(c) \/ WaitTimeout(c) PROVE ThreadsInv'
  BY Zenon, <1>3, ThreadsCallerStep
<1>4. ASSUME NEW t \in Threads, ThreadStep(t) \/ IdleTimedOut(t) PROVE ThreadsInv'
  BY Zenon, <1>4, ThreadsThreadStep
<1>5. CASE NsStartJobsShutdown \/ NsWaitJobsShutdown \/ ShutdownTimeout \/ UNCHANGED vars
  BY Zenon, <1>5, ThreadsMain
<1> QED  BY <1>1, <1>2, <1>3, <1>4, <1>5, Zenon DEF Next

LEMMA ThreadsInvariant == Spec => [](JobsInv /\ ThreadsInv)
BY InvInit, InvStep, ThreadsInit, ThreadsStepInv, PTL DEF Spec

(* The counters by which JobQueue decides whether to create a thread are   *)
(* exact: tp.nthreads counts the threads and those that are about to be    *)
(* created, tp.nidle those in the wait for tp.cond, and tp.maxThreads is   *)
(* the sum over the queues that exist.                                     *)
THEOREM PoolCountersExact == Spec => []PoolCounts
<1>1. JobsInv /\ ThreadsInv => PoolCounts
  <2> SUFFICES ASSUME JobsInv, ThreadsInv PROVE PoolCounts  BY Zenon
  <2>1. maxThreads = MapThenSumSet(LAMBDA q : MaxThreadsOf[q], queues)
    <3>1. queues \in SUBSET Queues /\ maxThreads = Cardinality(Places(queues))
      BY Zenon DEF JobsInv, PoolTypes, ThreadsInv, Counters
    <3> QED  BY Zenon, <3>1, SumIsPlaces
  <2> QED  BY Zenon, <2>1 DEF PoolCounts, ThreadsInv, Counters, Alive, Idle, Creating
<1> QED  BY <1>1, ThreadsInvariant, PTL

(* Every variable keeps its type: no counter of the pool or of a queue     *)
(* becomes negative, only queues that exist are marked to be deleted, and  *)
(* what JobThread has left of tp.jobsPerThread never falls below zero.     *)
THEOREM JobTypes == Spec => []TypeOK
<1>1. JobsInv /\ ThreadsInv => TypeOK
  <2> SUFFICES ASSUME JobsInv, ThreadsInv PROVE TypeOK  BY Zenon
  <2>1. maxThreads \in Nat /\ nthreads \in Nat /\ nidle \in Nat
    <3> DEFINE a == Cardinality(Alive(tpc))
               c == Cardinality(Creating(cpc))
               i == Cardinality(Idle(tpc))
               m == Cardinality(Places(queues))
    <3>1. /\ Alive(tpc) \in SUBSET Threads /\ Idle(tpc) \in SUBSET Threads
          /\ Creating(cpc) \in SUBSET Callers /\ queues \in SUBSET Queues
      BY Zenon DEF Alive, Idle, Creating, JobsInv, PoolTypes
    <3>2. /\ IsFiniteSet(Alive(tpc)) /\ IsFiniteSet(Idle(tpc)) /\ IsFiniteSet(Creating(cpc))
          /\ IsFiniteSet(Places(queues))
      BY Zenon, <3>1, JobsAssumption, FS_Subset, PlacesFinite
    <3>3. a \in Nat /\ c \in Nat /\ i \in Nat /\ m \in Nat
      BY Zenon, <3>2, FS_CardinalityType
    <3>4. nthreads = a + c /\ nidle = i /\ maxThreads = m  BY Zenon DEF ThreadsInv, Counters
    <3> HIDE DEF a, c, i, m
    <3> QED  BY <3>3, <3>4
  <2>2. nRunning \in [Queues -> Nat] /\ refCount \in [Queues -> Nat]
    <3>1. nRunning \in [Queues -> Int] /\ refCount \in [Queues -> Int]
      BY Zenon DEF JobsInv, PoolTypes
    <3>2. \A q \in Queues : nRunning[q] \in Nat /\ refCount[q] \in Nat
      BY Zenon, RefTypes DEF JobsInv, Refs
    <3> QED  BY Zenon, <3>1, <3>2
  <2>3. waited \subseteq jobs  BY Zenon DEF JobsInv, Waiters
  <2>4. /\ tpc \in [Threads -> {"none", "start", "wait", "woken", "run", "next"}]
        /\ cpc \in [Callers -> {"idle", "locking", "waiting", "woken", "create", "release"}]
    <3>1. CallerPcs = {"idle", "locking", "waiting", "woken", "create", "release"}
      BY DEF CallerPcs, WaitPcs
    <3> QED  BY Zenon, <3>1 DEF JobsInv, PoolTypes, CallTypes, ThreadPcs
  <2> QED
    BY Zenon, <2>1, <2>2, <2>3, <2>4
    DEF TypeOK, JobsInv, PoolTypes, CallTypes, ThreadsInv, LockTypes, JobsLeft, MainPcs
<1> QED  BY <1>1, ThreadsInvariant, PTL
=============================================================================
