----------------------------- MODULE SchedProofs ----------------------------
(***************************************************************************)
(* The scheduler, for every number of events, threads and times and every  *)
(* jobsperthread.                                                          *)
(*                                                                         *)
(* The counters of the event threads are exact, also when events are       *)
(* resumed in a run (ResumeRunning).  Without that, every event has one    *)
(* owner, and every queued event knows its position in the array.  The     *)
(* argument: the array and the positions are inverse to each other, which  *)
(* every exchange keeps, and so every swim, sink, insertion and removal,   *)
(* however long their loops are (HeapsOf); and the queue, the lists of     *)
(* SchedThread and of the threads, and the events in a run are disjoint    *)
(* sets that hold all events that are allocated and not paused (Placed).   *)
(* That a freed event has left the table, and that nothing is scheduled    *)
(* once the scheduler has stopped, follows from where the threads are      *)
(* (PhaseInv, ThreadInv, EventsInv).                                       *)
(***************************************************************************)
EXTENDS Sched, Counting

-----------------------------------------------------------------------------
(* The counters.                                                           *)
LivePcs == ThreadPcs \ {"none"}
IdlePcs == ThreadPcs \ {"none", "run"}

(* ThreadCounts for threads that are where p says, with counters n and m.  *)
Accounted(p, n, m) ==
    /\ p \in [Threads -> ThreadPcs]
    /\ n = Count(Threads, p, LivePcs) /\ m = Count(Threads, p, IdlePcs)

CountInv == Accounted(tpc, nThreads, nIdleThreads)

LEMMA CountForm == CountInv => ThreadCounts
<1> SUFFICES ASSUME CountInv PROVE ThreadCounts
  OBVIOUS
<1>1. \A t \in Threads : tpc[t] \in ThreadPcs  BY DEF CountInv, Accounted
<1>2. {t \in Threads : tpc[t] # "none"} = {t \in Threads : tpc[t] \in LivePcs}
  BY <1>1 DEF LivePcs
<1>3. {t \in Threads : tpc[t] \notin {"none", "run"}} = {t \in Threads : tpc[t] \in IdlePcs}
  BY <1>1 DEF IdlePcs
<1> QED  BY <1>2, <1>3 DEF CountInv, Accounted, ThreadCounts, Count

(* One thread changes its control state.                                   *)
LEMMA MoveCounts ==
    ASSUME NEW p, NEW n, NEW m, Accounted(p, n, m), NEW t \in Threads, NEW v \in ThreadPcs
    PROVE  Accounted([p EXCEPT ![t] = v],
                     n - Ind(p[t], LivePcs) + Ind(v, LivePcs),
                     m - Ind(p[t], IdlePcs) + Ind(v, IdlePcs))
<1> DEFINE q == [p EXCEPT ![t] = v]
<1>1. p \in [Threads -> ThreadPcs]  BY DEF Accounted
<1>2. q \in [Threads -> ThreadPcs] /\ q[t] = v  BY <1>1
<1>3. DiffersAt(Threads, p, q, t)  BY <1>1 DEF DiffersAt
<1>4. IsFiniteSet(Threads)  BY SchedAssumption
<1> HIDE DEF q
<1>5. \A P : Count(Threads, q, P) = Count(Threads, p, P) - Ind(p[t], P) + Ind(q[t], P)
  BY <1>3, <1>4, CountUpdate, SMTT(30)
<1>6. /\ n = Count(Threads, p, LivePcs) /\ m = Count(Threads, p, IdlePcs)
  BY DEF Accounted
<1>7. Accounted(q, n - Ind(p[t], LivePcs) + Ind(v, LivePcs),
                   m - Ind(p[t], IdlePcs) + Ind(v, IdlePcs))
  BY <1>2, <1>5, <1>6 DEF Accounted
<1> QED  BY <1>7 DEF q

(* A thread that is woken stays alive and idle.                            *)
LEMMA SignalCounts ==
    ASSUME NEW p, NEW n \in Int, NEW m \in Int, Accounted(p, n, m), NEW q \in SignalEvent(p)
    PROVE  Accounted(q, n, m)
<1>1. CASE q = p  BY <1>1
<1>2. CASE q # p
  <2>1. PICK t \in Threads : p[t] = "wait" /\ q = [p EXCEPT ![t] = "begin"]
    BY <1>2 DEF SignalEvent
  <2>2. "begin" \in ThreadPcs  BY DEF ThreadPcs
  <2>3. Accounted(q, n - Ind("wait", LivePcs) + Ind("begin", LivePcs),
                     m - Ind("wait", IdlePcs) + Ind("begin", IdlePcs))
    BY <2>1, <2>2, MoveCounts
  <2>4. /\ Ind("wait", LivePcs) = 1 /\ Ind("begin", LivePcs) = 1
        /\ Ind("wait", IdlePcs) = 1 /\ Ind("begin", IdlePcs) = 1
    BY DEF Ind, LivePcs, IdlePcs, ThreadPcs
  <2>5. n - 1 + 1 = n /\ m - 1 + 1 = m  OBVIOUS
  <2> QED  BY <2>3, <2>4, <2>5
<1> QED  BY <1>1, <1>2

LEMMA CountTypes == CountInv => nThreads \in Int /\ nIdleThreads \in Int
<1> SUFFICES ASSUME CountInv PROVE nThreads \in Int /\ nIdleThreads \in Int
  OBVIOUS
<1>1. IsFiniteSet(Threads)  BY SchedAssumption
<1> QED  BY <1>1, CountType DEF CountInv, Accounted

(* SchedThread creates a thread, wakes one, or leaves them alone.          *)
LEMMA CountsDispatch ==
    ASSUME CountInv, NEW list, Dispatch(list)
    PROVE  CountInv'
<1> USE DEF CountInv
<1>0. nThreads \in Int /\ nIdleThreads \in Int  BY CountTypes
<1>1. CASE UNCHANGED <<tpc, nThreads, nIdleThreads>>
  BY <1>1
<1>2. CASE \E t \in Threads :
             /\ tpc[t] = "none"
             /\ tpc' \in SignalEvent([tpc EXCEPT ![t] = "begin"])
             /\ nIdleThreads' = nIdleThreads + 1 /\ nThreads' = nThreads + 1
  <2>1. PICK t \in Threads : /\ tpc[t] = "none"
                             /\ tpc' \in SignalEvent([tpc EXCEPT ![t] = "begin"])
                             /\ nIdleThreads' = nIdleThreads + 1 /\ nThreads' = nThreads + 1
    BY <1>2
  <2>2. "begin" \in ThreadPcs  BY DEF ThreadPcs
  <2>3. Accounted([tpc EXCEPT ![t] = "begin"],
                  nThreads - Ind("none", LivePcs) + Ind("begin", LivePcs),
                  nIdleThreads - Ind("none", IdlePcs) + Ind("begin", IdlePcs))
    BY <2>1, <2>2, MoveCounts
  <2>4. /\ Ind("none", LivePcs) = 0 /\ Ind("begin", LivePcs) = 1
        /\ Ind("none", IdlePcs) = 0 /\ Ind("begin", IdlePcs) = 1
    BY DEF Ind, LivePcs, IdlePcs, ThreadPcs
  <2>5. Accounted([tpc EXCEPT ![t] = "begin"], nThreads', nIdleThreads')
    BY <1>0, <2>1, <2>3, <2>4
  <2>6. nThreads' \in Int /\ nIdleThreads' \in Int  BY <1>0, <2>1
  <2> QED  BY <2>1, <2>5, <2>6, SignalCounts
<1>3. CASE tpc' \in SignalEvent(tpc) /\ UNCHANGED <<nThreads, nIdleThreads>>
  BY <1>0, <1>3, SignalCounts
<1> QED  BY <1>1, <1>2, <1>3, Zenon DEF Dispatch, countVars, threadVars

(* The threads that SchedThread wakes at shutdown stay alive and idle.     *)
LEMMA CountsSchedDrain ==
    ASSUME CountInv, SchedDrain
    PROVE  CountInv'
<1>1. /\ tpc' = [t \in Threads |-> IF tpc[t] = "wait" THEN "begin" ELSE tpc[t]]
      /\ UNCHANGED <<nThreads, nIdleThreads>> /\ tpc \in [Threads -> ThreadPcs]
  BY DEF SchedDrain, countVars, CountInv, Accounted
<1>2. tpc' \in [Threads -> ThreadPcs]  BY <1>1 DEF ThreadPcs
<1>3. \A t \in Threads : /\ tpc'[t] \in LivePcs <=> tpc[t] \in LivePcs
                         /\ tpc'[t] \in IdlePcs <=> tpc[t] \in IdlePcs
  BY <1>1 DEF LivePcs, IdlePcs, ThreadPcs
<1>4. /\ {t \in Threads : tpc'[t] \in LivePcs} = {t \in Threads : tpc[t] \in LivePcs}
      /\ {t \in Threads : tpc'[t] \in IdlePcs} = {t \in Threads : tpc[t] \in IdlePcs}
  BY <1>3
<1> QED  BY <1>1, <1>2, <1>4 DEF CountInv, Accounted, Count

(* A thread takes an event and wakes another one for the rest.             *)
LEMMA CountsTakeEvent ==
    ASSUME CountInv, NEW t \in Threads, TakeEvent(t)
    PROVE  CountInv'
<1> USE DEF CountInv
<1>0. nThreads \in Int /\ nIdleThreads \in Int  BY CountTypes
<1> DEFINE q == [tpc EXCEPT ![t] = "run"]
<1>1. /\ tpc[t] = "begin" /\ nIdleThreads' = nIdleThreads - 1 /\ nThreads' = nThreads
      /\ tpc' = q \/ tpc' \in SignalEvent(q)
  BY DEF TakeEvent
<1>2. "run" \in ThreadPcs  BY DEF ThreadPcs
<1>3. Accounted(q, nThreads - Ind("begin", LivePcs) + Ind("run", LivePcs),
                   nIdleThreads - Ind("begin", IdlePcs) + Ind("run", IdlePcs))
  BY <1>1, <1>2, MoveCounts
<1>4. /\ Ind("begin", LivePcs) = 1 /\ Ind("run", LivePcs) = 1
      /\ Ind("begin", IdlePcs) = 1 /\ Ind("run", IdlePcs) = 0
  BY DEF Ind, LivePcs, IdlePcs, ThreadPcs
<1> HIDE DEF q
<1>5. Accounted(q, nThreads', nIdleThreads')  BY <1>0, <1>1, <1>3, <1>4
<1>6. nThreads' \in Int /\ nIdleThreads' \in Int  BY <1>0, <1>1
<1> QED  BY <1>1, <1>5, <1>6, SignalCounts

(* The other steps of an event thread move this thread only.               *)
LEMMA StepCounts ==
    ASSUME CountInv, NEW t \in Threads, NEW v \in ThreadPcs, tpc' = [tpc EXCEPT ![t] = v],
           nThreads' = nThreads - Ind(tpc[t], LivePcs) + Ind(v, LivePcs),
           nIdleThreads' = nIdleThreads - Ind(tpc[t], IdlePcs) + Ind(v, IdlePcs)
    PROVE  CountInv'
BY MoveCounts DEF CountInv

LEMMA CountsWaitOrLeave ==
    ASSUME CountInv, NEW t \in Threads, WaitOrLeave(t)
    PROVE  CountInv'
<1>0. nThreads \in Int /\ nIdleThreads \in Int  BY CountTypes
<1>1. PICK v \in {"wait", "exit"} : tpc' = [tpc EXCEPT ![t] = v]  BY DEF WaitOrLeave
<1>2. tpc[t] = "begin" /\ UNCHANGED <<nThreads, nIdleThreads>>
  BY DEF WaitOrLeave, countVars
<1>3. v \in ThreadPcs  BY DEF ThreadPcs
<1>4. /\ Ind(tpc[t], LivePcs) = 1 /\ Ind(v, LivePcs) = 1
      /\ Ind(tpc[t], IdlePcs) = 1 /\ Ind(v, IdlePcs) = 1
  BY <1>1, <1>2 DEF Ind, LivePcs, IdlePcs, ThreadPcs
<1>5. /\ nThreads' = nThreads - Ind(tpc[t], LivePcs) + Ind(v, LivePcs)
      /\ nIdleThreads' = nIdleThreads - Ind(tpc[t], IdlePcs) + Ind(v, IdlePcs)
  BY <1>0, <1>2, <1>4
<1> QED  BY <1>1, <1>3, <1>5, StepCounts

LEMMA CountsEventRan ==
    ASSUME CountInv, NEW t \in Threads, EventRan(t)
    PROVE  CountInv'
<1>0. nThreads \in Int /\ nIdleThreads \in Int  BY CountTypes
<1>1. PICK v \in {"begin", "exit", "free"} : tpc' = [tpc EXCEPT ![t] = v]
  BY DEF EventRan, JobServed
<1>2. tpc[t] = "run" /\ nThreads' = nThreads /\ nIdleThreads' = nIdleThreads + 1
  BY DEF EventRan
<1>3. v \in ThreadPcs  BY DEF ThreadPcs
<1>4. /\ Ind(tpc[t], LivePcs) = 1 /\ Ind(v, LivePcs) = 1
      /\ Ind(tpc[t], IdlePcs) = 0 /\ Ind(v, IdlePcs) = 1
  BY <1>1, <1>2 DEF Ind, LivePcs, IdlePcs, ThreadPcs
<1>5. /\ nThreads' = nThreads - Ind(tpc[t], LivePcs) + Ind(v, LivePcs)
      /\ nIdleThreads' = nIdleThreads - Ind(tpc[t], IdlePcs) + Ind(v, IdlePcs)
  BY <1>0, <1>2, <1>4
<1> QED  BY <1>1, <1>3, <1>5, StepCounts

LEMMA CountsEventFree ==
    ASSUME CountInv, NEW t \in Threads, EventFree(t)
    PROVE  CountInv'
<1>0. nThreads \in Int /\ nIdleThreads \in Int  BY CountTypes
<1>1. tpc' = [tpc EXCEPT ![t] = "freed"] /\ tpc[t] = "free"
  BY DEF EventFree
<1>2. UNCHANGED <<nThreads, nIdleThreads>>  BY DEF EventFree, countVars
<1>3. "freed" \in ThreadPcs  BY DEF ThreadPcs
<1>4. /\ Ind(tpc[t], LivePcs) = 1 /\ Ind("freed", LivePcs) = 1
      /\ Ind(tpc[t], IdlePcs) = 1 /\ Ind("freed", IdlePcs) = 1
  BY <1>1, <1>2 DEF Ind, LivePcs, IdlePcs, ThreadPcs
<1>5. /\ nThreads' = nThreads - Ind(tpc[t], LivePcs) + Ind("freed", LivePcs)
      /\ nIdleThreads' = nIdleThreads - Ind(tpc[t], IdlePcs) + Ind("freed", IdlePcs)
  BY <1>0, <1>2, <1>4
<1> QED  BY <1>1, <1>3, <1>5, StepCounts

LEMMA CountsEventFreed ==
    ASSUME CountInv, NEW t \in Threads, EventFreed(t)
    PROVE  CountInv'
<1>0. nThreads \in Int /\ nIdleThreads \in Int  BY CountTypes
<1>1. PICK v \in {"begin", "exit"} : tpc' = [tpc EXCEPT ![t] = v]
  BY DEF EventFreed, JobServed
<1>2. tpc[t] = "freed" /\ UNCHANGED <<nThreads, nIdleThreads>>
  BY DEF EventFreed, countVars
<1>3. v \in ThreadPcs  BY DEF ThreadPcs
<1>4. /\ Ind(tpc[t], LivePcs) = 1 /\ Ind(v, LivePcs) = 1
      /\ Ind(tpc[t], IdlePcs) = 1 /\ Ind(v, IdlePcs) = 1
  BY <1>1, <1>2 DEF Ind, LivePcs, IdlePcs, ThreadPcs
<1>5. /\ nThreads' = nThreads - Ind(tpc[t], LivePcs) + Ind(v, LivePcs)
      /\ nIdleThreads' = nIdleThreads - Ind(tpc[t], IdlePcs) + Ind(v, IdlePcs)
  BY <1>0, <1>2, <1>4
<1> QED  BY <1>1, <1>3, <1>5, StepCounts

LEMMA CountsEventExit ==
    ASSUME CountInv, NEW t \in Threads, EventExit(t)
    PROVE  CountInv'
<1>0. nThreads \in Int /\ nIdleThreads \in Int  BY CountTypes
<1>1. tpc' = [tpc EXCEPT ![t] = "none"] /\ tpc[t] = "exit"
  BY DEF EventExit
<1>2. nThreads' = nThreads - 1 /\ nIdleThreads' = nIdleThreads - 1  BY DEF EventExit
<1>3. "none" \in ThreadPcs  BY DEF ThreadPcs
<1>4. /\ Ind(tpc[t], LivePcs) = 1 /\ Ind("none", LivePcs) = 0
      /\ Ind(tpc[t], IdlePcs) = 1 /\ Ind("none", IdlePcs) = 0
  BY <1>1, <1>2 DEF Ind, LivePcs, IdlePcs, ThreadPcs
<1>5. /\ nThreads' = nThreads - Ind(tpc[t], LivePcs) + Ind("none", LivePcs)
      /\ nIdleThreads' = nIdleThreads - Ind(tpc[t], IdlePcs) + Ind("none", IdlePcs)
  BY <1>0, <1>2, <1>4
<1> QED  BY <1>1, <1>3, <1>5, StepCounts

-----------------------------------------------------------------------------
LEMMA CountInit == Init => CountInv
<1> SUFFICES ASSUME Init PROVE CountInv
  OBVIOUS
<1>1. /\ {t \in Threads : tpc[t] \in LivePcs} = {}
      /\ {t \in Threads : tpc[t] \in IdlePcs} = {}
  BY DEF Init, LivePcs, IdlePcs
<1>2. tpc \in [Threads -> ThreadPcs]  BY DEF Init, ThreadPcs
<1> QED  BY <1>1, <1>2, FS_EmptySet DEF Init, CountInv, Accounted, Count

LEMMA CountStep == CountInv /\ [Next]_vars => CountInv'
<1> SUFFICES ASSUME CountInv, [Next]_vars PROVE CountInv'
  OBVIOUS
<1>1. ASSUME UNCHANGED <<tpc, nThreads, nIdleThreads>> PROVE CountInv'
  BY <1>1 DEF CountInv
<1>2. CASE UNCHANGED vars
  BY <1>1, <1>2 DEF vars, countVars, threadVars
<1>3. ASSUME NEW e \in Events,
             Ns_ScheduleProcEx(e) \/ Ns_Cancel(e) \/ Ns_Pause(e) \/ Ns_Resume(e)
      PROVE  CountInv'
  BY <1>1, <1>3 DEF Ns_ScheduleProcEx, Ns_Cancel, Ns_Pause, Ns_Resume, countVars, threadVars
<1>4. ASSUME NEW now, SchedLoop(now) PROVE CountInv'
  <2>1. \E list : Dispatch(list)  BY <1>4, Zenon DEF SchedLoop
  <2> QED  BY <2>1, CountsDispatch, Zenon
<1>5. ASSUME NEW now, SchedStart(now) PROVE CountInv'
  BY <1>1, <1>5 DEF SchedStart, countVars, threadVars
<1>6. CASE \/ SchedRan \/ SchedRequeue \/ SchedWake
           \/ SchedDrained \/ SchedCleanup \/ SchedDone
  BY <1>1, <1>6 DEF SchedRan, SchedRequeue, SchedWake, SchedDrained, SchedCleanup, SchedDone,
                    countVars, threadVars
<1>7. CASE NsStartSchedShutdown \/ MainStep \/ ShutdownTimeout
  BY <1>1, <1>7 DEF NsStartSchedShutdown, MainStep, NsWaitSchedShutdown, ShutdownWoken,
                    ShutdownTimeout, countVars, threadVars
<1>8. ASSUME NEW t \in Threads, EventStep(t) PROVE CountInv'
  BY <1>8, CountsTakeEvent, CountsWaitOrLeave, CountsEventRan, CountsEventFree,
     CountsEventFreed, CountsEventExit DEF EventStep
<1> QED
  BY <1>2, <1>3, <1>4, <1>5, <1>6, <1>7, <1>8, CountsSchedDrain, Zenon DEF Next, SchedStep

(* The counters by which SchedThread creates event threads, and by which   *)
(* the shutdown knows that all have exited, count every thread once, from  *)
(* its creation to its exit, and as idle exactly when it runs no event.    *)
THEOREM EventThreadsCounted == Spec => []ThreadCounts
<1>1. Spec => []CountInv  BY CountInit, CountStep, PTL DEF Spec
<1> QED  BY <1>1, CountForm, PTL

-----------------------------------------------------------------------------
(* The array and the positions.                                            *)
HeapType == [queue : Seq(Events), qid : [Events -> Nat]]

(* The heaps with m events, those of Q, which all know their positions.    *)
HeapsOf(Q, m) ==
    {h \in HeapType :
        /\ Len(h.queue) = m /\ Q \subseteq Events
        /\ \A k \in 1 .. m : h.queue[k] \in Q /\ h.qid[h.queue[k]] = k
        /\ \A e \in Q : h.qid[e] \in 1 .. m /\ h.queue[h.qid[e]] = e
        /\ \A e \in Events \ Q : h.qid[e] = 0}

LEMMA HeapFacts ==
    ASSUME NEW Q, NEW m \in Nat, NEW h \in HeapsOf(Q, m)
    PROVE  /\ h \in HeapType /\ h.queue \in Seq(Events) /\ h.qid \in [Events -> Nat]
           /\ Len(h.queue) = m /\ Q \subseteq Events
           /\ \A k \in 1 .. m : h.queue[k] \in Q /\ h.qid[h.queue[k]] = k
           /\ \A e \in Q : h.qid[e] \in 1 .. m /\ h.queue[h.qid[e]] = e
           /\ \A e \in Events \ Q : h.qid[e] = 0
BY DEF HeapsOf, HeapType

LEMMA ExchangeKeeps ==
    ASSUME NEW Q, NEW m \in Nat, NEW h \in HeapsOf(Q, m), NEW i \in 1 .. m, NEW j \in 1 .. m
    PROVE  Exchange(h, i, j) \in HeapsOf(Q, m)
<1> DEFINE q == h.queue
           p == h.qid
           r == [q EXCEPT ![i] = q[j], ![j] = q[i]]
           s == [p EXCEPT ![r[i]] = i, ![r[j]] = j]
<1>1. /\ q \in Seq(Events) /\ p \in [Events -> Nat] /\ Len(q) = m /\ Q \subseteq Events
      /\ \A k \in 1 .. m : q[k] \in Q /\ p[q[k]] = k
      /\ \A e \in Q : p[e] \in 1 .. m /\ q[p[e]] = e
      /\ \A e \in Events \ Q : p[e] = 0
  BY HeapFacts
<1> HIDE DEF q, p
<1>2. /\ r \in Seq(Events) /\ Len(r) = m
      /\ \A k \in 1 .. m : r[k] = IF k = j THEN q[i] ELSE IF k = i THEN q[j] ELSE q[k]
  BY <1>1
<1>3. r[i] = q[j] /\ r[j] = q[i]  BY <1>2
<1>4. /\ s \in [Events -> Nat]
      /\ \A e \in Events : s[e] = IF e = q[i] THEN j ELSE IF e = q[j] THEN i ELSE p[e]
  BY <1>1, <1>3
<1> HIDE DEF r, s
<1>5. \A k \in 1 .. m : r[k] \in Q /\ s[r[k]] = k
  <2> SUFFICES ASSUME NEW k \in 1 .. m PROVE r[k] \in Q /\ s[r[k]] = k
    BY Zenon
  <2>1. q[k] \in Q /\ q[i] \in Q /\ q[j] \in Q /\ r[k] \in Events  BY <1>1, <1>2
  <2>2. CASE k = j  BY <1>2, <1>4, <2>1, <2>2
  <2>3. CASE k # j /\ k = i  BY <1>1, <1>2, <1>4, <2>1, <2>3
  <2>4. CASE k # j /\ k # i
    <3>1. r[k] = q[k] /\ p[q[k]] = k /\ p[q[i]] = i /\ p[q[j]] = j  BY <1>1, <1>2, <2>4
    <3>2. q[k] # q[i] /\ q[k] # q[j]  BY Zenon, <2>4, <3>1
    <3> QED  BY Zenon, <1>4, <2>1, <3>1, <3>2
  <2> QED  BY Zenon, <2>2, <2>3, <2>4
<1>6. \A e \in Q : s[e] \in 1 .. m /\ r[s[e]] = e
  BY <1>1, <1>2, <1>4
<1>7. \A e \in Events \ Q : s[e] = 0  BY <1>1, <1>4
<1>8. Exchange(h, i, j) = [queue |-> r, qid |-> s]  BY DEF Exchange, r, s, p, q
<1> DEFINE x == [queue |-> r, qid |-> s]
<1>9. x.queue = r /\ x.qid = s /\ x \in HeapType  BY <1>2, <1>4 DEF HeapType
<1> HIDE DEF x
<1>10. x \in HeapsOf(Q, m)  BY Zenon, <1>1, <1>2, <1>5, <1>6, <1>7, <1>9 DEF HeapsOf
<1> QED  BY Zenon, <1>8, <1>10 DEF x

(* One iteration of a loop of the queue, and the loop.                     *)
LEMMA SwimOnceKeeps ==
    ASSUME NEW Q, NEW m \in Nat, NEW s \in [heap : HeapsOf(Q, m), k : 1 .. m], NEW times
    PROVE  SwimOnce(s, times) \in [heap : HeapsOf(Q, m), k : 1 .. m]
<1>1. s.heap \in HeapsOf(Q, m) /\ s.k \in 1 .. m  OBVIOUS
<1>2. CASE s.k > 1 /\ Larger(s.heap, times, s.k \div 2, s.k)
  <2>1. s.k \div 2 \in 1 .. m  BY <1>1, <1>2
  <2>2. Exchange(s.heap, s.k \div 2, s.k) \in HeapsOf(Q, m)
    BY Zenon, <1>1, <2>1, ExchangeKeeps
  <2>3. SwimOnce(s, times) = [heap |-> Exchange(s.heap, s.k \div 2, s.k), k |-> s.k \div 2]
    BY Zenon, <1>2 DEF SwimOnce
  <2> QED  BY <2>1, <2>2, <2>3
<1>3. CASE ~(s.k > 1 /\ Larger(s.heap, times, s.k \div 2, s.k))
  BY Zenon, <1>3 DEF SwimOnce
<1> QED  BY Zenon, <1>2, <1>3

LEMMA SinkOnceKeeps ==
    ASSUME NEW Q, NEW m \in Nat, NEW s \in [heap : HeapsOf(Q, m), k : Nat \ {0}], NEW times
    PROVE  SinkOnce(s, times) \in [heap : HeapsOf(Q, m), k : Nat \ {0}]
<1> DEFINE l == 2 * s.k
           j == IF l < m /\ Larger(s.heap, times, l, l + 1) THEN l + 1 ELSE l
<1>1. s.heap \in HeapsOf(Q, m) /\ s.k \in Nat \ {0}  OBVIOUS
<1>2. Len(s.heap.queue) = m  BY <1>1, HeapFacts
<1>3. CASE l <= m /\ Larger(s.heap, times, s.k, j)
  <2>1. j = l \/ (l < m /\ j = l + 1)  OBVIOUS
  <2>2. SinkOnce(s, times) = [heap |-> Exchange(s.heap, s.k, j), k |-> j]
    BY Zenon, <1>2, <1>3 DEF SinkOnce
  <2> HIDE DEF j
  <2>3. j \in 1 .. m /\ s.k \in 1 .. m  BY <1>1, <1>3, <2>1
  <2>4. Exchange(s.heap, s.k, j) \in HeapsOf(Q, m)  BY Zenon, <1>1, <2>3, ExchangeKeeps
  <2> QED  BY <2>2, <2>3, <2>4
<1>4. CASE ~(l <= m /\ Larger(s.heap, times, s.k, j))
  BY Zenon, <1>2, <1>4 DEF SinkOnce
<1> QED  BY Zenon, <1>3, <1>4

(* The loops.                                                              *)
LEMMA SwimKeeps ==
    ASSUME NEW Q, NEW m \in Nat, NEW h \in HeapsOf(Q, m), NEW start \in 1 .. m, NEW times
    PROVE  Swim(h, times, start) \in HeapsOf(Q, m)
<1> DEFINE S == [heap : HeapsOf(Q, m), k : 1 .. m]
           a == [heap |-> h, k |-> start]
           X == [n \in Nat |-> S]
           F == [n \in Nat |-> [s \in S |-> SwimOnce(s, times)]]
           r == CHOOSE r : r = [n \in Nat |-> IF n = 0 THEN a ELSE SwimOnce(r[n - 1], times)]
<1>1. a \in S  OBVIOUS
<1>2. \A s \in S : SwimOnce(s, times) \in S  BY Zenon, SwimOnceKeeps
<1> HIDE DEF S, a
<1>3. \A n \in Nat : n # 0 => n - 1 \in Nat  OBVIOUS
<1>4. a \in X[0] /\ \A n \in Nat : n # 0 => \A s \in X[n - 1] : F[n][s] \in X[n]
  BY <1>1, <1>2, <1>3
<1>5. PICK g : Computes(g, Nat, a, F) /\ \A n \in Nat : g[n] \in X[n]
  <2> HIDE DEF X, F
  <2> QED  BY Zenon, <1>4, NatInitial, LoopIn
<1> DEFINE f == [n \in Nat |-> g[n]]
<1>6. f = [n \in Nat |-> IF n = 0 THEN a ELSE SwimOnce(f[n - 1], times)]
  BY Zenon, <1>3, <1>5 DEF Computes
<1>7. r = [n \in Nat |-> IF n = 0 THEN a ELSE SwimOnce(r[n - 1], times)]
  <2> HIDE DEF f
  <2> QED  BY Zenon, <1>6
<1>8. Swim(h, times, start) = r[Len(h.queue)].heap  BY Zenon DEF Swim, a
<1> HIDE DEF r
<1>9. \A n \in Nat : r[n] \in S
  <2>1. r[0] \in X[0]  BY <1>1, <1>7
  <2>2. \A n \in Nat : n # 0 /\ r[n - 1] \in X[n - 1] => r[n] \in X[n]
    BY Zenon, <1>2, <1>3, <1>7
  <2>3. \A n \in Nat : r[n] \in X[n]
    <3> HIDE DEF X
    <3> QED  BY Zenon, <2>1, <2>2, NatInitial, LoopKeeps
  <2> QED  BY Zenon, <2>3
<1>10. Len(h.queue) \in Nat  BY HeapFacts
<1>11. r[Len(h.queue)] \in S  BY Zenon, <1>9, <1>10
<1>12. r[Len(h.queue)].heap \in HeapsOf(Q, m)  BY <1>11 DEF S
<1> QED  BY Zenon, <1>8, <1>12

LEMMA SinkKeeps ==
    ASSUME NEW Q, NEW m \in Nat, NEW h \in HeapsOf(Q, m), NEW start \in Nat \ {0}, NEW times
    PROVE  Sink(h, times, start) \in HeapsOf(Q, m)
<1> DEFINE S == [heap : HeapsOf(Q, m), k : Nat \ {0}]
           a == [heap |-> h, k |-> start]
           X == [n \in Nat |-> S]
           F == [n \in Nat |-> [s \in S |-> SinkOnce(s, times)]]
           r == CHOOSE r : r = [n \in Nat |-> IF n = 0 THEN a ELSE SinkOnce(r[n - 1], times)]
<1>1. a \in S  OBVIOUS
<1>2. \A s \in S : SinkOnce(s, times) \in S  BY Zenon, SinkOnceKeeps
<1> HIDE DEF S, a
<1>3. \A n \in Nat : n # 0 => n - 1 \in Nat  OBVIOUS
<1>4. a \in X[0] /\ \A n \in Nat : n # 0 => \A s \in X[n - 1] : F[n][s] \in X[n]
  BY <1>1, <1>2, <1>3
<1>5. PICK g : Computes(g, Nat, a, F) /\ \A n \in Nat : g[n] \in X[n]
  <2> HIDE DEF X, F
  <2> QED  BY Zenon, <1>4, NatInitial, LoopIn
<1> DEFINE f == [n \in Nat |-> g[n]]
<1>6. f = [n \in Nat |-> IF n = 0 THEN a ELSE SinkOnce(f[n - 1], times)]
  BY Zenon, <1>3, <1>5 DEF Computes
<1>7. r = [n \in Nat |-> IF n = 0 THEN a ELSE SinkOnce(r[n - 1], times)]
  <2> HIDE DEF f
  <2> QED  BY Zenon, <1>6
<1>8. Sink(h, times, start) = r[Len(h.queue)].heap  BY Zenon DEF Sink, a
<1> HIDE DEF r
<1>9. \A n \in Nat : r[n] \in S
  <2>1. r[0] \in X[0]  BY <1>1, <1>7
  <2>2. \A n \in Nat : n # 0 /\ r[n - 1] \in X[n - 1] => r[n] \in X[n]
    BY Zenon, <1>2, <1>3, <1>7
  <2>3. \A n \in Nat : r[n] \in X[n]
    <3> HIDE DEF X
    <3> QED  BY Zenon, <2>1, <2>2, NatInitial, LoopKeeps
  <2> QED  BY Zenon, <2>3
<1>10. Len(h.queue) \in Nat  BY HeapFacts
<1>11. r[Len(h.queue)] \in S  BY Zenon, <1>9, <1>10
<1>12. r[Len(h.queue)].heap \in HeapsOf(Q, m)  BY <1>11 DEF S
<1> QED  BY Zenon, <1>8, <1>12

(* QueueEvent adds its event.                                              *)
LEMMA EnqueueAdds ==
    ASSUME NEW Q, NEW m \in Nat, NEW h \in HeapsOf(Q, m), NEW e \in Events \ Q, NEW times
    PROVE  Enqueue(h, times, e) \in HeapsOf(Q \union {e}, m + 1)
<1> DEFINE q == h.queue
           p == h.qid
           r == Append(q, e)
           s == [p EXCEPT ![e] = m + 1]
           x == [queue |-> r, qid |-> s]
           R == Q \union {e}
<1>1. /\ q \in Seq(Events) /\ p \in [Events -> Nat] /\ Len(q) = m /\ Q \subseteq Events
      /\ \A k \in 1 .. m : q[k] \in Q /\ p[q[k]] = k
      /\ \A d \in Q : p[d] \in 1 .. m /\ q[p[d]] = d
      /\ \A d \in Events \ Q : p[d] = 0
  BY HeapFacts
<1> HIDE DEF q, p
<1>2. r \in Seq(Events) /\ Len(r) = m + 1 /\ r[m + 1] = e /\ \A k \in 1 .. m : r[k] = q[k]
  BY <1>1
<1>3. s \in [Events -> Nat] /\ s[e] = m + 1 /\ \A d \in Events : d # e => s[d] = p[d]
  BY <1>1
<1>4. \A k : k \in 1 .. m + 1 <=> k \in 1 .. m \/ k = m + 1  OBVIOUS
<1> HIDE DEF r, s
<1>5. \A k \in 1 .. m + 1 : r[k] \in R /\ s[r[k]] = k
  <2> SUFFICES ASSUME NEW k \in 1 .. m + 1 PROVE r[k] \in R /\ s[r[k]] = k
    BY Zenon
  <2>1. CASE k = m + 1  BY Zenon, <1>2, <1>3, <2>1
  <2>2. CASE k # m + 1
    <3>1. r[k] = q[k] /\ q[k] \in Q /\ p[q[k]] = k  BY Zenon, <1>1, <1>2, <1>4, <2>2
    <3>2. q[k] \in Events /\ q[k] # e  BY Zenon, <1>1, <3>1
    <3> QED  BY Zenon, <1>3, <3>1, <3>2
  <2> QED  BY Zenon, <2>1, <2>2
<1>6. \A d \in R : s[d] \in 1 .. m + 1 /\ r[s[d]] = d
  <2> SUFFICES ASSUME NEW d \in R PROVE s[d] \in 1 .. m + 1 /\ r[s[d]] = d
    BY Zenon
  <2>1. CASE d = e  BY Zenon, <1>2, <1>3, <1>4, <2>1
  <2>2. CASE d # e
    <3>1. d \in Q /\ d \in Events  BY Zenon, <1>1, <2>2
    <3>2. s[d] = p[d] /\ p[d] \in 1 .. m /\ q[p[d]] = d  BY Zenon, <1>1, <1>3, <2>2, <3>1
    <3> QED  BY Zenon, <1>2, <1>4, <3>2
  <2> QED  BY Zenon, <2>1, <2>2
<1>7. \A d \in Events \ R : s[d] = 0  BY Zenon, <1>1, <1>3
<1>8. x.queue = r /\ x.qid = s /\ x \in HeapType  BY <1>2, <1>3 DEF HeapType
<1>9. m + 1 \in Nat /\ m + 1 \in 1 .. m + 1 /\ R \subseteq Events  BY <1>1
<1>10. Enqueue(h, times, e) = Swim(x, times, m + 1)  BY <1>1 DEF Enqueue, x, r, s, p, q
<1> HIDE DEF x, R
<1>11. x \in HeapsOf(R, m + 1)  BY Zenon, <1>2, <1>5, <1>6, <1>7, <1>8, <1>9 DEF HeapsOf
<1>12. Swim(x, times, m + 1) \in HeapsOf(R, m + 1)  BY Zenon, <1>9, <1>11, SwimKeeps
<1> QED  BY Zenon, <1>10, <1>12 DEF R

(* DeQueueEvent removes the event at position k, and no other.             *)
LEMMA DeQueueRemoves ==
    ASSUME NEW Q, NEW m \in Nat, NEW h \in HeapsOf(Q, m), NEW k \in 1 .. m, NEW times
    PROVE  DeQueueEvent(h, times, k) \in HeapsOf(Q \ {h.queue[k]}, m - 1)
<1> DEFINE x == Exchange(h, k, m)
           e == h.queue[k]
           q == x.queue
           p == x.qid
           r == SubSeq(q, 1, m - 1)
           s == [p EXCEPT ![q[m]] = 0]
           y == [queue |-> r, qid |-> s]
           R == Q \ {e}
<1>0. m \in 1 .. m /\ m - 1 \in Nat /\ k \in Nat \ {0}  OBVIOUS
<1>1. h.queue \in Seq(Events) /\ Len(h.queue) = m  BY HeapFacts
<1>2. x \in HeapsOf(Q, m)  BY Zenon, <1>0, ExchangeKeeps
<1>3. q[m] = e
  <2>1. q = [h.queue EXCEPT ![k] = h.queue[m], ![m] = h.queue[k]]  BY DEF Exchange
  <2> QED  BY <1>0, <1>1, <2>1
<1>4. DeQueueEvent(h, times, k) = Sink(y, times, k)  BY <1>1 DEF DeQueueEvent
<1> HIDE DEF x, e
<1>5. /\ q \in Seq(Events) /\ p \in [Events -> Nat] /\ Len(q) = m /\ Q \subseteq Events
      /\ \A i \in 1 .. m : q[i] \in Q /\ p[q[i]] = i
      /\ \A d \in Q : p[d] \in 1 .. m /\ q[p[d]] = d
      /\ \A d \in Events \ Q : p[d] = 0
  BY <1>2, HeapFacts
<1> HIDE DEF q, p
<1>6. r \in Seq(Events) /\ Len(r) = m - 1 /\ \A i \in 1 .. m - 1 : r[i] = q[i]
  BY <1>0, <1>5
<1>7. s \in [Events -> Nat] /\ s[e] = 0 /\ \A d \in Events : d # e => s[d] = p[d]
  BY <1>0, <1>3, <1>5
<1>8. \A i : i \in 1 .. m - 1 <=> i \in 1 .. m /\ i # m  BY <1>0
<1> HIDE DEF r, s
<1>9. \A i \in 1 .. m - 1 : r[i] \in R /\ s[r[i]] = i
  <2> SUFFICES ASSUME NEW i \in 1 .. m - 1 PROVE r[i] \in R /\ s[r[i]] = i
    BY Zenon
  <2>1. i \in 1 .. m /\ i # m /\ r[i] = q[i]  BY Zenon, <1>6, <1>8
  <2>2. q[i] \in Q /\ q[i] \in Events /\ p[q[i]] = i /\ p[q[m]] = m
    BY Zenon, <1>0, <1>5, <2>1
  <2>3. q[i] # e  BY Zenon, <1>3, <2>1, <2>2
  <2> QED  BY Zenon, <1>7, <2>1, <2>2, <2>3
<1>10. \A d \in R : s[d] \in 1 .. m - 1 /\ r[s[d]] = d
  <2> SUFFICES ASSUME NEW d \in R PROVE s[d] \in 1 .. m - 1 /\ r[s[d]] = d
    BY Zenon
  <2>1. d \in Events /\ d # e /\ d \in Q  BY Zenon, <1>5
  <2>2. s[d] = p[d] /\ p[d] \in 1 .. m /\ q[p[d]] = d  BY Zenon, <1>5, <1>7, <2>1
  <2>3. p[d] # m  BY Zenon, <1>3, <2>1, <2>2
  <2> QED  BY Zenon, <1>6, <1>8, <2>2, <2>3
<1>11. \A d \in Events \ R : s[d] = 0  BY Zenon, <1>5, <1>7
<1>12. y.queue = r /\ y.qid = s /\ y \in HeapType  BY <1>6, <1>7 DEF HeapType
<1>13. R \subseteq Events  BY Zenon, <1>5
<1> HIDE DEF y, R
<1>14. y \in HeapsOf(R, m - 1)
  BY Zenon, <1>6, <1>9, <1>10, <1>11, <1>12, <1>13 DEF HeapsOf
<1>15. Sink(y, times, k) \in HeapsOf(R, m - 1)  BY Zenon, <1>0, <1>14, SinkKeeps
<1> QED  BY Zenon, <1>4, <1>15 DEF R, e

Queued(h) == {e \in Events : h.qid[e] > 0}
WellFormed(h) == h \in HeapsOf(Queued(h), Len(h.queue))

LEMMA WellFormedHeap ==
    ASSUME NEW Q, NEW m \in Nat, NEW h \in HeapsOf(Q, m)
    PROVE  WellFormed(h) /\ Queued(h) = Q
<1>1. /\ Len(h.queue) = m /\ Q \subseteq Events
      /\ \A e \in Q : h.qid[e] \in 1 .. m
      /\ \A e \in Events \ Q : h.qid[e] = 0
  BY HeapFacts
<1>2. \A e \in Events : h.qid[e] > 0 <=> e \in Q  BY <1>1
<1>3. Queued(h) = Q  BY Zenon, <1>1, <1>2 DEF Queued
<1> QED  BY Zenon, <1>1, <1>3 DEF WellFormed

LEMMA WellFormedFacts ==
    ASSUME NEW h, WellFormed(h)
    PROVE  /\ h \in HeapType /\ h.queue \in Seq(Events) /\ h.qid \in [Events -> Nat]
           /\ Len(h.queue) \in Nat /\ Queued(h) \subseteq Events
           /\ \A k \in 1 .. Len(h.queue) : h.queue[k] \in Queued(h) /\ h.qid[h.queue[k]] = k
           /\ \A e \in Queued(h) : h.qid[e] \in 1 .. Len(h.queue) /\ h.queue[h.qid[e]] = e
<1>1. h \in HeapsOf(Queued(h), Len(h.queue))  BY Zenon DEF WellFormed
<1>2. h \in HeapType  BY Zenon, <1>1 DEF HeapsOf
<1>3. Len(h.queue) \in Nat  BY <1>2 DEF HeapType
<1> QED  BY <1>1, <1>2, <1>3, HeapFacts

LEMMA EmptyHeap ==
    ASSUME NEW h, h = [queue |-> <<>>, qid |-> [e \in Events |-> 0]]
    PROVE  WellFormed(h) /\ Queued(h) = {}
<1>1. h.queue = <<>> /\ h.qid = [e \in Events |-> 0] /\ h \in HeapType  BY DEF HeapType
<1>2. h \in HeapsOf({}, 0)  BY <1>1 DEF HeapsOf
<1> QED  BY <1>2, WellFormedHeap

LEMMA EnqueueQueued ==
    ASSUME NEW h, WellFormed(h), NEW e \in Events, e \notin Queued(h), NEW times
    PROVE  /\ WellFormed(Enqueue(h, times, e))
           /\ Queued(Enqueue(h, times, e)) = Queued(h) \union {e}
<1> DEFINE m == Len(h.queue)
<1>1. m \in Nat /\ m + 1 \in Nat  BY WellFormedFacts
<1>2. h \in HeapsOf(Queued(h), m) /\ e \in Events \ Queued(h)  BY Zenon DEF WellFormed
<1>3. Enqueue(h, times, e) \in HeapsOf(Queued(h) \union {e}, m + 1)
  BY Zenon, <1>1, <1>2, EnqueueAdds
<1> QED  BY Zenon, <1>1, <1>3, WellFormedHeap

LEMMA DeQueueQueued ==
    ASSUME NEW h, WellFormed(h), NEW e, e \in Queued(h), NEW times
    PROVE  /\ WellFormed(DeQueueEvent(h, times, h.qid[e]))
           /\ Queued(DeQueueEvent(h, times, h.qid[e])) = Queued(h) \ {e}
<1> DEFINE m == Len(h.queue)
           k == h.qid[e]
<1>1. m \in Nat /\ k \in 1 .. m /\ h.queue[k] = e  BY WellFormedFacts
<1>2. h \in HeapsOf(Queued(h), m)  BY Zenon DEF WellFormed
<1>3. m - 1 \in Nat  BY <1>1
<1>4. DeQueueEvent(h, times, k) \in HeapsOf(Queued(h) \ {e}, m - 1)
  BY Zenon, <1>1, <1>2, DeQueueRemoves
<1> QED  BY Zenon, <1>3, <1>4, WellFormedHeap

(* The events in the array are the ones that know a position.              *)
LEMMA QueueElems ==
    ASSUME NEW h, WellFormed(h)
    PROVE  NoRepeat(h.queue) /\ Elems(h.queue) = Queued(h)
<1> DEFINE m == Len(h.queue)
<1>1. /\ \A k \in 1 .. m : h.queue[k] \in Queued(h) /\ h.qid[h.queue[k]] = k
      /\ \A e \in Queued(h) : h.qid[e] \in 1 .. m /\ h.queue[h.qid[e]] = e
  BY WellFormedFacts
<1>2. NoRepeat(h.queue)  BY Zenon, <1>1 DEF NoRepeat
<1>3. Elems(h.queue) = Queued(h)  BY Zenon, <1>1 DEF Elems
<1> QED  BY Zenon, <1>2, <1>3

-----------------------------------------------------------------------------
(* What the loop of SchedThread has taken from the queue is in its lists.  *)
PopType ==
    [heap : HeapType, hashed : SUBSET hashed, first : Seq(ThreadEvents), ready : Seq(SyncEvents)]

Popped(s) ==
    /\ WellFormed(s.heap) /\ Queued(s.heap) \subseteq Queued(heap)
    /\ NoRepeat(s.first) /\ NoRepeat(s.ready)
    /\ Elems(s.first) = Elems(first) \union ((Queued(heap) \ Queued(s.heap)) \intersect ThreadEvents)
    /\ Elems(s.ready) = (Queued(heap) \ Queued(s.heap)) \intersect SyncEvents

LEMMA PopOnceKeeps ==
    ASSUME Queued(heap) \intersect Elems(first) = {},
           NEW s \in PopType, Popped(s), NEW now
    PROVE  PopOnce(s, now) \in PopType /\ Popped(PopOnce(s, now))
<1> DEFINE e == s.heap.queue[1]
           h == DeQueueEvent(s.heap, nextqueue, 1)
<1>1. CASE s.heap.queue # <<>> /\ nextqueue[e] <= now
  <2>0. /\ s.heap.queue \in Seq(Events) /\ s.first \in Seq(ThreadEvents)
        /\ s.ready \in Seq(SyncEvents) /\ s.hashed \subseteq hashed
    BY DEF PopType, HeapType
  <2>1. 1 \in 1 .. Len(s.heap.queue)  BY <1>1, <2>0
  <2>2. e \in Queued(s.heap) /\ s.heap.qid[e] = 1 /\ e \in Events
    BY <2>1, WellFormedFacts DEF Popped
  <2> HIDE DEF e
  <2>3. WellFormed(h) /\ Queued(h) = Queued(s.heap) \ {e}
    BY Zenon, <2>2, DeQueueQueued DEF Popped
  <2> HIDE DEF h
  <2>4. h \in HeapType  BY Zenon, <2>3, WellFormedFacts
  <2> DEFINE x == IF e \in Once THEN s.hashed \ {e} ELSE s.hashed
             f == IF e \in ThreadEvents THEN <<e>> \o s.first ELSE s.first
             r == IF e \in ThreadEvents THEN s.ready ELSE <<e>> \o s.ready
             y == [heap |-> h, hashed |-> x, first |-> f, ready |-> r]
  <2>5. PopOnce(s, now) = y  BY Zenon, <1>1 DEF PopOnce, e, h
  <2>6. x \subseteq hashed  BY Zenon, <2>0
  <2>7. e \in Queued(heap) /\ e \notin Elems(first) /\ Queued(s.heap) \subseteq Queued(heap)
    BY Zenon, <2>2 DEF Popped
  <2>8. /\ f \in Seq(ThreadEvents) /\ NoRepeat(f) /\ r \in Seq(SyncEvents) /\ NoRepeat(r)
        /\ Elems(f) = Elems(first) \union ((Queued(heap) \ Queued(h)) \intersect ThreadEvents)
        /\ Elems(r) = (Queued(heap) \ Queued(h)) \intersect SyncEvents
    <3>1. CASE e \in ThreadEvents
      <4>1. e \notin Elems(s.first) /\ e \notin SyncEvents
        BY Zenon, <2>2, <2>7, <3>1, SchedAssumption DEF Popped
      <4>2. f \in Seq(ThreadEvents) /\ NoRepeat(f) /\ Elems(f) = Elems(s.first) \union {e}
        <5>1. f = <<e>> \o s.first  BY Zenon, <3>1
        <5>2. NoRepeat(s.first) /\ e \in ThreadEvents  BY Zenon, <3>1, <4>1 DEF Popped
        <5> HIDE DEF f
        <5> QED  BY <2>0, <4>1, <5>1, <5>2, ListCons
      <4>3. r = s.ready  BY Zenon, <3>1
      <4> HIDE DEF f, r
      <4>4. Elems(f) = Elems(first) \union ((Queued(heap) \ Queued(h)) \intersect ThreadEvents)
        BY Zenon, <2>3, <2>7, <3>1, <4>2 DEF Popped
      <4>5. Elems(r) = (Queued(heap) \ Queued(h)) \intersect SyncEvents
        BY Zenon, <2>3, <4>1, <4>3 DEF Popped
      <4> QED  BY Zenon, <2>0, <4>2, <4>3, <4>4, <4>5 DEF Popped
    <3>2. CASE e \notin ThreadEvents
      <4>1. e \notin Elems(s.ready) /\ e \in SyncEvents
        BY Zenon, <2>2, <2>7, <3>2 DEF Popped, Events
      <4>2. r \in Seq(SyncEvents) /\ NoRepeat(r) /\ Elems(r) = Elems(s.ready) \union {e}
        <5>1. r = <<e>> \o s.ready  BY Zenon, <3>2
        <5>2. NoRepeat(s.ready) /\ e \in SyncEvents  BY Zenon, <3>2, <4>1 DEF Popped
        <5> HIDE DEF r
        <5> QED  BY <2>0, <4>1, <5>1, <5>2, ListCons
      <4>3. f = s.first  BY Zenon, <3>2
      <4> HIDE DEF f, r
      <4>4. Elems(r) = (Queued(heap) \ Queued(h)) \intersect SyncEvents
        BY Zenon, <2>3, <2>7, <4>1, <4>2 DEF Popped
      <4>5. Elems(f) = Elems(first) \union ((Queued(heap) \ Queued(h)) \intersect ThreadEvents)
        BY Zenon, <2>3, <3>2, <4>3 DEF Popped
      <4> QED  BY Zenon, <2>0, <4>2, <4>3, <4>4, <4>5 DEF Popped
    <3> QED  BY Zenon, <3>1, <3>2
  <2> HIDE DEF x, f, r
  <2>9. /\ y \in PopType
        /\ y.heap = h /\ y.first = f /\ y.ready = r
    BY <2>4, <2>6, <2>8 DEF PopType
  <2> HIDE DEF y
  <2>10. Queued(h) \subseteq Queued(heap)  BY Zenon, <2>3, <2>7
  <2>11. Popped(y)  BY Zenon, <2>3, <2>8, <2>9, <2>10 DEF Popped
  <2> QED  BY Zenon, <2>5, <2>9, <2>11
<1>2. CASE ~(s.heap.queue # <<>> /\ nextqueue[e] <= now)
  <2>1. PopOnce(s, now) = s  BY Zenon, <1>2 DEF PopOnce
  <2> QED  BY Zenon, <2>1
<1> QED  BY Zenon, <1>1, <1>2

LEMMA PopDueKeeps ==
    ASSUME WellFormed(heap), first \in Seq(ThreadEvents), NoRepeat(first),
           Queued(heap) \intersect Elems(first) = {}, NEW now
    PROVE  PopDue(now) \in PopType /\ Popped(PopDue(now))
<1> DEFINE S == {s \in PopType : Popped(s)}
           a == [heap |-> heap, hashed |-> hashed, first |-> first, ready |-> <<>>]
           X == [n \in Nat |-> S]
           F == [n \in Nat |-> [s \in S |-> PopOnce(s, now)]]
           r == CHOOSE r : r = [n \in Nat |-> IF n = 0 THEN a ELSE PopOnce(r[n - 1], now)]
<1>1. a \in S
  <2>1. heap \in HeapType /\ Len(heap.queue) \in Nat  BY WellFormedFacts
  <2>2. a \in PopType  BY <2>1 DEF PopType
  <2>3. a.heap = heap /\ a.first = first /\ a.ready = <<>>  OBVIOUS
  <2> HIDE DEF a
  <2>4. Popped(a)  BY Zenon, <2>3, ListEmpty DEF Popped
  <2> QED  BY Zenon, <2>2, <2>4
<1>2. \A s \in S : PopOnce(s, now) \in S  BY Zenon, PopOnceKeeps
<1> HIDE DEF S, a
<1>3. \A n \in Nat : n # 0 => n - 1 \in Nat  OBVIOUS
<1>4. a \in X[0] /\ \A n \in Nat : n # 0 => \A s \in X[n - 1] : F[n][s] \in X[n]
  BY <1>1, <1>2, <1>3
<1>5. PICK g : Computes(g, Nat, a, F) /\ \A n \in Nat : g[n] \in X[n]
  <2> HIDE DEF X, F
  <2> QED  BY Zenon, <1>4, NatInitial, LoopIn
<1> DEFINE f == [n \in Nat |-> g[n]]
<1>6. f = [n \in Nat |-> IF n = 0 THEN a ELSE PopOnce(f[n - 1], now)]
  BY Zenon, <1>3, <1>5 DEF Computes
<1>7. r = [n \in Nat |-> IF n = 0 THEN a ELSE PopOnce(r[n - 1], now)]
  <2> HIDE DEF f
  <2> QED  BY Zenon, <1>6
<1>8. PopDue(now) = r[Len(heap.queue)]  BY Zenon DEF PopDue, a
<1> HIDE DEF r
<1>9. \A n \in Nat : r[n] \in S
  <2>1. r[0] \in X[0]  BY <1>1, <1>7
  <2>2. \A n \in Nat : n # 0 /\ r[n - 1] \in X[n - 1] => r[n] \in X[n]
    BY Zenon, <1>2, <1>3, <1>7
  <2>3. \A n \in Nat : r[n] \in X[n]
    <3> HIDE DEF X
    <3> QED  BY Zenon, <2>1, <2>2, NatInitial, LoopKeeps
  <2> QED  BY Zenon, <2>3
<1>10. Len(heap.queue) \in Nat  BY WellFormedFacts
<1>11. PopDue(now) \in S  BY Zenon, <1>8, <1>9, <1>10
<1> QED  BY Zenon, <1>11 DEF S

-----------------------------------------------------------------------------
(* Where an event can be: in the queue Q, in the list F of the threads or  *)
(* R of SchedThread, run by SchedThread (S) or by a thread (H).            *)
Placed(Q, F, R, S, H, A, P) ==
    /\ \A e \in Q : e \notin F /\ e \notin R /\ e \notin S /\ e \notin H /\ e \notin P
    /\ \A e \in F : e \notin H
    /\ \A e \in R : e \notin S
    /\ Q \subseteq A /\ F \subseteq A /\ R \subseteq A /\ S \subseteq A /\ H \subseteq A
    /\ \A e \in A : e \in Q \/ e \in F \/ e \in R \/ e \in S \/ e \in H \/ e \in P

One(e) == {e} \ {NULL}
Held(v) == {v[t] : t \in Threads} \ {NULL}

EventsInv ==
    /\ hashed \subseteq alive /\ alive \subseteq Events /\ paused \subseteq Events
    /\ \A t \in Threads : tpc[t] = "free" => tev[t] \notin hashed

QueueInv == WellFormed(heap) /\ nextqueue \in [Events -> Times \union {0}]

ListInv ==
    /\ first \in Seq(ThreadEvents) /\ NoRepeat(first)
    /\ ready \in Seq(SyncEvents) /\ NoRepeat(ready)

(* A thread has an event from the time it takes it to the time it is       *)
(* queued again or freed, and no two have the same one.                    *)
ThreadInv(p, v, j) ==
    /\ p \in [Threads -> ThreadPcs] /\ v \in [Threads -> ThreadEvents \union {NULL}]
    /\ j \in [Threads -> 0 .. JobsPerThread]
    /\ \A t \in Threads : v[t] # NULL <=> p[t] \in {"run", "free"}
    /\ \A t, u \in Threads : v[t] = v[u] /\ v[t] # NULL => t = u
    /\ JobsPerThread # 0 => \A t \in Threads : p[t] \notin {"none", "exit"} => j[t] # 0

PlaceInv ==
    Placed(Queued(heap), Elems(first), Elems(ready), One(sev), Held(tev), alive, paused)

PhaseInv ==
    /\ spc \in SchedPcs /\ sev \in SyncEvents \union {NULL}
    /\ running <=> spc \notin {"off", "done"}
    /\ spc \notin {"run", "ran"} => sev = NULL /\ ready = <<>>
    /\ spc = "run" => sev # NULL
    /\ spc = "off" => hashed = {} /\ alive = {}
    /\ spc \in {"drain", "cleanup", "cleaned", "done"} => shutdownPending
    /\ spc \in {"cleaned", "done"} => hashed = {}

WakeInv == mpc \in MainPcs /\ woken \subseteq {"sched", "main"} /\ lock \in Threads \union {NULL}

SchedInvariant ==
    EventsInv /\ QueueInv /\ ListInv /\ ThreadInv(tpc, tev, njobs) /\ PlaceInv /\ PhaseInv /\ WakeInv

-----------------------------------------------------------------------------
LEMMA SignalKeeps ==
    ASSUME WakeInv, SignalSched PROVE woken' \subseteq {"sched", "main"}
BY DEF WakeInv, SignalSched, SchedWaiters

LEMMA ForgetKeeps ==
    ASSUME QueueInv, NEW h, Forget(h) PROVE nextqueue' \in [Events -> Times \union {0}]
BY DEF QueueInv, Forget

LEMMA QueueEventKeeps ==
    ASSUME QueueInv, WakeInv, NEW e \in Events, e \notin Queued(heap), NEW isPaused,
           QueueEvent(e, isPaused)
    PROVE  /\ QueueInv' /\ woken' \subseteq {"sched", "main"}
           /\ \/ isPaused /\ Queued(heap') = Queued(heap) /\ running' = running
              \/ ~isPaused /\ Queued(heap') = Queued(heap) \union {e} /\ running' = TRUE
<1>1. CASE isPaused /\ UNCHANGED <<queueVars, running, woken>>
  BY Zenon, <1>1 DEF queueVars, QueueInv, WakeInv
<1>2. CASE ~isPaused /\ ~(isPaused /\ UNCHANGED <<queueVars, running, woken>>)
  <2>1. /\ \E time \in IF e \in SyncEvents THEN SyncTimes ELSE ThreadTimes :
            nextqueue' = [nextqueue EXCEPT ![e] = time]
        /\ heap' = Enqueue(heap, nextqueue', e) /\ running' = TRUE
        /\ IF running THEN SignalSched ELSE UNCHANGED woken
    BY Zenon, <1>2 DEF QueueEvent
  <2>2. PICK time \in Times : nextqueue' = [nextqueue EXCEPT ![e] = time]
    BY Zenon, <2>1 DEF Times
  <2>3. nextqueue' \in [Events -> Times \union {0}]  BY <2>2 DEF QueueInv
  <2>4. woken' \subseteq {"sched", "main"}  BY Zenon, <2>1, SignalKeeps DEF WakeInv
  <2>5. WellFormed(heap') /\ Queued(heap') = Queued(heap) \union {e}
    BY Zenon, <2>1, EnqueueQueued DEF QueueInv
  <2> QED  BY Zenon, <1>2, <2>1, <2>3, <2>4, <2>5 DEF QueueInv
<1> QED  BY Zenon, <1>1, <1>2 DEF QueueEvent

LEMMA ThreadMove ==
    ASSUME NEW p, NEW v, NEW j, ThreadInv(p, v, j), NEW t \in Threads, NEW w \in ThreadPcs,
           w \in {"run", "free"} <=> p[t] \in {"run", "free"},
           JobsPerThread # 0 => w \in {"none", "exit"} \/ p[t] \notin {"none", "exit"}
    PROVE  ThreadInv([p EXCEPT ![t] = w], v, j)
<1> DEFINE q == [p EXCEPT ![t] = w]
<1>1. /\ p \in [Threads -> ThreadPcs]
      /\ \A u \in Threads : v[u] # NULL <=> p[u] \in {"run", "free"}
      /\ JobsPerThread # 0 => \A u \in Threads : p[u] \notin {"none", "exit"} => j[u] # 0
  BY Zenon DEF ThreadInv
<1>2. q \in [Threads -> ThreadPcs] /\ q[t] = w /\ \A u \in Threads \ {t} : q[u] = p[u]
  BY <1>1
<1> HIDE DEF q
<1>3. \A u \in Threads : v[u] # NULL <=> q[u] \in {"run", "free"}
  <2> SUFFICES ASSUME NEW u \in Threads PROVE v[u] # NULL <=> q[u] \in {"run", "free"}
    OBVIOUS
  <2> QED  BY Zenon, <1>1, <1>2
<1>4. JobsPerThread # 0 => \A u \in Threads : q[u] \notin {"none", "exit"} => j[u] # 0
  <2> SUFFICES ASSUME JobsPerThread # 0, NEW u \in Threads, q[u] \notin {"none", "exit"}
               PROVE  j[u] # 0
    OBVIOUS
  <2>1. CASE u = t  BY Zenon, <1>1, <1>2, <2>1
  <2>2. CASE u # t  BY Zenon, <1>1, <1>2, <2>2
  <2> QED  BY Zenon, <2>1, <2>2
<1> QED  BY Zenon, <1>2, <1>3, <1>4 DEF ThreadInv, q

(* A signal moves a waiting thread.                                        *)
LEMMA ThreadSignal ==
    ASSUME NEW p, NEW v, NEW j, ThreadInv(p, v, j), NEW q \in SignalEvent(p)
    PROVE  ThreadInv(q, v, j) /\ \A t \in Threads : q[t] = "free" => p[t] = "free"
<1>1. CASE q = p  BY Zenon, <1>1
<1>2. CASE q # p
  <2>1. PICK t \in Threads : p[t] = "wait" /\ q = [p EXCEPT ![t] = "begin"]
    BY <1>2 DEF SignalEvent
  <2>2. "begin" \in ThreadPcs  BY DEF ThreadPcs
  <2>3. ThreadInv(q, v, j)  BY <2>1, <2>2, ThreadMove
  <2>4. p \in [Threads -> ThreadPcs]  BY Zenon DEF ThreadInv
  <2>5. \A u \in Threads : q[u] = "free" => p[u] = "free"  BY <2>1, <2>4
  <2> QED  BY Zenon, <2>3, <2>5
<1> QED  BY Zenon, <1>1, <1>2

LEMMA HeldFacts ==
    ASSUME NEW p, NEW v, NEW j, ThreadInv(p, v, j)
    PROVE  /\ NULL \notin ThreadEvents /\ NULL \notin SyncEvents /\ NULL \notin Events
           /\ Held(v) \subseteq ThreadEvents
           /\ \A t \in Threads : v[t] # NULL => v[t] \in Held(v)
<1>1. NULL \notin ThreadEvents /\ NULL \notin SyncEvents /\ NULL \notin Events
  BY Zenon, SchedAssumption DEF Events
<1>2. \A t \in Threads : v[t] \in ThreadEvents \union {NULL}  BY DEF ThreadInv
<1> QED  BY Zenon, <1>1, <1>2 DEF Held

Gains(w, v, e) == Held(w) = Held(v) \union {e}

(* A thread takes an event that no thread has.                             *)
LEMMA ThreadTake ==
    ASSUME NEW p, NEW v, NEW j, ThreadInv(p, v, j), NEW t \in Threads, p[t] = "begin",
           NEW e \in ThreadEvents, e \notin Held(v), NEW w, w = [v EXCEPT ![t] = e]
    PROVE  /\ ThreadInv([p EXCEPT ![t] = "run"], w, j)
           /\ Gains(w, v, e)
<1> DEFINE q == [p EXCEPT ![t] = "run"]
<1>1. /\ p \in [Threads -> ThreadPcs] /\ v \in [Threads -> ThreadEvents \union {NULL}]
      /\ j \in [Threads -> 0 .. JobsPerThread]
      /\ \A u \in Threads : v[u] # NULL <=> p[u] \in {"run", "free"}
      /\ \A u, x \in Threads : v[u] = v[x] /\ v[u] # NULL => u = x
      /\ JobsPerThread # 0 => \A u \in Threads : p[u] \notin {"none", "exit"} => j[u] # 0
  BY Zenon DEF ThreadInv
<1>2. q \in [Threads -> ThreadPcs] /\ q[t] = "run" /\ \A u \in Threads \ {t} : q[u] = p[u]
  BY <1>1 DEF ThreadPcs
<1>3. /\ w \in [Threads -> ThreadEvents \union {NULL}]
      /\ w[t] = e /\ \A u \in Threads \ {t} : w[u] = v[u]
  BY <1>1
<1>4. e # NULL /\ v[t] = NULL  BY <1>1, HeldFacts
<1>5. \A u \in Threads \ {t} : w[u] # e  BY Zenon, <1>3, <1>4 DEF Held
<1> HIDE DEF q
<1>6. \A u \in Threads : w[u] # NULL <=> q[u] \in {"run", "free"}
  <2> SUFFICES ASSUME NEW u \in Threads PROVE w[u] # NULL <=> q[u] \in {"run", "free"}
    OBVIOUS
  <2>1. CASE u = t  BY Zenon, <1>2, <1>3, <1>4, <2>1
  <2>2. CASE u # t  BY Zenon, <1>1, <1>2, <1>3, <2>2
  <2> QED  BY Zenon, <2>1, <2>2
<1>7. \A u, x \in Threads : w[u] = w[x] /\ w[u] # NULL => u = x
  <2> SUFFICES ASSUME NEW u \in Threads, NEW x \in Threads, w[u] = w[x], w[u] # NULL
               PROVE  u = x
    OBVIOUS
  <2>1. CASE u = t \/ x = t  BY Zenon, <1>3, <1>5, <2>1
  <2>2. CASE u # t /\ x # t  BY Zenon, <1>1, <1>3, <2>2
  <2> QED  BY Zenon, <2>1, <2>2
<1>8. JobsPerThread # 0 => \A u \in Threads : q[u] \notin {"none", "exit"} => j[u] # 0
  <2> SUFFICES ASSUME JobsPerThread # 0, NEW u \in Threads, q[u] \notin {"none", "exit"}
               PROVE  j[u] # 0
    OBVIOUS
  <2>1. CASE u = t  BY <1>1, <2>1
  <2>2. CASE u # t  BY Zenon, <1>1, <1>2, <2>2
  <2> QED  BY Zenon, <2>1, <2>2
<1>9. Held(w) = Held(v) \union {e}
  <2>1. \A x : x \in Held(w) => x \in Held(v) \union {e}
    BY Zenon, <1>3 DEF Held
  <2>2. \A x : x \in Held(v) => x \in Held(w)
    BY Zenon, <1>3, <1>4 DEF Held
  <2>3. e \in Held(w)  BY Zenon, <1>3, <1>4 DEF Held
  <2> QED  BY Zenon, <2>1, <2>2, <2>3
<1>10. ThreadInv(q, w, j)  BY Zenon, <1>1, <1>2, <1>3, <1>6, <1>7, <1>8 DEF ThreadInv
<1> QED  BY Zenon, <1>9, <1>10 DEF q, Gains

(* A thread gives its event away.                                          *)
LEMMA ThreadDrop ==
    ASSUME NEW p, NEW v, NEW j, ThreadInv(p, v, j), NEW t \in Threads,
           p[t] \in {"run", "free"}
    PROVE  /\ ThreadInv([p EXCEPT ![t] = "freed"], [v EXCEPT ![t] = NULL], j)
           /\ Held([v EXCEPT ![t] = NULL]) = Held(v) \ {v[t]}
<1> DEFINE q == [p EXCEPT ![t] = "freed"]
           w == [v EXCEPT ![t] = NULL]
<1>1. /\ p \in [Threads -> ThreadPcs] /\ v \in [Threads -> ThreadEvents \union {NULL}]
      /\ j \in [Threads -> 0 .. JobsPerThread]
      /\ \A u \in Threads : v[u] # NULL <=> p[u] \in {"run", "free"}
      /\ \A u, x \in Threads : v[u] = v[x] /\ v[u] # NULL => u = x
      /\ JobsPerThread # 0 => \A u \in Threads : p[u] \notin {"none", "exit"} => j[u] # 0
  BY Zenon DEF ThreadInv
<1>2. q \in [Threads -> ThreadPcs] /\ q[t] = "freed" /\ \A u \in Threads \ {t} : q[u] = p[u]
  BY <1>1 DEF ThreadPcs
<1>3. /\ w \in [Threads -> ThreadEvents \union {NULL}]
      /\ w[t] = NULL /\ \A u \in Threads \ {t} : w[u] = v[u]
  BY <1>1
<1>4. v[t] # NULL  BY Zenon, <1>1
<1> HIDE DEF q, w
<1>6. \A u \in Threads : w[u] # NULL <=> q[u] \in {"run", "free"}
  <2> SUFFICES ASSUME NEW u \in Threads PROVE w[u] # NULL <=> q[u] \in {"run", "free"}
    OBVIOUS
  <2>1. CASE u = t  BY <1>2, <1>3, <2>1
  <2>2. CASE u # t  BY Zenon, <1>1, <1>2, <1>3, <2>2
  <2> QED  BY Zenon, <2>1, <2>2
<1>7. \A u, x \in Threads : w[u] = w[x] /\ w[u] # NULL => u = x
  <2> SUFFICES ASSUME NEW u \in Threads, NEW x \in Threads, w[u] = w[x], w[u] # NULL
               PROVE  u = x
    OBVIOUS
  <2>1. u # t /\ x # t  BY Zenon, <1>3
  <2> QED  BY Zenon, <1>1, <1>3, <2>1
<1>8. JobsPerThread # 0 => \A u \in Threads : q[u] \notin {"none", "exit"} => j[u] # 0
  <2> SUFFICES ASSUME JobsPerThread # 0, NEW u \in Threads, q[u] \notin {"none", "exit"}
               PROVE  j[u] # 0
    OBVIOUS
  <2>1. CASE u = t  BY <1>1, <2>1
  <2>2. CASE u # t  BY Zenon, <1>1, <1>2, <2>2
  <2> QED  BY Zenon, <2>1, <2>2
<1>9. Held(w) = Held(v) \ {v[t]}
  <2>1. ASSUME NEW x \in Held(w) PROVE x \in Held(v) \ {v[t]}
    <3>1. PICK u \in Threads : x = w[u] /\ x # NULL  BY Zenon, <2>1 DEF Held
    <3>2. u # t /\ x = v[u]  BY Zenon, <1>3, <3>1
    <3>3. x # v[t]  BY Zenon, <1>1, <3>1, <3>2
    <3> QED  BY Zenon, <3>1, <3>2, <3>3 DEF Held
  <2>2. ASSUME NEW x \in Held(v), x # v[t] PROVE x \in Held(w)
    BY Zenon, <1>3, <2>2 DEF Held
  <2> QED  BY Zenon, <2>1, <2>2
<1>10. ThreadInv(q, w, j)  BY Zenon, <1>1, <1>2, <1>3, <1>6, <1>7, <1>8 DEF ThreadInv
<1> QED  BY Zenon, <1>9, <1>10 DEF q, w

(* A job less for a thread that has no event any more.                     *)
LEMMA ThreadServed ==
    ASSUME NEW v, NEW t \in Threads, tpc \in [Threads -> ThreadPcs],
           ThreadInv([tpc EXCEPT ![t] = "freed"], v, njobs), JobServed(t)
    PROVE  /\ ThreadInv(tpc', v, njobs') /\ lock' = t
           /\ \A u \in Threads : tpc'[u] = "free" => tpc[u] = "free" /\ u # t
<1> DEFINE p == [tpc EXCEPT ![t] = "freed"]
           x == IF JobsPerThread # 0 /\ njobs'[t] = 0 THEN "exit" ELSE "begin"
<1>1. /\ v \in [Threads -> ThreadEvents \union {NULL}]
      /\ njobs \in [Threads -> 0 .. JobsPerThread]
      /\ \A u \in Threads : v[u] # NULL <=> p[u] \in {"run", "free"}
      /\ \A u, y \in Threads : v[u] = v[y] /\ v[u] # NULL => u = y
      /\ JobsPerThread # 0 => \A u \in Threads : p[u] \notin {"none", "exit"} => njobs[u] # 0
  BY Zenon DEF ThreadInv
<1>2. tpc' = [tpc EXCEPT ![t] = x] /\ lock' = t
  BY Zenon DEF JobServed
<1>3. njobs' = IF JobsPerThread = 0 THEN njobs ELSE [njobs EXCEPT ![t] = njobs[t] - 1]
  BY Zenon DEF JobServed
<1>4. x \in ThreadPcs /\ x \notin {"run", "free"}  BY DEF ThreadPcs
<1>5. p[t] = "freed" /\ \A u \in Threads \ {t} : p[u] = tpc[u]  OBVIOUS
<1>6. JobsPerThread # 0 => njobs[t] # 0  BY <1>1, <1>5
<1>7. /\ njobs' \in [Threads -> 0 .. JobsPerThread]
      /\ \A u \in Threads \ {t} : njobs'[u] = njobs[u]
  BY <1>1, <1>3, <1>6, SchedAssumption
<1>8. JobsPerThread # 0 => x = "exit" \/ njobs'[t] # 0  OBVIOUS
<1> HIDE DEF p, x
<1>9. tpc' \in [Threads -> ThreadPcs] /\ tpc'[t] = x /\ \A u \in Threads \ {t} : tpc'[u] = tpc[u]
  BY <1>2, <1>4
<1>10. \A u \in Threads : v[u] # NULL <=> tpc'[u] \in {"run", "free"}
  <2> SUFFICES ASSUME NEW u \in Threads PROVE v[u] # NULL <=> tpc'[u] \in {"run", "free"}
    OBVIOUS
  <2>1. CASE u = t  BY <1>1, <1>4, <1>5, <1>9, <2>1
  <2>2. CASE u # t  BY Zenon, <1>1, <1>5, <1>9, <2>2
  <2> QED  BY Zenon, <2>1, <2>2
<1>11. JobsPerThread # 0 => \A u \in Threads : tpc'[u] \notin {"none", "exit"} => njobs'[u] # 0
  <2> SUFFICES ASSUME JobsPerThread # 0, NEW u \in Threads, tpc'[u] \notin {"none", "exit"}
               PROVE  njobs'[u] # 0
    OBVIOUS
  <2>1. CASE u = t  BY Zenon, <1>8, <1>9, <2>1
  <2>2. CASE u # t  BY Zenon, <1>1, <1>5, <1>7, <1>9, <2>2
  <2> QED  BY Zenon, <2>1, <2>2
<1>12. ThreadInv(tpc', v, njobs')  BY Zenon, <1>1, <1>7, <1>9, <1>10, <1>11 DEF ThreadInv
<1>13. \A u \in Threads : tpc'[u] = "free" => tpc[u] = "free" /\ u # t
  BY Zenon, <1>4, <1>9
<1> QED  BY Zenon, <1>2, <1>12, <1>13

-----------------------------------------------------------------------------
(* The steps.                                                              *)
LEMMA KeepsSchedule ==
    ASSUME SchedInvariant, NEW e \in Events, Ns_ScheduleProcEx(e)
    PROVE  SchedInvariant'
<1> USE DEF SchedInvariant
<1>1. /\ ~shutdownPending /\ e \notin alive
      /\ alive' = alive \union {e} /\ hashed' = hashed \union {e} /\ paused' = paused \ {e}
      /\ QueueEvent(e, FALSE) /\ spc' = IF running THEN spc ELSE "start"
      /\ UNCHANGED <<first, ready, sev, tpc, tev, njobs, shutdownPending, mpc, lock>>
  BY Zenon DEF Ns_ScheduleProcEx, threadVars
<1>2. e \notin Queued(heap)  BY Zenon, <1>1 DEF PlaceInv, Placed
<1>3. /\ QueueInv' /\ woken' \subseteq {"sched", "main"}
      /\ Queued(heap') = Queued(heap) \union {e} /\ running' = TRUE
  BY Zenon, <1>1, <1>2, QueueEventKeeps
<1>4. \A t \in Threads : tev[t] # e
  <2>1. \A t \in Threads : tev[t] # NULL => tev[t] \in alive
    BY Zenon, HeldFacts DEF PlaceInv, Placed
  <2> QED  BY Zenon, <1>1, <2>1, HeldFacts
<1>5. EventsInv'  BY Zenon, <1>1, <1>4 DEF EventsInv
<1>6. ListInv' /\ WakeInv' /\ ThreadInv(tpc', tev', njobs')
  BY Zenon, <1>1, <1>3 DEF ListInv, WakeInv
<1>7. Placed(Queued(heap) \union {e}, Elems(first), Elems(ready), One(sev), Held(tev),
             alive \union {e}, paused \ {e})
  BY Zenon, <1>1 DEF PlaceInv, Placed
<1>8. PlaceInv'  BY Zenon, <1>1, <1>3, <1>7 DEF PlaceInv
<1>9. PhaseInv'
  <2>1. CASE running
    <3>1. spc \notin {"off", "done", "cleaned"}  BY <1>1, <2>1 DEF PhaseInv
    <3> QED  BY <1>1, <1>3, <2>1, <3>1 DEF PhaseInv
  <2>2. CASE ~running
    <3>1. spc' = "start" /\ sev = NULL /\ ready = <<>>  BY <1>1, <2>2 DEF PhaseInv
    <3> QED  BY <1>1, <1>3, <3>1 DEF PhaseInv, SchedPcs
  <2> QED  BY Zenon, <2>1, <2>2
<1> QED  BY Zenon, <1>3, <1>5, <1>6, <1>8, <1>9

LEMMA InRunFacts ==
    ASSUME ListInv, NEW e, ~InRun(e)
    PROVE  /\ e \notin Elems(first) /\ e \notin Elems(ready) /\ e \notin One(sev)
           /\ e \notin Held(tev)
<1>1. DOMAIN first = 1 .. Len(first) /\ DOMAIN ready = 1 .. Len(ready)  BY DEF ListInv
<1>2. Elems(first) = Range(first) /\ Elems(ready) = Range(ready)
  BY Zenon, <1>1 DEF Elems, Range
<1> QED  BY Zenon, <1>2 DEF InRun, One, Held

LEMMA KeepsResume ==
    ASSUME SchedInvariant, ~ResumeRunning, NEW e \in Events, Ns_Resume(e)
    PROVE  SchedInvariant'
<1> USE DEF SchedInvariant
<1>1. /\ ~shutdownPending /\ e \in hashed /\ e \in paused /\ ~InRun(e)
      /\ paused' = paused \ {e} /\ QueueEvent(e, FALSE)
      /\ UNCHANGED <<alive, hashed, first, ready, sev, spc, tpc, tev, njobs, shutdownPending,
                     mpc, lock>>
  BY Zenon DEF Ns_Resume, threadVars, schedVars
<1>2. e \notin Queued(heap) /\ e \in alive  BY Zenon, <1>1 DEF PlaceInv, Placed, EventsInv
<1>3. /\ QueueInv' /\ woken' \subseteq {"sched", "main"}
      /\ Queued(heap') = Queued(heap) \union {e} /\ running' = TRUE
  BY Zenon, <1>1, <1>2, QueueEventKeeps
<1>4. EventsInv'  BY Zenon, <1>1 DEF EventsInv
<1>5. ListInv' /\ WakeInv' /\ ThreadInv(tpc', tev', njobs')
  BY Zenon, <1>1, <1>3 DEF ListInv, WakeInv
<1>6. /\ e \notin Elems(first) /\ e \notin Elems(ready) /\ e \notin One(sev)
      /\ e \notin Held(tev)
  BY Zenon, <1>1, InRunFacts
<1>7. Placed(Queued(heap) \union {e}, Elems(first), Elems(ready), One(sev), Held(tev),
             alive, paused \ {e})
  BY Zenon, <1>2, <1>6 DEF PlaceInv, Placed
<1>8. PlaceInv'  BY Zenon, <1>1, <1>3, <1>7 DEF PlaceInv
<1>9. PhaseInv'
  <2>1. running  BY <1>1 DEF PhaseInv
  <2> QED  BY <1>1, <1>3, <2>1 DEF PhaseInv
<1> QED  BY Zenon, <1>3, <1>4, <1>5, <1>8, <1>9

LEMMA QueuedIff ==
    ASSUME NEW e \in Events PROVE heap.qid[e] > 0 <=> e \in Queued(heap)
BY Zenon DEF Queued

LEMMA KeepsCancel ==
    ASSUME SchedInvariant, NEW e \in Events, Ns_Cancel(e)
    PROVE  SchedInvariant'
<1> USE DEF SchedInvariant
<1>1. /\ e \in hashed /\ hashed' = hashed \ {e} /\ Forget(heap')
      /\ IF e \in Queued(heap)
         THEN heap' = DeQueueEvent(heap, nextqueue, heap.qid[e]) /\ alive' = alive \ {e}
         ELSE UNCHANGED <<heap, alive>>
      /\ UNCHANGED <<paused, first, ready, sev, spc, tpc, tev, njobs, running, shutdownPending,
                     mpc, woken, lock>>
  BY Zenon, QueuedIff DEF Ns_Cancel, threadVars, schedVars
<1>2. /\ WellFormed(heap') /\ Queued(heap') = Queued(heap) \ {e}
      /\ alive' = IF e \in Queued(heap) THEN alive \ {e} ELSE alive
  <2>1. CASE e \in Queued(heap)
    <3>1. heap' = DeQueueEvent(heap, nextqueue, heap.qid[e]) /\ alive' = alive \ {e}
      BY Zenon, <1>1, <2>1
    <3>2. WellFormed(heap') /\ Queued(heap') = Queued(heap) \ {e}
      BY Zenon, <2>1, <3>1, DeQueueQueued DEF QueueInv
    <3> QED  BY Zenon, <2>1, <3>1, <3>2
  <2>2. CASE e \notin Queued(heap)
    <3>1. heap' = heap /\ alive' = alive  BY Zenon, <1>1, <2>2
    <3> QED  BY Zenon, <2>2, <3>1 DEF QueueInv
  <2> QED  BY Zenon, <2>1, <2>2
<1>3. QueueInv'  BY Zenon, <1>1, <1>2, ForgetKeeps DEF QueueInv
<1>4. EventsInv'
  <2>1. hashed \ {e} \subseteq alive' /\ alive' \subseteq Events
    BY Zenon, <1>2 DEF EventsInv
  <2> QED  BY Zenon, <1>1, <2>1 DEF EventsInv
<1>5. ListInv' /\ WakeInv' /\ ThreadInv(tpc', tev', njobs')
  BY Zenon, <1>1 DEF ListInv, WakeInv
<1>6. Placed(Queued(heap) \ {e}, Elems(first), Elems(ready), One(sev), Held(tev),
             IF e \in Queued(heap) THEN alive \ {e} ELSE alive, paused)
  <2>1. CASE e \in Queued(heap)  BY Zenon, <2>1 DEF PlaceInv, Placed
  <2>2. CASE e \notin Queued(heap)  BY Zenon, <2>2 DEF PlaceInv, Placed
  <2> QED  BY Zenon, <2>1, <2>2
<1>7. PlaceInv'  BY Zenon, <1>1, <1>2, <1>6 DEF PlaceInv
<1>8. PhaseInv'  BY <1>1, <1>2 DEF PhaseInv
<1> QED  BY Zenon, <1>3, <1>4, <1>5, <1>7, <1>8

LEMMA KeepsPause ==
    ASSUME SchedInvariant, NEW e \in Events, Ns_Pause(e)
    PROVE  SchedInvariant'
<1> USE DEF SchedInvariant
<1>1. /\ e \in hashed /\ paused' = paused \union {e} /\ Forget(heap')
      /\ heap' = IF e \in Queued(heap) THEN DeQueueEvent(heap, nextqueue, heap.qid[e]) ELSE heap
      /\ UNCHANGED <<alive, hashed, first, ready, sev, spc, tpc, tev, njobs, running,
                     shutdownPending, mpc, woken, lock>>
  BY Zenon, QueuedIff DEF Ns_Pause, threadVars, schedVars
<1>2. WellFormed(heap') /\ Queued(heap') = Queued(heap) \ {e}
  BY Zenon, <1>1, DeQueueQueued DEF QueueInv
<1>3. QueueInv'  BY Zenon, <1>1, <1>2, ForgetKeeps DEF QueueInv
<1>4. EventsInv'  BY Zenon, <1>1 DEF EventsInv
<1>5. ListInv' /\ WakeInv' /\ ThreadInv(tpc', tev', njobs')
  BY Zenon, <1>1 DEF ListInv, WakeInv
<1>6. Placed(Queued(heap) \ {e}, Elems(first), Elems(ready), One(sev), Held(tev),
             alive, paused \union {e})
  BY Zenon DEF PlaceInv, Placed
<1>7. PlaceInv'  BY Zenon, <1>1, <1>2, <1>6 DEF PlaceInv
<1>8. PhaseInv'  BY <1>1 DEF PhaseInv
<1> QED  BY Zenon, <1>3, <1>4, <1>5, <1>7, <1>8

LEMMA ElemsType == ASSUME NEW E, NEW s \in Seq(E) PROVE Elems(s) \subseteq E
BY DEF Elems

(* SchedThread takes the next event of its list.                           *)
LEMMA RunOrWaitKeeps ==
    ASSUME NEW list \in Seq(SyncEvents), NoRepeat(list), NEW h, RunOrWait(list, h)
    PROVE  /\ ready' \in Seq(SyncEvents) /\ NoRepeat(ready') /\ sev' \in SyncEvents \union {NULL}
           /\ Elems(list) = Elems(ready') \union One(sev')
           /\ \A e \in Elems(ready') : e \notin One(sev')
           /\ spc' \in {"run", "wait", "timedwait", "loop"}
           /\ spc' # "run" => sev' = NULL /\ ready' = <<>>
           /\ spc' = "run" => sev' # NULL
<1>1. CASE list # <<>>
  <2>1. sev' = Head(list) /\ ready' = Tail(list) /\ spc' = "run"
    BY Zenon, <1>1 DEF RunOrWait
  <2>2. /\ sev' \in SyncEvents /\ sev' \in Elems(list)
        /\ ready' \in Seq(SyncEvents) /\ NoRepeat(ready')
        /\ Elems(ready') = Elems(list) \ {sev'}
    BY <1>1, <2>1, ListTail
  <2>3. sev' # NULL /\ One(sev') = {sev'}  BY Zenon, <2>2, SchedAssumption DEF One, Events
  <2> QED  BY Zenon, <2>1, <2>2, <2>3
<1>2. CASE list = <<>>
  <2>1. sev' = NULL /\ ready' = <<>>  BY Zenon, <1>2 DEF RunOrWait
  <2>2. spc' \in {"wait", "timedwait", "loop"} /\ spc' # "run"  BY <1>2 DEF RunOrWait
  <2>3. One(sev') = {}  BY Zenon, <2>1 DEF One
  <2> QED  BY Zenon, <1>2, <2>1, <2>2, <2>3, ListEmpty
<1> QED  BY Zenon, <1>1, <1>2

LEMMA DispatchKeeps ==
    ASSUME ThreadInv(tpc, tev, njobs), NEW list, Dispatch(list)
    PROVE  /\ ThreadInv(tpc', tev', njobs') /\ tev' = tev
           /\ \A t \in Threads : tpc'[t] = "free" => tpc[t] = "free"
<1>1. CASE UNCHANGED <<countVars, threadVars>>  BY Zenon, <1>1 DEF threadVars
<1>2. CASE tpc' \in SignalEvent(tpc) /\ UNCHANGED <<countVars, tev, njobs>>
  BY Zenon, <1>2, ThreadSignal
<1>3. ASSUME NEW t \in Threads, tpc[t] = "none",
             tpc' \in SignalEvent([tpc EXCEPT ![t] = "begin"]),
             njobs' = [njobs EXCEPT ![t] = JobsPerThread], tev' = tev
      PROVE  /\ ThreadInv(tpc', tev', njobs') /\ tev' = tev
             /\ \A u \in Threads : tpc'[u] = "free" => tpc[u] = "free"
  <2> DEFINE p == [tpc EXCEPT ![t] = "begin"]
  <2>1. /\ tpc \in [Threads -> ThreadPcs] /\ njobs \in [Threads -> 0 .. JobsPerThread]
        /\ tev \in [Threads -> ThreadEvents \union {NULL}]
        /\ \A u \in Threads : tev[u] # NULL <=> tpc[u] \in {"run", "free"}
        /\ \A u, x \in Threads : tev[u] = tev[x] /\ tev[u] # NULL => u = x
        /\ JobsPerThread # 0 => \A u \in Threads : tpc[u] \notin {"none", "exit"} => njobs[u] # 0
    BY Zenon DEF ThreadInv
  <2>2. p \in [Threads -> ThreadPcs] /\ p[t] = "begin" /\ \A u \in Threads \ {t} : p[u] = tpc[u]
    BY <2>1 DEF ThreadPcs
  <2>3. /\ njobs' \in [Threads -> 0 .. JobsPerThread] /\ njobs'[t] = JobsPerThread
        /\ \A u \in Threads \ {t} : njobs'[u] = njobs[u]
    BY <1>3, <2>1, SchedAssumption
  <2> HIDE DEF p
  <2>4. \A u \in Threads : tev[u] # NULL <=> p[u] \in {"run", "free"}
    <3> SUFFICES ASSUME NEW u \in Threads PROVE tev[u] # NULL <=> p[u] \in {"run", "free"}
      OBVIOUS
    <3>1. CASE u = t  BY <1>3, <2>1, <2>2, <3>1
    <3>2. CASE u # t  BY Zenon, <2>1, <2>2, <3>2
    <3> QED  BY Zenon, <3>1, <3>2
  <2>5. JobsPerThread # 0 => \A u \in Threads : p[u] \notin {"none", "exit"} => njobs'[u] # 0
    <3> SUFFICES ASSUME JobsPerThread # 0, NEW u \in Threads, p[u] \notin {"none", "exit"}
                 PROVE  njobs'[u] # 0
      OBVIOUS
    <3>1. CASE u = t  BY Zenon, <2>3, <3>1
    <3>2. CASE u # t  BY Zenon, <2>1, <2>2, <2>3, <3>2
    <3> QED  BY Zenon, <3>1, <3>2
  <2>6. ThreadInv(p, tev, njobs')  BY Zenon, <2>1, <2>2, <2>3, <2>4, <2>5 DEF ThreadInv
  <2>7. tpc' \in SignalEvent(p)  BY Zenon, <1>3 DEF p
  <2>8. /\ ThreadInv(tpc', tev, njobs')
        /\ \A u \in Threads : tpc'[u] = "free" => p[u] = "free"
    BY Zenon, <2>6, <2>7, ThreadSignal
  <2>9. \A u \in Threads : p[u] = "free" => tpc[u] = "free"  BY <2>2
  <2> QED  BY Zenon, <1>3, <2>8, <2>9
<1> QED  BY Zenon, <1>1, <1>2, <1>3 DEF Dispatch

LEMMA KeepsLoop ==
    ASSUME SchedInvariant, NEW now, SchedLoop(now)
    PROVE  SchedInvariant'
<1> USE DEF SchedInvariant
<1> DEFINE s == PopDue(now)
<1>1. /\ spc = "loop" /\ heap' = s.heap /\ hashed' = s.hashed /\ first' = s.first
      /\ Forget(s.heap) /\ Dispatch(s.first) /\ RunOrWait(s.ready, s.heap)
      /\ UNCHANGED <<alive, paused, running, shutdownPending, mpc, woken, lock>>
  BY Zenon DEF SchedLoop
<1>2. sev = NULL /\ ready = <<>> /\ running  BY <1>1 DEF PhaseInv
<1>3. Queued(heap) \intersect Elems(first) = {}  BY Zenon DEF PlaceInv, Placed
<1>4. s \in PopType /\ Popped(s)  BY Zenon, <1>3, PopDueKeeps DEF QueueInv, ListInv
<1> HIDE DEF s
<1>5. /\ s.hashed \subseteq hashed /\ s.first \in Seq(ThreadEvents) /\ s.ready \in Seq(SyncEvents)
  BY <1>4 DEF PopType
<1>6. QueueInv'  BY Zenon, <1>1, <1>4, ForgetKeeps DEF QueueInv, Popped
<1>7. /\ ThreadInv(tpc', tev', njobs') /\ tev' = tev
      /\ \A t \in Threads : tpc'[t] = "free" => tpc[t] = "free"
  BY Zenon, <1>1, DispatchKeeps
<1>8. EventsInv'  BY Zenon, <1>1, <1>5, <1>7 DEF EventsInv
<1>9. /\ ready' \in Seq(SyncEvents) /\ NoRepeat(ready') /\ sev' \in SyncEvents \union {NULL}
      /\ Elems(s.ready) = Elems(ready') \union One(sev')
      /\ \A e \in Elems(ready') : e \notin One(sev')
      /\ spc' \in {"run", "wait", "timedwait", "loop"}
      /\ spc' # "run" => sev' = NULL /\ ready' = <<>>
      /\ spc' = "run" => sev' # NULL
  BY <1>1, <1>4, <1>5, RunOrWaitKeeps DEF Popped
<1>10. ListInv'  BY Zenon, <1>1, <1>4, <1>5, <1>9 DEF ListInv, Popped
<1>11. PhaseInv' /\ WakeInv'  BY <1>1, <1>2, <1>9 DEF PhaseInv, WakeInv, SchedPcs
<1>12. PlaceInv'
  <2> DEFINE Q == Queued(heap)
             W == Queued(heap')
             F == Elems(first')
             R == Elems(ready')
             S == One(sev')
             H == Held(tev)
  <2>1. Elems(ready) = {} /\ One(sev) = {}  BY Zenon, <1>2, ListEmpty DEF One
  <2>2. /\ \A e \in Q : e \notin Elems(first) /\ e \notin H /\ e \notin paused
        /\ \A e \in Elems(first) : e \notin H
        /\ Q \subseteq alive /\ Elems(first) \subseteq alive /\ H \subseteq alive
        /\ \A e \in alive : e \in Q \/ e \in Elems(first) \/ e \in H \/ e \in paused
    BY Zenon, <2>1 DEF PlaceInv, Placed
  <2>3. W \subseteq Q /\ F = Elems(first) \union ((Q \ W) \intersect ThreadEvents)
    BY Zenon, <1>1, <1>4 DEF Popped
  <2>4. R \union S = (Q \ W) \intersect SyncEvents  BY Zenon, <1>1, <1>4, <1>9 DEF Popped
  <2>5. \A e \in R : e \notin S  BY Zenon, <1>9
  <2>6. \A e \in Q : e \in ThreadEvents \/ e \in SyncEvents  BY Zenon DEF Queued, Events
  <2>7. H \subseteq ThreadEvents /\ \A e : ~(e \in ThreadEvents /\ e \in SyncEvents)
    BY Zenon, HeldFacts, SchedAssumption
  <2> HIDE DEF Q, W, F, R, S, H
  <2>8. \A e \in W : e \notin F /\ e \notin R /\ e \notin S /\ e \notin H /\ e \notin paused
    BY Zenon, <2>2, <2>3, <2>4
  <2>9. \A e \in F : e \notin H  BY Zenon, <2>2, <2>3
  <2>10. W \subseteq alive /\ F \subseteq alive /\ R \subseteq alive /\ S \subseteq alive
    BY Zenon, <2>2, <2>3, <2>4
  <2>11. \A e \in alive : e \in W \/ e \in F \/ e \in R \/ e \in S \/ e \in H \/ e \in paused
    BY Zenon, <2>2, <2>3, <2>4, <2>6
  <2>12. Placed(W, F, R, S, H, alive, paused)
    BY Zenon, <2>2, <2>5, <2>8, <2>9, <2>10, <2>11 DEF Placed
  <2> QED  BY Zenon, <1>1, <1>7, <2>12 DEF PlaceInv, W, F, R, S, H
<1> QED  BY Zenon, <1>6, <1>7, <1>8, <1>10, <1>11, <1>12

LEMMA KeepsRan ==
    ASSUME SchedInvariant, SchedRan
    PROVE  SchedInvariant'
<1> USE DEF SchedInvariant
<1>1. /\ spc = "run" /\ spc' = "ran"
      /\ IF sev \in hashed THEN UNCHANGED <<alive, sev>> ELSE alive' = alive \ {sev} /\ sev' = NULL
      /\ UNCHANGED <<hashed, paused, heap, nextqueue, first, ready, tpc, tev, njobs, running,
                     shutdownPending, mpc, woken, lock>>
  BY Zenon DEF SchedRan, queueVars, threadVars
<1>2. sev # NULL /\ sev \in SyncEvents  BY <1>1 DEF PhaseInv
<1>3. QueueInv' /\ ListInv' /\ WakeInv' /\ ThreadInv(tpc', tev', njobs')
  BY Zenon, <1>1 DEF QueueInv, ListInv, WakeInv
<1>4. CASE sev \in hashed
  <2>1. UNCHANGED <<alive, sev>>  BY Zenon, <1>1, <1>4
  <2>2. EventsInv' /\ PlaceInv'  BY Zenon, <1>1, <2>1 DEF EventsInv, PlaceInv
  <2>3. PhaseInv'  BY <1>1, <1>2, <2>1 DEF PhaseInv, SchedPcs
  <2> QED  BY Zenon, <1>3, <2>2, <2>3
<1>5. CASE sev \notin hashed
  <2>1. alive' = alive \ {sev} /\ sev' = NULL  BY Zenon, <1>1, <1>5
  <2>2. EventsInv'  BY Zenon, <1>1, <1>5, <2>1 DEF EventsInv
  <2>3. PhaseInv'  BY <1>1, <1>2, <2>1 DEF PhaseInv, SchedPcs
  <2>4. One(sev) = {sev} /\ One(sev') = {}  BY Zenon, <1>2, <2>1 DEF One
  <2>5. Elems(first) \subseteq ThreadEvents  BY Zenon, ElemsType DEF ListInv
  <2>6. sev \notin Elems(first) /\ sev \notin Held(tev)
    BY Zenon, <1>2, <2>5, HeldFacts, SchedAssumption
  <2>7. Placed(Queued(heap), Elems(first), Elems(ready), {}, Held(tev), alive \ {sev}, paused)
    BY Zenon, <2>4, <2>6 DEF PlaceInv, Placed
  <2>8. PlaceInv'  BY Zenon, <1>1, <2>1, <2>4, <2>7 DEF PlaceInv
  <2> QED  BY Zenon, <1>3, <2>2, <2>3, <2>8
<1> QED  BY Zenon, <1>4, <1>5

LEMMA KeepsRequeue ==
    ASSUME SchedInvariant, SchedRequeue
    PROVE  SchedInvariant'
<1> USE DEF SchedInvariant
<1>1. /\ spc = "ran"
      /\ IF sev # NULL THEN QueueEvent(sev, sev \in paused)
                       ELSE UNCHANGED <<heap, nextqueue, running, woken>>
      /\ RunOrWait(ready, heap')
      /\ UNCHANGED <<alive, hashed, paused, first, tpc, tev, njobs, shutdownPending, mpc, lock>>
  BY Zenon DEF SchedRequeue, queueVars, eventVars, threadVars
<1>2. running /\ sev \in SyncEvents \union {NULL}  BY <1>1 DEF PhaseInv
<1>3. /\ ready' \in Seq(SyncEvents) /\ NoRepeat(ready') /\ sev' \in SyncEvents \union {NULL}
      /\ Elems(ready) = Elems(ready') \union One(sev')
      /\ \A e \in Elems(ready') : e \notin One(sev')
      /\ spc' \in {"run", "wait", "timedwait", "loop"}
      /\ spc' # "run" => sev' = NULL /\ ready' = <<>>
      /\ spc' = "run" => sev' # NULL
  BY <1>1, RunOrWaitKeeps DEF ListInv
<1>4. /\ QueueInv' /\ woken' \subseteq {"sched", "main"} /\ running'
      /\ Queued(heap') = Queued(heap) \union (One(sev) \ paused)
  <2>1. CASE sev = NULL
    <3>1. UNCHANGED <<heap, nextqueue, running, woken>> /\ One(sev) = {}
      BY Zenon, <1>1, <2>1 DEF One
    <3> QED  BY Zenon, <1>2, <3>1 DEF QueueInv, WakeInv
  <2>2. CASE sev # NULL
    <3>1. QueueEvent(sev, sev \in paused) /\ sev \in Events /\ One(sev) = {sev}
      BY Zenon, <1>1, <1>2, <2>2 DEF One, Events
    <3>2. sev \notin Queued(heap)  BY Zenon, <3>1 DEF PlaceInv, Placed
    <3>3. /\ QueueInv' /\ woken' \subseteq {"sched", "main"}
          /\ \/ sev \in paused /\ Queued(heap') = Queued(heap) /\ running' = running
             \/ sev \notin paused /\ Queued(heap') = Queued(heap) \union {sev} /\ running' = TRUE
      BY <3>1, <3>2, QueueEventKeeps
    <3> QED  BY Zenon, <1>2, <3>1, <3>3
  <2> QED  BY Zenon, <2>1, <2>2
<1>5. EventsInv' /\ ThreadInv(tpc', tev', njobs') /\ WakeInv'
  BY Zenon, <1>1, <1>4 DEF EventsInv, WakeInv
<1>6. ListInv'  BY Zenon, <1>1, <1>3 DEF ListInv
<1>7. PhaseInv'  BY <1>1, <1>3, <1>4 DEF PhaseInv, SchedPcs
<1>8. PlaceInv'
  <2>1. Elems(first) \subseteq ThreadEvents  BY Zenon, ElemsType DEF ListInv
  <2>2. One(sev) \subseteq SyncEvents /\ \A e \in One(sev) : e \notin Elems(first) /\ e \notin Held(tev)
    BY Zenon, <1>2, <2>1, HeldFacts, SchedAssumption DEF One
  <2> DEFINE Q == Queued(heap)
             F == Elems(first)
             R == Elems(ready)
             S == One(sev)
             H == Held(tev)
             W == Queued(heap')
             T == Elems(ready')
             U == One(sev')
  <2>3. Placed(Q, F, R, S, H, alive, paused)  BY Zenon DEF PlaceInv
  <2>4. /\ \A e \in S : e \notin F /\ e \notin H
        /\ W = Q \union (S \ paused) /\ R = T \union U /\ \A e \in T : e \notin U
    BY Zenon, <1>3, <1>4, <2>2
  <2> HIDE DEF Q, F, R, S, H, W, T, U
  <2>5. \A e \in W : e \notin F /\ e \notin T /\ e \notin U /\ e \notin H /\ e \notin paused
    BY Zenon, <2>3, <2>4 DEF Placed
  <2>6. W \subseteq alive /\ T \subseteq alive /\ U \subseteq alive
    BY Zenon, <2>3, <2>4 DEF Placed
  <2>7. \A e \in alive : e \in W \/ e \in F \/ e \in T \/ e \in U \/ e \in H \/ e \in paused
    BY Zenon, <2>3, <2>4 DEF Placed
  <2>8. Placed(W, F, T, U, H, alive, paused)
    BY Zenon, <2>3, <2>4, <2>5, <2>6, <2>7 DEF Placed
  <2> QED  BY Zenon, <1>1, <2>8 DEF PlaceInv, W, F, T, U, H
<1> QED  BY Zenon, <1>4, <1>5, <1>6, <1>7, <1>8

LEMMA KeepsDrain ==
    ASSUME SchedInvariant, SchedDrain
    PROVE  SchedInvariant'
<1> USE DEF SchedInvariant
<1>1. /\ spc = "loop" /\ shutdownPending /\ spc' = "drain"
      /\ tpc' = [t \in Threads |-> IF tpc[t] = "wait" THEN "begin" ELSE tpc[t]]
      /\ UNCHANGED <<alive, hashed, paused, heap, nextqueue, first, ready, sev, tev, njobs,
                     running, shutdownPending, mpc, woken, lock>>
  BY Zenon DEF SchedDrain, eventVars, queueVars
<1>2. tpc \in [Threads -> ThreadPcs]  BY Zenon DEF ThreadInv
<1>3. tpc' \in [Threads -> ThreadPcs]  BY <1>1, <1>2 DEF ThreadPcs
<1>4. \A t \in Threads :
        /\ tpc'[t] \in {"run", "free"} <=> tpc[t] \in {"run", "free"}
        /\ tpc'[t] = "free" <=> tpc[t] = "free"
        /\ tpc'[t] \in {"none", "exit"} <=> tpc[t] \in {"none", "exit"}
  BY <1>1
<1>5. ThreadInv(tpc', tev', njobs')
  <2>1. \A t \in Threads : tev[t] # NULL <=> tpc'[t] \in {"run", "free"}
    BY Zenon, <1>4 DEF ThreadInv
  <2>2. JobsPerThread # 0 => \A t \in Threads : tpc'[t] \notin {"none", "exit"} => njobs[t] # 0
    BY Zenon, <1>4 DEF ThreadInv
  <2>3. ThreadInv(tpc', tev, njobs)  BY Zenon, <1>3, <2>1, <2>2 DEF ThreadInv
  <2> QED  BY Zenon, <1>1, <2>3
<1>6. EventsInv' /\ QueueInv' /\ ListInv' /\ PlaceInv' /\ WakeInv'
  BY Zenon, <1>1, <1>4 DEF EventsInv, QueueInv, ListInv, PlaceInv, WakeInv
<1>7. PhaseInv'  BY <1>1 DEF PhaseInv, SchedPcs
<1> QED  BY Zenon, <1>5, <1>6, <1>7

LEMMA KeepsCleanup ==
    ASSUME SchedInvariant, SchedCleanup
    PROVE  SchedInvariant'
<1> USE DEF SchedInvariant
<1>1. /\ spc = "cleanup" /\ spc' = "cleaned" /\ alive' = {e \in alive : heap.qid[e] = 0}
      /\ heap' = [queue |-> <<>>, qid |-> [e \in Events |-> 0]] /\ Forget(heap') /\ hashed' = {}
      /\ UNCHANGED <<paused, first, ready, sev, tpc, tev, njobs, running, shutdownPending,
                     mpc, woken, lock>>
  BY Zenon DEF SchedCleanup, threadVars
<1>2. WellFormed(heap') /\ Queued(heap') = {}  BY Zenon, <1>1, EmptyHeap
<1>3. alive' = alive \ Queued(heap)
  <2>1. heap.qid \in [Events -> Nat] /\ alive \subseteq Events
    BY WellFormedFacts DEF QueueInv, EventsInv
  <2> QED  BY <1>1, <2>1 DEF Queued
<1>4. QueueInv'  BY Zenon, <1>1, <1>2, ForgetKeeps DEF QueueInv
<1>5. EventsInv'  BY Zenon, <1>1, <1>3 DEF EventsInv
<1>6. ListInv' /\ WakeInv' /\ ThreadInv(tpc', tev', njobs')
  BY Zenon, <1>1 DEF ListInv, WakeInv
<1>7. Placed({}, Elems(first), Elems(ready), One(sev), Held(tev), alive \ Queued(heap), paused)
  BY Zenon DEF PlaceInv, Placed
<1>8. PlaceInv'  BY Zenon, <1>1, <1>2, <1>3, <1>7 DEF PlaceInv
<1>9. PhaseInv'  BY <1>1 DEF PhaseInv, SchedPcs
<1> QED  BY Zenon, <1>4, <1>5, <1>6, <1>8, <1>9

LEMMA KeepsTake ==
    ASSUME SchedInvariant, NEW t \in Threads, TakeEvent(t)
    PROVE  SchedInvariant'
<1> USE DEF SchedInvariant
<1> DEFINE e == Head(first)
           p == [tpc EXCEPT ![t] = "run"]
<1>1. /\ tpc[t] = "begin" /\ first # <<>> /\ tev' = [tev EXCEPT ![t] = e]
      /\ first' = Tail(first) /\ lock' = NULL
      /\ tpc' \in IF Tail(first) # <<>> THEN SignalEvent(p) ELSE {p}
      /\ UNCHANGED <<alive, hashed, paused, heap, nextqueue, ready, sev, spc, njobs, running,
                     shutdownPending, mpc, woken>>
  BY Zenon DEF TakeEvent, eventVars, queueVars, schedVars
<1>2. /\ e \in ThreadEvents /\ e \in Elems(first) /\ first' \in Seq(ThreadEvents) /\ NoRepeat(first')
      /\ Elems(first') = Elems(first) \ {e}
  BY <1>1, ListTail DEF ListInv
<1>3. e \notin Held(tev)  BY Zenon, <1>2 DEF PlaceInv, Placed
<1>4. tpc \in [Threads -> ThreadPcs]  BY Zenon DEF ThreadInv
<1>5. \A u \in Threads : p[u] = "free" => tpc[u] = "free" /\ u # t  BY <1>1, <1>4
<1> HIDE DEF e
<1>6. ThreadInv(p, tev', njobs) /\ Held(tev') = Held(tev) \union {e}
  <2>1. tpc[t] = "begin" /\ e \in ThreadEvents /\ tev' = [tev EXCEPT ![t] = e]
    BY Zenon, <1>1, <1>2
  <2>2. ThreadInv(p, tev', njobs) /\ Gains(tev', tev, e)  BY Zenon, <1>3, <2>1, ThreadTake
  <2> QED  BY Zenon, <2>2 DEF Gains
<1> HIDE DEF p
<1>7. ThreadInv(tpc', tev', njobs) /\ \A u \in Threads : tpc'[u] = "free" => p[u] = "free"
  <2>1. CASE tpc' = p  BY Zenon, <1>6, <2>1
  <2>2. CASE tpc' \in SignalEvent(p)  BY Zenon, <1>6, <2>2, ThreadSignal
  <2> QED  BY <1>1, <2>1, <2>2
<1>8. EventsInv'
  <2>1. \A u \in Threads : u # t => tev'[u] = tev[u]  BY <1>1 DEF ThreadInv
  <2>2. \A u \in Threads : tpc'[u] = "free" => tpc[u] = "free" /\ tev'[u] = tev[u]
    BY Zenon, <1>5, <1>7, <2>1
  <2>3. UNCHANGED <<alive, hashed, paused>>  BY Zenon, <1>1
  <2> QED  BY Zenon, <2>2, <2>3 DEF EventsInv
<1>9. QueueInv' /\ ListInv' /\ WakeInv' /\ ThreadInv(tpc', tev', njobs')
  BY Zenon, <1>1, <1>2, <1>7 DEF QueueInv, ListInv, WakeInv
<1>10. PhaseInv'  BY Zenon, <1>1 DEF PhaseInv
<1>11. Placed(Queued(heap), Elems(first) \ {e}, Elems(ready), One(sev), Held(tev) \union {e},
              alive, paused)
  BY Zenon, <1>2 DEF PlaceInv, Placed
<1>12. PlaceInv'  BY Zenon, <1>1, <1>2, <1>6, <1>11 DEF PlaceInv
<1> QED  BY Zenon, <1>8, <1>9, <1>10, <1>12

LEMMA KeepsEventRan ==
    ASSUME SchedInvariant, NEW t \in Threads, EventRan(t)
    PROVE  SchedInvariant'
<1> USE DEF SchedInvariant
<1> DEFINE e == tev[t]
<1>1. /\ tpc[t] = "run"
      /\ IF e \in hashed
         THEN QueueEvent(e, e \in paused) /\ tev' = [tev EXCEPT ![t] = NULL] /\ JobServed(t)
         ELSE /\ tpc' = [tpc EXCEPT ![t] = "free"]
              /\ UNCHANGED <<heap, nextqueue, running, woken, tev, njobs, lock>>
      /\ UNCHANGED <<alive, hashed, paused, first, ready, sev, spc, shutdownPending, mpc>>
  BY Zenon DEF EventRan, eventVars, queueVars, schedVars
<1>2. tpc \in [Threads -> ThreadPcs]  BY Zenon DEF ThreadInv
<1>3. CASE e \notin hashed
  <2>1. /\ tpc' = [tpc EXCEPT ![t] = "free"]
        /\ UNCHANGED <<heap, nextqueue, running, woken, tev, njobs, lock>>
    BY Zenon, <1>1, <1>3
  <2>2. "free" \in ThreadPcs  BY DEF ThreadPcs
  <2>3. ThreadInv(tpc', tev, njobs)
    BY <1>1, <2>1, <2>2, ThreadMove
  <2>4. \A u \in Threads : tpc'[u] = "free" => tpc[u] = "free" \/ u = t  BY <1>2, <2>1
  <2>5. EventsInv'  BY Zenon, <1>1, <1>3, <2>1, <2>4 DEF EventsInv
  <2>6. /\ QueueInv' /\ ListInv' /\ WakeInv' /\ ThreadInv(tpc', tev', njobs') /\ PlaceInv'
        /\ PhaseInv'
    BY Zenon, <1>1, <2>1, <2>3 DEF QueueInv, ListInv, WakeInv, PlaceInv, PhaseInv
  <2> QED  BY Zenon, <2>5, <2>6
<1>4. CASE e \in hashed
  <2>1. QueueEvent(e, e \in paused) /\ tev' = [tev EXCEPT ![t] = NULL] /\ JobServed(t)
    BY Zenon, <1>1, <1>4
  <2>2. e \in Held(tev) /\ e \in Events /\ e \in ThreadEvents
    <3>1. e # NULL  BY <1>1 DEF ThreadInv
    <3> QED  BY Zenon, <3>1, HeldFacts DEF Events
  <2>3. e \notin Queued(heap)  BY Zenon, <2>2 DEF PlaceInv, Placed
  <2>4. /\ QueueInv' /\ woken' \subseteq {"sched", "main"}
        /\ \/ e \in paused /\ Queued(heap') = Queued(heap) /\ running' = running
           \/ e \notin paused /\ Queued(heap') = Queued(heap) \union {e} /\ running' = TRUE
    BY <2>1, <2>2, <2>3, QueueEventKeeps
  <2>5. /\ ThreadInv([tpc EXCEPT ![t] = "freed"], tev', njobs)
        /\ Held(tev') = Held(tev) \ {e}
    <3>1. tpc[t] \in {"run", "free"}  BY Zenon, <1>1
    <3>2. /\ ThreadInv([tpc EXCEPT ![t] = "freed"], [tev EXCEPT ![t] = NULL], njobs)
          /\ Held([tev EXCEPT ![t] = NULL]) = Held(tev) \ {tev[t]}
      BY Zenon, <3>1, ThreadDrop
    <3> QED  BY Zenon, <2>1, <3>2
  <2>6. /\ ThreadInv(tpc', tev', njobs') /\ lock' = t
        /\ \A u \in Threads : tpc'[u] = "free" => tpc[u] = "free" /\ u # t
    BY Zenon, <1>2, <2>1, <2>5, ThreadServed
  <2>7. EventsInv'
    <3>1. \A u \in Threads : u # t => tev'[u] = tev[u]  BY <2>1 DEF ThreadInv
    <3> QED  BY Zenon, <1>1, <2>6, <3>1 DEF EventsInv
  <2>8. ListInv' /\ WakeInv'  BY Zenon, <1>1, <2>4, <2>6 DEF ListInv, WakeInv
  <2>9. PhaseInv'
    <3>1. running  BY <1>4 DEF PhaseInv, EventsInv
    <3>2. running'  BY Zenon, <2>4, <3>1
    <3> QED  BY Zenon, <1>1, <3>1, <3>2 DEF PhaseInv
  <2>10. PlaceInv'
    <3> HIDE DEF e
    <3>1. CASE e \in paused
      <4>1. Placed(Queued(heap), Elems(first), Elems(ready), One(sev), Held(tev) \ {e}, alive, paused)
        BY Zenon, <3>1 DEF PlaceInv, Placed
      <4>2. Queued(heap') = Queued(heap)  BY Zenon, <2>4, <3>1
      <4> QED  BY Zenon, <1>1, <2>5, <4>1, <4>2 DEF PlaceInv
    <3>2. CASE e \notin paused
      <4>1. e \notin Elems(ready) /\ e \notin One(sev)
        <5>1. Elems(ready) \subseteq SyncEvents  BY Zenon, ElemsType DEF ListInv
        <5>2. One(sev) \subseteq SyncEvents  BY Zenon DEF One, PhaseInv
        <5> QED  BY Zenon, <2>2, <5>1, <5>2, SchedAssumption
      <4>2. Placed(Queued(heap) \union {e}, Elems(first), Elems(ready), One(sev), Held(tev) \ {e},
                   alive, paused)
        BY Zenon, <2>2, <3>2, <4>1 DEF PlaceInv, Placed
      <4>3. Queued(heap') = Queued(heap) \union {e}  BY Zenon, <2>4, <3>2
      <4> QED  BY Zenon, <1>1, <2>5, <4>2, <4>3 DEF PlaceInv
    <3> QED  BY Zenon, <3>1, <3>2
  <2> QED  BY Zenon, <2>4, <2>6, <2>7, <2>8, <2>9, <2>10
<1> QED  BY Zenon, <1>3, <1>4

LEMMA KeepsEventFree ==
    ASSUME SchedInvariant, NEW t \in Threads, EventFree(t)
    PROVE  SchedInvariant'
<1> USE DEF SchedInvariant
<1> DEFINE e == tev[t]
<1>1. /\ tpc[t] = "free" /\ alive' = alive \ {e} /\ tev' = [tev EXCEPT ![t] = NULL]
      /\ tpc' = [tpc EXCEPT ![t] = "freed"]
      /\ UNCHANGED <<hashed, paused, heap, nextqueue, first, ready, sev, spc, njobs, running,
                     shutdownPending, mpc, woken, lock>>
  BY Zenon DEF EventFree, queueVars, schedVars
<1>2. ThreadInv(tpc', tev', njobs) /\ Held(tev') = Held(tev) \ {e}
  BY <1>1, ThreadDrop
<1>3. e \in Held(tev) /\ e \in ThreadEvents
  <2>1. e # NULL  BY <1>1 DEF ThreadInv
  <2> QED  BY Zenon, <2>1, HeldFacts
<1>4. \A u \in Threads : tpc'[u] = "free" => tpc[u] = "free" /\ tev'[u] = tev[u]
  BY <1>1 DEF ThreadInv
<1>5. EventsInv'
  <2>1. e \notin hashed  BY Zenon, <1>1 DEF EventsInv
  <2>2. hashed' = hashed /\ paused' = paused /\ alive' = alive \ {e}  BY Zenon, <1>1
  <2> HIDE DEF e
  <2>3. hashed' \subseteq alive' /\ alive' \subseteq Events
    BY Zenon, <2>1, <2>2 DEF EventsInv
  <2> QED  BY Zenon, <1>4, <2>2, <2>3 DEF EventsInv
<1>6. QueueInv' /\ ListInv' /\ WakeInv' /\ ThreadInv(tpc', tev', njobs')
  BY Zenon, <1>1, <1>2 DEF QueueInv, ListInv, WakeInv
<1>7. PhaseInv'
  <2>1. spc = "off" => alive' = {}  BY Zenon, <1>1 DEF PhaseInv
  <2> QED  BY Zenon, <1>1, <2>1 DEF PhaseInv
<1>8. e \notin Elems(ready) /\ e \notin One(sev)
  <2>1. Elems(ready) \subseteq SyncEvents  BY Zenon, ElemsType DEF ListInv
  <2>2. One(sev) \subseteq SyncEvents  BY Zenon DEF One, PhaseInv
  <2> QED  BY Zenon, <1>3, <2>1, <2>2, SchedAssumption
<1>9. Placed(Queued(heap), Elems(first), Elems(ready), One(sev), Held(tev) \ {e}, alive \ {e},
             paused)
  <2> HIDE DEF e
  <2> QED  BY Zenon, <1>3, <1>8 DEF PlaceInv, Placed
<1>10. PlaceInv'  BY Zenon, <1>1, <1>2, <1>9 DEF PlaceInv
<1> QED  BY Zenon, <1>5, <1>6, <1>7, <1>10

(* The other steps of an event thread move this thread only.               *)
LEMMA KeepsThread ==
    ASSUME SchedInvariant, NEW t \in Threads, WaitOrLeave(t) \/ EventFreed(t) \/ EventExit(t)
    PROVE  SchedInvariant'
<1> USE DEF SchedInvariant
<1>0. tpc \in [Threads -> ThreadPcs]  BY Zenon DEF ThreadInv
<1>1. UNCHANGED <<alive, hashed, paused, heap, nextqueue, first, ready, sev, spc, tev, running,
                  shutdownPending, mpc>>
  BY Zenon DEF WaitOrLeave, EventFreed, EventExit, eventVars, queueVars, schedVars
<1>2. /\ ThreadInv(tpc', tev, njobs') /\ woken' \subseteq {"sched", "main"}
      /\ lock' \in Threads \union {NULL}
      /\ \A u \in Threads : tpc'[u] = "free" => tpc[u] = "free"
  <2>1. CASE WaitOrLeave(t)
    <3>1. PICK v \in {"wait", "exit"} : tpc' = [tpc EXCEPT ![t] = v]
      BY <2>1 DEF WaitOrLeave
    <3>2. /\ tpc[t] = "begin" /\ njobs' = njobs /\ woken' = woken /\ lock' \in Threads \union {NULL}
      BY <2>1 DEF WaitOrLeave
    <3>3. v \in ThreadPcs  BY DEF ThreadPcs
    <3>4. ThreadInv(tpc', tev, njobs)  BY <3>1, <3>2, <3>3, ThreadMove
    <3>5. \A u \in Threads : tpc'[u] = "free" => tpc[u] = "free"  BY <1>0, <3>1
    <3> QED  BY Zenon, <3>2, <3>4, <3>5 DEF WakeInv
  <2>2. CASE EventFreed(t)
    <3>1. tpc[t] = "freed" /\ JobServed(t) /\ woken' = woken
      BY Zenon, <2>2 DEF EventFreed
    <3>2. [tpc EXCEPT ![t] = "freed"] = tpc  BY <1>0, <3>1
    <3>3. ThreadInv([tpc EXCEPT ![t] = "freed"], tev, njobs)  BY Zenon, <3>2
    <3>4. /\ ThreadInv(tpc', tev, njobs') /\ lock' = t
          /\ \A u \in Threads : tpc'[u] = "free" => tpc[u] = "free" /\ u # t
      BY Zenon, <1>0, <3>1, <3>3, ThreadServed
    <3> QED  BY Zenon, <3>1, <3>4 DEF WakeInv
  <2>3. CASE EventExit(t)
    <3>1. /\ tpc[t] = "exit" /\ tpc' = [tpc EXCEPT ![t] = "none"] /\ njobs' = njobs /\ SignalSched
          /\ lock' = NULL
      BY Zenon, <2>3 DEF EventExit
    <3>2. "none" \in ThreadPcs  BY DEF ThreadPcs
    <3>3. ThreadInv(tpc', tev, njobs)  BY <3>1, <3>2, ThreadMove
    <3>4. \A u \in Threads : tpc'[u] = "free" => tpc[u] = "free"  BY <1>0, <3>1
    <3>5. woken' \subseteq {"sched", "main"}  BY Zenon, <3>1, SignalKeeps
    <3> QED  BY Zenon, <3>1, <3>3, <3>4, <3>5
  <2> QED  BY Zenon, <2>1, <2>2, <2>3
<1>3. EventsInv'  BY Zenon, <1>1, <1>2 DEF EventsInv
<1>4. /\ QueueInv' /\ ListInv' /\ WakeInv' /\ ThreadInv(tpc', tev', njobs') /\ PlaceInv'
      /\ PhaseInv'
  BY Zenon, <1>1, <1>2 DEF QueueInv, ListInv, WakeInv, PlaceInv, PhaseInv
<1> QED  BY Zenon, <1>3, <1>4

(* Steps that leave the events alone.                                      *)
LEMMA KeepsRest ==
    ASSUME SchedInvariant,
           \/ \E now \in Times \union {0} : SchedStart(now)
           \/ SchedWake \/ SchedDrained \/ SchedDone
           \/ NsStartSchedShutdown \/ MainStep \/ ShutdownTimeout
           \/ UNCHANGED vars
    PROVE  SchedInvariant'
<1> USE DEF SchedInvariant
<1> DEFINE Same == UNCHANGED <<alive, hashed, paused, heap, first, ready, sev, tpc, tev, njobs, lock>>
<1>1. ASSUME Same, nextqueue' \in [Events -> Times \union {0}], mpc' \in MainPcs,
             woken' \subseteq {"sched", "main"}, PhaseInv'
      PROVE  SchedInvariant'
  <2>1. EventsInv' /\ QueueInv' /\ ListInv' /\ ThreadInv(tpc', tev', njobs') /\ PlaceInv' /\ WakeInv'
    BY Zenon, <1>1 DEF EventsInv, QueueInv, ListInv, PlaceInv, WakeInv
  <2> QED  BY Zenon, <1>1, <2>1
<1>2. nextqueue \in [Events -> Times \union {0}] /\ mpc \in MainPcs /\ woken \subseteq {"sched", "main"}
  BY Zenon DEF QueueInv, WakeInv
<1>3. ASSUME NEW now \in Times \union {0}, SchedStart(now) PROVE SchedInvariant'
  <2>1. Same /\ UNCHANGED <<mpc, woken>>
    BY Zenon, <1>3 DEF SchedStart, eventVars, threadVars
  <2>2. nextqueue' \in [Events -> Times \union {0}]  BY <1>2, <1>3 DEF SchedStart
  <2>3. PhaseInv'  BY <1>3, <2>1 DEF SchedStart, PhaseInv, SchedPcs
  <2> QED  BY Zenon, <1>1, <1>2, <2>1, <2>2, <2>3
<1>4. ASSUME SchedWake \/ SchedDrained \/ SchedDone PROVE SchedInvariant'
  <2>1. Same /\ UNCHANGED <<mpc, nextqueue, shutdownPending>>
    BY Zenon, <1>4 DEF SchedWake, SchedDrained, SchedDone, eventVars, queueVars, threadVars
  <2>2. woken' \subseteq {"sched", "main"}
    BY Zenon, <1>2, <1>4 DEF SchedWake, SchedDrained, SchedDone, SchedWaiters
  <2>3. PhaseInv'
    BY <1>4, <2>1 DEF SchedWake, SchedDrained, SchedDone, PhaseInv, SchedPcs
  <2> QED  BY Zenon, <1>1, <1>2, <2>1, <2>2, <2>3
<1>5. ASSUME NsStartSchedShutdown \/ MainStep \/ ShutdownTimeout PROVE SchedInvariant'
  <2>0. shutdownPending => shutdownPending'
    BY <1>5 DEF NsStartSchedShutdown, MainStep, NsWaitSchedShutdown, ShutdownWoken, ShutdownTimeout
  <2>1. Same /\ UNCHANGED <<nextqueue, spc, running>>
    BY Zenon, <1>5 DEF NsStartSchedShutdown, MainStep, NsWaitSchedShutdown, ShutdownWoken,
                       ShutdownTimeout, eventVars, queueVars, threadVars, schedVars
  <2>2. woken' \subseteq {"sched", "main"}
    BY Zenon, <1>2, <1>5, SignalKeeps
       DEF NsStartSchedShutdown, MainStep, NsWaitSchedShutdown, ShutdownWoken, ShutdownTimeout
  <2>3. mpc' \in MainPcs
    BY <1>5 DEF NsStartSchedShutdown, MainStep, NsWaitSchedShutdown, ShutdownWoken,
                ShutdownTimeout, MainPcs
  <2>4. PhaseInv'  BY Zenon, <2>0, <2>1 DEF PhaseInv
  <2> QED  BY Zenon, <1>1, <1>2, <2>1, <2>2, <2>3, <2>4
<1>6. ASSUME UNCHANGED vars PROVE SchedInvariant'
  <2>1. Same /\ UNCHANGED <<nextqueue, mpc, woken, spc, running, shutdownPending>>
    BY Zenon, <1>6 DEF vars, eventVars, queueVars, threadVars, schedVars
  <2>2. PhaseInv'  BY Zenon, <2>1 DEF PhaseInv
  <2> QED  BY Zenon, <1>1, <1>2, <2>1, <2>2
<1> QED  BY Zenon, <1>3, <1>4, <1>5, <1>6

LEMMA InvariantInit == Init => SchedInvariant
<1> SUFFICES ASSUME Init PROVE SchedInvariant
  OBVIOUS
<1>1. WellFormed(heap) /\ Queued(heap) = {}  BY Zenon, EmptyHeap DEF Init
<1>2. QueueInv  BY <1>1 DEF QueueInv, Init
<1>3. ListInv /\ Elems(first) = {} /\ Elems(ready) = {}
  BY Zenon, ListEmpty DEF ListInv, Init
<1>4. ThreadInv(tpc, tev, njobs) /\ EventsInv
  BY SchedAssumption DEF ThreadInv, EventsInv, Init, ThreadPcs
<1>5. One(sev) = {} /\ Held(tev) = {}  BY DEF Init, One, Held
<1>6. PlaceInv  BY <1>1, <1>3, <1>5 DEF PlaceInv, Placed, Init
<1>7. PhaseInv /\ WakeInv  BY DEF PhaseInv, WakeInv, Init, SchedPcs, MainPcs
<1> QED  BY Zenon, <1>2, <1>3, <1>4, <1>6, <1>7 DEF SchedInvariant

LEMMA InvariantStep ==
    ASSUME ~ResumeRunning, SchedInvariant, [Next]_vars PROVE SchedInvariant'
<1>1. ASSUME NEW e \in Events,
             Ns_ScheduleProcEx(e) \/ Ns_Cancel(e) \/ Ns_Pause(e) \/ Ns_Resume(e)
      PROVE  SchedInvariant'
  BY Zenon, <1>1, KeepsSchedule, KeepsCancel, KeepsPause, KeepsResume
<1>2. CASE SchedStep
  BY Zenon, <1>2, KeepsRest, KeepsLoop, KeepsRan, KeepsRequeue, KeepsDrain, KeepsCleanup
     DEF SchedStep
<1>3. ASSUME NEW t \in Threads, EventStep(t) PROVE SchedInvariant'
  BY Zenon, <1>3, KeepsTake, KeepsEventRan, KeepsEventFree, KeepsThread DEF EventStep
<1>4. CASE NsStartSchedShutdown \/ MainStep \/ ShutdownTimeout \/ UNCHANGED vars
  BY Zenon, <1>4, KeepsRest
<1> QED  BY Zenon, <1>1, <1>2, <1>3, <1>4 DEF Next

-----------------------------------------------------------------------------
LEMMA InvariantPositions == SchedInvariant => PositionsKnown
<1> SUFFICES ASSUME SchedInvariant PROVE PositionsKnown
  OBVIOUS
<1>1. /\ \A k \in 1 .. Len(heap.queue) : heap.qid[heap.queue[k]] = k
      /\ \A e \in Queued(heap) : heap.queue[heap.qid[e]] = e
  BY WellFormedFacts DEF SchedInvariant, QueueInv
<1> QED  BY Zenon, <1>1 DEF PositionsKnown, QidsMatch, Queued

LEMMA HeldCount ==
    ASSUME NEW p, NEW v, NEW j, ThreadInv(p, v, j), NEW e \in Events
    PROVE  Cardinality({t \in Threads : v[t] = e}) = IF e \in Held(v) THEN 1 ELSE 0
<1> DEFINE T == {t \in Threads : v[t] = e}
<1>0. e # NULL  BY Zenon, HeldFacts
<1>1. CASE e \in Held(v)
  <2>1. PICK t \in Threads : e = v[t]  BY Zenon, <1>1 DEF Held
  <2>2. T = {t}  BY Zenon, <1>0, <2>1 DEF ThreadInv
  <2>3. Cardinality(T) = 1  BY Zenon, <2>2, FS_Singleton
  <2> QED  BY Zenon, <1>1, <2>3
<1>2. CASE e \notin Held(v)
  <2>1. T = {}  BY Zenon, <1>0, <1>2 DEF Held
  <2>2. Cardinality(T) = 0  BY Zenon, <2>1, FS_EmptySet
  <2> QED  BY Zenon, <1>2, <2>2
<1> QED  BY Zenon, <1>1, <1>2

LEMMA InvariantPlaces == SchedInvariant => EventInOnePlace
<1> SUFFICES ASSUME SchedInvariant, NEW e \in Events
             PROVE  /\ Places(e) <= 1
                    /\ Places(e) = 1 => e \in alive
                    /\ e \in alive /\ Places(e) = 0 => e \in paused
  BY Zenon DEF EventInOnePlace
<1> USE DEF SchedInvariant
<1> DEFINE b(P) == IF P THEN 1 ELSE 0
           q == e \in Queued(heap)
           f == e \in Elems(first)
           r == e \in Elems(ready)
           s == e \in One(sev)
           h == e \in Held(tev)
<1>1. NoRepeat(heap.queue) /\ Elems(heap.queue) = Queued(heap)
  BY Zenon, QueueElems DEF QueueInv
<1>2. InSeq(heap.queue, e) = b(q)
  <2> DEFINE x == heap.queue
  <2>1. NoRepeat(x) /\ (e \in Elems(x) <=> q)  BY Zenon, <1>1
  <2> HIDE DEF q, x
  <2>2. InSeq(x, e) = b(e \in Elems(x))  BY Zenon, <2>1, ListCount DEF InSeq
  <2> QED  BY <2>1, <2>2 DEF x
<1>3. InSeq(first, e) = b(f) /\ InSeq(ready, e) = b(r)
  BY Zenon, ListCount DEF InSeq, ListInv
<1>4. (IF sev = e THEN 1 ELSE 0) = b(s)  BY Zenon, HeldFacts DEF One
<1>5. Cardinality({t \in Threads : tev[t] = e}) = b(h)  BY Zenon, HeldCount
<1>6. Places(e) = b(q) + b(f) + b(r) + b(s) + b(h)
  BY Zenon, <1>2, <1>3, <1>4, <1>5 DEF Places
<1>7. /\ ~(f /\ r) /\ ~(f /\ s) /\ ~(h /\ r) /\ ~(h /\ s)
  <2>1. Elems(first) \subseteq ThreadEvents /\ Elems(ready) \subseteq SyncEvents
    BY Zenon, ElemsType DEF ListInv
  <2>2. One(sev) \subseteq SyncEvents  BY Zenon DEF One, PhaseInv
  <2> QED  BY Zenon, <2>1, <2>2, HeldFacts, SchedAssumption
<1>8. /\ q => ~f /\ ~r /\ ~s /\ ~h
      /\ f => ~h
      /\ r => ~s
      /\ q \/ f \/ r \/ s \/ h => e \in alive
      /\ e \in alive => q \/ f \/ r \/ s \/ h \/ e \in paused
  BY Zenon DEF PlaceInv, Placed
<1> HIDE DEF q, f, r, s, h
<1>9. CASE q  BY <1>6, <1>8, <1>9
<1>10. CASE f  BY <1>6, <1>7, <1>8, <1>10
<1>11. CASE r  BY <1>6, <1>7, <1>8, <1>11
<1>12. CASE s  BY <1>6, <1>7, <1>8, <1>12
<1>13. CASE h  BY <1>6, <1>7, <1>8, <1>13
<1>14. CASE ~q /\ ~f /\ ~r /\ ~s /\ ~h  BY <1>6, <1>8, <1>14
<1> QED  BY Zenon, <1>9, <1>10, <1>11, <1>12, <1>13, <1>14

LEMMA InvariantTypes == SchedInvariant /\ CountInv => TypeOK
<1> SUFFICES ASSUME SchedInvariant, CountInv PROVE TypeOK
  OBVIOUS
<1> USE DEF SchedInvariant
<1>1. heap.queue \in Seq(Events) /\ heap.qid \in [Events -> Nat]
  BY Zenon, WellFormedFacts DEF QueueInv
<1>2. nThreads \in Nat /\ nIdleThreads \in Nat
  <2>1. IsFiniteSet(Threads)  BY Zenon, SchedAssumption
  <2> QED  BY <2>1, CountType DEF CountInv, Accounted
<1> QED
  BY Zenon, <1>1, <1>2 DEF TypeOK, EventsInv, QueueInv, ListInv, ThreadInv, PhaseInv, WakeInv

(* An event has one owner: the queue, one of the lists, SchedThread or an  *)
(* event thread; whoever owns an event owns one that FreeEvent has not     *)
(* freed, and one that nobody owns is paused.                              *)
THEOREM EventsInOnePlace ==
    ASSUME ~ResumeRunning PROVE Spec => []EventInOnePlace
<1>1. Spec => []SchedInvariant  BY InvariantInit, InvariantStep, PTL DEF Spec
<1> QED  BY <1>1, InvariantPlaces, PTL

(* Every queued event knows its position in the array, through all         *)
(* exchanges of QueueEvent and DeQueueEvent, so that Ns_Cancel and         *)
(* Ns_Pause remove the event they mean; no other event has a position.     *)
THEOREM QueuePositions ==
    ASSUME ~ResumeRunning PROVE Spec => []PositionsKnown
<1>1. Spec => []SchedInvariant  BY InvariantInit, InvariantStep, PTL DEF Spec
<1> QED  BY <1>1, InvariantPositions, PTL

(* The types; among them that a thread event is never in the list of       *)
(* SchedThread, an entry of eventsTable is never one of a freed event, and *)
(* njobs and the counters of the threads never become negative.            *)
THEOREM SchedTypes ==
    ASSUME ~ResumeRunning PROVE Spec => []TypeOK
<1>1. Spec => []SchedInvariant  BY InvariantInit, InvariantStep, PTL DEF Spec
<1>2. Spec => []CountInv  BY CountInit, CountStep, PTL DEF Spec
<1> QED  BY <1>1, <1>2, InvariantTypes, PTL
=============================================================================
