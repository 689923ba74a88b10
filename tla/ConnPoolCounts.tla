--------------------------- MODULE ConnPoolCounts ---------------------------
(***************************************************************************)
(* The counters of a pool are exact, and the number of connection threads  *)
(* exceeds maxthreads by a bounded amount, for every size of the pool.     *)
(* Then, for a pool whose size is fixed: what the code asserts about the   *)
(* hand-over of a Conn to an idle thread holds, and no request is lost,    *)
(* for every number of threads and Conns.  Last, that the limits of a pool *)
(* stay ordered under one administrator.                                   *)
(***************************************************************************)
EXTENDS ConnPoolOwners, Counting

-----------------------------------------------------------------------------
(* Thread accounting.  The counted threads are seen as counts of control   *)
(* states, so that one lemma covers every step that moves one thread.      *)

IdleCountPcs == IdlePcs \union {"enqueue", "unidle"}
CreatorPcs == {"slot", "nocreate"}

AccountedBy(p, q, cu, cr, id) ==
    /\ cu = Count(Slots, p, CountedPcs) + Count(Callers, q, CreatorPcs)
    /\ cr = Count(Slots, p, {"start"}) + Count(Callers, q, CreatorPcs)
    /\ id = Count(Slots, p, IdleCountPcs)

LEMMA AccountingForm ==
    /\ ThreadAccounting <=> AccountedBy(pc, dpc, current, creating, idle)
    /\ ThreadAccounting' <=> AccountedBy(pc', dpc', current', creating', idle')
BY Zenon DEF ThreadAccounting, AccountedBy, Counted, Starting, IdleSet, Creators, Count,
       IdleCountPcs, CreatorPcs

LEMMA SlotsFinite == IsFiniteSet(Slots) /\ IsFiniteSet(Callers)
BY FS_Interval, ThreadRangeAssumption, IdentityAssumption DEF Slots

(* One thread, or one caller, changes its control state.                   *)
LEMMA SlotUpdate ==
    ASSUME NEW i \in Slots, NEW v, pc'[i] = v, \A j \in Slots : j # i => pc'[j] = pc[j]
    PROVE  \A P : Count(Slots, pc', P) = Count(Slots, pc, P) - Ind(pc[i], P) + Ind(v, P)
<1>1. DiffersAt(Slots, pc, pc', i)  BY Zenon DEF DiffersAt
<1> QED  BY <1>1, SlotsFinite, CountUpdate, SMTT(30)

LEMMA CallerUpdateAt ==
    ASSUME NEW d \in Callers, NEW v, dpc'[d] = v,
           \A e \in Callers : e # d => dpc'[e] = dpc[e]
    PROVE  \A P : Count(Callers, dpc', P)
                    = Count(Callers, dpc, P) - Ind(dpc[d], P) + Ind(v, P)
<1>1. DiffersAt(Callers, dpc, dpc', d)  BY Zenon DEF DiffersAt
<1> QED  BY <1>1, SlotsFinite, CountUpdate, SMTT(30)

LEMMA CallerUpdate ==
    ASSUME PtrInv, NEW d \in Callers, NEW v, dpc' = [dpc EXCEPT ![d] = v], NEW P
    PROVE  Count(Callers, dpc', P) = Count(Callers, dpc, P) - Ind(dpc[d], P) + Ind(v, P)
<1>1. dpc'[d] = v /\ \A e \in Callers : e # d => dpc'[e] = dpc[e]
  BY Zenon DEF PtrInv, TypeOK, CallTypeOK
<1> QED  BY <1>1, CallerUpdateAt, Zenon

(* A thread moves from one control state to another.                       *)
LEMMA ThreadMoves ==
    ASSUME PtrInv, ThreadAccounting, NEW i \in Slots, NEW v,
           pc'[i] = v, \A j \in Slots : j # i => pc'[j] = pc[j], dpc' = dpc,
           current' = current - Ind(pc[i], CountedPcs) + Ind(v, CountedPcs),
           creating' = creating - Ind(pc[i], {"start"}) + Ind(v, {"start"}),
           idle' = idle - Ind(pc[i], IdleCountPcs) + Ind(v, IdleCountPcs)
    PROVE  ThreadAccounting'
<1> DEFINE nC == Count(Slots, pc, CountedPcs)   nC1 == Count(Slots, pc', CountedPcs)
           nS == Count(Slots, pc, {"start"})    nS1 == Count(Slots, pc', {"start"})
           nI == Count(Slots, pc, IdleCountPcs) nI1 == Count(Slots, pc', IdleCountPcs)
           nK == Count(Callers, dpc, CreatorPcs)
<1>2. nC \in Nat /\ nS \in Nat /\ nI \in Nat /\ nK \in Nat
  BY Zenon, SlotsFinite, CountType
<1>3. \A P : Count(Slots, pc', P) = Count(Slots, pc, P) - Ind(pc[i], P) + Ind(v, P)
  BY ZenonT(30), SlotUpdate
<1>4. /\ nC1 = nC - Ind(pc[i], CountedPcs) + Ind(v, CountedPcs)
      /\ nS1 = nS - Ind(pc[i], {"start"}) + Ind(v, {"start"})
      /\ nI1 = nI - Ind(pc[i], IdleCountPcs) + Ind(v, IdleCountPcs)
  BY Zenon, <1>3
<1>6. current = nC + nK /\ creating = nS + nK /\ idle = nI
  BY Zenon, AccountingForm DEF AccountedBy
<1>7. \A x, P : Ind(x, P) \in Int  BY DEF Ind
<1>8. current' = nC1 + nK /\ creating' = nS1 + nK /\ idle' = nI1
  <2> HIDE DEF nC, nS, nI, nK, nC1, nS1, nI1
  <2> QED  BY <1>2, <1>4, <1>6, <1>7
<1> QED  BY Zenon, <1>8, AccountingForm DEF AccountedBy

(* The same for a step written with Goto.                                  *)
LEMMA GotoCounts ==
    ASSUME PtrInv, ThreadAccounting, NEW i \in Slots, NEW v, Goto(i, v), dpc' = dpc,
           current' = current - Ind(pc[i], CountedPcs) + Ind(v, CountedPcs),
           creating' = creating - Ind(pc[i], {"start"}) + Ind(v, {"start"}),
           idle' = idle - Ind(pc[i], IdleCountPcs) + Ind(v, IdleCountPcs)
    PROVE  ThreadAccounting'
<1>1. pc'[i] = v /\ \A j \in Slots : j # i => pc'[j] = pc[j]
  BY Zenon DEF Goto, PtrInv, TypeOK, ThreadTypeOK
<1> QED  BY Zenon, <1>1, ThreadMoves

(* Of the threads being created at least one is the one that starts.       *)
LEMMA StartingCounts ==
    ASSUME PtrInv, ThreadAccounting, NEW i \in Slots, pc[i] = "start"
    PROVE  creating > 0
<1>1. i \in Starting /\ Starting \in SUBSET Slots  BY Zenon DEF Starting
<1>2. IsFiniteSet(Starting)  BY Zenon, <1>1, SlotsFinite, FS_Subset
<1>3. Cardinality(Starting) \in Nat /\ Cardinality(Starting) # 0
  BY Zenon, <1>1, <1>2, FS_CardinalityType, FS_EmptySet
<1>4. Cardinality(Creators) \in Nat
  <2>1. Creators \in SUBSET Callers  BY Zenon DEF Creators
  <2> QED  BY Zenon, <2>1, SlotsFinite, FS_Subset, FS_CardinalityType
<1>5. creating = Cardinality(Starting) + Cardinality(Creators)
  BY Zenon DEF ThreadAccounting
<1> QED  BY <1>3, <1>4, <1>5

(* The counters stay exact in each step of a connection thread.              *)
LEMMA CountsConnThreadStart ==
    ASSUME PtrInv, ThreadAccounting, NEW i \in Slots, ConnThreadStart(i)
    PROVE  ThreadAccounting'
<1> USE DEF Ind, CountedPcs, IdleCountPcs, ThreadPcs, IdlePcs, ReadyPcs, BusyPcs, DeadPcs
<1>0. current \in Int /\ creating \in Int /\ idle \in Int
  BY Zenon DEF PtrInv, TypeOK, LimitTypeOK
<1>1. Goto(i, "warm")
  BY Zenon DEF ConnThreadStart
<1> QED
  BY <1>0, <1>1, GotoCounts, StartingCounts DEF ConnThreadStart, countVars, driverVars

LEMMA CountsConnThreadReady ==
    ASSUME PtrInv, ThreadAccounting, NEW i \in Slots, ConnThreadReady(i)
    PROVE  ThreadAccounting'
<1> USE DEF Ind, CountedPcs, IdleCountPcs, ThreadPcs, IdlePcs, ReadyPcs, BusyPcs, DeadPcs
<1>0. current \in Int /\ creating \in Int /\ idle \in Int
  BY Zenon DEF PtrInv, TypeOK, LimitTypeOK
<1>1. Goto(i, "ready")
  BY Zenon DEF ConnThreadReady
<1> QED
  BY <1>0, <1>1, GotoCounts, SMTT(30) DEF ConnThreadReady, countVars, driverVars

LEMMA CountsLoopTop ==
    ASSUME PtrInv, ThreadAccounting, NEW i \in Slots, LoopTop(i)
    PROVE  ThreadAccounting'
<1> USE DEF Ind, CountedPcs, IdleCountPcs, ThreadPcs, IdlePcs, ReadyPcs, BusyPcs, DeadPcs
<1>0. current \in Int /\ creating \in Int /\ idle \in Int
  BY Zenon DEF PtrInv, TypeOK, LimitTypeOK
<1>1. Goto(i, "dequeue") \/ Goto(i, "toidle") \/ Goto(i, "run")
  BY Zenon DEF LoopTop
<1> QED
  BY <1>0, <1>1, GotoCounts, SMTT(30) DEF LoopTop, countVars, driverVars

LEMMA CountsDequeueConn ==
    ASSUME PtrInv, ThreadAccounting, NEW i \in Slots, DequeueConn(i)
    PROVE  ThreadAccounting'
<1> USE DEF Ind, CountedPcs, IdleCountPcs, ThreadPcs, IdlePcs, ReadyPcs, BusyPcs, DeadPcs
<1>0. current \in Int /\ creating \in Int /\ idle \in Int
  BY Zenon DEF PtrInv, TypeOK, LimitTypeOK
<1>1. Goto(i, "toidle") \/ Goto(i, "run")
  BY Zenon DEF DequeueConn
<1> QED
  BY <1>0, <1>1, GotoCounts, SMTT(30) DEF DequeueConn, countVars, driverVars

LEMMA CountsEnterIdle ==
    ASSUME PtrInv, ThreadAccounting, NEW i \in Slots, EnterIdle(i)
    PROVE  ThreadAccounting'
<1> USE DEF Ind, CountedPcs, IdleCountPcs, ThreadPcs, IdlePcs, ReadyPcs, BusyPcs, DeadPcs
<1>0. current \in Int /\ creating \in Int /\ idle \in Int
  BY Zenon DEF PtrInv, TypeOK, LimitTypeOK
<1>1. Goto(i, "enqueue")
  BY Zenon DEF EnterIdle
<1> QED
  BY <1>0, <1>1, GotoCounts, SMTT(30) DEF EnterIdle, countVars, driverVars

LEMMA CountsEnqueueThread ==
    ASSUME PtrInv, ThreadAccounting, NEW i \in Slots, EnqueueThread(i)
    PROVE  ThreadAccounting'
<1> USE DEF Ind, CountedPcs, IdleCountPcs, ThreadPcs, IdlePcs, ReadyPcs, BusyPcs, DeadPcs
<1>0. current \in Int /\ creating \in Int /\ idle \in Int
  BY Zenon DEF PtrInv, TypeOK, LimitTypeOK
<1>1. Goto(i, "idlecheck")
  BY Zenon DEF EnqueueThread
<1> QED
  BY <1>0, <1>1, GotoCounts, SMTT(30) DEF EnqueueThread, countVars, driverVars

LEMMA CountsIdleWait ==
    ASSUME PtrInv, ThreadAccounting, NEW i \in Slots, IdleWait(i)
    PROVE  ThreadAccounting'
<1> USE DEF Ind, CountedPcs, IdleCountPcs, ThreadPcs, IdlePcs, ReadyPcs, BusyPcs, DeadPcs
<1>0. current \in Int /\ creating \in Int /\ idle \in Int
  BY Zenon DEF PtrInv, TypeOK, LimitTypeOK
<1>1. Goto(i, "leave") \/ Goto(i, "waiting")
  BY Zenon DEF IdleWait
<1> QED
  BY <1>0, <1>1, GotoCounts, SMTT(30) DEF IdleWait, countVars, driverVars

LEMMA CountsIdleSignaled ==
    ASSUME PtrInv, ThreadAccounting, NEW i \in Slots, IdleSignaled(i)
    PROVE  ThreadAccounting'
<1> USE DEF Ind, CountedPcs, IdleCountPcs, ThreadPcs, IdlePcs, ReadyPcs, BusyPcs, DeadPcs
<1>0. current \in Int /\ creating \in Int /\ idle \in Int
  BY Zenon DEF PtrInv, TypeOK, LimitTypeOK
<1>1. Goto(i, "leave") \/ Goto(i, "idlecheck")
  BY Zenon DEF IdleSignaled, Awake
<1> QED
  BY <1>0, <1>1, GotoCounts, SMTT(30) DEF IdleSignaled, Awake, countVars, driverVars

LEMMA CountsLeaveIdle ==
    ASSUME PtrInv, ThreadAccounting, NEW i \in Slots, LeaveIdle(i)
    PROVE  ThreadAccounting'
<1> USE DEF Ind, CountedPcs, IdleCountPcs, ThreadPcs, IdlePcs, ReadyPcs, BusyPcs, DeadPcs
<1>0. current \in Int /\ creating \in Int /\ idle \in Int
  BY Zenon DEF PtrInv, TypeOK, LimitTypeOK
<1>1. Goto(i, "unidle")
  BY Zenon DEF LeaveIdle
<1> QED
  BY <1>0, <1>1, GotoCounts, SMTT(30) DEF LeaveIdle, countVars, driverVars

LEMMA CountsIdleDone ==
    ASSUME PtrInv, ThreadAccounting, NEW i \in Slots, IdleDone(i)
    PROVE  ThreadAccounting'
<1> USE DEF Ind, CountedPcs, IdleCountPcs, ThreadPcs, IdlePcs, ReadyPcs, BusyPcs, DeadPcs
<1>0. current \in Int /\ creating \in Int /\ idle \in Int
  BY Zenon DEF PtrInv, TypeOK, LimitTypeOK
<1>1. Goto(i, "exit") \/ Goto(i, "run")
  BY Zenon DEF IdleDone
<1> QED
  BY <1>0, <1>1, GotoCounts, SMTT(30) DEF IdleDone, countVars, driverVars

LEMMA CountsConnRunStart ==
    ASSUME PtrInv, ThreadAccounting, NEW i \in Slots, ConnRunStart(i)
    PROVE  ThreadAccounting'
<1> USE DEF Ind, CountedPcs, IdleCountPcs, ThreadPcs, IdlePcs, ReadyPcs, BusyPcs, DeadPcs
<1>0. current \in Int /\ creating \in Int /\ idle \in Int
  BY Zenon DEF PtrInv, TypeOK, LimitTypeOK
<1>1. Goto(i, "running")
  BY SMTT(30) DEF ConnRunStart
<1> QED
  BY <1>0, <1>1, GotoCounts, SMTT(30) DEF ConnRunStart, countVars, driverVars

LEMMA CountsConnRunClose ==
    ASSUME PtrInv, ThreadAccounting, NEW i \in Slots, ConnRunClose(i)
    PROVE  ThreadAccounting'
<1> USE DEF Ind, CountedPcs, IdleCountPcs, ThreadPcs, IdlePcs, ReadyPcs, BusyPcs, DeadPcs
<1>0. current \in Int /\ creating \in Int /\ idle \in Int
  BY Zenon DEF PtrInv, TypeOK, LimitTypeOK
<1>1. Goto(i, "freeing")
  BY SMTT(30) DEF ConnRunClose
<1> QED
  BY <1>0, <1>1, GotoCounts, SMTT(30) DEF ConnRunClose, countVars, driverVars

LEMMA CountsFreeConn ==
    ASSUME PtrInv, ThreadAccounting, NEW i \in Slots, FreeConn(i)
    PROVE  ThreadAccounting'
<1> USE DEF Ind, CountedPcs, IdleCountPcs, ThreadPcs, IdlePcs, ReadyPcs, BusyPcs, DeadPcs
<1>0. current \in Int /\ creating \in Int /\ idle \in Int
  BY Zenon DEF PtrInv, TypeOK, LimitTypeOK
<1>1. Goto(i, "snapshot") \/ Goto(i, "ready")
  BY Zenon DEF FreeConn
<1> QED
  BY <1>0, <1>1, GotoCounts, SMTT(30) DEF FreeConn, countVars, driverVars

LEMMA CountsSnapshot ==
    ASSUME PtrInv, ThreadAccounting, NEW i \in Slots, Snapshot(i)
    PROVE  ThreadAccounting'
<1> USE DEF Ind, CountedPcs, IdleCountPcs, ThreadPcs, IdlePcs, ReadyPcs, BusyPcs, DeadPcs
<1>0. current \in Int /\ creating \in Int /\ idle \in Int
  BY Zenon DEF PtrInv, TypeOK, LimitTypeOK
<1>1. Goto(i, "ready") \/ Goto(i, "exit")
  BY Zenon DEF Snapshot
<1> QED
  BY <1>0, <1>1, GotoCounts, SMTT(30) DEF Snapshot, countVars, driverVars

LEMMA CountsConnThreadDead ==
    ASSUME PtrInv, ThreadAccounting, NEW i \in Slots, ConnThreadDead(i)
    PROVE  ThreadAccounting'
<1> USE DEF Ind, CountedPcs, IdleCountPcs, ThreadPcs, IdlePcs, ReadyPcs, BusyPcs, DeadPcs
<1>0. current \in Int /\ creating \in Int /\ idle \in Int
  BY Zenon DEF PtrInv, TypeOK, LimitTypeOK
<1>1. Goto(i, "dead")
  BY Zenon DEF ConnThreadDead
<1> QED
  BY <1>0, <1>1, GotoCounts, SMTT(30) DEF ConnThreadDead, countVars, driverVars

LEMMA CountsConnThreadUncount ==
    ASSUME PtrInv, ThreadAccounting, NEW i \in Slots, ConnThreadUncount(i)
    PROVE  ThreadAccounting'
<1> USE DEF Ind, CountedPcs, IdleCountPcs, ThreadPcs, IdlePcs, ReadyPcs, BusyPcs, DeadPcs
<1>0. current \in Int /\ creating \in Int /\ idle \in Int
  BY Zenon DEF PtrInv, TypeOK, LimitTypeOK
<1>1. Goto(i, "unjoined")
  BY Zenon DEF ConnThreadUncount
<1> QED
  BY <1>0, <1>1, GotoCounts, SMTT(30) DEF ConnThreadUncount, countVars, driverVars

LEMMA CountsJoinPrevious ==
    ASSUME PtrInv, ThreadAccounting, NEW i \in Slots, JoinPrevious(i)
    PROVE  ThreadAccounting'
<1> USE DEF Ind, CountedPcs, IdleCountPcs, ThreadPcs, IdlePcs, ReadyPcs, BusyPcs, DeadPcs
<1>0. current \in Int /\ creating \in Int /\ idle \in Int
  BY Zenon DEF PtrInv, TypeOK, LimitTypeOK
<1>1. Goto(i, "join")
  BY Zenon DEF JoinPrevious
<1> QED
  BY <1>0, <1>1, GotoCounts, SMTT(30) DEF JoinPrevious, countVars, driverVars

LEMMA CountsConnThreadExit ==
    ASSUME PtrInv, ThreadAccounting, NEW i \in Slots, ConnThreadExit(i)
    PROVE  ThreadAccounting'
<1> USE DEF Ind, CountedPcs, IdleCountPcs, ThreadPcs, IdlePcs, ReadyPcs, BusyPcs, DeadPcs
<1>0. current \in Int /\ creating \in Int /\ idle \in Int
  BY Zenon DEF PtrInv, TypeOK, LimitTypeOK
<1>1. Goto(i, "none")
  BY Zenon DEF ConnThreadExit
<1> QED
  BY <1>0, <1>1, GotoCounts, SMTT(30) DEF ConnThreadExit, countVars, driverVars

LEMMA CountsIdleTimeout ==
    ASSUME PtrInv, ThreadAccounting, NEW i \in Slots, IdleTimeout(i)
    PROVE  ThreadAccounting'
<1> USE DEF Ind, CountedPcs, IdleCountPcs, ThreadPcs, IdlePcs, ReadyPcs, BusyPcs, DeadPcs
<1>0. current \in Int /\ creating \in Int /\ idle \in Int
  BY Zenon DEF PtrInv, TypeOK, LimitTypeOK
<1>1. Goto(i, "idlecheck") \/ Goto(i, "leave")
  BY Zenon DEF IdleTimeout
<1> QED
  BY <1>0, <1>1, GotoCounts, SMTT(30) DEF IdleTimeout, countVars, driverVars

LEMMA CountsIdleSpurious ==
    ASSUME PtrInv, ThreadAccounting, NEW i \in Slots, IdleSpurious(i)
    PROVE  ThreadAccounting'
<1> USE DEF Ind, CountedPcs, IdleCountPcs, ThreadPcs, IdlePcs, ReadyPcs, BusyPcs, DeadPcs
<1>0. current \in Int /\ creating \in Int /\ idle \in Int
  BY Zenon DEF PtrInv, TypeOK, LimitTypeOK
<1>1. Goto(i, "leave") \/ Goto(i, "idlecheck")
  BY Zenon DEF IdleSpurious, Awake
<1> QED
  BY <1>0, <1>1, GotoCounts, SMTT(30) DEF IdleSpurious, Awake, countVars, driverVars

(* Every step of a connection thread keeps the counters exact.             *)
LEMMA AccountingThread ==
    ASSUME PtrInv, ThreadAccounting, NEW i \in Slots,
           ThreadStep(i) \/ IdleTimeout(i) \/ IdleSpurious(i)
    PROVE  ThreadAccounting'
BY ZenonT(30), CountsConnThreadStart, CountsConnThreadReady, CountsLoopTop,
   CountsDequeueConn, CountsEnterIdle, CountsEnqueueThread, CountsIdleWait,
   CountsIdleSignaled, CountsLeaveIdle, CountsIdleDone, CountsConnRunStart,
   CountsConnRunClose, CountsFreeConn, CountsSnapshot, CountsConnThreadDead,
   CountsConnThreadUncount, CountsJoinPrevious, CountsConnThreadExit,
   CountsIdleTimeout, CountsIdleSpurious, SMTT(30) DEF ThreadStep

(* A signal moves a thread from "waiting" to "signaled", which no counter  *)
(* tells apart.                                                            *)
OnlySignals ==
    \A j \in Slots : pc'[j] = pc[j] \/ (pc[j] = "waiting" /\ pc'[j] = "signaled")

LEMMA SignalCounts ==
    ASSUME PtrInv, OnlySignals
    PROVE  /\ Count(Slots, pc', CountedPcs) = Count(Slots, pc, CountedPcs)
           /\ Count(Slots, pc', {"start"}) = Count(Slots, pc, {"start"})
           /\ Count(Slots, pc', IdleCountPcs) = Count(Slots, pc, IdleCountPcs)
<1>1. ASSUME NEW P, "waiting" \in P <=> "signaled" \in P
      PROVE  Count(Slots, pc', P) = Count(Slots, pc, P)
  <2>1. {j \in Slots : pc'[j] \in P} = {j \in Slots : pc[j] \in P}
    BY Zenon, <1>1 DEF OnlySignals
  <2> QED  BY Zenon, <2>1 DEF Count
<1>2. "waiting" \in CountedPcs /\ "signaled" \in CountedPcs
  BY Zenon DEF CountedPcs, ThreadPcs, IdlePcs
<1>3. "waiting" \in IdleCountPcs /\ "signaled" \in IdleCountPcs
  BY Zenon DEF IdleCountPcs, IdlePcs
<1>4. ("waiting" \in {"start"}) = ("signaled" \in {"start"})  OBVIOUS
<1> QED  BY Zenon, <1>1, <1>2, <1>3, <1>4

CallerGoto(d, v) == dpc' = [dpc EXCEPT ![d] = v]

(* A caller moves from one control state to another, and signals at most.  *)
LEMMA CallerMoves ==
    ASSUME PtrInv, ThreadAccounting, NEW d \in Callers, NEW v,
           CallerGoto(d, v), OnlySignals,
           current' = current - Ind(dpc[d], CreatorPcs) + Ind(v, CreatorPcs),
           creating' = creating - Ind(dpc[d], CreatorPcs) + Ind(v, CreatorPcs),
           idle' = idle
    PROVE  ThreadAccounting'
<1> DEFINE nC == Count(Slots, pc, CountedPcs)   nC1 == Count(Slots, pc', CountedPcs)
           nS == Count(Slots, pc, {"start"})    nS1 == Count(Slots, pc', {"start"})
           nI == Count(Slots, pc, IdleCountPcs) nI1 == Count(Slots, pc', IdleCountPcs)
           nK == Count(Callers, dpc, CreatorPcs)
           nK1 == Count(Callers, dpc', CreatorPcs)
<1>1. nC1 = nC /\ nS1 = nS /\ nI1 = nI  BY Zenon, SignalCounts
<1>2. nC \in Nat /\ nS \in Nat /\ nI \in Nat /\ nK \in Nat
  BY Zenon, SlotsFinite, CountType
<1>3. nK1 = nK - Ind(dpc[d], CreatorPcs) + Ind(v, CreatorPcs)
  BY CallerUpdate, ZenonT(30) DEF CallerGoto
<1>4. current = nC + nK /\ creating = nS + nK /\ idle = nI
  BY Zenon, AccountingForm DEF AccountedBy
<1>5. \A x, P : Ind(x, P) \in Int  BY DEF Ind
<1>6. current' = nC1 + nK1 /\ creating' = nS1 + nK1 /\ idle' = nI1
  <2> HIDE DEF nC, nS, nI, nK, nC1, nS1, nI1, nK1
  <2> QED  BY SMTT(30), <1>1, <1>2, <1>3, <1>4, <1>5
<1> QED  BY Zenon, <1>6, AccountingForm DEF AccountedBy

(* A caller that neither is nor becomes a creator changes no counter.      *)
LEMMA CallerPasses ==
    ASSUME PtrInv, ThreadAccounting, NEW d \in Callers, NEW v, CallerGoto(d, v),
           dpc[d] \notin CreatorPcs, v \notin CreatorPcs, pc' = pc,
           current' = current, creating' = creating, idle' = idle
    PROVE  ThreadAccounting'
<1>1. current \in Int /\ creating \in Int  BY Zenon DEF PtrInv, TypeOK, LimitTypeOK
<1>2. Ind(dpc[d], CreatorPcs) = 0 /\ Ind(v, CreatorPcs) = 0  BY Zenon DEF Ind
<1>3. OnlySignals  BY Zenon DEF OnlySignals
<1> QED  BY <1>1, <1>2, <1>3, CallerMoves, SMTT(30)

(* A new thread in a free slot replaces the creator that was counted.      *)
LEMMA CreatedCounts ==
    ASSUME PtrInv, ThreadAccounting, NEW d \in Callers, NEW i \in Slots,
           dpc[d] = "slot", dpc' = [dpc EXCEPT ![d] = "serve"],
           pc[i] = "none", pc' = [pc EXCEPT ![i] = "start"],
           current' = current, creating' = creating, idle' = idle
    PROVE  ThreadAccounting'
<1> DEFINE nC == Count(Slots, pc, CountedPcs)   nC1 == Count(Slots, pc', CountedPcs)
           nS == Count(Slots, pc, {"start"})    nS1 == Count(Slots, pc', {"start"})
           nI == Count(Slots, pc, IdleCountPcs) nI1 == Count(Slots, pc', IdleCountPcs)
           nK == Count(Callers, dpc, CreatorPcs)
           nK1 == Count(Callers, dpc', CreatorPcs)
<1>1. pc'[i] = "start" /\ \A j \in Slots : j # i => pc'[j] = pc[j]
  BY Zenon DEF PtrInv, TypeOK, ThreadTypeOK
<1>2. /\ nC1 = nC - Ind("none", CountedPcs) + Ind("start", CountedPcs)
      /\ nS1 = nS - Ind("none", {"start"}) + Ind("start", {"start"})
      /\ nI1 = nI - Ind("none", IdleCountPcs) + Ind("start", IdleCountPcs)
  BY <1>1, SlotUpdate, ZenonT(30)
<1>3. nK1 = nK - Ind(dpc[d], CreatorPcs) + Ind("serve", CreatorPcs)
  BY CallerUpdate, Zenon
<1>4. /\ Ind("none", CountedPcs) = 0 /\ Ind("start", CountedPcs) = 1
      /\ Ind("none", {"start"}) = 0 /\ Ind("start", {"start"}) = 1
      /\ Ind("none", IdleCountPcs) = 0 /\ Ind("start", IdleCountPcs) = 0
      /\ Ind("slot", CreatorPcs) = 1 /\ Ind("serve", CreatorPcs) = 0
  BY Zenon DEF Ind, CountedPcs, IdleCountPcs, CreatorPcs, ThreadPcs, IdlePcs
<1>5. nC \in Nat /\ nS \in Nat /\ nI \in Nat /\ nK \in Nat
  BY Zenon, SlotsFinite, CountType
<1>6. current = nC + nK /\ creating = nS + nK /\ idle = nI
  BY Zenon, AccountingForm DEF AccountedBy
<1>7. current' = nC1 + nK1 /\ creating' = nS1 + nK1 /\ idle' = nI1
  <2> HIDE DEF nC, nS, nI, nK, nC1, nS1, nI1, nK1
  <2>1. nC1 = nC + 1 /\ nS1 = nS + 1 /\ nI1 = nI /\ nK1 = nK - 1
    BY <1>1, <1>2, <1>3, <1>4, <1>5, SMTT(30)
  <2> QED  BY <1>5, <1>6, <2>1, SMTT(30)
<1> QED  BY Zenon, <1>7, AccountingForm DEF AccountedBy

(* The same for each step of a caller.                                       *)
LEMMA CountsCreateConnThread ==
    ASSUME PtrInv, ThreadAccounting, NEW d \in Callers, CreateConnThread(d)
    PROVE  ThreadAccounting'
<1> USE DEF Ind, CreatorPcs
<1>0. current \in Int /\ creating \in Int /\ idle \in Int
  BY Zenon DEF PtrInv, TypeOK, LimitTypeOK
<1>1. CASE UNCHANGED threadVars /\ CallerGoto(d, "nocreate")
  BY <1>0, <1>1, CallerMoves, SMTT(30) DEF CreateConnThread, threadVars, countVars, OnlySignals
<1>2. CASE CallerGoto(d, "serve")
           /\ \E i \in Slots : state(i) = "free" /\ pc' = [pc EXCEPT ![i] = "start"]
  <2>1. PICK i \in Slots : state(i) = "free" /\ pc' = [pc EXCEPT ![i] = "start"]
    BY <1>2, ZenonT(30)
  <2>2. pc[i] = "none"
    BY Zenon, <2>1 DEF state
  <2> QED
    BY <1>2, <2>1, <2>2, CreatedCounts, Zenon DEF CreateConnThread, countVars, CallerGoto
<1> QED  BY <1>1, <1>2, SMTT(30) DEF CreateConnThread, CallerGoto

LEMMA CountsCreateFailed ==
    ASSUME PtrInv, ThreadAccounting, NEW d \in Callers, CreateFailed(d)
    PROVE  ThreadAccounting'
<1> USE DEF Ind, CreatorPcs
<1>0. current \in Int /\ creating \in Int /\ idle \in Int
  BY Zenon DEF PtrInv, TypeOK, LimitTypeOK
<1>1. CallerGoto(d, "serve")
  BY Zenon DEF CreateFailed, CallerGoto
<1> QED
  BY <1>0, <1>1, CallerMoves, SMTT(30) DEF CreateFailed, threadVars, countVars, OnlySignals

LEMMA CountsQueueWaiting ==
    ASSUME PtrInv, ThreadAccounting, NEW d \in Callers, QueueWaiting(d)
    PROVE  ThreadAccounting'
<1> USE DEF Ind, CreatorPcs
<1>1.
      \/ CallerGoto(d, "serve")
      \/ CallerGoto(d, "popidle")
  BY Zenon DEF QueueWaiting, QueueConnGetFree, QueueFull, CallerGoto
<1>2. pc' = pc /\ current' = current /\ creating' = creating /\ idle' = idle
  BY Zenon DEF QueueWaiting, QueueConnGetFree, QueueFull, threadVars, countVars
<1>3. dpc[d] \notin CreatorPcs
  BY Zenon DEF QueueWaiting, QueueConnGetFree, QueueFull
<1> QED
  BY <1>1, <1>2, <1>3, CallerPasses, SMTT(30)

LEMMA CountsPopIdleThread ==
    ASSUME PtrInv, ThreadAccounting, NEW d \in Callers, PopIdleThread(d)
    PROVE  ThreadAccounting'
<1> USE DEF Ind, CreatorPcs
<1>1.
      \/ CallerGoto(d, "append")
      \/ CallerGoto(d, "assign")
  BY Zenon DEF PopIdleThread, CallerGoto
<1>2. pc' = pc /\ current' = current /\ creating' = creating /\ idle' = idle
  BY Zenon DEF PopIdleThread, threadVars, countVars
<1>3. dpc[d] \notin CreatorPcs
  BY Zenon DEF PopIdleThread
<1> QED
  BY <1>1, <1>2, <1>3, CallerPasses, SMTT(30)

LEMMA CountsAssignConn ==
    ASSUME PtrInv, ThreadAccounting, NEW d \in Callers, AssignConn(d)
    PROVE  ThreadAccounting'
<1> USE DEF Ind, CreatorPcs
<1>1. CallerGoto(d, "need")
  BY Zenon DEF AssignConn, CallerGoto
<1>2. pc' = pc /\ current' = current /\ creating' = creating /\ idle' = idle
  BY Zenon DEF AssignConn, threadVars, countVars
<1>3. dpc[d] \notin CreatorPcs
  BY Zenon DEF AssignConn
<1> QED
  BY <1>1, <1>2, <1>3, CallerPasses, SMTT(30)

LEMMA CountsDecideCreate ==
    ASSUME PtrInv, ThreadAccounting, NEW d \in Callers, DecideCreate(d)
    PROVE  ThreadAccounting'
<1> USE DEF Ind, CreatorPcs
<1>1. CallerGoto(d, "signal")
  BY Zenon DEF DecideCreate, CallerGoto
<1>2. pc' = pc /\ current' = current /\ creating' = creating /\ idle' = idle
  BY Zenon DEF DecideCreate, threadVars, countVars
<1>3. dpc[d] \notin CreatorPcs
  BY ZenonT(30) DEF DecideCreate
<1> QED
  BY Zenon, <1>1, <1>2, <1>3, CallerPasses

LEMMA CountsSignalThread ==
    ASSUME PtrInv, ThreadAccounting, NEW d \in Callers, SignalThread(d)
    PROVE  ThreadAccounting'
<1> USE DEF Ind, CreatorPcs
<1>0. current \in Int /\ creating \in Int /\ idle \in Int
  BY Zenon DEF PtrInv, TypeOK, LimitTypeOK
<1>1. \/ CallerGoto(d, "incr")
      \/ CallerGoto(d, "serve")
  BY ZenonT(30) DEF SignalThread, CallerGoto
<1>2. OnlySignals
  BY Zenon DEF SignalThread, PtrInv, TypeOK, ThreadTypeOK, OnlySignals
<1> QED
  BY <1>0, <1>1, <1>2, CallerMoves, SMTT(30) DEF SignalThread, countVars

LEMMA CountsAppendWaiting ==
    ASSUME PtrInv, ThreadAccounting, NEW d \in Callers, AppendWaiting(d)
    PROVE  ThreadAccounting'
<1> USE DEF Ind, CreatorPcs
<1>1.
      \/ CallerGoto(d, "incr")
      \/ CallerGoto(d, "serve")
  BY Zenon DEF AppendWaiting, CallerGoto
<1>2. pc' = pc /\ current' = current /\ creating' = creating /\ idle' = idle
  BY Zenon DEF AppendWaiting, threadVars, countVars
<1>3. dpc[d] \notin CreatorPcs
  BY Zenon DEF AppendWaiting
<1> QED
  BY Zenon, <1>1, <1>2, <1>3, CallerPasses

LEMMA CountsCountCreate ==
    ASSUME PtrInv, ThreadAccounting, NEW d \in Callers, CountCreate(d)
    PROVE  ThreadAccounting'
<1> USE DEF Ind, CreatorPcs
<1>0. current \in Int /\ creating \in Int /\ idle \in Int
  BY Zenon DEF PtrInv, TypeOK, LimitTypeOK
<1>1. CallerGoto(d, "slot")
  BY SMTT(30) DEF CountCreate, CallerGoto
<1> QED
  BY <1>0, <1>1, CallerMoves, SMTT(30) DEF CountCreate, threadVars, countVars, OnlySignals

LEMMA CountsStartRetry ==
    ASSUME PtrInv, ThreadAccounting, NEW d \in Callers, StartRetry(d)
    PROVE  ThreadAccounting'
<1> USE DEF Ind, CreatorPcs
<1> QED
  BY SMTT(30) DEF StartRetry, ThreadAccounting, Counted, Starting, IdleSet, Creators,
             threadVars, countVars

LEMMA CountsQueueNew ==
    ASSUME PtrInv, ThreadAccounting, NEW d \in Callers, QueueNew(d)
    PROVE  ThreadAccounting'
<1>1. CallerGoto(d, "serve") \/ CallerGoto(d, "popidle")
  BY SMTT(30) DEF QueueNew, QueueConnGetFree, QueueFull, CallerGoto
<1>2. pc' = pc /\ current' = current /\ creating' = creating /\ idle' = idle
  BY Zenon DEF QueueNew, QueueConnGetFree, QueueFull, threadVars, countVars
<1>3. dpc[d] \notin CreatorPcs /\ "serve" \notin CreatorPcs /\ "popidle" \notin CreatorPcs
  BY Zenon DEF QueueNew, CreatorPcs
<1> QED
  BY <1>1, <1>2, <1>3, CallerPasses, ZenonT(30), SMTT(30)

(* Every step of a caller of NsQueueConn keeps the counters exact.         *)
LEMMA AccountingCaller ==
    ASSUME PtrInv, ThreadAccounting, NEW d \in Callers,
           CallStep(d) \/ StartRetry(d) \/ QueueNew(d)
    PROVE  ThreadAccounting'
BY ZenonT(30), CountsCreateConnThread, CountsCreateFailed, CountsQueueWaiting,
   CountsPopIdleThread, CountsAssignConn, CountsDecideCreate,
   CountsSignalThread, CountsAppendWaiting, CountsCountCreate, CountsStartRetry,
   CountsQueueNew, SMTT(30) DEF CallStep

(* The same for the steps of the driver loop.                                *)
LEMMA CountsEnsureRunning ==
    ASSUME PtrInv, ThreadAccounting, NEW d \in Drivers,
           dpc[d] = "poll", NsEnsureRunningConnectionThreads(d), pc' = pc, idle' = idle
    PROVE  ThreadAccounting'
<1> USE DEF Ind, CreatorPcs
<1>0. d \in Callers /\ current \in Int /\ creating \in Int /\ idle \in Int
  BY Zenon DEF Callers, PtrInv, TypeOK, LimitTypeOK
<1>1. CASE neededAdditionalConnectionThreads(Len(wait))
  <2>1. CallerGoto(d, "slot") /\ current' = current + 1 /\ creating' = creating + 1
    BY Zenon, <1>1 DEF NsEnsureRunningConnectionThreads, CallerGoto
  <2> QED  BY <1>0, <2>1, CallerMoves, SMTT(30) DEF OnlySignals
<1>2. CASE ~neededAdditionalConnectionThreads(Len(wait))
  <2>1. CallerGoto(d, "serve") /\ current' = current /\ creating' = creating
    BY Zenon, <1>2 DEF NsEnsureRunningConnectionThreads, CallerGoto
  <2> QED  BY <1>0, <2>1, CallerMoves, SMTT(30) DEF OnlySignals
<1> QED  BY <1>1, <1>2, SMTT(30)

LEMMA CountsDriverTriggered ==
    ASSUME PtrInv, ThreadAccounting, NEW d \in Drivers, DriverTriggered(d)
    PROVE  ThreadAccounting'
<1> USE DEF Ind, CreatorPcs
<1> QED
  BY Zenon, CountsEnsureRunning DEF DriverTriggered, threadVars

LEMMA CountsPollTimeout ==
    ASSUME PtrInv, ThreadAccounting, NEW d \in Drivers, PollTimeout(d)
    PROVE  ThreadAccounting'
<1> USE DEF Ind, CreatorPcs
<1> QED
  BY CountsEnsureRunning, SMTT(30) DEF PollTimeout, threadVars

LEMMA CountsDriverCollect ==
    ASSUME PtrInv, ThreadAccounting, NEW d \in Drivers, DriverCollect(d)
    PROVE  ThreadAccounting'
<1> USE DEF Ind, CreatorPcs
<1>0. d \in Callers /\ current \in Int /\ creating \in Int /\ idle \in Int
  BY Zenon DEF Callers, PtrInv, TypeOK, LimitTypeOK
<1>1. \/ CallerGoto(d, "poll")
      \/ CallerGoto(d, "stopped")
  BY Zenon DEF DriverCollect, CallerGoto
<1> QED
  BY <1>0, <1>1, CallerMoves, SMTT(30) DEF DriverCollect, threadVars, countVars, OnlySignals

(* Every step of the driver loop keeps the counters exact.                 *)
LEMMA AccountingDriver ==
    ASSUME PtrInv, ThreadAccounting, NEW d \in Drivers,
           DriverTriggered(d) \/ PollTimeout(d) \/ DriverCollect(d)
    PROVE  ThreadAccounting'
BY CountsDriverTriggered, CountsPollTimeout, CountsDriverCollect, SMTT(30)

(* The steps of the main thread and of ns_server commands signal at most.  *)
LEMMA AccountingFrame ==
    ASSUME PtrInv, ThreadAccounting, UNCHANGED <<dpc, countVars>>, OnlySignals
    PROVE  ThreadAccounting'
BY Zenon, SignalCounts, AccountingForm DEF AccountedBy, countVars

LEMMA AccountingMain ==
    ASSUME PtrInv, ThreadAccounting, MainStep \/ NsStopDrivers \/ WaitServerTimeout
    PROVE  ThreadAccounting'
<1>1. CASE WakeupConnThreads
  <2>1. OnlySignals
    BY ZenonT(30), <1>1 DEF WakeupConnThreads, PtrInv, TypeOK, ThreadTypeOK, OnlySignals
  <2> QED  BY <1>1, <2>1, AccountingFrame, SMTT(30) DEF WakeupConnThreads, driverVars
<1>2. CASE ~WakeupConnThreads
  <2>1. UNCHANGED <<dpc, pc, countVars>>
    BY Zenon, <1>2 DEF MainStep, NsStopServer, WakeupStart, WaitServerCheck, WaitServerWait,
                WaitServerJoin, NsStopDrivers, WaitServerTimeout, threadVars, driverVars
  <2> QED  BY <2>1, AccountingFrame, SMTT(30) DEF OnlySignals
<1> QED  BY ZenonT(30), <1>1, <1>2

LEMMA AccountingAdmin ==
    ASSUME PtrInv, ThreadAccounting, NEW a \in Admins, AdminParse(a) \/ SetPoolAttribute(a)
    PROVE  ThreadAccounting'
<1>1. UNCHANGED <<dpc, pc, countVars>>
  BY ZenonT(30) DEF AdminParse, SetPoolAttribute, threadVars, driverVars
<1> QED  BY <1>1, AccountingFrame, SMTT(30) DEF OnlySignals

(* NsStartServer counts the threads it creates.                            *)
LEMMA AccountingInit == Init => ThreadAccounting
<1> SUFFICES ASSUME Init PROVE ThreadAccounting
  BY ZenonT(30)
<1>1. Counted = 1 .. MinThreads /\ Starting = 1 .. MinThreads
  BY ThreadRangeAssumption, SMTT(30) DEF Init, Counted, Starting, CountedPcs, ThreadPcs, Slots
<1>2. IdleSet = {}
  BY Zenon DEF Init, IdleSet, IdlePcs
<1>3. Creators = {}
  BY Zenon DEF Init, Creators
<1>4. Cardinality(1 .. MinThreads) = MinThreads
  BY FS_Interval, ThreadRangeAssumption
<1> QED
  BY <1>1, <1>2, <1>3, <1>4, FS_EmptySet, ThreadRangeAssumption, SMTT(30)
     DEF Init, ThreadAccounting

LEMMA AccountingStep == PtrInv /\ ThreadAccounting /\ [Next]_vars => ThreadAccounting'
<1> SUFFICES ASSUME PtrInv, ThreadAccounting, [Next]_vars PROVE ThreadAccounting'
  BY Zenon
<1>1. CASE UNCHANGED vars
  BY <1>1, AccountingFrame, SMTT(30) DEF vars, threadVars, driverVars, OnlySignals
<1>2. CASE Next
  BY ZenonT(30), <1>2, AccountingThread, AccountingCaller, AccountingDriver, AccountingMain,
     AccountingAdmin, SMTT(30) DEF Next
<1> QED  BY Zenon, <1>1, <1>2

(* threads.current, threads.creating and threads.idle are exact in every   *)
(* pool, although the thread that creates another one counts it before it  *)
(* exists and an exiting thread uncounts itself before its slot is free.   *)
THEOREM ThreadsAccounted == Spec => []ThreadAccounting
BY AccountingInit, AccountingStep, PtrInvariant, PTL DEF Spec

-----------------------------------------------------------------------------
(* The overshoot of maxthreads.                                            *)

PendingCount == Count(Callers, dcreate, {TRUE})

Overshoot == current + PendingCount <= MaxThreads + Cardinality(Callers) - 1

OvershootInv == Admins = {} /\ Callers # {} => tmax = MaxThreads /\ Overshoot

LEMMA OvershootForm == OvershootInv => BoundedOvershoot
BY Zenon DEF OvershootInv, Overshoot, BoundedOvershoot, PendingCount, Pending, Count

LEMMA CallersCount ==
    Cardinality(Callers) \in Nat /\ PendingCount \in Nat /\ PendingCount' \in Nat
BY SlotsFinite, CountType, FS_CardinalityType, SMTT(30) DEF PendingCount

LEMMA OvershootInit == Init => OvershootInv
<1> SUFFICES ASSUME Init, Callers # {} PROVE tmax = MaxThreads /\ Overshoot
  BY Zenon DEF OvershootInv
<1>1. PendingCount = 0
  <2>1. {d \in Callers : dcreate[d] \in {TRUE}} = {}  BY ZenonT(30) DEF Init
  <2> QED  BY <2>1, FS_EmptySet, Zenon DEF PendingCount, Count
<1>2. Cardinality(Callers) # 0
  BY Zenon, SlotsFinite, FS_EmptySet
<1> QED
  BY <1>1, <1>2, CallersCount, ThreadRangeAssumption, SMTT(30) DEF Init, Overshoot

(* The steps that neither count a thread nor decide to create one.         *)
LEMMA OvershootFrame ==
    ASSUME PtrInv, OvershootInv, UNCHANGED <<dcreate, tmax>>,
           current' \in Int, current' <= current
    PROVE  OvershootInv'
<1>1. PendingCount' = PendingCount  BY Zenon DEF PendingCount
<1>2. current \in Int  BY Zenon DEF PtrInv, TypeOK, LimitTypeOK
<1>3. Cardinality(Callers)' = Cardinality(Callers)  BY Zenon
<1> QED
  BY SMTT(30), <1>1, <1>2, <1>3, CallersCount, ThreadRangeAssumption DEF OvershootInv, Overshoot

(* A caller that has not decided yet does not count as pending.            *)
LEMMA NotPending ==
    ASSUME NEW d \in Callers, ~dcreate[d]
    PROVE  PendingCount <= Cardinality(Callers) - 1
BY SlotsFinite, CountOutside, ZenonT(30) DEF PendingCount

LEMMA PendingUpdate ==
    ASSUME NEW d \in Callers, DiffersAt(Callers, dcreate, dcreate', d)
    PROVE  PendingCount' = PendingCount - Ind(dcreate[d], {TRUE}) + Ind(dcreate'[d], {TRUE})
BY SlotsFinite, CountUpdate DEF PendingCount

(* A caller sets its create flag: it becomes pending, or nothing changes.  *)
LEMMA DecideCounts ==
    ASSUME PtrInv, OvershootInv, NEW d \in Callers, ~dcreate[d], NEW n,
           dcreate' = [dcreate EXCEPT ![d] = neededAdditionalConnectionThreads(n)],
           current' = current, tmax' = tmax
    PROVE  OvershootInv'
<1>1. dcreate \in [Callers -> BOOLEAN]  BY Zenon DEF PtrInv, TypeOK, CallTypeOK
<1>2. CASE neededAdditionalConnectionThreads(n)
  <2>1. current < tmax  BY Zenon, <1>2 DEF neededAdditionalConnectionThreads
  <2>2. PendingCount' = PendingCount + 1
    <3>1. dcreate'[d] = TRUE /\ DiffersAt(Callers, dcreate, dcreate', d)
      BY <1>1, <1>2, SMTT(30) DEF DiffersAt
    <3>2. PendingCount'
            = PendingCount - Ind(dcreate[d], {TRUE}) + Ind(dcreate'[d], {TRUE})
      BY <3>1, PendingUpdate, Zenon
    <3>3. Ind(dcreate[d], {TRUE}) = 0  BY <1>1, Zenon DEF Ind
    <3>4. Ind(dcreate'[d], {TRUE}) = 1  BY <3>1, ZenonT(30) DEF Ind
    <3> QED  BY <3>2, <3>3, <3>4, CallersCount, SMTT(30)
  <2>3. PendingCount <= Cardinality(Callers) - 1  BY Zenon, NotPending
  <2>4. current \in Int  BY Zenon DEF PtrInv, TypeOK, LimitTypeOK
  <2> QED
    BY <2>1, <2>2, <2>3, <2>4, CallersCount, ThreadRangeAssumption, SMTT(30)
       DEF OvershootInv, Overshoot
<1>3. CASE ~neededAdditionalConnectionThreads(n)
  <2>1. dcreate' = dcreate  BY <1>1, <1>3, NeededType, SMTT(30)
  <2>2. current \in Int  BY Zenon DEF PtrInv, TypeOK, LimitTypeOK
  <2> QED  BY SMTT(30), <2>1, <2>2, OvershootFrame
<1> QED  BY Zenon, <1>2, <1>3

(* The overshoot stays bounded in each step of a caller.                     *)
LEMMA OvershootDecideCreate ==
    ASSUME PtrInv, OvershootInv, NEW d \in Callers, DecideCreate(d)
    PROVE  OvershootInv'
<1>1. ~dcreate[d]  BY Zenon DEF DecideCreate, PtrInv, CallerCreates
<1> QED  BY <1>1, DecideCounts, Zenon DEF DecideCreate, countVars, adminVars

LEMMA OvershootAppendWaiting ==
    ASSUME PtrInv, OvershootInv, NEW d \in Callers, AppendWaiting(d)
    PROVE  OvershootInv'
<1>1. ~dcreate[d]  BY Zenon DEF AppendWaiting, PtrInv, CallerCreates
<1> QED  BY <1>1, DecideCounts, ZenonT(30) DEF AppendWaiting, countVars, adminVars

LEMMA OvershootCountCreate ==
    ASSUME PtrInv, OvershootInv, NEW d \in Callers, CountCreate(d)
    PROVE  OvershootInv'
<1>0. current \in Int  BY Zenon DEF PtrInv, TypeOK, LimitTypeOK
<1>1. dcreate[d]  BY Zenon DEF CountCreate, PtrInv, CallerCreates
<1>2. dcreate \in [Callers -> BOOLEAN]  BY Zenon DEF PtrInv, TypeOK, CallTypeOK
<1>3. dcreate'[d] = FALSE /\ DiffersAt(Callers, dcreate, dcreate', d)
  BY <1>2, SMTT(30) DEF CountCreate, DiffersAt
<1>4. PendingCount'
        = PendingCount - Ind(dcreate[d], {TRUE}) + Ind(dcreate'[d], {TRUE})
  BY Zenon, <1>3, PendingUpdate
<1>5. Ind(dcreate[d], {TRUE}) = 1  BY Zenon, <1>1, <1>2 DEF Ind
<1>6. Ind(dcreate'[d], {TRUE}) = 0  BY <1>3, ZenonT(30) DEF Ind
<1>7. PendingCount' = PendingCount - 1
  BY SMTT(30), <1>4, <1>5, <1>6, CallersCount
<1> QED
  BY SMTT(30), <1>0, <1>7, CallersCount, ThreadRangeAssumption
     DEF CountCreate, OvershootInv, Overshoot, adminVars

LEMMA OvershootCreateFailed ==
    ASSUME PtrInv, OvershootInv, NEW d \in Callers, CreateFailed(d)
    PROVE  OvershootInv'
<1>0. current \in Int  BY Zenon DEF PtrInv, TypeOK, LimitTypeOK
<1> QED
  BY SMTT(30), <1>0, OvershootFrame DEF CreateFailed, callVars, adminVars

LEMMA OvershootOtherCall ==
    ASSUME PtrInv, OvershootInv, NEW d \in Callers,
           \/ CreateConnThread(d) \/ QueueWaiting(d) \/ PopIdleThread(d) \/ AssignConn(d) \/ SignalThread(d) \/ StartRetry(d) \/ QueueNew(d)
    PROVE  OvershootInv'
<1>0. current \in Int  BY SMTT(30) DEF PtrInv, TypeOK, LimitTypeOK
<1>1. UNCHANGED <<current, dcreate, tmax>>
  BY ZenonT(30) DEF CreateConnThread, QueueWaiting, PopIdleThread, AssignConn, SignalThread,
              StartRetry, QueueNew, QueueConnGetFree, QueueFull, countVars, callVars, adminVars
<1> QED  BY <1>0, <1>1, OvershootFrame, SMTT(30)

LEMMA OvershootCaller ==
    ASSUME PtrInv, OvershootInv, NEW d \in Callers,
           CallStep(d) \/ StartRetry(d) \/ QueueNew(d)
    PROVE  OvershootInv'
BY ZenonT(30), OvershootDecideCreate, OvershootAppendWaiting, OvershootCountCreate,
   OvershootCreateFailed, OvershootOtherCall, SMTT(30) DEF CallStep

(* The same for the steps of the driver loop.                                *)
LEMMA OvershootEnsureRunning ==
    ASSUME PtrInv, OvershootInv, NEW d \in Drivers,
           dpc[d] = "poll", NsEnsureRunningConnectionThreads(d),
             UNCHANGED <<dcreate, tmax>>
    PROVE  OvershootInv'
<1>0. d \in Callers /\ current \in Int
  BY Zenon DEF Callers, PtrInv, TypeOK, LimitTypeOK
<1>1. CASE neededAdditionalConnectionThreads(Len(wait))
  <2>1. current < tmax /\ current' = current + 1
    BY Zenon, <1>1 DEF NsEnsureRunningConnectionThreads,
                      neededAdditionalConnectionThreads
  <2>2. ~dcreate[d]  BY Zenon, <1>0 DEF PtrInv, CallerCreates
  <2>3. PendingCount <= Cardinality(Callers) - 1  BY Zenon, <1>0, <2>2, NotPending
  <2>4. PendingCount' = PendingCount  BY Zenon DEF PendingCount
  <2> QED
    BY <1>0, <2>1, <2>3, <2>4, CallersCount, ThreadRangeAssumption, SMTT(30)
       DEF OvershootInv, Overshoot
<1>2. CASE ~neededAdditionalConnectionThreads(Len(wait))
  BY <1>0, <1>2, OvershootFrame, SMTT(30) DEF NsEnsureRunningConnectionThreads
<1> QED  BY <1>1, <1>2, SMTT(30)

LEMMA OvershootDriverTriggered ==
    ASSUME PtrInv, OvershootInv, NEW d \in Drivers, DriverTriggered(d)
    PROVE  OvershootInv'
BY OvershootEnsureRunning, ZenonT(30) DEF DriverTriggered, callVars, adminVars

LEMMA OvershootPollTimeout ==
    ASSUME PtrInv, OvershootInv, NEW d \in Drivers, PollTimeout(d)
    PROVE  OvershootInv'
BY OvershootEnsureRunning, ZenonT(30) DEF PollTimeout, callVars, adminVars

LEMMA OvershootDriverCollect ==
    ASSUME PtrInv, OvershootInv, NEW d \in Drivers, DriverCollect(d)
    PROVE  OvershootInv'
<1>0. d \in Callers /\ current \in Int
  BY Zenon DEF Callers, PtrInv, TypeOK, LimitTypeOK
<1>1. UNCHANGED <<dcreate, tmax, current>>
  BY ZenonT(30) DEF DriverCollect, countVars, callVars, adminVars
<1> QED  BY SMTT(30), <1>0, <1>1, OvershootFrame

LEMMA OvershootDriver ==
    ASSUME PtrInv, OvershootInv, NEW d \in Drivers,
           DriverTriggered(d) \/ PollTimeout(d) \/ DriverCollect(d)
    PROVE  OvershootInv'
BY OvershootDriverTriggered, OvershootPollTimeout, OvershootDriverCollect, SMTT(30)

LEMMA OvershootStep == PtrInv /\ OvershootInv /\ [Next]_vars => OvershootInv'
<1> SUFFICES ASSUME PtrInv, OvershootInv, [Next]_vars PROVE OvershootInv'
  BY Zenon
<1>0. current \in Int  BY Zenon DEF PtrInv, TypeOK, LimitTypeOK
<1>1. CASE UNCHANGED vars
  BY SMTT(30), <1>0, <1>1, OvershootFrame DEF vars, countVars, driverVars, callVars, adminVars
<1>2. ASSUME NEW i \in Slots, ThreadStep(i) \/ IdleTimeout(i) \/ IdleSpurious(i)
      PROVE  OvershootInv'
  <2>1. current' = current \/ current' = current - 1
    BY <1>2, ZenonT(30) DEF ThreadStep, ConnThreadStart, ConnThreadReady, LoopTop, DequeueConn,
         EnterIdle, EnqueueThread, IdleWait, IdleSignaled, LeaveIdle, IdleDone,
         ConnRunStart, ConnRunClose, FreeConn, Snapshot, ConnThreadDead,
         ConnThreadUncount, JoinPrevious, ConnThreadExit, IdleTimeout, IdleSpurious,
         Awake, countVars
  <2>2. UNCHANGED <<dcreate, tmax>>
    BY <1>2, ZenonT(30) DEF ThreadStep, ConnThreadStart, ConnThreadReady, LoopTop, DequeueConn,
         EnterIdle, EnqueueThread, IdleWait, IdleSignaled, LeaveIdle, IdleDone,
         ConnRunStart, ConnRunClose, FreeConn, Snapshot, ConnThreadDead,
         ConnThreadUncount, JoinPrevious, ConnThreadExit, IdleTimeout, IdleSpurious,
         Awake, driverVars, callVars, adminVars
  <2> QED  BY <1>0, <2>1, <2>2, OvershootFrame, SMTT(30)
<1>3. CASE MainStep \/ NsStopDrivers \/ WaitServerTimeout
  <2>1. UNCHANGED <<current, dcreate, tmax>>
    BY <1>3, ZenonT(30) DEF MainStep, NsStopServer, WakeupStart, WakeupConnThreads, WaitServerCheck,
         WaitServerWait, WaitServerJoin, NsStopDrivers, WaitServerTimeout, countVars,
         driverVars, callVars, adminVars
  <2> QED  BY <1>0, <2>1, OvershootFrame, SMTT(30)
<1>4. ASSUME NEW a \in Admins PROVE OvershootInv'
  BY Zenon, <1>4 DEF OvershootInv
<1> QED
  BY <1>1, <1>2, <1>3, <1>4, OvershootCaller, OvershootDriver, SMTT(30) DEF Next

(* The decision to create a thread and its counting are two critical       *)
(* sections of NsQueueConn.  Whatever the callers do in between, the pool  *)
(* exceeds maxthreads by less than the number of callers, unless the limit *)
(* is changed at run time.                                                 *)
THEOREM OvershootBounded == Spec => []BoundedOvershoot
<1>1. Spec => []OvershootInv
  BY OvershootInit, OvershootStep, PtrInvariant, PTL DEF Spec
<1> QED  BY <1>1, OvershootForm, PTL

-----------------------------------------------------------------------------
(* A single caller never creates more than minthreads.                     *)
LEMMA SurplusOfOne ==
    ASSUME FixedPool, Cardinality(Callers) = 1, FixedInv, BoundedOvershoot
    PROVE  NoSurplus
<1>1. Callers # {}  BY FS_EmptySet
<1>2. Pending \in SUBSET Callers  BY DEF Pending
<1>3. Cardinality(Pending) \in Nat
  BY <1>2, SlotsFinite, FS_Subset, FS_CardinalityType
<1>4. current + Cardinality(Pending) <= MaxThreads
  BY SMTT(30), <1>1, ThreadRangeAssumption DEF BoundedOvershoot, FixedPool
<1>5. current \in Int  BY DEF FixedInv, PtrInv, TypeOK, LimitTypeOK
<1> QED
  BY SMTT(30), <1>3, <1>4, <1>5, ThreadRangeAssumption DEF NoSurplus, FixedPool, FixedInv, Undisturbed

(* FixedInv holds in both cases.                                           *)
LEMMA FixedInvariant ==
    ASSUME FixedPool
    PROVE  Spec => [](FixedInv /\ NoSurplus)
<1>1. Init => FixedInv  BY SMTT(30), FixedInit, PtrInit DEF FixedInv
<1>2. CASE Cardinality(Callers) = 1
  <2>1. FixedInv /\ BoundedOvershoot => NoSurplus  BY SMTT(30), <1>2, SurplusOfOne
  <2>2. FixedInv /\ BoundedOvershoot /\ [Next]_vars => FixedInv'  BY SMTT(30), <2>1, FixedStep
  <2> QED  BY <1>1, <2>1, <2>2, OvershootBounded, PTL DEF Spec
<1>3. CASE ConnsPerThread = 0
  <2>1. Init => Static  BY StaticInit
  <2>2. FixedInv /\ Static /\ [Next]_vars => FixedInv' /\ Static'
    BY SMTT(30), <1>3, FixedStep, StaticStep, SurplusOfStatic
  <2> QED  BY <1>1, <2>1, <2>2, SurplusOfStatic, PTL DEF Spec
<1> QED  BY SMTT(30), <1>2, <1>3 DEF FixedPool

(* A driver gives its Conn to a thread that is still idle, as the assert   *)
(* of NsQueueConn says, although it holds no lock when it does.            *)
THEOREM FixedAssignsToIdle == ASSUME FixedPool PROVE Spec => []AssignsToIdle
BY FixedInvariant, FixedAsserts, PTL

(* The asserts at the top of the loop of NsConnThread hold.                *)
THEOREM FixedLoopAssertions == ASSUME FixedPool PROVE Spec => []LoopAssertions
BY FixedInvariant, FixedAsserts, PTL

(* A thread on the thread queue is idle, and no driver gives it a Conn but *)
(* the one that takes it off the queue.                                    *)
THEOREM FixedThreadQueueIdle == ASSUME FixedPool PROVE Spec => []ThreadQueueIdle
BY FixedInvariant, FixedAsserts, PTL

(* Every Conn is free, with a caller, on the waiting queue, or with a      *)
(* thread that is going to run it.                                         *)
THEOREM FixedNoConnLost == ASSUME FixedPool PROVE Spec => []NoConnLost
<1>1. Init => CallerEmpty /\ NoConnLost  BY DEF Init, CallerEmpty, NoConnLost
<1>2. FixedInv /\ NoSurplus /\ CallerEmpty /\ NoConnLost /\ [Next]_vars
         => CallerEmpty' /\ NoConnLost'
  BY SMTT(30), EmptyStep, KeptStep
<1> QED  BY <1>1, <1>2, FixedInvariant, PTL DEF Spec

-----------------------------------------------------------------------------
(* One administrator: what it has validated is still valid when it stores  *)
(* it.                                                                     *)
LimitInv ==
    /\ tmin <= tmax
    /\ \A a \in Admins : aset[a] # NULL =>
          /\ aset[a][1] = "max" => tmin <= aset[a][2]
          /\ aset[a][1] = "min" => aset[a][2] <= tmax

LEMMA LimitStep ==
    ASSUME \A a, b \in Admins : a = b, PtrInv, LimitInv, [Next]_vars
    PROVE  LimitInv'
<1>1. CASE UNCHANGED adminVars
  BY SMTT(30), <1>1 DEF LimitInv, adminVars
<1>2. ASSUME NEW a \in Admins, AdminParse(a) PROVE LimitInv'
  <2>1. UNCHANGED <<tmin, tmax>>  BY SMTT(30), <1>2 DEF AdminParse
  <2>2. \/ \E v \in tmin .. MaxConns : aset'[a] = <<"max", v>>
        \/ \E v \in 1 .. tmax : aset'[a] = <<"min", v>>
    BY SMTT(30), <1>2 DEF AdminParse, PtrInv, TypeOK, LimitTypeOK
  <2>3. tmin \in Int /\ tmax \in Int  BY DEF PtrInv, TypeOK, LimitTypeOK
  <2>4. /\ aset'[a][1] = "max" => tmin <= aset'[a][2]
        /\ aset'[a][1] = "min" => aset'[a][2] <= tmax
    BY SMTT(30), <2>2, <2>3, ThreadRangeAssumption
  <2> QED  BY SMTT(30), <2>1, <2>4 DEF LimitInv
<1>3. ASSUME NEW a \in Admins, SetPoolAttribute(a) PROVE LimitInv'
  <2>1. \A b \in Admins : aset'[b] = NULL
    BY SMTT(30), <1>3 DEF SetPoolAttribute, PtrInv, TypeOK, LimitTypeOK
  <2>2. aset[a] \in {"min", "max"} \X (1 .. MaxConns)
    BY SMTT(30), <1>3 DEF SetPoolAttribute, PtrInv, TypeOK, LimitTypeOK
  <2>3. tmin' <= tmax'  BY SMTT(30), <1>3, <2>2 DEF SetPoolAttribute, LimitInv
  <2> QED  BY SMTT(30), <2>1, <2>3 DEF LimitInv
<1>4. ASSUME NEW i \in Slots, ThreadStep(i) \/ IdleTimeout(i) \/ IdleSpurious(i)
      PROVE  UNCHANGED adminVars
  BY ZenonT(30), <1>4 DEF ThreadStep, ConnThreadStart, ConnThreadReady, LoopTop, DequeueConn, EnterIdle,
     EnqueueThread, IdleWait, IdleSignaled, LeaveIdle, IdleDone, ConnRunStart, ConnRunClose,
     FreeConn, Snapshot, ConnThreadDead, ConnThreadUncount, JoinPrevious, ConnThreadExit,
     IdleTimeout, IdleSpurious, Awake
<1>5. ASSUME NEW d \in Callers, CallStep(d) \/ StartRetry(d) \/ QueueNew(d)
      PROVE  UNCHANGED adminVars
  BY ZenonT(30), <1>5 DEF CallStep, CreateConnThread, CreateFailed, QueueWaiting, PopIdleThread,
     AssignConn, DecideCreate, SignalThread, AppendWaiting, CountCreate, StartRetry, QueueNew,
     QueueConnGetFree
<1>6. ASSUME NEW d \in Drivers, DriverTriggered(d) \/ PollTimeout(d) \/ DriverCollect(d)
      PROVE  UNCHANGED adminVars
  BY SMTT(30), <1>6 DEF DriverTriggered, PollTimeout, DriverCollect
<1>7. ASSUME MainStep \/ NsStopDrivers \/ WaitServerTimeout PROVE UNCHANGED adminVars
  BY SMTT(30), <1>7 DEF MainStep, NsStopServer, WakeupStart, WakeupConnThreads, WaitServerCheck,
     WaitServerWait, WaitServerJoin, NsStopDrivers, WaitServerTimeout
<1> QED
  BY <1>1, <1>2, <1>3, <1>4, <1>5, <1>6, <1>7, Zenon DEF Next, vars

(* With one administrator minthreads never exceeds maxthreads, although    *)
(* ns_server checks a value before it takes the lock to store it.          *)
THEOREM OneAdminKeepsOrder ==
    ASSUME \A a, b \in Admins : a = b
    PROVE  Spec => []LimitsOrdered
<1>1. Init => LimitInv  BY SMTT(30), ThreadRangeAssumption DEF Init, LimitInv
<1>2. PtrInv /\ LimitInv /\ [Next]_vars => LimitInv'  BY SMTT(30), LimitStep
<1>3. LimitInv => LimitsOrdered  BY DEF LimitInv, LimitsOrdered
<1> QED  BY <1>1, <1>2, <1>3, PtrInvariant, PTL DEF Spec
=============================================================================
