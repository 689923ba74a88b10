--------------------------- MODULE ConnPoolOwners ---------------------------
(***************************************************************************)
(* The type invariant of ConnPool and the inductive invariant PtrInv behind *)
(* it, for every number of drivers, spoolers, Conns, slots and             *)
(* administrators and every setting of the pool.  Then that a Conn has one *)
(* owner at a time, for every size of the pool; and, when the size of the  *)
(* pool is fixed, how a Conn is handed to an idle thread.                  *)
(***************************************************************************)
EXTENDS ConnPool, TLAPS

-----------------------------------------------------------------------------
(* The strengthening that makes the type invariant and ConnInOnePlace      *)
(* inductive: which pointers are set where a thread or a caller stands.    *)

ThreadPointers ==
    \A i \in Slots :
        /\ pc[i] = "run" => argConn[i] # NULL
        /\ pc[i] \in {"running", "freeing"} => cur[i] # NULL
        /\ pc[i] \in {"leave", "unidle"} =>
              shutdown \/ timedout[i] \/ argConn[i] # NULL

CallerPointers ==
    \A d \in Callers :
        /\ dpc[d] \in {"popidle", "assign", "append"} => dconn[d] # NULL
        /\ dpc[d] \in {"assign", "need", "signal"} => darg[d] \in Slots

CallerCreates ==
    \A d \in Callers :
        /\ dcreate[d] => dpc[d] \in {"signal", "incr"}
        /\ dpc[d] = "incr" => dcreate[d]

PtrInv == TypeOK /\ ThreadPointers /\ CallerPointers /\ CallerCreates

-----------------------------------------------------------------------------
(* Initially no thread runs a request and no caller holds a Conn.          *)
LEMMA PtrInit == Init => PtrInv
<1> USE DEF Init
<1>1. ASSUME Init PROVE TypeOK
  <2>1. PoolTypeOK  BY <1>1 DEF PoolTypeOK
  <2>2. LimitTypeOK  BY <1>1, ThreadRangeAssumption DEF LimitTypeOK
  <2>3. ThreadTypeOK  BY <1>1, LimitAssumption DEF ThreadTypeOK, ThreadPcs
  <2>4. CallTypeOK  BY Zenon, <1>1 DEF CallTypeOK, DriverPcs
  <2>5. LoopTypeOK  BY <1>1 DEF LoopTypeOK
  <2>6. ServerTypeOK
    <3>1. shutdown \in BOOLEAN  BY <1>1, Zenon
    <3>2. mi \in 1 .. MaxConns + 1  BY <1>1, ThreadRangeAssumption
    <3> QED  BY <1>1, <3>1, <3>2, Zenon DEF ServerTypeOK, MainPcs
  <2> QED  BY Zenon, <2>1, <2>2, <2>3, <2>4, <2>5, <2>6 DEF TypeOK
<1>2. ASSUME Init PROVE ThreadPointers /\ CallerPointers /\ CallerCreates
  BY Zenon, <1>2 DEF Init, ThreadPointers, CallerPointers, CallerCreates
<1> QED  BY <1>1, <1>2, Zenon DEF PtrInv

-----------------------------------------------------------------------------
(* Each part of PtrInv depends on some of the variables only.              *)

LEMMA PoolFrame == PoolTypeOK /\ UNCHANGED poolVars => PoolTypeOK'
BY Zenon DEF PoolTypeOK, poolVars

LEMMA LimitFrame == LimitTypeOK /\ UNCHANGED <<countVars, adminVars>> => LimitTypeOK'
BY Zenon DEF LimitTypeOK, countVars, adminVars

LEMMA ThreadFrame ==
    ThreadTypeOK /\ ThreadPointers /\ UNCHANGED <<threadVars, shutdown>>
        => ThreadTypeOK' /\ ThreadPointers'
BY DEF ThreadTypeOK, ThreadPointers, threadVars

LEMMA CallFrame ==
    CallTypeOK /\ CallerPointers /\ CallerCreates /\ UNCHANGED <<dpc, callVars>>
        => CallTypeOK' /\ CallerPointers' /\ CallerCreates'
BY Zenon DEF CallTypeOK, CallerPointers, CallerCreates, callVars

LEMMA LoopFrame == LoopTypeOK /\ UNCHANGED loopVars => LoopTypeOK'
BY Zenon DEF LoopTypeOK, loopVars

LEMMA ServerFrame == ServerTypeOK /\ UNCHANGED serverVars => ServerTypeOK'
BY Zenon DEF ServerTypeOK, serverVars

(* PtrInv is preserved by each step of a connection thread: one lemma per action. *)
LEMMA PtrConnThreadStart ==
    ASSUME PtrInv, NEW i \in Slots, ConnThreadStart(i)
    PROVE  PtrInv'
<1> USE DEF PtrInv, TypeOK
<1>1. ThreadTypeOK'
  BY Zenon DEF ConnThreadStart, Goto, ThreadTypeOK, ThreadPcs, IdlePcs,
     ReadyPcs, BusyPcs, DeadPcs
<1>2. ThreadPointers'
  BY Zenon DEF ConnThreadStart, Goto, ThreadTypeOK, ThreadPointers,
     serverVars
<1>3. LimitTypeOK'
  BY DEF ConnThreadStart, LimitTypeOK, adminVars
<1> QED
  BY Zenon, <1>1, <1>2, <1>3, PoolFrame, CallFrame, LoopFrame, ServerFrame
     DEF ConnThreadStart, driverVars

LEMMA PtrConnThreadReady ==
    ASSUME PtrInv, NEW i \in Slots, ConnThreadReady(i)
    PROVE  PtrInv'
<1> USE DEF PtrInv, TypeOK
<1>1. ThreadTypeOK'
  BY Zenon DEF ConnThreadReady, Goto, ThreadTypeOK, ThreadPcs, IdlePcs,
     ReadyPcs, BusyPcs, DeadPcs
<1>2. ThreadPointers'
  BY Zenon DEF ConnThreadReady, Goto, ThreadTypeOK, ThreadPointers,
     serverVars
<1> QED
  BY Zenon, <1>1, <1>2, PoolFrame, LimitFrame, CallFrame, LoopFrame,
     ServerFrame DEF ConnThreadReady, driverVars

LEMMA PtrLoopTop ==
    ASSUME PtrInv, NEW i \in Slots, LoopTop(i)
    PROVE  PtrInv'
<1> USE DEF PtrInv, TypeOK
<1>1. ThreadTypeOK'
  BY Zenon DEF LoopTop, Goto, ThreadTypeOK, ThreadPcs, IdlePcs, ReadyPcs,
     BusyPcs, DeadPcs
<1>2. ThreadPointers'
  BY Zenon DEF LoopTop, Goto, ThreadTypeOK, ThreadPointers, serverVars
<1> QED
  BY Zenon, <1>1, <1>2, PoolFrame, LimitFrame, CallFrame, LoopFrame,
     ServerFrame DEF LoopTop, driverVars

LEMMA PtrDequeueConn ==
    ASSUME PtrInv, NEW i \in Slots, DequeueConn(i)
    PROVE  PtrInv'
<1> USE DEF PtrInv, TypeOK
<1>1. wait # <<>> => Head(wait) \in Conns /\ Tail(wait) \in Seq(Conns)
  BY DEF PoolTypeOK
<1>2. PoolTypeOK'
  BY <1>1, SMTT(30) DEF DequeueConn, PoolTypeOK
<1>3. ThreadTypeOK'
  <2>1. CASE wait = <<>>
    BY <2>1, ZenonT(30) DEF DequeueConn, Goto, ThreadTypeOK, ThreadPcs, IdlePcs,
       ReadyPcs, BusyPcs, DeadPcs
  <2>2. CASE wait # <<>>
    BY <1>1, <2>2, ZenonT(30) DEF DequeueConn, Goto, ThreadTypeOK, ThreadPcs,
       IdlePcs, ReadyPcs, BusyPcs, DeadPcs
  <2> QED  BY Zenon, <2>1, <2>2
<1>4. ThreadPointers'
  <2>1. pc'[i] \in {"toidle", "run"} /\ (pc'[i] = "run" => argConn'[i] # NULL)
    BY Zenon, <1>1, IdentityAssumption DEF DequeueConn, Goto, ThreadTypeOK
  <2>2. ASSUME NEW j \in Slots, j # i
        PROVE  pc'[j] = pc[j] /\ argConn'[j] = argConn[j] /\ cur'[j] = cur[j]
    BY Zenon, <2>2 DEF DequeueConn, Goto, ThreadTypeOK
  <2> QED  BY Zenon, <2>1, <2>2 DEF DequeueConn, ThreadPointers, serverVars
<1> QED
  BY Zenon, <1>2, <1>3, <1>4, LimitFrame, CallFrame, LoopFrame, ServerFrame
     DEF DequeueConn, driverVars

LEMMA PtrEnterIdle ==
    ASSUME PtrInv, NEW i \in Slots, EnterIdle(i)
    PROVE  PtrInv'
<1> USE DEF PtrInv, TypeOK
<1>1. ThreadTypeOK'
  BY Zenon DEF EnterIdle, Goto, ThreadTypeOK, ThreadPcs, IdlePcs, ReadyPcs,
     BusyPcs, DeadPcs
<1>2. ThreadPointers'
  BY Zenon DEF EnterIdle, Goto, ThreadTypeOK, ThreadPointers, serverVars
<1>3. LimitTypeOK'
  BY DEF EnterIdle, LimitTypeOK, adminVars
<1> QED
  BY Zenon, <1>1, <1>2, <1>3, PoolFrame, CallFrame, LoopFrame, ServerFrame
     DEF EnterIdle, driverVars

LEMMA PtrEnqueueThread ==
    ASSUME PtrInv, NEW i \in Slots, EnqueueThread(i)
    PROVE  PtrInv'
<1> USE DEF PtrInv, TypeOK
<1>1. ThreadTypeOK'
  BY Zenon DEF EnqueueThread, Goto, ThreadTypeOK, ThreadPcs, IdlePcs,
     ReadyPcs, BusyPcs, DeadPcs
<1>2. ThreadPointers'
  BY Zenon DEF EnqueueThread, Goto, ThreadTypeOK, ThreadPointers, serverVars
<1>3. PoolTypeOK'
  BY Zenon DEF EnqueueThread, PoolTypeOK
<1> QED
  BY Zenon, <1>1, <1>2, <1>3, LimitFrame, CallFrame, LoopFrame, ServerFrame
     DEF EnqueueThread, driverVars

LEMMA PtrIdleWait ==
    ASSUME PtrInv, NEW i \in Slots, IdleWait(i)
    PROVE  PtrInv'
<1> USE DEF PtrInv, TypeOK
<1>1. ThreadTypeOK'
  BY Zenon DEF IdleWait, Goto, ThreadTypeOK, ThreadPcs, IdlePcs, ReadyPcs,
     BusyPcs, DeadPcs
<1>2. ThreadPointers'
  BY SMTT(30) DEF IdleWait, Goto, ThreadTypeOK, ThreadPointers, serverVars
<1> QED
  BY Zenon, <1>1, <1>2, PoolFrame, LimitFrame, CallFrame, LoopFrame,
     ServerFrame DEF IdleWait, driverVars

LEMMA PtrIdleSignaled ==
    ASSUME PtrInv, NEW i \in Slots, IdleSignaled(i)
    PROVE  PtrInv'
<1> USE DEF PtrInv, TypeOK
<1>1. ThreadTypeOK'
  BY Zenon DEF IdleSignaled, Awake, Goto, ThreadTypeOK, ThreadPcs, IdlePcs,
     ReadyPcs, BusyPcs, DeadPcs
<1>2. ThreadPointers'
  BY Zenon DEF IdleSignaled, Awake, Goto, ThreadTypeOK, ThreadPointers,
     serverVars
<1> QED
  BY Zenon, <1>1, <1>2, PoolFrame, LimitFrame, CallFrame, LoopFrame,
     ServerFrame DEF IdleSignaled, Awake, driverVars

LEMMA PtrLeaveIdle ==
    ASSUME PtrInv, NEW i \in Slots, LeaveIdle(i)
    PROVE  PtrInv'
<1> USE DEF PtrInv, TypeOK
<1>1. ThreadTypeOK'
  BY Zenon DEF LeaveIdle, Goto, ThreadTypeOK, ThreadPcs, IdlePcs, ReadyPcs,
     BusyPcs, DeadPcs
<1>2. ThreadPointers'
  BY Zenon DEF LeaveIdle, Goto, ThreadTypeOK, ThreadPointers, serverVars
<1>3. PoolTypeOK'
  BY Zenon DEF LeaveIdle, PoolTypeOK
<1> QED
  BY Zenon, <1>1, <1>2, <1>3, LimitFrame, CallFrame, LoopFrame, ServerFrame
     DEF LeaveIdle, driverVars

LEMMA PtrIdleDone ==
    ASSUME PtrInv, NEW i \in Slots, IdleDone(i)
    PROVE  PtrInv'
<1> USE DEF PtrInv, TypeOK
<1>1. ThreadTypeOK'
  BY Zenon DEF IdleDone, Goto, ThreadTypeOK, ThreadPcs, IdlePcs, ReadyPcs,
     BusyPcs, DeadPcs
<1>2. ThreadPointers'
  BY Zenon DEF IdleDone, Goto, ThreadTypeOK, ThreadPointers, serverVars
<1>3. LimitTypeOK'
  BY SMTT(30) DEF IdleDone, LimitTypeOK, adminVars
<1> QED
  BY Zenon, <1>1, <1>2, <1>3, PoolFrame, CallFrame, LoopFrame, ServerFrame
     DEF IdleDone, driverVars

LEMMA PtrConnRunStart ==
    ASSUME PtrInv, NEW i \in Slots, ConnRunStart(i)
    PROVE  PtrInv'
<1> USE DEF PtrInv, TypeOK
<1>1. ThreadTypeOK'
  BY Zenon DEF ConnRunStart, Goto, ThreadTypeOK, ThreadPcs, IdlePcs,
     ReadyPcs, BusyPcs, DeadPcs
<1>2. ThreadPointers'
  BY Zenon DEF ConnRunStart, Goto, ThreadTypeOK, ThreadPointers, serverVars
<1> QED
  BY Zenon, <1>1, <1>2, PoolFrame, LimitFrame, CallFrame, LoopFrame,
     ServerFrame DEF ConnRunStart, driverVars

LEMMA PtrConnRunClose ==
    ASSUME PtrInv, NEW i \in Slots, ConnRunClose(i)
    PROVE  PtrInv'
<1> USE DEF PtrInv, TypeOK
<1>1. ThreadTypeOK'
  BY Zenon DEF ConnRunClose, SockTrigger, Goto, ThreadTypeOK, ThreadPcs,
     IdlePcs, ReadyPcs, BusyPcs, DeadPcs
<1>2. ThreadPointers'
  BY Zenon DEF ConnRunClose, SockTrigger, Goto, ThreadTypeOK,
     ThreadPointers, serverVars
<1>3. LoopTypeOK'
  <2> DEFINE e == connDrv[cur[i]]
  <2>1. nclose' \in [Drivers -> Nat]
    <3>1. nclose' = [nclose EXCEPT ![e] = @ + 1]  BY Zenon DEF ConnRunClose
    <3> HIDE DEF e
    <3>2. CASE e \in Drivers  BY <3>1, <3>2 DEF LoopTypeOK
    <3>3. CASE e \notin Drivers  BY <3>1, <3>3, Zenon DEF LoopTypeOK
    <3> QED  BY Zenon, <3>2, <3>3
  <2>2. trig' \in [Drivers -> Nat]
    <3>1. trig' = trig \/ trig' = [trig EXCEPT ![e] = @ + 1]
      BY Zenon DEF ConnRunClose, SockTrigger
    <3> HIDE DEF e
    <3>2. CASE e \in Drivers  BY <3>1, <3>2 DEF LoopTypeOK
    <3>3. CASE e \notin Drivers  BY Zenon, <3>1, <3>3 DEF LoopTypeOK
    <3> QED  BY Zenon, <3>2, <3>3
  <2> QED  BY Zenon, <2>1, <2>2 DEF ConnRunClose, LoopTypeOK
<1> QED
  BY Zenon, <1>1, <1>2, <1>3, PoolFrame, LimitFrame, CallFrame,
     ServerFrame DEF ConnRunClose, SockTrigger, driverVars

LEMMA PtrFreeConn ==
    ASSUME PtrInv, NEW i \in Slots, FreeConn(i)
    PROVE  PtrInv'
<1> USE DEF PtrInv, TypeOK
<1>1. ThreadTypeOK'
  BY Zenon DEF FreeConn, Goto, ThreadTypeOK, ThreadPcs, IdlePcs, ReadyPcs,
     BusyPcs, DeadPcs
<1>2. ThreadPointers'
  BY Zenon DEF FreeConn, Goto, ThreadTypeOK, ThreadPointers, serverVars
<1>3. PoolTypeOK'
  BY Zenon DEF FreeConn, PoolTypeOK, ThreadTypeOK, ThreadPointers
<1> QED
  BY Zenon, <1>1, <1>2, <1>3, LimitFrame, CallFrame, LoopFrame,
     ServerFrame DEF FreeConn, driverVars

LEMMA PtrSnapshot ==
    ASSUME PtrInv, NEW i \in Slots, Snapshot(i)
    PROVE  PtrInv'
<1> USE DEF PtrInv, TypeOK
<1>1. ThreadTypeOK'
  <2>1. (IF ncons[i] > 0 THEN ncons[i] - 1 ELSE 0) \in 0 .. ConnsPerThread
    BY LimitAssumption DEF ThreadTypeOK
  <2> QED
    BY Zenon, <2>1 DEF Snapshot, Goto, ThreadTypeOK, ThreadPcs, IdlePcs, ReadyPcs, BusyPcs, DeadPcs
<1>2. ThreadPointers'
  BY Zenon DEF Snapshot, Goto, ThreadTypeOK, ThreadPointers, serverVars
<1> QED
  BY Zenon, <1>1, <1>2, PoolFrame, LimitFrame, CallFrame, LoopFrame,
     ServerFrame DEF Snapshot, driverVars

LEMMA PtrConnThreadDead ==
    ASSUME PtrInv, NEW i \in Slots, ConnThreadDead(i)
    PROVE  PtrInv'
<1> USE DEF PtrInv, TypeOK
<1>1. ThreadTypeOK'
  <2>1. pc' \in [Slots -> ThreadPcs]
    BY Zenon DEF ConnThreadDead, Goto, ThreadTypeOK, ThreadPcs, IdlePcs,
       ReadyPcs, BusyPcs, DeadPcs
  <2>2. inShutdown' \in [Slots -> BOOLEAN]
    BY Zenon DEF ConnThreadDead, ThreadTypeOK, ServerTypeOK
  <2> QED  BY Zenon, <2>1, <2>2 DEF ConnThreadDead, ThreadTypeOK
<1>2. ThreadPointers'
  BY SMTT(30) DEF ConnThreadDead, Goto, ThreadTypeOK, ThreadPointers,
     serverVars
<1> QED
  BY Zenon, <1>1, <1>2, PoolFrame, LimitFrame, CallFrame, LoopFrame,
     ServerFrame DEF ConnThreadDead, driverVars

LEMMA PtrConnThreadUncount ==
    ASSUME PtrInv, NEW i \in Slots, ConnThreadUncount(i)
    PROVE  PtrInv'
<1> USE DEF PtrInv, TypeOK
<1>1. ThreadTypeOK'
  BY Zenon DEF ConnThreadUncount, SockTrigger, Goto, ThreadTypeOK,
     ThreadPcs, IdlePcs, ReadyPcs, BusyPcs, DeadPcs
<1>2. ThreadPointers'
  BY Zenon DEF ConnThreadUncount, SockTrigger, Goto, ThreadTypeOK,
     ThreadPointers, serverVars
<1>3. LimitTypeOK'
  <2>1. /\ current' = current - 1
        /\ UNCHANGED <<creating, idle, tmin, tmax, aset>>
    BY Zenon DEF ConnThreadUncount, adminVars
  <2> QED  BY <2>1 DEF LimitTypeOK
<1>4. LoopTypeOK'
  <2> DEFINE e == connDrv[cur[i]]
  <2>1. trig' = trig \/ trig' = [trig EXCEPT ![e] = @ + 1]
    BY Zenon DEF ConnThreadUncount, SockTrigger
  <2> HIDE DEF e
  <2>2. UNCHANGED <<reanim, nwait, nretry, nclose, qsize>>
    BY Zenon DEF ConnThreadUncount
  <2>3. trig' \in [Drivers -> Nat]  BY <2>1 DEF LoopTypeOK
  <2> QED  BY Zenon, <2>2, <2>3 DEF LoopTypeOK
<1>5. ServerTypeOK'
  BY Zenon DEF ConnThreadUncount, SockTrigger, ServerTypeOK, MainPcs,
     serverVars
<1> QED
  BY Zenon, <1>1, <1>2, <1>3, <1>4, <1>5, PoolFrame, CallFrame DEF
     ConnThreadUncount, SockTrigger, driverVars

LEMMA PtrJoinPrevious ==
    ASSUME PtrInv, NEW i \in Slots, JoinPrevious(i)
    PROVE  PtrInv'
<1> USE DEF PtrInv, TypeOK
<1>1. ThreadTypeOK'
  BY Zenon DEF JoinPrevious, Goto, ThreadTypeOK, ServerTypeOK, ThreadPcs,
     IdlePcs, ReadyPcs, BusyPcs, DeadPcs
<1>2. ThreadPointers'
  BY Zenon DEF JoinPrevious, Goto, ThreadTypeOK, ThreadPointers, serverVars
<1>3. ServerTypeOK'
  BY Zenon DEF JoinPrevious, ServerTypeOK, MainPcs, serverVars
<1> QED
  BY Zenon, <1>1, <1>2, <1>3, PoolFrame, LimitFrame, CallFrame, LoopFrame
     DEF JoinPrevious, driverVars

LEMMA PtrConnThreadExit ==
    ASSUME PtrInv, NEW i \in Slots, ConnThreadExit(i)
    PROVE  PtrInv'
<1> USE DEF PtrInv, TypeOK
<1>1. ThreadTypeOK'
  BY LimitAssumption DEF ConnThreadExit, Goto, ThreadTypeOK,
     ThreadPcs
<1>2. ThreadPointers'
  BY Zenon DEF ConnThreadExit, Goto, ThreadTypeOK, ThreadPointers,
     serverVars
<1>3. ServerTypeOK'
  BY SMTT(30) DEF ConnThreadExit, ServerTypeOK, MainPcs, serverVars
<1> QED
  BY Zenon, <1>1, <1>2, <1>3, PoolFrame, LimitFrame, CallFrame, LoopFrame
     DEF ConnThreadExit, driverVars

LEMMA PtrIdleTimeout ==
    ASSUME PtrInv, NEW i \in Slots, IdleTimeout(i)
    PROVE  PtrInv'
<1> USE DEF PtrInv, TypeOK
<1>1. ThreadTypeOK'
  BY ZenonT(30) DEF IdleTimeout, Goto, ThreadTypeOK, ThreadPcs, IdlePcs,
     ReadyPcs, BusyPcs, DeadPcs
<1>2. ThreadPointers'
  BY ZenonT(30) DEF IdleTimeout, Goto, ThreadTypeOK, ThreadPointers, serverVars
<1> QED
  BY Zenon, <1>1, <1>2, PoolFrame, LimitFrame, CallFrame, LoopFrame,
     ServerFrame, ZenonT(30) DEF IdleTimeout, driverVars

LEMMA PtrIdleSpurious ==
    ASSUME PtrInv, NEW i \in Slots, IdleSpurious(i)
    PROVE  PtrInv'
<1> USE DEF PtrInv, TypeOK
<1>1. ThreadTypeOK'
  BY Zenon DEF IdleSpurious, Awake, Goto, ThreadTypeOK, ThreadPcs,
     IdlePcs, ReadyPcs, BusyPcs, DeadPcs
<1>2. ThreadPointers'
  BY Zenon DEF IdleSpurious, Awake, Goto, ThreadTypeOK, ThreadPointers,
     serverVars
<1> QED
  BY Zenon, <1>1, <1>2, PoolFrame, LimitFrame, CallFrame, LoopFrame,
     ServerFrame, Zenon DEF IdleSpurious, Awake, driverVars

(* Every step of a connection thread preserves PtrInv.                     *)
LEMMA PtrThread ==
    ASSUME PtrInv, NEW i \in Slots, ThreadStep(i) \/ IdleTimeout(i) \/ IdleSpurious(i)
    PROVE  PtrInv'
BY Zenon, PtrConnThreadStart, PtrConnThreadReady, PtrLoopTop, PtrDequeueConn,
   PtrEnterIdle, PtrEnqueueThread, PtrIdleWait, PtrIdleSignaled, PtrLeaveIdle,
   PtrIdleDone, PtrConnRunStart, PtrConnRunClose, PtrFreeConn, PtrSnapshot,
   PtrConnThreadDead, PtrConnThreadUncount, PtrJoinPrevious, PtrConnThreadExit,
   PtrIdleTimeout, PtrIdleSpurious DEF ThreadStep

(* A new thread is wanted or not.                                          *)
LEMMA NeededType ==
    ASSUME NEW n PROVE neededAdditionalConnectionThreads(n) \in BOOLEAN
BY Zenon DEF neededAdditionalConnectionThreads

(* Getting a free Conn preserves PtrInv, whether or not there is one.        *)
LEMMA PtrGetFreeRefused ==
    ASSUME PtrInv, NEW d \in Callers, NEW new \in BOOLEAN, dpc[d] \in {"serve", "poll"}, QueueConnGetFree(d, new), nretry' \in [Callers -> Nat],
           shutdown \/ free = {}
    PROVE  PtrInv'
<1> USE DEF PtrInv, TypeOK
<1>1. dpc' = [dpc EXCEPT ![d] = "serve"] /\ UNCHANGED <<free, dconn, connDrv, darg, dcreate>>
  BY Zenon DEF QueueConnGetFree, QueueFull
<1>2. CallTypeOK'
  BY Zenon, <1>1 DEF CallTypeOK, DriverPcs
<1>3. CallerPointers' /\ CallerCreates'
  BY Zenon, <1>1 DEF CallTypeOK, CallerPointers, CallerCreates
<1>4. nwait' \in [Callers -> Nat] /\ qsize' \in Int
  BY DEF QueueConnGetFree, QueueFull, LoopTypeOK
<1>5. LoopTypeOK'
  BY Zenon, <1>4 DEF QueueConnGetFree, QueueFull, LoopTypeOK
<1> QED
  BY Zenon, <1>1, <1>2, <1>3, <1>5, PoolFrame, LimitFrame, ThreadFrame, ServerFrame
     DEF QueueConnGetFree, QueueFull, poolVars, serverVars

LEMMA PtrGetFreeTaken ==
    ASSUME PtrInv, NEW d \in Callers, NEW new \in BOOLEAN, dpc[d] \in {"serve", "poll"}, QueueConnGetFree(d, new), nretry' \in [Callers -> Nat],
           ~(shutdown \/ free = {})
    PROVE  PtrInv'
<1> USE DEF PtrInv, TypeOK
<1>1. PICK c \in free, drv \in (IF d \in Drivers THEN {d} ELSE Drivers) :
             /\ free' = free \ {c}
             /\ dconn' = [dconn EXCEPT ![d] = c]
             /\ connDrv' = [connDrv EXCEPT ![c] = drv]
  BY Zenon DEF QueueConnGetFree, QueueFull
<1>2. /\ dpc' = [dpc EXCEPT ![d] = "popidle"]
      /\ UNCHANGED <<wait, tqueue, darg, dcreate>>
  BY Zenon DEF QueueConnGetFree, QueueFull
<1>3. PoolTypeOK'
  BY Zenon, <1>1, <1>2 DEF PoolTypeOK
<1>4. c \in Conns /\ c # NULL /\ drv \in Drivers
  BY Zenon, <1>1, IdentityAssumption DEF PoolTypeOK
<1>5. CallTypeOK'
  BY Zenon, <1>1, <1>2, <1>4 DEF CallTypeOK, DriverPcs
<1>6. CallerPointers' /\ CallerCreates'
  BY Zenon, <1>1, <1>2, <1>4 DEF CallTypeOK, CallerPointers, CallerCreates
<1>7. qsize' \in Int /\ nwait' = nwait
  BY DEF QueueConnGetFree, QueueFull, LoopTypeOK
<1>8. LoopTypeOK'
  BY Zenon, <1>7 DEF QueueConnGetFree, QueueFull, LoopTypeOK
<1> QED
  BY Zenon, <1>3, <1>5, <1>6, <1>8, LimitFrame, ThreadFrame, ServerFrame
     DEF QueueConnGetFree, QueueFull, serverVars

(* Getting a free Conn, the common part of QueueNew and QueueWaiting.      *)
LEMMA PtrGetFree ==
    ASSUME PtrInv, NEW d \in Callers, NEW new \in BOOLEAN,
           dpc[d] \in {"serve", "poll"},
           QueueConnGetFree(d, new), nretry' \in [Callers -> Nat]
    PROVE  PtrInv'
BY Zenon, PtrGetFreeRefused, PtrGetFreeTaken

(* The same for each step of a caller, a driver or spooler that queues requests. *)
LEMMA PtrCreateConnThread ==
    ASSUME PtrInv, NEW d \in Callers, CreateConnThread(d)
    PROVE  PtrInv'
<1> USE DEF PtrInv, TypeOK
<1>1. CallTypeOK' /\ CallerPointers' /\ CallerCreates'
  <2>1. \/ dpc' = [dpc EXCEPT ![d] = "nocreate"]
        \/ dpc' = [dpc EXCEPT ![d] = "serve"]
    BY Zenon DEF CreateConnThread
  <2>2. dpc[d] = "slot" /\ UNCHANGED callVars
    BY Zenon DEF CreateConnThread
  <2>3. CallTypeOK'  BY Zenon, <2>1, <2>2 DEF CallTypeOK, DriverPcs, callVars
  <2> QED
    BY ZenonT(30), <2>1, <2>2, <2>3 DEF CallTypeOK, CallerPointers, CallerCreates,
       callVars
<1>2. ThreadTypeOK' /\ ThreadPointers'
  <2>1. CASE UNCHANGED threadVars
    BY Zenon, <2>1, ThreadFrame DEF CreateConnThread, serverVars
  <2>2. CASE \E i \in Slots : /\ pc' = [pc EXCEPT ![i] = "start"]
                              /\ argConn' = [argConn EXCEPT ![i] = NULL]
                              /\ UNCHANGED <<cur, ncons, timedout, inShutdown, joining>>
    <3> PICK i \in Slots : /\ pc' = [pc EXCEPT ![i] = "start"]
                           /\ argConn' = [argConn EXCEPT ![i] = NULL]
                           /\ UNCHANGED <<cur, ncons, timedout, inShutdown, joining>>
      BY <2>2, ZenonT(30)
    <3>1. ThreadTypeOK'  BY Zenon DEF ThreadTypeOK, ThreadPcs
    <3>2. ThreadPointers'
      BY Zenon DEF CreateConnThread, ThreadTypeOK, ThreadPointers, serverVars
    <3> QED  BY Zenon, <3>1, <3>2
  <2> QED  BY Zenon, <2>1, <2>2 DEF CreateConnThread
<1> QED
  BY Zenon, <1>1, <1>2, PoolFrame, LimitFrame, LoopFrame, ServerFrame
     DEF CreateConnThread

LEMMA PtrCreateFailed ==
    ASSUME PtrInv, NEW d \in Callers, CreateFailed(d)
    PROVE  PtrInv'
<1> USE DEF PtrInv, TypeOK
<1>1. CallTypeOK' /\ CallerPointers' /\ CallerCreates'
  BY Zenon DEF CreateFailed, CallTypeOK, DriverPcs, CallerPointers,
     CallerCreates,
              callVars
<1>2. LimitTypeOK'
  BY DEF CreateFailed, LimitTypeOK, adminVars
<1> QED
  BY Zenon, <1>1, <1>2, PoolFrame, ThreadFrame, LoopFrame, ServerFrame
     DEF CreateFailed, serverVars

LEMMA PtrQueueWaiting ==
    ASSUME PtrInv, NEW d \in Callers, QueueWaiting(d)
    PROVE  PtrInv'
<1> USE DEF PtrInv, TypeOK
<1>1. nretry' \in [Callers -> Nat]
  BY DEF QueueWaiting, LoopTypeOK
<1> QED  BY <1>1, PtrGetFree, ZenonT(30) DEF QueueWaiting

LEMMA PtrPopIdleThread ==
    ASSUME PtrInv, NEW d \in Callers, PopIdleThread(d)
    PROVE  PtrInv'
<1> USE DEF PtrInv, TypeOK
<1>1. CASE tqueue = {}
  <2>1. CallTypeOK' /\ CallerPointers' /\ CallerCreates'
    BY ZenonT(30), <1>1 DEF PopIdleThread, CallTypeOK, DriverPcs, CallerPointers,
                      CallerCreates
  <2> QED
    BY Zenon, <1>1, <2>1, PoolFrame, LimitFrame, ThreadFrame, LoopFrame,
       ServerFrame
       DEF PopIdleThread, poolVars, serverVars
<1>2. CASE tqueue # {}
  <2>1. PICK i \in tqueue : /\ tqueue' = tqueue \ {i}
                            /\ darg' = [darg EXCEPT ![d] = i]
                            /\ dpc' = [dpc EXCEPT ![d] = "assign"]
    BY Zenon, <1>2 DEF PopIdleThread
  <2>2. i \in Slots  BY Zenon DEF PoolTypeOK
  <2>3. PoolTypeOK'  BY Zenon, <2>1 DEF PopIdleThread, PoolTypeOK
  <2>4. CallTypeOK'
    BY Zenon, <2>1, <2>2 DEF PopIdleThread, CallTypeOK, DriverPcs
  <2>5. CallerPointers' /\ CallerCreates'
    BY <2>1, <2>2, SMTT(30) DEF PopIdleThread, CallTypeOK, CallerPointers,
       CallerCreates
  <2> QED
    BY Zenon, <2>3, <2>4, <2>5, LimitFrame, ThreadFrame, LoopFrame,
       ServerFrame
       DEF PopIdleThread, serverVars
<1> QED  BY Zenon, <1>1, <1>2

LEMMA PtrAssignConn ==
    ASSUME PtrInv, NEW d \in Callers, AssignConn(d)
    PROVE  PtrInv'
<1> USE DEF PtrInv, TypeOK
<1>1. CallTypeOK' /\ CallerPointers' /\ CallerCreates'
  BY Zenon DEF AssignConn, CallTypeOK, DriverPcs, CallerPointers,
     CallerCreates
<1>2. darg[d] \in Slots /\ dconn[d] \in Conns /\ dconn[d] # NULL
  BY Zenon DEF AssignConn, CallTypeOK, CallerPointers
<1>3. ThreadTypeOK'
  BY <1>2, ZenonT(30), SMTT(30) DEF AssignConn, ThreadTypeOK
<1>4. ThreadPointers'
  BY <1>2, ZenonT(30), SMTT(30) DEF AssignConn, ThreadTypeOK, ThreadPointers, serverVars
<1> QED
  BY <1>1, <1>3, <1>4, PoolFrame, LimitFrame, LoopFrame, ServerFrame, ZenonT(30)
     DEF AssignConn

LEMMA PtrDecideCreate ==
    ASSUME PtrInv, NEW d \in Callers, DecideCreate(d)
    PROVE  PtrInv'
<1> USE DEF PtrInv, TypeOK
<1>1. CallTypeOK'
  BY Zenon, NeededType DEF DecideCreate, CallTypeOK, DriverPcs
<1>2. CallerPointers' /\ CallerCreates'
  BY SMTT(30) DEF DecideCreate, CallTypeOK, CallerPointers, CallerCreates
<1> QED
  BY Zenon, <1>1, <1>2, PoolFrame, LimitFrame, ThreadFrame, LoopFrame,
     ServerFrame
     DEF DecideCreate, serverVars

LEMMA PtrSignalThread ==
    ASSUME PtrInv, NEW d \in Callers, SignalThread(d)
    PROVE  PtrInv'
<1> USE DEF PtrInv, TypeOK
<1>1. CallTypeOK'
  BY Zenon DEF SignalThread, CallTypeOK, DriverPcs
<1>2. CallerPointers' /\ CallerCreates'
  BY SMTT(30) DEF SignalThread, CallTypeOK, CallerPointers, CallerCreates
<1>3. darg[d] \in Slots
  BY ZenonT(30) DEF SignalThread, CallerPointers
<1>4. ThreadTypeOK'
  BY <1>3, SMTT(30) DEF SignalThread, ThreadTypeOK, ThreadPcs, IdlePcs,
     ReadyPcs, BusyPcs, DeadPcs
<1>5. ThreadPointers'
  BY Zenon, <1>3 DEF SignalThread, ThreadTypeOK, ThreadPointers, serverVars
<1> QED
  BY Zenon, <1>1, <1>2, <1>4, <1>5, PoolFrame, LimitFrame, LoopFrame,
     ServerFrame, ZenonT(30)
     DEF SignalThread

LEMMA PtrAppendWaiting ==
    ASSUME PtrInv, NEW d \in Callers, AppendWaiting(d)
    PROVE  PtrInv'
<1> USE DEF PtrInv, TypeOK
<1>1. dconn[d] \in Conns
  BY Zenon DEF AppendWaiting, CallTypeOK, CallerPointers
<1>2. PoolTypeOK'
  BY <1>1 DEF AppendWaiting, PoolTypeOK
<1> DEFINE create == neededAdditionalConnectionThreads(Len(wait) + 1)
<1>3. create \in BOOLEAN  BY Zenon, NeededType
<1>4. /\ dpc[d] = "append"
      /\ dconn' = [dconn EXCEPT ![d] = NULL]
      /\ dcreate' = [dcreate EXCEPT ![d] = create]
      /\ dpc' = [dpc EXCEPT ![d] = IF create THEN "incr" ELSE "serve"]
      /\ UNCHANGED <<darg, connDrv>>
  BY Zenon DEF AppendWaiting
<1> HIDE DEF create
<1>5. CallTypeOK'
  BY Zenon, <1>3, <1>4 DEF CallTypeOK, DriverPcs
<1>6. CallerPointers' /\ CallerCreates'
  BY Zenon, <1>3, <1>4 DEF CallTypeOK, CallerPointers, CallerCreates
<1> QED
  BY Zenon, <1>2, <1>5, <1>6, LimitFrame, ThreadFrame, LoopFrame, ServerFrame
     DEF AppendWaiting, serverVars

LEMMA PtrCountCreate ==
    ASSUME PtrInv, NEW d \in Callers, CountCreate(d)
    PROVE  PtrInv'
<1> USE DEF PtrInv, TypeOK
<1>1. CallTypeOK' /\ CallerPointers' /\ CallerCreates'
  BY Zenon DEF CountCreate, CallTypeOK, DriverPcs, CallerPointers,
     CallerCreates
<1>2. LimitTypeOK'
  BY SMTT(30) DEF CountCreate, LimitTypeOK, adminVars
<1> QED
  BY <1>1, <1>2, PoolFrame, ThreadFrame, LoopFrame, ServerFrame, SMTT(30)
     DEF CountCreate, serverVars

LEMMA PtrStartRetry ==
    ASSUME PtrInv, NEW d \in Callers, StartRetry(d)
    PROVE  PtrInv'
<1> USE DEF PtrInv, TypeOK
<1>1. LoopTypeOK'
  BY Zenon DEF StartRetry, LoopTypeOK
<1> QED
  BY Zenon, <1>1, PoolFrame, LimitFrame, ThreadFrame, CallFrame, ServerFrame
     DEF StartRetry, serverVars

LEMMA PtrQueueNew ==
    ASSUME PtrInv, NEW d \in Callers, QueueNew(d)
    PROVE  PtrInv'
<1> USE DEF PtrInv, TypeOK
<1>1. nretry' \in [Callers -> Nat]
  BY Zenon DEF QueueNew, LoopTypeOK
<1> QED  BY <1>1, PtrGetFree, Zenon DEF QueueNew

(* Every step of a caller of NsQueueConn preserves PtrInv.                 *)
LEMMA PtrCaller ==
    ASSUME PtrInv, NEW d \in Callers, CallStep(d) \/ StartRetry(d) \/ QueueNew(d)
    PROVE  PtrInv'
BY Zenon, PtrCreateConnThread, PtrCreateFailed, PtrQueueWaiting, PtrPopIdleThread,
   PtrAssignConn, PtrDecideCreate, PtrSignalThread, PtrAppendWaiting,
   PtrCountCreate, PtrStartRetry, PtrQueueNew DEF CallStep

(* The same for the steps of the driver loop.                                *)
LEMMA PtrEnsureRunning ==
    ASSUME PtrInv, NEW d \in Drivers,
           dpc[d] = "poll", NsEnsureRunningConnectionThreads(d),
             UNCHANGED <<callVars, idle, adminVars>>
    PROVE  LimitTypeOK' /\ CallTypeOK' /\ CallerPointers' /\ CallerCreates'
<1> USE DEF PtrInv, TypeOK
<1>0. d \in Callers  BY Zenon DEF Callers
<1>1. LimitTypeOK'
  <2>1. /\ current' \in {current, current + 1}
        /\ creating' \in {creating, creating + 1}
    BY Zenon DEF NsEnsureRunningConnectionThreads
  <2>2. UNCHANGED <<idle, tmin, tmax, aset>>  BY Zenon DEF adminVars
  <2>3. current \in Int /\ creating \in Int  BY Zenon DEF LimitTypeOK
  <2>4. current' \in Int /\ creating' \in Int  BY <2>1, <2>3
  <2> QED  BY Zenon, <2>2, <2>4 DEF LimitTypeOK
<1>2. dpc' = [dpc EXCEPT ![d] = "slot"] \/ dpc' = [dpc EXCEPT ![d] = "serve"]
  BY Zenon DEF NsEnsureRunningConnectionThreads
<1>3. CallTypeOK'
  BY Zenon, <1>2 DEF CallTypeOK, DriverPcs, callVars
<1>4. CallerPointers' /\ CallerCreates'
  BY ZenonT(30), <1>0, <1>2 DEF CallTypeOK, CallerPointers, CallerCreates,
     callVars
<1> QED  BY Zenon, <1>1, <1>3, <1>4

LEMMA PtrDriverTriggered ==
    ASSUME PtrInv, NEW d \in Drivers, DriverTriggered(d)
    PROVE  PtrInv'
<1> USE DEF PtrInv, TypeOK
<1>0. d \in Callers  BY Zenon DEF Callers
<1>1. LoopTypeOK'
  <2>1. trig' \in [Drivers -> Nat]  BY DEF DriverTriggered, LoopTypeOK
  <2>2. reanim' \in [Callers -> BOOLEAN]
    BY ZenonT(30), <1>0 DEF DriverTriggered, LoopTypeOK
  <2> QED  BY Zenon, <2>1, <2>2 DEF DriverTriggered, LoopTypeOK
<1> QED
  BY Zenon, PtrEnsureRunning, <1>1, PoolFrame, ThreadFrame, ServerFrame
     DEF DriverTriggered, serverVars

LEMMA PtrPollTimeout ==
    ASSUME PtrInv, NEW d \in Drivers, PollTimeout(d)
    PROVE  PtrInv'
<1> USE DEF PtrInv, TypeOK
<1> QED
  BY PtrEnsureRunning, PoolFrame, ThreadFrame, LoopFrame, ServerFrame, SMTT(30)
   DEF PollTimeout, serverVars

LEMMA PtrDriverCollect ==
    ASSUME PtrInv, NEW d \in Drivers, DriverCollect(d)
    PROVE  PtrInv'
<1> USE DEF PtrInv, TypeOK
<1>0. d \in Callers  BY Zenon DEF Callers
<1>1. LoopTypeOK'
  <2>1. /\ reanim' \in [Callers -> BOOLEAN] /\ nclose' \in [Drivers -> Nat]
        /\ trig' = trig /\ nretry' = nretry
    BY ZenonT(30) DEF DriverCollect, LoopTypeOK
  <2>2. nwait' \in [Callers -> Nat] /\ qsize' \in Int
    BY <1>0 DEF DriverCollect, LoopTypeOK
  <2> QED  BY Zenon, <2>1, <2>2 DEF LoopTypeOK
<1>2. /\ dpc[d] = "serve" /\ UNCHANGED callVars
      /\ dpc' = [dpc EXCEPT ![d] = "poll"] \/ dpc' = [dpc EXCEPT ![d] = "stopped"]
  BY Zenon DEF DriverCollect
<1>3. CallTypeOK'
  BY Zenon, <1>2 DEF CallTypeOK, DriverPcs, callVars
<1>4. CallerPointers' /\ CallerCreates'
  BY Zenon, <1>0, <1>2 DEF CallTypeOK, CallerPointers, CallerCreates, callVars
<1> QED
  BY Zenon, <1>1, <1>3, <1>4, PoolFrame, LimitFrame, ThreadFrame, ServerFrame
     DEF DriverCollect, serverVars

(* Every step of the driver loop preserves PtrInv.                         *)
LEMMA PtrDriver ==
    ASSUME PtrInv, NEW d \in Drivers,
           DriverTriggered(d) \/ PollTimeout(d) \/ DriverCollect(d)
    PROVE  PtrInv'
BY Zenon, PtrDriverTriggered, PtrPollTimeout, PtrDriverCollect

(* The same for the thread that stops the server.                            *)
LEMMA PtrNsStopServer ==
    ASSUME PtrInv, NsStopServer
    PROVE  PtrInv'
<1> USE DEF PtrInv, TypeOK
<1>1. ServerTypeOK'
  BY Zenon DEF NsStopServer, ServerTypeOK, MainPcs
<1>2. ThreadTypeOK' /\ ThreadPointers'
  BY Zenon DEF NsStopServer, ThreadTypeOK, ThreadPointers, threadVars
<1> QED
  BY Zenon, <1>1, <1>2, PoolFrame, LimitFrame, CallFrame, LoopFrame
     DEF NsStopServer, driverVars

LEMMA PtrWakeupStart ==
    ASSUME PtrInv, WakeupStart
    PROVE  PtrInv'
<1> USE DEF PtrInv, TypeOK
<1>1. ServerTypeOK'
  BY ThreadRangeAssumption DEF WakeupStart, ServerTypeOK, MainPcs
<1> QED
  BY Zenon, <1>1, PoolFrame, LimitFrame, ThreadFrame, CallFrame, LoopFrame
     DEF WakeupStart, driverVars

LEMMA PtrWakeupConnThreads ==
    ASSUME PtrInv, WakeupConnThreads
    PROVE  PtrInv'
<1> USE DEF PtrInv, TypeOK
<1>1. \/ UNCHANGED pc
      \/ pc' = [pc EXCEPT ![mi] = IF @ = "waiting" THEN "signaled" ELSE @]
  BY Zenon DEF WakeupConnThreads
<1>2. UNCHANGED <<argConn, cur, ncons, timedout, inShutdown, joining, shutdown>>
  BY Zenon DEF WakeupConnThreads
<1>3. ThreadTypeOK'
  <2>1. CASE mi \in Slots
    BY Zenon, <1>1, <1>2, <2>1 DEF ThreadTypeOK, ThreadPcs, IdlePcs, ReadyPcs, BusyPcs, DeadPcs
  <2>2. CASE mi \notin Slots  BY ZenonT(30), <1>1, <1>2, <2>2 DEF ThreadTypeOK
  <2> QED  BY Zenon, <2>1, <2>2
<1>4. ThreadPointers'
  <2>1. CASE mi \in Slots
    BY <1>1, <1>2, <2>1, SMTT(30) DEF ThreadTypeOK, ThreadPointers
  <2>2. CASE mi \notin Slots
    BY Zenon, <1>1, <1>2, <2>2 DEF ThreadTypeOK, ThreadPointers
  <2> QED  BY Zenon, <2>1, <2>2
<1>5. ServerTypeOK'
  <2>1. mi' \in 1 .. MaxConns + 1
    BY ThreadRangeAssumption DEF WakeupConnThreads, ServerTypeOK,
       LimitTypeOK
  <2>2. mpc' \in MainPcs
    BY Zenon DEF WakeupConnThreads, ServerTypeOK, MainPcs
  <2> QED  BY Zenon, <2>1, <2>2 DEF WakeupConnThreads, ServerTypeOK
<1> QED
  BY Zenon, <1>3, <1>4, <1>5, PoolFrame, LimitFrame, CallFrame, LoopFrame
     DEF WakeupConnThreads, driverVars

LEMMA PtrWaitServerCheck ==
    ASSUME PtrInv, WaitServerCheck
    PROVE  PtrInv'
<1> USE DEF PtrInv, TypeOK
<1>1. ServerTypeOK'
  BY Zenon DEF WaitServerCheck, MainTakesJoin, ServerTypeOK, MainPcs
<1> QED
  BY Zenon, <1>1, PoolFrame, LimitFrame, ThreadFrame, CallFrame, LoopFrame
     DEF WaitServerCheck, driverVars

LEMMA PtrWaitServerWait ==
    ASSUME PtrInv, WaitServerWait
    PROVE  PtrInv'
<1> USE DEF PtrInv, TypeOK
<1>1. ServerTypeOK'
  BY Zenon DEF WaitServerWait, ServerTypeOK, MainPcs
<1> QED
  BY Zenon, <1>1, PoolFrame, LimitFrame, ThreadFrame, CallFrame, LoopFrame
     DEF WaitServerWait, driverVars

LEMMA PtrWaitServerJoin ==
    ASSUME PtrInv, WaitServerJoin
    PROVE  PtrInv'
<1> USE DEF PtrInv, TypeOK
<1>1. ServerTypeOK'
  BY Zenon DEF WaitServerJoin, ServerTypeOK, MainPcs
<1> QED
  BY Zenon, <1>1, PoolFrame, LimitFrame, ThreadFrame, CallFrame, LoopFrame
     DEF WaitServerJoin, driverVars

LEMMA PtrNsStopDrivers ==
    ASSUME PtrInv, NsStopDrivers
    PROVE  PtrInv'
<1> USE DEF PtrInv, TypeOK
<1>1. ServerTypeOK'
  BY Zenon DEF NsStopDrivers, ServerTypeOK, MainPcs
<1>2. LoopTypeOK'
  BY DEF NsStopDrivers, LoopTypeOK
<1> QED
  BY Zenon, <1>1, <1>2, PoolFrame, LimitFrame, ThreadFrame, CallFrame
     DEF NsStopDrivers

LEMMA PtrWaitServerTimeout ==
    ASSUME PtrInv, WaitServerTimeout
    PROVE  PtrInv'
<1> USE DEF PtrInv, TypeOK
<1>1. ServerTypeOK'
  BY Zenon DEF WaitServerTimeout, ServerTypeOK, MainPcs
<1> QED
  BY Zenon, <1>1, PoolFrame, LimitFrame, ThreadFrame, CallFrame, LoopFrame
     DEF WaitServerTimeout, driverVars

(* Every step of the main thread preserves PtrInv.                         *)
LEMMA PtrMain ==
    ASSUME PtrInv, MainStep \/ NsStopDrivers \/ WaitServerTimeout
    PROVE  PtrInv'
BY Zenon, PtrNsStopServer, PtrWakeupStart, PtrWakeupConnThreads, PtrWaitServerCheck,
   PtrWaitServerWait, PtrWaitServerJoin, PtrNsStopDrivers, PtrWaitServerTimeout, SMTT(30)
   DEF MainStep

(* The same for the commands that change the thread limits.                  *)
LEMMA PtrAdminParse ==
    ASSUME PtrInv, NEW a \in Admins, AdminParse(a)
    PROVE  PtrInv'
<1> USE DEF PtrInv, TypeOK
<1>1. PICK s \in {"min", "max"} \X (1 .. MaxConns) : aset' = [aset EXCEPT ![a] = s]
  <2>1. CASE \E v \in tmin .. MaxConns : aset' = [aset EXCEPT ![a] = <<"max", v>>]
    <3> PICK v \in tmin .. MaxConns : aset' = [aset EXCEPT ![a] = <<"max", v>>]
      BY <2>1, ZenonT(30)
    <3>1. v \in 1 .. MaxConns  BY ThreadRangeAssumption DEF LimitTypeOK
    <3>2. <<"max", v>> \in {"min", "max"} \X (1 .. MaxConns)  BY Zenon, <3>1
    <3> QED  BY <3>2, Zenon
  <2>2. CASE \E v \in 1 .. tmax : aset' = [aset EXCEPT ![a] = <<"min", v>>]
    <3> PICK v \in 1 .. tmax : aset' = [aset EXCEPT ![a] = <<"min", v>>]
      BY <2>2, ZenonT(30)
    <3>1. v \in 1 .. MaxConns  BY ThreadRangeAssumption DEF LimitTypeOK
    <3>2. <<"min", v>> \in {"min", "max"} \X (1 .. MaxConns)  BY <3>1, SMTT(30)
    <3> QED  BY <3>2, Zenon
  <2> QED  BY Zenon, <2>1, <2>2 DEF AdminParse
<1>2. LimitTypeOK'
  BY <1>1, SMTT(30) DEF AdminParse, LimitTypeOK, countVars
<1> QED
  BY <1>2, PoolFrame, ThreadFrame, CallFrame, LoopFrame, ServerFrame, SMTT(30)
     DEF AdminParse, driverVars, serverVars

LEMMA PtrSetPoolAttribute ==
    ASSUME PtrInv, NEW a \in Admins, SetPoolAttribute(a)
    PROVE  PtrInv'
<1> USE DEF PtrInv, TypeOK
<1>1. aset[a] \in {"min", "max"} \X (1 .. MaxConns)
  BY ZenonT(30) DEF SetPoolAttribute, LimitTypeOK
<1>2. LimitTypeOK'
  BY <1>1, ZenonT(30), SMTT(30) DEF SetPoolAttribute, LimitTypeOK, countVars
<1> QED
  BY <1>2, PoolFrame, ThreadFrame, CallFrame, LoopFrame, ServerFrame, SMTT(30)
     DEF SetPoolAttribute, driverVars, serverVars

(* Every step of an ns_server command preserves PtrInv.                    *)
LEMMA PtrAdmin ==
    ASSUME PtrInv, NEW a \in Admins, AdminParse(a) \/ SetPoolAttribute(a)
    PROVE  PtrInv'
BY Zenon, PtrAdminParse, PtrSetPoolAttribute

(* PtrInv is inductive.                                                    *)
LEMMA PtrStep == PtrInv /\ [Next]_vars => PtrInv'
<1> SUFFICES ASSUME PtrInv, [Next]_vars PROVE PtrInv'
  BY Zenon
<1>1. CASE UNCHANGED vars
  BY Zenon, <1>1, PoolFrame, LimitFrame, ThreadFrame, CallFrame, LoopFrame,
     ServerFrame, SMTT(30)
     DEF vars, driverVars, serverVars, PtrInv, TypeOK
<1>2. CASE Next
  BY Zenon, <1>2, PtrThread, PtrCaller, PtrDriver, PtrMain, PtrAdmin DEF Next
<1> QED  BY Zenon, <1>1, <1>2

(* The pointers of connection threads and callers are always consistent    *)
(* with where they are.                                                    *)
LEMMA PtrInvariant == Spec => []PtrInv
BY PtrInit, PtrStep, PTL DEF Spec

(* Type correctness: no counter, pointer or queue of the pool leaves its   *)
(* type, for any number of threads and any settings.  The step that needs  *)
(* an argument is that no thread queues or frees a null Conn.              *)
THEOREM TypeCorrect == Spec => []TypeOK
<1>1. PtrInv => TypeOK  BY Zenon DEF PtrInv
<1> QED  BY <1>1, PtrInvariant, PTL

-----------------------------------------------------------------------------
(* Ownership of Conns.                                                     *)

LEMMA OwnInit == Init => ConnInOnePlace
<1> SUFFICES ASSUME Init PROVE ConnInOnePlace
  BY Zenon
<1>1. Len(wait) = 0  BY Zenon DEF Init
<1>2. \A i \in Slots : Holds(i) = NULL  BY Zenon DEF Init, Holds, Running
<1>3. \A d \in Callers : dconn[d] = NULL  BY Zenon DEF Init
<1> QED
  BY <1>1, <1>2, <1>3, SMTT(30) DEF ConnInOnePlace, QueuedOnce, CallerOwns, ThreadOwns

(* Nobody gets a Conn; some owners may lose theirs.                        *)
LEMMA OwnFrame ==
    ASSUME ConnInOnePlace, UNCHANGED <<free, wait>>,
           \A d \in Callers : dconn'[d] = dconn[d] \/ dconn'[d] = NULL,
           \A i \in Slots : Holds(i)' = Holds(i) \/ Holds(i)' = NULL
    PROVE  ConnInOnePlace'
<1>1. QueuedOnce'  BY Zenon DEF ConnInOnePlace, QueuedOnce
<1>2. CallerOwns'  BY Zenon DEF ConnInOnePlace, CallerOwns
<1>3. ThreadOwns'  BY SMTT(30) DEF ConnInOnePlace, ThreadOwns
<1> QED  BY Zenon, <1>1, <1>2, <1>3 DEF ConnInOnePlace

(* A caller takes a Conn off the free list.                                *)
LEMMA OwnGetFree ==
    ASSUME PtrInv, ConnInOnePlace, NEW d \in Callers, NEW c \in free,
           free' = free \ {c}, wait' = wait, dconn' = [dconn EXCEPT ![d] = c],
           \A i \in Slots : Holds(i)' = Holds(i)
    PROVE  ConnInOnePlace'
<1>1. c # NULL  BY Zenon, IdentityAssumption DEF PtrInv, TypeOK, PoolTypeOK
<1>2. dconn'[d] = c /\ \A e \in Callers : e # d => dconn'[e] = dconn[e]
  BY Zenon DEF PtrInv, TypeOK, CallTypeOK
<1>3. QueuedOnce'  BY Zenon DEF ConnInOnePlace, QueuedOnce
<1>4. CallerOwns'
  <2> SUFFICES ASSUME NEW e \in Callers, dconn'[e] # NULL
               PROVE  /\ dconn'[e] \notin free'
                      /\ \A k \in 1 .. Len(wait) : wait[k] # dconn'[e]
                      /\ \A f \in Callers : dconn'[f] = dconn'[e] => f = e
                      /\ \A i \in Slots : Holds(i) # dconn'[e]
    BY Zenon DEF CallerOwns
  <2>1. CASE e = d
    BY <1>1, <1>2, <2>1 DEF ConnInOnePlace, QueuedOnce, CallerOwns, ThreadOwns
  <2>2. CASE e # d
    BY <1>2, <2>2, SMTT(30) DEF ConnInOnePlace, CallerOwns
  <2> QED  BY Zenon, <2>1, <2>2
<1>5. ThreadOwns'  BY Zenon DEF ConnInOnePlace, ThreadOwns
<1> QED  BY Zenon, <1>3, <1>4, <1>5 DEF ConnInOnePlace

(* A caller gives its Conn to slot i, or nobody has it any more.           *)
LEMMA OwnAssign ==
    ASSUME PtrInv, ConnInOnePlace, NEW d \in Callers, NEW i \in Slots,
           dconn[d] # NULL, UNCHANGED <<free, wait>>,
           dconn' = [dconn EXCEPT ![d] = NULL],
           Holds(i)' = Holds(i) \/ Holds(i)' = dconn[d],
           \A j \in Slots : j # i => Holds(j)' = Holds(j)
    PROVE  ConnInOnePlace'
<1>1. dconn'[d] = NULL /\ \A e \in Callers : e # d => dconn'[e] = dconn[e]
  BY Zenon DEF PtrInv, TypeOK, CallTypeOK
<1>2. QueuedOnce'  BY Zenon DEF ConnInOnePlace, QueuedOnce
<1>3. CallerOwns'  BY <1>1, SMTT(30) DEF ConnInOnePlace, CallerOwns
<1>4. ThreadOwns'
  <2> SUFFICES ASSUME NEW j \in Slots, Holds(j)' # NULL
               PROVE  /\ Holds(j)' \notin free
                      /\ \A k \in 1 .. Len(wait) : wait[k] # Holds(j)'
                      /\ \A l \in Slots : Holds(l)' = Holds(j)' => l = j
    BY Zenon DEF ThreadOwns
  <2>1. CASE Holds(j)' = Holds(j)
    BY Zenon, <2>1 DEF ConnInOnePlace, CallerOwns, ThreadOwns
  <2>2. CASE Holds(j)' = dconn[d] /\ j = i
    BY <2>2 DEF ConnInOnePlace, CallerOwns, ThreadOwns
  <2> QED  BY Zenon, <2>1, <2>2
<1> QED  BY Zenon, <1>2, <1>3, <1>4 DEF ConnInOnePlace

(* A caller appends its Conn to the waiting queue.                         *)
LEMMA OwnAppend ==
    ASSUME PtrInv, ConnInOnePlace, NEW d \in Callers, dconn[d] \in Conns,
           free' = free, wait' = Append(wait, dconn[d]),
           dconn' = [dconn EXCEPT ![d] = NULL],
           \A i \in Slots : Holds(i)' = Holds(i)
    PROVE  ConnInOnePlace'
<1>1. dconn'[d] = NULL /\ \A e \in Callers : e # d => dconn'[e] = dconn[e]
  BY Zenon DEF PtrInv, TypeOK, CallTypeOK
<1>2. wait \in Seq(Conns)  BY Zenon DEF PtrInv, TypeOK, PoolTypeOK
<1>3. /\ Len(wait) \in Nat /\ Len(wait') = Len(wait) + 1
      /\ \A k \in 1 .. Len(wait) : wait'[k] = wait[k]
      /\ wait'[Len(wait) + 1] = dconn[d]
  BY <1>2
<1>4. dconn[d] # NULL  BY Zenon, IdentityAssumption
<1>5. ASSUME NEW k \in 1 .. Len(wait')
      PROVE  (k \in 1 .. Len(wait) /\ wait'[k] = wait[k])
                \/ (k = Len(wait) + 1 /\ wait'[k] = dconn[d])
  BY <1>3
<1>6. QueuedOnce'
  BY <1>3, <1>4, <1>5, SMTT(30) DEF ConnInOnePlace, QueuedOnce, CallerOwns
<1>7. CallerOwns'
  BY <1>1, <1>4, <1>5, SMTT(30) DEF ConnInOnePlace, CallerOwns
<1>8. ThreadOwns'
  BY <1>4, <1>5, SMTT(30) DEF ConnInOnePlace, CallerOwns, ThreadOwns
<1> QED  BY Zenon, <1>6, <1>7, <1>8 DEF ConnInOnePlace

(* A thread takes the first Conn off the waiting queue.                    *)
LEMMA OwnDequeue ==
    ASSUME PtrInv, ConnInOnePlace, NEW i \in Slots, wait # <<>>,
           free' = free, wait' = Tail(wait), dconn' = dconn,
           Holds(i)' = Head(wait),
           \A j \in Slots : j # i => Holds(j)' = Holds(j)
    PROVE  ConnInOnePlace'
<1>1. wait \in Seq(Conns)  BY Zenon DEF PtrInv, TypeOK, PoolTypeOK
<1>2. /\ Len(wait) \in Nat /\ 1 \in 1 .. Len(wait) /\ Head(wait) = wait[1]
      /\ Len(wait') = Len(wait) - 1
      /\ \A k \in 1 .. Len(wait') : k + 1 \in 1 .. Len(wait) /\ wait'[k] = wait[k + 1]
  BY <1>1
<1>3. \A k \in 1 .. Len(wait') : wait'[k] # Head(wait)
  BY <1>2 DEF ConnInOnePlace, QueuedOnce
<1>4. QueuedOnce'
  BY <1>2 DEF ConnInOnePlace, QueuedOnce
<1>5. CallerOwns'
  BY ZenonT(30), <1>2 DEF ConnInOnePlace, CallerOwns
<1>6. ThreadOwns'
  <2> SUFFICES ASSUME NEW j \in Slots, Holds(j)' # NULL
               PROVE  /\ Holds(j)' \notin free
                      /\ \A k \in 1 .. Len(wait') : wait'[k] # Holds(j)'
                      /\ \A l \in Slots : Holds(l)' = Holds(j)' => l = j
    BY Zenon DEF ThreadOwns
  <2>1. CASE j = i
    BY <1>2, <1>3, <2>1 DEF ConnInOnePlace, QueuedOnce, ThreadOwns
  <2>2. CASE j # i
    BY <1>2, <2>2 DEF ConnInOnePlace, ThreadOwns
  <2> QED  BY Zenon, <2>1, <2>2
<1> QED  BY Zenon, <1>4, <1>5, <1>6 DEF ConnInOnePlace

(* A thread puts the Conn it has run on the free list.                     *)
LEMMA OwnFree ==
    ASSUME PtrInv, ConnInOnePlace, NEW i \in Slots, Holds(i) # NULL,
           free' = free \union {Holds(i)}, wait' = wait, dconn' = dconn,
           Holds(i)' = NULL, \A j \in Slots : j # i => Holds(j)' = Holds(j)
    PROVE  ConnInOnePlace'
<1>1. QueuedOnce'  BY Zenon DEF ConnInOnePlace, QueuedOnce, ThreadOwns
<1>2. CallerOwns'  BY Zenon DEF ConnInOnePlace, CallerOwns
<1>3. ThreadOwns'  BY Zenon DEF ConnInOnePlace, ThreadOwns
<1> QED  BY Zenon, <1>1, <1>2, <1>3 DEF ConnInOnePlace

(* The ownership of Conns is preserved by each step of a connection thread.  *)
LEMMA OwnConnThreadStart ==
    ASSUME PtrInv, ConnInOnePlace, NEW i \in Slots, ConnThreadStart(i)
    PROVE  ConnInOnePlace'
<1> USE DEF Holds, Running, Goto
<1>0. pc \in [Slots -> ThreadPcs] /\ argConn \in [Slots -> Conns \union {NULL}]
      /\ cur \in [Slots -> Conns \union {NULL}]
  BY Zenon DEF PtrInv, TypeOK, ThreadTypeOK
<1>1. \A j \in Slots : Holds(j)' = Holds(j) \/ Holds(j)' = NULL
  BY Zenon, <1>0 DEF ConnThreadStart
<1>2. UNCHANGED <<free, wait, dconn>>
  BY Zenon DEF ConnThreadStart, poolVars, driverVars, callVars
<1> HIDE DEF Holds
<1> QED  BY Zenon, <1>1, <1>2, OwnFrame

LEMMA OwnConnThreadReady ==
    ASSUME PtrInv, ConnInOnePlace, NEW i \in Slots, ConnThreadReady(i)
    PROVE  ConnInOnePlace'
<1> USE DEF Holds, Running, Goto
<1>0. pc \in [Slots -> ThreadPcs] /\ argConn \in [Slots -> Conns \union {NULL}]
      /\ cur \in [Slots -> Conns \union {NULL}]
  BY Zenon DEF PtrInv, TypeOK, ThreadTypeOK
<1>1. \A j \in Slots : Holds(j)' = Holds(j) \/ Holds(j)' = NULL
  BY Zenon, <1>0 DEF ConnThreadReady
<1>2. UNCHANGED <<free, wait, dconn>>
  BY Zenon DEF ConnThreadReady, poolVars, driverVars, callVars
<1> HIDE DEF Holds
<1> QED  BY Zenon, <1>1, <1>2, OwnFrame

LEMMA OwnLoopTop ==
    ASSUME PtrInv, ConnInOnePlace, NEW i \in Slots, LoopTop(i)
    PROVE  ConnInOnePlace'
<1> USE DEF Holds, Running, Goto
<1>0. pc \in [Slots -> ThreadPcs] /\ argConn \in [Slots -> Conns \union {NULL}]
      /\ cur \in [Slots -> Conns \union {NULL}]
  BY Zenon DEF PtrInv, TypeOK, ThreadTypeOK
<1>1. \A j \in Slots : Holds(j)' = Holds(j) \/ Holds(j)' = NULL
  BY Zenon, <1>0 DEF LoopTop
<1>2. UNCHANGED <<free, wait, dconn>>
  BY Zenon DEF LoopTop, poolVars, driverVars, callVars
<1> HIDE DEF Holds
<1> QED  BY Zenon, <1>1, <1>2, OwnFrame

LEMMA OwnDequeueConn ==
    ASSUME PtrInv, ConnInOnePlace, NEW i \in Slots, DequeueConn(i)
    PROVE  ConnInOnePlace'
<1> USE DEF Holds, Running, Goto
<1>0. pc \in [Slots -> ThreadPcs] /\ argConn \in [Slots -> Conns \union {NULL}]
      /\ cur \in [Slots -> Conns \union {NULL}]
  BY Zenon DEF PtrInv, TypeOK, ThreadTypeOK
<1>1. CASE wait = <<>>
  <2>1. \A j \in Slots : Holds(j)' = Holds(j) \/ Holds(j)' = NULL
    BY Zenon, <1>0, <1>1 DEF DequeueConn
  <2>2. UNCHANGED <<free, wait, dconn>>
    BY Zenon, <1>1 DEF DequeueConn, driverVars, callVars
  <2> HIDE DEF Holds
  <2> QED  BY Zenon, <2>1, <2>2, OwnFrame
<1>2. CASE wait # <<>>
  <2>1. Holds(i)' = Head(wait) /\ \A j \in Slots : j # i => Holds(j)' = Holds(j)
    BY Zenon, <1>0, <1>2 DEF DequeueConn
  <2>2. free' = free /\ wait' = Tail(wait) /\ dconn' = dconn
    BY Zenon, <1>2 DEF DequeueConn, driverVars, callVars
  <2> HIDE DEF Holds
  <2> QED  BY Zenon, <1>2, <2>1, <2>2, OwnDequeue
<1> QED  BY Zenon, <1>1, <1>2

LEMMA OwnEnterIdle ==
    ASSUME PtrInv, ConnInOnePlace, NEW i \in Slots, EnterIdle(i)
    PROVE  ConnInOnePlace'
<1> USE DEF Holds, Running, Goto
<1>0. pc \in [Slots -> ThreadPcs] /\ argConn \in [Slots -> Conns \union {NULL}]
      /\ cur \in [Slots -> Conns \union {NULL}]
  BY Zenon DEF PtrInv, TypeOK, ThreadTypeOK
<1>1. \A j \in Slots : Holds(j)' = Holds(j) \/ Holds(j)' = NULL
  BY Zenon, <1>0 DEF EnterIdle
<1>2. UNCHANGED <<free, wait, dconn>>
  BY Zenon DEF EnterIdle, poolVars, driverVars, callVars
<1> HIDE DEF Holds
<1> QED  BY Zenon, <1>1, <1>2, OwnFrame

LEMMA OwnEnqueueThread ==
    ASSUME PtrInv, ConnInOnePlace, NEW i \in Slots, EnqueueThread(i)
    PROVE  ConnInOnePlace'
<1> USE DEF Holds, Running, Goto
<1>0. pc \in [Slots -> ThreadPcs] /\ argConn \in [Slots -> Conns \union {NULL}]
      /\ cur \in [Slots -> Conns \union {NULL}]
  BY Zenon DEF PtrInv, TypeOK, ThreadTypeOK
<1>1. \A j \in Slots : Holds(j)' = Holds(j) \/ Holds(j)' = NULL
  BY Zenon, <1>0 DEF EnqueueThread
<1>2. UNCHANGED <<free, wait, dconn>>
  BY Zenon DEF EnqueueThread, poolVars, driverVars, callVars
<1> HIDE DEF Holds
<1> QED  BY Zenon, <1>1, <1>2, OwnFrame

LEMMA OwnIdleWait ==
    ASSUME PtrInv, ConnInOnePlace, NEW i \in Slots, IdleWait(i)
    PROVE  ConnInOnePlace'
<1> USE DEF Holds, Running, Goto
<1>0. pc \in [Slots -> ThreadPcs] /\ argConn \in [Slots -> Conns \union {NULL}]
      /\ cur \in [Slots -> Conns \union {NULL}]
  BY Zenon DEF PtrInv, TypeOK, ThreadTypeOK
<1>1. \A j \in Slots : Holds(j)' = Holds(j) \/ Holds(j)' = NULL
  BY Zenon, <1>0 DEF IdleWait
<1>2. UNCHANGED <<free, wait, dconn>>
  BY Zenon DEF IdleWait, poolVars, driverVars, callVars
<1> HIDE DEF Holds
<1> QED  BY Zenon, <1>1, <1>2, OwnFrame

LEMMA OwnIdleSignaled ==
    ASSUME PtrInv, ConnInOnePlace, NEW i \in Slots, IdleSignaled(i)
    PROVE  ConnInOnePlace'
<1> USE DEF Holds, Running, Goto
<1>0. pc \in [Slots -> ThreadPcs] /\ argConn \in [Slots -> Conns \union {NULL}]
      /\ cur \in [Slots -> Conns \union {NULL}]
  BY Zenon DEF PtrInv, TypeOK, ThreadTypeOK
<1>1. \A j \in Slots : Holds(j)' = Holds(j) \/ Holds(j)' = NULL
  BY Zenon, <1>0 DEF IdleSignaled, Awake
<1>2. UNCHANGED <<free, wait, dconn>>
  BY Zenon DEF IdleSignaled, Awake, poolVars, driverVars, callVars
<1> HIDE DEF Holds
<1> QED  BY Zenon, <1>1, <1>2, OwnFrame

LEMMA OwnLeaveIdle ==
    ASSUME PtrInv, ConnInOnePlace, NEW i \in Slots, LeaveIdle(i)
    PROVE  ConnInOnePlace'
<1> USE DEF Holds, Running, Goto
<1>0. pc \in [Slots -> ThreadPcs] /\ argConn \in [Slots -> Conns \union {NULL}]
      /\ cur \in [Slots -> Conns \union {NULL}]
  BY Zenon DEF PtrInv, TypeOK, ThreadTypeOK
<1>1. \A j \in Slots : Holds(j)' = Holds(j) \/ Holds(j)' = NULL
  BY Zenon, <1>0 DEF LeaveIdle
<1>2. UNCHANGED <<free, wait, dconn>>
  BY Zenon DEF LeaveIdle, poolVars, driverVars, callVars
<1> HIDE DEF Holds
<1> QED  BY Zenon, <1>1, <1>2, OwnFrame

LEMMA OwnIdleDone ==
    ASSUME PtrInv, ConnInOnePlace, NEW i \in Slots, IdleDone(i)
    PROVE  ConnInOnePlace'
<1> USE DEF Holds, Running, Goto
<1>0. pc \in [Slots -> ThreadPcs] /\ argConn \in [Slots -> Conns \union {NULL}]
      /\ cur \in [Slots -> Conns \union {NULL}]
  BY Zenon DEF PtrInv, TypeOK, ThreadTypeOK
<1>1. \A j \in Slots : Holds(j)' = Holds(j) \/ Holds(j)' = NULL
  BY Zenon, <1>0 DEF IdleDone
<1>2. UNCHANGED <<free, wait, dconn>>
  BY Zenon DEF IdleDone, poolVars, driverVars, callVars
<1> HIDE DEF Holds
<1> QED  BY Zenon, <1>1, <1>2, OwnFrame

LEMMA OwnConnRunStart ==
    ASSUME PtrInv, ConnInOnePlace, NEW i \in Slots, ConnRunStart(i)
    PROVE  ConnInOnePlace'
<1> USE DEF Holds, Running, Goto
<1>0. pc \in [Slots -> ThreadPcs] /\ argConn \in [Slots -> Conns \union {NULL}]
      /\ cur \in [Slots -> Conns \union {NULL}]
  BY Zenon DEF PtrInv, TypeOK, ThreadTypeOK
<1>1. \A j \in Slots : Holds(j)' = Holds(j) \/ Holds(j)' = NULL
  BY Zenon, <1>0 DEF ConnRunStart
<1>2. UNCHANGED <<free, wait, dconn>>
  BY Zenon DEF ConnRunStart, poolVars, driverVars, callVars
<1> HIDE DEF Holds
<1> QED  BY Zenon, <1>1, <1>2, OwnFrame

LEMMA OwnConnRunClose ==
    ASSUME PtrInv, ConnInOnePlace, NEW i \in Slots, ConnRunClose(i)
    PROVE  ConnInOnePlace'
<1> USE DEF Holds, Running, Goto
<1>0. pc \in [Slots -> ThreadPcs] /\ argConn \in [Slots -> Conns \union {NULL}]
      /\ cur \in [Slots -> Conns \union {NULL}]
  BY Zenon DEF PtrInv, TypeOK, ThreadTypeOK
<1>1. \A j \in Slots : Holds(j)' = Holds(j) \/ Holds(j)' = NULL
  BY Zenon, <1>0 DEF ConnRunClose
<1>2. UNCHANGED <<free, wait, dconn>>
  BY Zenon DEF ConnRunClose, poolVars, driverVars, callVars
<1> HIDE DEF Holds
<1> QED  BY Zenon, <1>1, <1>2, OwnFrame

LEMMA OwnFreeConn ==
    ASSUME PtrInv, ConnInOnePlace, NEW i \in Slots, FreeConn(i)
    PROVE  ConnInOnePlace'
<1> USE DEF Holds, Running, Goto
<1>0. pc \in [Slots -> ThreadPcs] /\ argConn \in [Slots -> Conns \union {NULL}]
      /\ cur \in [Slots -> Conns \union {NULL}]
  BY Zenon DEF PtrInv, TypeOK, ThreadTypeOK
<1>1. Holds(i) = cur[i] /\ Holds(i) # NULL
  BY Zenon DEF FreeConn, PtrInv, ThreadPointers
<1>2. Holds(i)' = NULL /\ \A j \in Slots : j # i => Holds(j)' = Holds(j)
  BY Zenon, <1>0 DEF FreeConn
<1>3. free' = free \union {Holds(i)} /\ wait' = wait /\ dconn' = dconn
  BY Zenon, <1>1 DEF FreeConn, driverVars, callVars
<1> HIDE DEF Holds
<1> QED  BY Zenon, <1>1, <1>2, <1>3, OwnFree

LEMMA OwnSnapshot ==
    ASSUME PtrInv, ConnInOnePlace, NEW i \in Slots, Snapshot(i)
    PROVE  ConnInOnePlace'
<1> USE DEF Holds, Running, Goto
<1>0. pc \in [Slots -> ThreadPcs] /\ argConn \in [Slots -> Conns \union {NULL}]
      /\ cur \in [Slots -> Conns \union {NULL}]
  BY Zenon DEF PtrInv, TypeOK, ThreadTypeOK
<1>1. \A j \in Slots : Holds(j)' = Holds(j) \/ Holds(j)' = NULL
  BY Zenon, <1>0 DEF Snapshot
<1>2. UNCHANGED <<free, wait, dconn>>
  BY Zenon DEF Snapshot, poolVars, driverVars, callVars
<1> HIDE DEF Holds
<1> QED  BY Zenon, <1>1, <1>2, OwnFrame

LEMMA OwnConnThreadDead ==
    ASSUME PtrInv, ConnInOnePlace, NEW i \in Slots, ConnThreadDead(i)
    PROVE  ConnInOnePlace'
<1> USE DEF Holds, Running, Goto
<1>0. pc \in [Slots -> ThreadPcs] /\ argConn \in [Slots -> Conns \union {NULL}]
      /\ cur \in [Slots -> Conns \union {NULL}]
  BY Zenon DEF PtrInv, TypeOK, ThreadTypeOK
<1>1. \A j \in Slots : Holds(j)' = Holds(j) \/ Holds(j)' = NULL
  BY Zenon, <1>0 DEF ConnThreadDead
<1>2. UNCHANGED <<free, wait, dconn>>
  BY Zenon DEF ConnThreadDead, poolVars, driverVars, callVars
<1> HIDE DEF Holds
<1> QED  BY Zenon, <1>1, <1>2, OwnFrame

LEMMA OwnConnThreadUncount ==
    ASSUME PtrInv, ConnInOnePlace, NEW i \in Slots, ConnThreadUncount(i)
    PROVE  ConnInOnePlace'
<1> USE DEF Holds, Running, Goto
<1>0. pc \in [Slots -> ThreadPcs] /\ argConn \in [Slots -> Conns \union {NULL}]
      /\ cur \in [Slots -> Conns \union {NULL}]
  BY Zenon DEF PtrInv, TypeOK, ThreadTypeOK
<1>1. \A j \in Slots : Holds(j)' = Holds(j) \/ Holds(j)' = NULL
  BY Zenon, <1>0 DEF ConnThreadUncount
<1>2. UNCHANGED <<free, wait, dconn>>
  BY Zenon DEF ConnThreadUncount, poolVars, driverVars, callVars
<1> HIDE DEF Holds
<1> QED  BY Zenon, <1>1, <1>2, OwnFrame

LEMMA OwnJoinPrevious ==
    ASSUME PtrInv, ConnInOnePlace, NEW i \in Slots, JoinPrevious(i)
    PROVE  ConnInOnePlace'
<1> USE DEF Holds, Running, Goto
<1>0. pc \in [Slots -> ThreadPcs] /\ argConn \in [Slots -> Conns \union {NULL}]
      /\ cur \in [Slots -> Conns \union {NULL}]
  BY Zenon DEF PtrInv, TypeOK, ThreadTypeOK
<1>1. \A j \in Slots : Holds(j)' = Holds(j) \/ Holds(j)' = NULL
  BY Zenon, <1>0 DEF JoinPrevious
<1>2. UNCHANGED <<free, wait, dconn>>
  BY Zenon DEF JoinPrevious, poolVars, driverVars, callVars
<1> HIDE DEF Holds
<1> QED  BY Zenon, <1>1, <1>2, OwnFrame

LEMMA OwnConnThreadExit ==
    ASSUME PtrInv, ConnInOnePlace, NEW i \in Slots, ConnThreadExit(i)
    PROVE  ConnInOnePlace'
<1> USE DEF Holds, Running, Goto
<1>0. pc \in [Slots -> ThreadPcs] /\ argConn \in [Slots -> Conns \union {NULL}]
      /\ cur \in [Slots -> Conns \union {NULL}]
  BY Zenon DEF PtrInv, TypeOK, ThreadTypeOK
<1>1. \A j \in Slots : Holds(j)' = Holds(j) \/ Holds(j)' = NULL
  BY Zenon, <1>0 DEF ConnThreadExit
<1>2. UNCHANGED <<free, wait, dconn>>
  BY Zenon DEF ConnThreadExit, poolVars, driverVars, callVars
<1> HIDE DEF Holds
<1> QED  BY Zenon, <1>1, <1>2, OwnFrame

LEMMA OwnIdleTimeout ==
    ASSUME PtrInv, ConnInOnePlace, NEW i \in Slots, IdleTimeout(i)
    PROVE  ConnInOnePlace'
<1> USE DEF Holds, Running, Goto
<1>0. pc \in [Slots -> ThreadPcs] /\ argConn \in [Slots -> Conns \union {NULL}]
      /\ cur \in [Slots -> Conns \union {NULL}]
  BY Zenon DEF PtrInv, TypeOK, ThreadTypeOK
<1>1. \A j \in Slots : Holds(j)' = Holds(j) \/ Holds(j)' = NULL
  BY Zenon, <1>0 DEF IdleTimeout
<1>2. UNCHANGED <<free, wait, dconn>>
  BY Zenon DEF IdleTimeout, poolVars, driverVars, callVars
<1> HIDE DEF Holds
<1> QED  BY Zenon, <1>1, <1>2, OwnFrame

LEMMA OwnIdleSpurious ==
    ASSUME PtrInv, ConnInOnePlace, NEW i \in Slots, IdleSpurious(i)
    PROVE  ConnInOnePlace'
<1> USE DEF Holds, Running, Goto
<1>0. pc \in [Slots -> ThreadPcs] /\ argConn \in [Slots -> Conns \union {NULL}]
      /\ cur \in [Slots -> Conns \union {NULL}]
  BY Zenon DEF PtrInv, TypeOK, ThreadTypeOK
<1>1. \A j \in Slots : Holds(j)' = Holds(j) \/ Holds(j)' = NULL
  BY Zenon, <1>0 DEF IdleSpurious, Awake
<1>2. UNCHANGED <<free, wait, dconn>>
  BY Zenon DEF IdleSpurious, Awake, poolVars, driverVars, callVars
<1> HIDE DEF Holds
<1> QED  BY Zenon, <1>1, <1>2, OwnFrame

(* Every step of a connection thread keeps each Conn in one place.         *)
LEMMA OwnThread ==
    ASSUME PtrInv, ConnInOnePlace, NEW i \in Slots,
           ThreadStep(i) \/ IdleTimeout(i) \/ IdleSpurious(i)
    PROVE  ConnInOnePlace'
BY Zenon, OwnConnThreadStart, OwnConnThreadReady, OwnLoopTop, OwnDequeueConn,
   OwnEnterIdle, OwnEnqueueThread, OwnIdleWait, OwnIdleSignaled, OwnLeaveIdle,
   OwnIdleDone, OwnConnRunStart, OwnConnRunClose, OwnFreeConn, OwnSnapshot,
   OwnConnThreadDead, OwnConnThreadUncount, OwnJoinPrevious, OwnConnThreadExit,
   OwnIdleTimeout, OwnIdleSpurious DEF ThreadStep

(* The same for each step of a caller.                                       *)
LEMMA OwnCreateConnThread ==
    ASSUME PtrInv, ConnInOnePlace, NEW d \in Callers, CreateConnThread(d)
    PROVE  ConnInOnePlace'
<1>0. pc \in [Slots -> ThreadPcs] /\ argConn \in [Slots -> Conns \union {NULL}]
      /\ cur \in [Slots -> Conns \union {NULL}]
  BY Zenon DEF PtrInv, TypeOK, ThreadTypeOK
<1>1. \A j \in Slots : Holds(j)' = Holds(j) \/ Holds(j)' = NULL
  <2>1. CASE UNCHANGED threadVars
    BY Zenon, <2>1 DEF threadVars, Holds, Running
  <2>2. CASE \E i \in Slots : /\ pc' = [pc EXCEPT ![i] = "start"]
                              /\ argConn' = [argConn EXCEPT ![i] = NULL]
                              /\ cur' = cur
    BY Zenon, <1>0, <2>2 DEF Holds, Running
  <2> QED  BY Zenon, <2>1, <2>2 DEF CreateConnThread
<1>2. UNCHANGED <<free, wait, dconn>>
  BY Zenon DEF CreateConnThread, poolVars, callVars
<1> QED  BY Zenon, <1>1, <1>2, OwnFrame

LEMMA OwnConnGetFree ==
    ASSUME PtrInv, ConnInOnePlace, NEW d \in Callers,
           NEW new \in BOOLEAN, QueueConnGetFree(d, new)
    PROVE  ConnInOnePlace'
<1>1. \A j \in Slots : Holds(j)' = Holds(j)
  BY Zenon DEF QueueConnGetFree, QueueFull, threadVars, Holds, Running
<1>2. CASE shutdown \/ free = {}
  <2>1. UNCHANGED <<free, wait, dconn>>  BY Zenon, <1>2 DEF QueueConnGetFree, QueueFull
  <2> QED  BY Zenon, <1>1, <2>1, OwnFrame
<1>3. CASE ~(shutdown \/ free = {})
  <2>1. PICK c \in free : free' = free \ {c} /\ dconn' = [dconn EXCEPT ![d] = c]
    BY Zenon, <1>3 DEF QueueConnGetFree, QueueFull
  <2>2. wait' = wait  BY Zenon DEF QueueConnGetFree, QueueFull
  <2> QED  BY <1>1, <2>1, <2>2, OwnGetFree, Zenon
<1> QED  BY Zenon, <1>2, <1>3

LEMMA OwnQueueWaiting ==
    ASSUME PtrInv, ConnInOnePlace, NEW d \in Callers, QueueWaiting(d)
    PROVE  ConnInOnePlace'
BY OwnConnGetFree, Zenon DEF QueueWaiting

LEMMA OwnQueueNew ==
    ASSUME PtrInv, ConnInOnePlace, NEW d \in Callers, QueueNew(d)
    PROVE  ConnInOnePlace'
BY OwnConnGetFree, Zenon DEF QueueNew

LEMMA OwnAssignConn ==
    ASSUME PtrInv, ConnInOnePlace, NEW d \in Callers, AssignConn(d)
    PROVE  ConnInOnePlace'
<1>0. pc \in [Slots -> ThreadPcs] /\ argConn \in [Slots -> Conns \union {NULL}]
      /\ cur \in [Slots -> Conns \union {NULL}]
  BY Zenon DEF PtrInv, TypeOK, ThreadTypeOK
<1>1. darg[d] \in Slots /\ dconn[d] # NULL
  BY Zenon DEF AssignConn, PtrInv, CallerPointers
<1>2. /\ Holds(darg[d])' = Holds(darg[d]) \/ Holds(darg[d])' = dconn[d]
      /\ \A j \in Slots : j # darg[d] => Holds(j)' = Holds(j)
  BY Zenon, <1>0, <1>1 DEF AssignConn, Holds, Running
<1>3. UNCHANGED <<free, wait>> /\ dconn' = [dconn EXCEPT ![d] = NULL]
  BY Zenon DEF AssignConn, poolVars
<1>4. UNCHANGED darg  BY Zenon DEF AssignConn
<1> QED  BY <1>1, <1>2, <1>3, <1>4, OwnAssign, ZenonT(30)

LEMMA OwnAppendWaiting ==
    ASSUME PtrInv, ConnInOnePlace, NEW d \in Callers, AppendWaiting(d)
    PROVE  ConnInOnePlace'
<1>1. dconn[d] \in Conns
  BY Zenon DEF AppendWaiting, PtrInv, TypeOK, CallTypeOK, CallerPointers
<1>2. \A j \in Slots : Holds(j)' = Holds(j)
  BY Zenon DEF AppendWaiting, threadVars, Holds, Running
<1>3. /\ free' = free /\ wait' = Append(wait, dconn[d])
      /\ dconn' = [dconn EXCEPT ![d] = NULL]
  BY Zenon DEF AppendWaiting
<1> QED  BY <1>1, <1>2, <1>3, OwnAppend, ZenonT(30)

LEMMA OwnSignalThread ==
    ASSUME PtrInv, ConnInOnePlace, NEW d \in Callers, SignalThread(d)
    PROVE  ConnInOnePlace'
<1>0. pc \in [Slots -> ThreadPcs] /\ argConn \in [Slots -> Conns \union {NULL}]
      /\ cur \in [Slots -> Conns \union {NULL}]
  BY Zenon DEF PtrInv, TypeOK, ThreadTypeOK
<1>1. \A j \in Slots : Holds(j)' = Holds(j)
  BY Zenon, <1>0 DEF SignalThread, Holds, Running
<1>2. UNCHANGED <<free, wait, dconn>>  BY Zenon DEF SignalThread, poolVars
<1> QED  BY Zenon, <1>1, <1>2, OwnFrame

LEMMA OwnOtherCall ==
    ASSUME PtrInv, ConnInOnePlace, NEW d \in Callers,
           \/ CreateFailed(d) \/ PopIdleThread(d) \/ DecideCreate(d) \/ CountCreate(d) \/ StartRetry(d)
    PROVE  ConnInOnePlace'
<1>1. UNCHANGED <<free, wait, dconn, pc, argConn, cur>>
  BY Zenon DEF CreateFailed, PopIdleThread, DecideCreate, CountCreate, StartRetry,
              poolVars, callVars, threadVars
<1>2. \A j \in Slots : Holds(j)' = Holds(j)  BY Zenon, <1>1 DEF Holds, Running
<1> QED  BY <1>1, <1>2, OwnFrame, SMTT(30)

(* Every step of a caller keeps each Conn in one place.                    *)
LEMMA OwnCaller ==
    ASSUME PtrInv, ConnInOnePlace, NEW d \in Callers,
           CallStep(d) \/ StartRetry(d) \/ QueueNew(d)
    PROVE  ConnInOnePlace'
BY Zenon, OwnCreateConnThread, OwnQueueWaiting, OwnQueueNew, OwnAssignConn,
   OwnAppendWaiting, OwnSignalThread, OwnOtherCall DEF CallStep

LEMMA OwnStep == PtrInv /\ ConnInOnePlace /\ [Next]_vars => ConnInOnePlace'
<1> SUFFICES ASSUME PtrInv, ConnInOnePlace, [Next]_vars PROVE ConnInOnePlace'
  BY Zenon
<1>1. ASSUME UNCHANGED <<free, wait, dconn, pc, argConn, cur>> PROVE ConnInOnePlace'
  <2>1. \A j \in Slots : Holds(j)' = Holds(j)  BY Zenon, <1>1 DEF Holds, Running
  <2> QED  BY Zenon, <1>1, <2>1, OwnFrame
<1>2. CASE UNCHANGED vars
  BY <1>1, <1>2, SMTT(30) DEF vars, poolVars, threadVars, driverVars, callVars
<1>3. ASSUME NEW d \in Drivers, DriverTriggered(d) \/ PollTimeout(d) \/ DriverCollect(d)
      PROVE  ConnInOnePlace'
  BY Zenon, <1>1, <1>3 DEF DriverTriggered, PollTimeout, DriverCollect, poolVars, threadVars,
                    callVars
<1>4. CASE WakeupConnThreads
  <2>1. \A j \in Slots : Holds(j)' = Holds(j)
    BY Zenon, <1>4 DEF WakeupConnThreads, Holds, Running, PtrInv, TypeOK, ThreadTypeOK
  <2>2. UNCHANGED <<free, wait, dconn>>
    BY <1>4, SMTT(30) DEF WakeupConnThreads, poolVars, driverVars, callVars
  <2> QED  BY Zenon, <2>1, <2>2, OwnFrame
<1>5. CASE \/ NsStopServer \/ WakeupStart \/ WaitServerCheck \/ WaitServerWait
           \/ WaitServerJoin \/ NsStopDrivers \/ WaitServerTimeout
  BY <1>1, <1>5, SMTT(30) DEF NsStopServer, WakeupStart, WaitServerCheck, WaitServerWait,
       WaitServerJoin, NsStopDrivers, WaitServerTimeout, poolVars, threadVars,
       driverVars, callVars
<1>6. ASSUME NEW a \in Admins, AdminParse(a) \/ SetPoolAttribute(a)
      PROVE  ConnInOnePlace'
  BY <1>1, <1>6, Zenon DEF AdminParse, SetPoolAttribute, poolVars, threadVars, driverVars,
                    callVars
<1> QED
  BY Zenon, <1>2, <1>3, <1>4, <1>5, <1>6, OwnThread, OwnCaller DEF Next, MainStep

(* A Conn is never in two places, whatever races the lock-free assignment  *)
(* of argPtr->connPtr in NsQueueConn loses: two requests never share a     *)
(* Conn, and no Conn is freed while another thread can reach it.           *)
THEOREM ConnOwnership == Spec => []ConnInOnePlace
BY OwnInit, OwnStep, PtrInvariant, PTL DEF Spec

-----------------------------------------------------------------------------
(* minthreads = maxthreads, and the limits are not changed at run time.    *)
(* With one driver thread, or without connsperthread, there are never more *)
(* threads than minthreads, so that no idle thread leaves.                 *)
FixedPool ==
    /\ Admins = {} /\ CanStop = FALSE /\ MinThreads = MaxThreads
    /\ Cardinality(Callers) = 1 \/ ConnsPerThread = 0

NoSurplus == current <= tmin

(* Without connsperthread no thread leaves and none is created.            *)
Static ==
    /\ current = MinThreads
    /\ \A i \in Slots : pc[i] \notin {"snapshot", "exit"} \union DeadPcs
    /\ \A d \in Callers : dcreate[d] = FALSE /\ dpc[d] \notin {"incr", "slot", "nocreate"}

(* Nothing stops the server or changes a limit.                            *)
Undisturbed ==
    /\ shutdown = FALSE /\ mpc = "run" /\ tmin = MinThreads /\ tmax = MaxThreads
    /\ \A i \in Slots : timedout[i] = FALSE

WaitPcs == {"idlecheck", "waiting", "signaled"}
OwnerPcs == {"idlecheck", "waiting", "signaled", "leave", "unidle", "run", "running", "freeing"}

(* Where a thread may have a Conn, and which threads callers may give one. *)
ConnPlaces == \A i \in Slots : pc[i] \notin OwnerPcs => argConn[i] = NULL

QueueIdle == \A i \in tqueue : pc[i] \in WaitPcs /\ argConn[i] = NULL

AssignIdle ==
    \A d \in Callers : dpc[d] = "assign" =>
        /\ pc[darg[d]] \in WaitPcs /\ argConn[darg[d]] = NULL /\ darg[d] \notin tqueue
        /\ \A e \in Callers : dpc[e] = "assign" /\ darg[e] = darg[d] => e = d

Handover == ConnPlaces /\ QueueIdle /\ AssignIdle

FixedInv == PtrInv /\ Undisturbed /\ Handover

-----------------------------------------------------------------------------
(* What the invariant says about the properties.                           *)
LEMMA FixedAsserts ==
    FixedInv => AssignsToIdle /\ LoopAssertions /\ ThreadQueueIdle
<1> SUFFICES ASSUME FixedInv PROVE AssignsToIdle /\ LoopAssertions /\ ThreadQueueIdle
  BY Zenon
<1>1. \A i \in Slots : pc[i] \in WaitPcs => state(i) = "idle"
  BY Zenon DEF state, WaitPcs, IdlePcs, ReadyPcs, BusyPcs
<1>2. \A d \in Callers : dpc[d] = "assign" => darg[d] \in Slots
  BY Zenon DEF FixedInv, PtrInv, CallerPointers
<1>3. tqueue \subseteq Slots  BY Zenon DEF FixedInv, PtrInv, TypeOK, PoolTypeOK
<1>4. AssignsToIdle
  BY Zenon, <1>1, <1>2 DEF FixedInv, Handover, AssignIdle, AssignsToIdle
<1>5. LoopAssertions
  BY Zenon DEF FixedInv, Handover, ConnPlaces, OwnerPcs, PtrInv, ThreadPointers, LoopAssertions
<1>6. ThreadQueueIdle
  BY Zenon, <1>1, <1>3 DEF FixedInv, Handover, QueueIdle, AssignIdle, ThreadQueueIdle
<1> QED  BY Zenon, <1>4, <1>5, <1>6

LEMMA FixedInit == FixedPool /\ Init => Undisturbed /\ Handover
<1> SUFFICES ASSUME FixedPool, Init PROVE Undisturbed /\ Handover
  BY Zenon
<1>1. Undisturbed  BY Zenon DEF Init, Undisturbed
<1>2. Handover
  BY Zenon DEF Init, Handover, ConnPlaces, QueueIdle, AssignIdle
<1> QED  BY Zenon, <1>1, <1>2

-----------------------------------------------------------------------------
(* A thread moves from one control state to another, keeps its Conn, and   *)
(* does not leave those who wait unless it has one.                        *)
LEMMA HandoverMove ==
    ASSUME PtrInv, Handover, NEW i \in Slots, NEW v, Goto(i, v),
           UNCHANGED <<argConn, tqueue, dpc, darg>>,
           v \notin OwnerPcs => argConn[i] = NULL,
           pc[i] \in WaitPcs => v \in WaitPcs \/ argConn[i] # NULL
    PROVE  Handover'
<1>1. pc'[i] = v /\ \A j \in Slots : j # i => pc'[j] = pc[j]
  BY Zenon DEF Goto, PtrInv, TypeOK, ThreadTypeOK
<1>2. tqueue \subseteq Slots  BY Zenon DEF PtrInv, TypeOK, PoolTypeOK
<1>3. \A d \in Callers : dpc[d] = "assign" => darg[d] \in Slots
  BY Zenon DEF PtrInv, CallerPointers
<1>4. ConnPlaces'  BY Zenon, <1>1 DEF Handover, ConnPlaces
<1>5. QueueIdle'  BY Zenon, <1>1, <1>2 DEF Handover, QueueIdle
<1>6. AssignIdle'  BY Zenon, <1>1, <1>3 DEF Handover, AssignIdle
<1> QED  BY Zenon, <1>4, <1>5, <1>6 DEF Handover

(* A caller moves on, and not to the assignment.                           *)
LEMMA HandoverCall ==
    ASSUME PtrInv, Handover, NEW d \in Callers, NEW v,
           dpc' = [dpc EXCEPT ![d] = v], v # "assign",
           UNCHANGED <<pc, argConn, tqueue, darg>>
    PROVE  Handover'
<1>1. dpc'[d] = v /\ \A e \in Callers : e # d => dpc'[e] = dpc[e]
  BY Zenon DEF PtrInv, TypeOK, CallTypeOK
<1> QED  BY <1>1 DEF Handover, ConnPlaces, QueueIdle, AssignIdle

LEMMA HandoverFrame ==
    Handover /\ UNCHANGED <<pc, argConn, tqueue, dpc, darg>> => Handover'
BY Zenon DEF Handover, ConnPlaces, QueueIdle, AssignIdle

-----------------------------------------------------------------------------
(* The steps of a connection thread.                                       *)

LEMMA HandoverConnThreadStart ==
    ASSUME FixedInv, NEW i \in Slots, ConnThreadStart(i)
    PROVE  Handover'
<1> USE DEF FixedInv, OwnerPcs, WaitPcs
<1>1. argConn' = argConn /\ tqueue' = tqueue /\ dpc' = dpc /\ darg' = darg
  BY Zenon DEF ConnThreadStart, poolVars, threadVars, driverVars, callVars
<1> DEFINE v == "warm"
<1>2. Goto(i, v)  BY Zenon DEF ConnThreadStart
<1>3. v \notin OwnerPcs => argConn[i] = NULL
  BY Zenon DEF ConnThreadStart, Handover, ConnPlaces
<1>4. pc[i] \in WaitPcs => v \in WaitPcs \/ argConn[i] # NULL
  BY Zenon DEF ConnThreadStart
<1> HIDE DEF v
<1> QED  BY <1>1, <1>2, <1>3, <1>4, HandoverMove, Zenon

LEMMA HandoverConnThreadReady ==
    ASSUME FixedInv, NEW i \in Slots, ConnThreadReady(i)
    PROVE  Handover'
<1> USE DEF FixedInv, OwnerPcs, WaitPcs
<1>1. argConn' = argConn /\ tqueue' = tqueue /\ dpc' = dpc /\ darg' = darg
  BY Zenon DEF ConnThreadReady, poolVars, threadVars, driverVars, callVars
<1> DEFINE v == "ready"
<1>2. Goto(i, v)  BY Zenon DEF ConnThreadReady
<1>3. v \notin OwnerPcs => argConn[i] = NULL
  BY Zenon DEF ConnThreadReady, Handover, ConnPlaces
<1>4. pc[i] \in WaitPcs => v \in WaitPcs \/ argConn[i] # NULL
  BY Zenon DEF ConnThreadReady
<1> HIDE DEF v
<1> QED  BY <1>1, <1>2, <1>3, <1>4, HandoverMove, Zenon

LEMMA HandoverLoopTop ==
    ASSUME FixedInv, NEW i \in Slots, LoopTop(i)
    PROVE  Handover'
<1> USE DEF FixedInv, OwnerPcs, WaitPcs
<1>1. argConn' = argConn /\ tqueue' = tqueue /\ dpc' = dpc /\ darg' = darg
  BY Zenon DEF LoopTop, poolVars, threadVars, driverVars, callVars
<1> DEFINE v == CASE wait # <<>> -> "dequeue" [] argConn[i] = NULL -> "toidle" [] OTHER -> "run"
<1>2. Goto(i, v)  BY Zenon DEF LoopTop
<1>3. v \notin OwnerPcs => argConn[i] = NULL
  BY Zenon DEF LoopTop, Handover, ConnPlaces
<1>4. pc[i] \in WaitPcs => v \in WaitPcs \/ argConn[i] # NULL
  BY Zenon DEF LoopTop
<1> HIDE DEF v
<1> QED  BY <1>1, <1>2, <1>3, <1>4, HandoverMove, Zenon

LEMMA HandoverEnterIdle ==
    ASSUME FixedInv, NEW i \in Slots, EnterIdle(i)
    PROVE  Handover'
<1> USE DEF FixedInv, OwnerPcs, WaitPcs
<1>1. argConn' = argConn /\ tqueue' = tqueue /\ dpc' = dpc /\ darg' = darg
  BY Zenon DEF EnterIdle, poolVars, threadVars, driverVars, callVars
<1> DEFINE v == "enqueue"
<1>2. Goto(i, v)  BY Zenon DEF EnterIdle
<1>3. v \notin OwnerPcs => argConn[i] = NULL
  BY Zenon DEF EnterIdle, Handover, ConnPlaces
<1>4. pc[i] \in WaitPcs => v \in WaitPcs \/ argConn[i] # NULL
  BY Zenon DEF EnterIdle
<1> HIDE DEF v
<1> QED  BY <1>1, <1>2, <1>3, <1>4, HandoverMove, Zenon

LEMMA HandoverIdleWait ==
    ASSUME FixedInv, NEW i \in Slots, IdleWait(i)
    PROVE  Handover'
<1> USE DEF FixedInv, OwnerPcs, WaitPcs
<1>1. argConn' = argConn /\ tqueue' = tqueue /\ dpc' = dpc /\ darg' = darg
  BY Zenon DEF IdleWait, poolVars, threadVars, driverVars, callVars
<1> DEFINE v == "waiting"
<1>2. Goto(i, v)  BY Zenon DEF IdleWait, Undisturbed
<1>3. v \notin OwnerPcs => argConn[i] = NULL
  BY Zenon DEF IdleWait, Handover, ConnPlaces
<1>4. pc[i] \in WaitPcs => v \in WaitPcs \/ argConn[i] # NULL
  BY Zenon DEF IdleWait, Undisturbed
<1> HIDE DEF v
<1> QED  BY <1>1, <1>2, <1>3, <1>4, HandoverMove, Zenon

LEMMA HandoverIdleSignaled ==
    ASSUME FixedInv, NEW i \in Slots, IdleSignaled(i)
    PROVE  Handover'
<1> USE DEF FixedInv, OwnerPcs, WaitPcs
<1>1. argConn' = argConn /\ tqueue' = tqueue /\ dpc' = dpc /\ darg' = darg
  BY Zenon DEF IdleSignaled, Awake, poolVars, threadVars, driverVars, callVars
<1> DEFINE v == IF argConn[i] # NULL THEN "leave" ELSE "idlecheck"
<1>2. Goto(i, v)  BY Zenon DEF IdleSignaled, Awake
<1>3. v \notin OwnerPcs => argConn[i] = NULL
  BY Zenon DEF IdleSignaled, Awake, Handover, ConnPlaces
<1>4. pc[i] \in WaitPcs => v \in WaitPcs \/ argConn[i] # NULL
  BY Zenon DEF IdleSignaled, Awake
<1> HIDE DEF v
<1> QED  BY <1>1, <1>2, <1>3, <1>4, HandoverMove, Zenon

LEMMA HandoverIdleSpurious ==
    ASSUME FixedInv, NEW i \in Slots, IdleSpurious(i)
    PROVE  Handover'
<1> USE DEF FixedInv, OwnerPcs, WaitPcs
<1>1. argConn' = argConn /\ tqueue' = tqueue /\ dpc' = dpc /\ darg' = darg
  BY Zenon DEF IdleSpurious, Awake, poolVars, threadVars, driverVars, callVars
<1> DEFINE v == IF argConn[i] # NULL THEN "leave" ELSE "idlecheck"
<1>2. Goto(i, v)  BY Zenon DEF IdleSpurious, Awake
<1>3. v \notin OwnerPcs => argConn[i] = NULL
  BY Zenon DEF IdleSpurious, Awake, Handover, ConnPlaces
<1>4. pc[i] \in WaitPcs => v \in WaitPcs \/ argConn[i] # NULL
  BY Zenon DEF IdleSpurious, Awake
<1> HIDE DEF v
<1> QED  BY <1>1, <1>2, <1>3, <1>4, HandoverMove, Zenon

LEMMA HandoverIdleDone ==
    ASSUME FixedInv, NEW i \in Slots, IdleDone(i)
    PROVE  Handover'
<1> USE DEF FixedInv, OwnerPcs, WaitPcs
<1>1. argConn' = argConn /\ tqueue' = tqueue /\ dpc' = dpc /\ darg' = darg
  BY Zenon DEF IdleDone, poolVars, threadVars, driverVars, callVars
<1> DEFINE v == "run"
<1>2. Goto(i, v)  BY Zenon DEF IdleDone, Undisturbed
<1>3. v \notin OwnerPcs => argConn[i] = NULL
  BY Zenon DEF IdleDone, Handover, ConnPlaces
<1>4. pc[i] \in WaitPcs => v \in WaitPcs \/ argConn[i] # NULL
  BY Zenon DEF IdleDone, Undisturbed
<1> HIDE DEF v
<1> QED  BY <1>1, <1>2, <1>3, <1>4, HandoverMove, Zenon

LEMMA HandoverConnRunStart ==
    ASSUME FixedInv, NEW i \in Slots, ConnRunStart(i)
    PROVE  Handover'
<1> USE DEF FixedInv, OwnerPcs, WaitPcs
<1>1. argConn' = argConn /\ tqueue' = tqueue /\ dpc' = dpc /\ darg' = darg
  BY Zenon DEF ConnRunStart, poolVars, threadVars, driverVars, callVars
<1> DEFINE v == "running"
<1>2. Goto(i, v)  BY Zenon DEF ConnRunStart
<1>3. v \notin OwnerPcs => argConn[i] = NULL
  BY Zenon DEF ConnRunStart, Handover, ConnPlaces
<1>4. pc[i] \in WaitPcs => v \in WaitPcs \/ argConn[i] # NULL
  BY Zenon DEF ConnRunStart
<1> HIDE DEF v
<1> QED  BY <1>1, <1>2, <1>3, <1>4, HandoverMove, Zenon

LEMMA HandoverConnRunClose ==
    ASSUME FixedInv, NEW i \in Slots, ConnRunClose(i)
    PROVE  Handover'
<1> USE DEF FixedInv, OwnerPcs, WaitPcs
<1>1. argConn' = argConn /\ tqueue' = tqueue /\ dpc' = dpc /\ darg' = darg
  BY Zenon DEF ConnRunClose, poolVars, threadVars, driverVars, callVars
<1> DEFINE v == "freeing"
<1>2. Goto(i, v)  BY ZenonT(30) DEF ConnRunClose
<1>3. v \notin OwnerPcs => argConn[i] = NULL
  BY Zenon DEF ConnRunClose, Handover, ConnPlaces
<1>4. pc[i] \in WaitPcs => v \in WaitPcs \/ argConn[i] # NULL
  BY Zenon DEF ConnRunClose
<1> HIDE DEF v
<1> QED  BY <1>1, <1>2, <1>3, <1>4, HandoverMove, Zenon

LEMMA HandoverSnapshot ==
    ASSUME FixedInv, NEW i \in Slots, Snapshot(i)
    PROVE  Handover'
<1> USE DEF FixedInv, OwnerPcs, WaitPcs
<1>1. argConn' = argConn /\ tqueue' = tqueue /\ dpc' = dpc /\ darg' = darg
  BY Zenon DEF Snapshot, poolVars, driverVars, callVars
<1>2. PICK v \in {"ready", "exit"} : Goto(i, v)  BY Zenon DEF Snapshot
<1>3. argConn[i] = NULL  BY Zenon DEF Snapshot, Handover, ConnPlaces
<1>4. pc[i] \notin WaitPcs  BY Zenon DEF Snapshot
<1> QED  BY <1>1, <1>2, <1>3, <1>4, HandoverMove, Zenon

LEMMA HandoverConnThreadDead ==
    ASSUME FixedInv, NEW i \in Slots, ConnThreadDead(i)
    PROVE  Handover'
<1> USE DEF FixedInv, OwnerPcs, WaitPcs
<1>1. argConn' = argConn /\ tqueue' = tqueue /\ dpc' = dpc /\ darg' = darg
  BY Zenon DEF ConnThreadDead, poolVars, threadVars, driverVars, callVars
<1> DEFINE v == "dead"
<1>2. Goto(i, v)  BY Zenon DEF ConnThreadDead
<1>3. v \notin OwnerPcs => argConn[i] = NULL
  BY Zenon DEF ConnThreadDead, Handover, ConnPlaces
<1>4. pc[i] \in WaitPcs => v \in WaitPcs \/ argConn[i] # NULL
  BY Zenon DEF ConnThreadDead
<1> HIDE DEF v
<1> QED  BY <1>1, <1>2, <1>3, <1>4, HandoverMove, Zenon

LEMMA HandoverConnThreadUncount ==
    ASSUME FixedInv, NEW i \in Slots, ConnThreadUncount(i)
    PROVE  Handover'
<1> USE DEF FixedInv, OwnerPcs, WaitPcs
<1>1. argConn' = argConn /\ tqueue' = tqueue /\ dpc' = dpc /\ darg' = darg
  BY Zenon DEF ConnThreadUncount, poolVars, threadVars, driverVars, callVars
<1> DEFINE v == "unjoined"
<1>2. Goto(i, v)  BY Zenon DEF ConnThreadUncount
<1>3. v \notin OwnerPcs => argConn[i] = NULL
  BY Zenon DEF ConnThreadUncount, Handover, ConnPlaces
<1>4. pc[i] \in WaitPcs => v \in WaitPcs \/ argConn[i] # NULL
  BY Zenon DEF ConnThreadUncount
<1> HIDE DEF v
<1> QED  BY <1>1, <1>2, <1>3, <1>4, HandoverMove, Zenon

LEMMA HandoverJoinPrevious ==
    ASSUME FixedInv, NEW i \in Slots, JoinPrevious(i)
    PROVE  Handover'
<1> USE DEF FixedInv, OwnerPcs, WaitPcs
<1>1. argConn' = argConn /\ tqueue' = tqueue /\ dpc' = dpc /\ darg' = darg
  BY Zenon DEF JoinPrevious, poolVars, threadVars, driverVars, callVars
<1> DEFINE v == "join"
<1>2. Goto(i, v)  BY Zenon DEF JoinPrevious
<1>3. v \notin OwnerPcs => argConn[i] = NULL
  BY Zenon DEF JoinPrevious, Handover, ConnPlaces
<1>4. pc[i] \in WaitPcs => v \in WaitPcs \/ argConn[i] # NULL
  BY Zenon DEF JoinPrevious
<1> HIDE DEF v
<1> QED  BY <1>1, <1>2, <1>3, <1>4, HandoverMove, Zenon

LEMMA HandoverConnThreadExit ==
    ASSUME FixedInv, NEW i \in Slots, ConnThreadExit(i)
    PROVE  Handover'
<1> USE DEF FixedInv, OwnerPcs, WaitPcs
<1>1. argConn' = argConn /\ tqueue' = tqueue /\ dpc' = dpc /\ darg' = darg
  BY Zenon DEF ConnThreadExit, poolVars, threadVars, driverVars, callVars
<1> DEFINE v == "none"
<1>2. Goto(i, v)  BY Zenon DEF ConnThreadExit
<1>3. v \notin OwnerPcs => argConn[i] = NULL
  BY Zenon DEF ConnThreadExit, Handover, ConnPlaces
<1>4. pc[i] \in WaitPcs => v \in WaitPcs \/ argConn[i] # NULL
  BY Zenon DEF ConnThreadExit
<1> HIDE DEF v
<1> QED  BY <1>1, <1>2, <1>3, <1>4, HandoverMove, Zenon

(* An idle thread has a Conn when its wait times out, or it goes on: there *)
(* are not more threads than minthreads.                                   *)
LEMMA HandoverIdleTimeout ==
    ASSUME FixedInv, NoSurplus, NEW i \in Slots, IdleTimeout(i)
    PROVE  Handover'
<1> USE DEF FixedInv, OwnerPcs, WaitPcs
<1>1. argConn' = argConn /\ tqueue' = tqueue /\ dpc' = dpc /\ darg' = darg
  BY Zenon DEF IdleTimeout, poolVars, driverVars, callVars
<1> DEFINE v == IF argConn[i] = NULL THEN "idlecheck" ELSE "leave"
<1>2. Goto(i, v)  BY Zenon DEF IdleTimeout, NoSurplus
<1>3. v \in OwnerPcs /\ (v \in WaitPcs \/ argConn[i] # NULL)  BY Zenon
<1> HIDE DEF v
<1> QED  BY <1>1, <1>2, <1>3, HandoverMove, Zenon

(* A thread that looks at the waiting queue is on no other queue.          *)
LEMMA HandoverDequeueConn ==
    ASSUME FixedInv, NEW i \in Slots, DequeueConn(i)
    PROVE  Handover'
<1> USE DEF FixedInv, OwnerPcs, WaitPcs
<1>1. /\ pc[i] = "dequeue" /\ tqueue' = tqueue /\ dpc' = dpc /\ darg' = darg
      /\ \A j \in Slots : j # i => pc'[j] = pc[j] /\ argConn'[j] = argConn[j]
      /\ pc'[i] = "run" \/ (pc'[i] = "toidle" /\ argConn'[i] = NULL)
  BY Zenon DEF DequeueConn, Goto, PtrInv, TypeOK, ThreadTypeOK, driverVars, callVars
<1>2. tqueue \subseteq Slots  BY Zenon DEF PtrInv, TypeOK, PoolTypeOK
<1>3. \A d \in Callers : dpc[d] = "assign" => darg[d] \in Slots
  BY Zenon DEF PtrInv, CallerPointers
<1>4. ConnPlaces'  BY ZenonT(30), <1>1 DEF Handover, ConnPlaces
<1>5. QueueIdle'  BY Zenon, <1>1, <1>2 DEF Handover, QueueIdle
<1>6. AssignIdle'  BY Zenon, <1>1, <1>3 DEF Handover, AssignIdle
<1> QED  BY Zenon, <1>4, <1>5, <1>6 DEF Handover

LEMMA HandoverEnqueueThread ==
    ASSUME FixedInv, NEW i \in Slots, EnqueueThread(i)
    PROVE  Handover'
<1> USE DEF FixedInv, OwnerPcs, WaitPcs
<1>1. /\ pc[i] = "enqueue" /\ tqueue' = tqueue \union {i}
      /\ argConn' = argConn /\ dpc' = dpc /\ darg' = darg
      /\ pc'[i] = "idlecheck" /\ \A j \in Slots : j # i => pc'[j] = pc[j]
  BY Zenon DEF EnqueueThread, Goto, PtrInv, TypeOK, ThreadTypeOK, driverVars, callVars
<1>2. tqueue \subseteq Slots  BY Zenon DEF PtrInv, TypeOK, PoolTypeOK
<1>3. \A d \in Callers : dpc[d] = "assign" => darg[d] \in Slots
  BY Zenon DEF PtrInv, CallerPointers
<1>4. ConnPlaces'  BY Zenon, <1>1 DEF Handover, ConnPlaces
<1>5. QueueIdle'  BY Zenon, <1>1, <1>2 DEF Handover, QueueIdle, ConnPlaces
<1>6. AssignIdle'  BY Zenon, <1>1, <1>3 DEF Handover, AssignIdle
<1> QED  BY Zenon, <1>4, <1>5, <1>6 DEF Handover

(* A thread that leaves has a Conn, so a caller has taken it off already.  *)
LEMMA HandoverLeaveIdle ==
    ASSUME FixedInv, NEW i \in Slots, LeaveIdle(i)
    PROVE  Handover'
<1> USE DEF FixedInv, OwnerPcs, WaitPcs
<1>1. /\ pc[i] = "leave" /\ tqueue' = tqueue \ {i}
      /\ argConn' = argConn /\ dpc' = dpc /\ darg' = darg
      /\ pc'[i] = "unidle" /\ \A j \in Slots : j # i => pc'[j] = pc[j]
  BY Zenon DEF LeaveIdle, Goto, PtrInv, TypeOK, ThreadTypeOK, driverVars, callVars
<1>2. tqueue \subseteq Slots  BY Zenon DEF PtrInv, TypeOK, PoolTypeOK
<1>3. \A d \in Callers : dpc[d] = "assign" => darg[d] \in Slots
  BY Zenon DEF PtrInv, CallerPointers
<1>4. ConnPlaces'  BY Zenon, <1>1 DEF Handover, ConnPlaces
<1>5. QueueIdle'  BY Zenon, <1>1, <1>2 DEF Handover, QueueIdle
<1>6. AssignIdle'  BY Zenon, <1>1, <1>3 DEF Handover, AssignIdle
<1> QED  BY Zenon, <1>4, <1>5, <1>6 DEF Handover

LEMMA HandoverFreeConn ==
    ASSUME FixedInv, NEW i \in Slots, FreeConn(i)
    PROVE  Handover'
<1> USE DEF FixedInv, OwnerPcs, WaitPcs
<1>1. /\ pc[i] = "freeing" /\ tqueue' = tqueue /\ dpc' = dpc /\ darg' = darg
      /\ argConn'[i] = NULL /\ pc'[i] \in {"snapshot", "ready"}
      /\ \A j \in Slots : j # i => pc'[j] = pc[j] /\ argConn'[j] = argConn[j]
  BY Zenon DEF FreeConn, Goto, PtrInv, TypeOK, ThreadTypeOK, driverVars, callVars
<1>2. tqueue \subseteq Slots  BY Zenon DEF PtrInv, TypeOK, PoolTypeOK
<1>3. \A d \in Callers : dpc[d] = "assign" => darg[d] \in Slots
  BY Zenon DEF PtrInv, CallerPointers
<1>4. ConnPlaces'  BY ZenonT(30), <1>1 DEF Handover, ConnPlaces
<1>5. QueueIdle'  BY Zenon, <1>1, <1>2 DEF Handover, QueueIdle
<1>6. AssignIdle'  BY ZenonT(30), <1>1, <1>3 DEF Handover, AssignIdle
<1> QED  BY Zenon, <1>4, <1>5, <1>6 DEF Handover

(* Every step of a connection thread.                                      *)
LEMMA HandoverThread ==
    ASSUME FixedInv, NoSurplus, NEW i \in Slots,
           ThreadStep(i) \/ IdleTimeout(i) \/ IdleSpurious(i)
    PROVE  Handover'
BY ZenonT(30), HandoverConnThreadStart, HandoverConnThreadReady, HandoverLoopTop, HandoverEnterIdle,
   HandoverIdleWait, HandoverIdleSignaled, HandoverIdleSpurious, HandoverIdleDone,
   HandoverConnRunStart, HandoverConnRunClose, HandoverSnapshot, HandoverConnThreadDead,
   HandoverConnThreadUncount, HandoverJoinPrevious, HandoverConnThreadExit,
   HandoverIdleTimeout, HandoverDequeueConn, HandoverEnqueueThread, HandoverLeaveIdle,
   HandoverFreeConn DEF ThreadStep

-----------------------------------------------------------------------------
(* The steps of a caller of NsQueueConn.                                   *)

LEMMA HandoverCreateConnThread ==
    ASSUME FixedInv, NEW d \in Callers, CreateConnThread(d)
    PROVE  Handover'
<1> USE DEF FixedInv
<1>1. tqueue' = tqueue /\ darg' = darg
  BY Zenon DEF CreateConnThread, poolVars, callVars
<1>2. PICK v \in {"nocreate", "serve"} : dpc' = [dpc EXCEPT ![d] = v]
  BY Zenon DEF CreateConnThread
<1>3. CASE UNCHANGED <<pc, argConn>>
  BY ZenonT(30), <1>1, <1>2, <1>3, HandoverCall
<1>4. CASE \E i \in Slots : /\ pc[i] = "none" /\ pc' = [pc EXCEPT ![i] = "start"]
                            /\ argConn' = [argConn EXCEPT ![i] = NULL]
  <2>1. PICK i \in Slots : /\ pc[i] = "none" /\ pc' = [pc EXCEPT ![i] = "start"]
                           /\ argConn' = [argConn EXCEPT ![i] = NULL]
    BY ZenonT(30), <1>4
  <2>2. /\ argConn[i] = NULL /\ argConn'[i] = NULL /\ pc'[i] = "start"
        /\ \A j \in Slots : j # i => pc'[j] = pc[j] /\ argConn'[j] = argConn[j]
    BY Zenon, <2>1 DEF PtrInv, TypeOK, ThreadTypeOK, Handover, ConnPlaces, OwnerPcs
  <2>3. \A e \in Callers : dpc'[e] = "assign" => dpc[e] = "assign"
    BY Zenon, <1>2 DEF PtrInv, TypeOK, CallTypeOK
  <2>4. tqueue \subseteq Slots  BY Zenon DEF PtrInv, TypeOK, PoolTypeOK
  <2>5. \A e \in Callers : dpc[e] = "assign" => darg[e] \in Slots
    BY Zenon DEF PtrInv, CallerPointers
  <2>6. ConnPlaces'  BY Zenon, <2>2 DEF Handover, ConnPlaces
  <2>7. QueueIdle'  BY Zenon, <1>1, <2>1, <2>2, <2>4 DEF Handover, QueueIdle, WaitPcs
  <2>8. AssignIdle'  BY <1>1, <2>1, <2>2, <2>3, <2>5 DEF Handover, AssignIdle, WaitPcs
  <2> QED  BY Zenon, <2>6, <2>7, <2>8 DEF Handover
<1>5. \A i \in Slots : state(i) = "free" <=> pc[i] = "none"
  BY Zenon DEF state, PtrInv, TypeOK, ThreadTypeOK, ThreadPcs, IdlePcs, ReadyPcs, BusyPcs, DeadPcs
<1> QED  BY Zenon, <1>3, <1>4, <1>5 DEF CreateConnThread, threadVars

(* The caller takes an idle thread off the thread queue: no other caller   *)
(* has it.                                                                 *)
LEMMA HandoverPopIdleThread ==
    ASSUME FixedInv, NEW d \in Callers, PopIdleThread(d)
    PROVE  Handover'
<1> USE DEF FixedInv
<1>1. UNCHANGED <<pc, argConn>>  BY Zenon DEF PopIdleThread, threadVars
<1>2. CASE tqueue = {}
  BY Zenon, <1>1, <1>2, HandoverCall DEF PopIdleThread
<1>3. CASE tqueue # {}
  <2>1. PICK i \in tqueue : tqueue' = tqueue \ {i} /\ darg' = [darg EXCEPT ![d] = i]
    BY Zenon, <1>3 DEF PopIdleThread
  <2>2. dpc' = [dpc EXCEPT ![d] = "assign"]  BY Zenon, <1>3 DEF PopIdleThread
  <2>3. /\ darg'[d] = i /\ dpc'[d] = "assign" /\ dpc[d] # "assign"
        /\ \A e \in Callers : e # d => dpc'[e] = dpc[e] /\ darg'[e] = darg[e]
    BY Zenon, <2>1, <2>2 DEF PopIdleThread, PtrInv, TypeOK, CallTypeOK
  <2>4. ConnPlaces'  BY Zenon, <1>1 DEF Handover, ConnPlaces
  <2>5. QueueIdle'  BY Zenon, <1>1, <2>1 DEF Handover, QueueIdle
  <2>6. AssignIdle'
    BY <1>1, <2>1, <2>3 DEF Handover, QueueIdle, AssignIdle
  <2> QED  BY Zenon, <2>4, <2>5, <2>6 DEF Handover
<1> QED  BY Zenon, <1>2, <1>3

(* The thread that gets the Conn is still waiting for one.                 *)
LEMMA HandoverAssignConn ==
    ASSUME FixedInv, NEW d \in Callers, AssignConn(d)
    PROVE  Handover'
<1> USE DEF FixedInv
<1>1. /\ pc' = pc /\ tqueue' = tqueue /\ darg' = darg
      /\ dpc[d] = "assign" /\ dpc' = [dpc EXCEPT ![d] = "need"]
      /\ argConn' = [argConn EXCEPT ![darg[d]] = dconn[d]]
  BY ZenonT(30) DEF AssignConn, poolVars
<1>2. darg[d] \in Slots /\ pc[darg[d]] \in WaitPcs /\ darg[d] \notin tqueue
  BY Zenon, <1>1 DEF Handover, AssignIdle, PtrInv, CallerPointers
<1>3. \A j \in Slots : j # darg[d] => argConn'[j] = argConn[j]
  BY Zenon, <1>1 DEF PtrInv, TypeOK, ThreadTypeOK
<1>4. dpc'[d] = "need" /\ \A e \in Callers : e # d => dpc'[e] = dpc[e]
  BY Zenon, <1>1 DEF PtrInv, TypeOK, CallTypeOK
<1>5. tqueue \subseteq Slots  BY Zenon DEF PtrInv, TypeOK, PoolTypeOK
<1>6. \A e \in Callers : dpc[e] = "assign" => darg[e] \in Slots
  BY Zenon DEF PtrInv, CallerPointers
<1>7. ConnPlaces'  BY Zenon, <1>1, <1>2, <1>3 DEF Handover, ConnPlaces, WaitPcs, OwnerPcs
<1>8. QueueIdle'  BY Zenon, <1>1, <1>2, <1>3, <1>5 DEF Handover, QueueIdle
<1>9. AssignIdle'
  <2>1. AssignIdle /\ tqueue' = tqueue /\ pc' = pc /\ darg' = darg
    BY Zenon, <1>1 DEF Handover
  <2>2. dpc[d] = "assign"  BY Zenon, <1>1
  <2> QED  BY ZenonT(30), <1>3, <1>4, <1>6, <2>1, <2>2 DEF AssignIdle
<1> QED  BY Zenon, <1>7, <1>8, <1>9 DEF Handover

LEMMA HandoverSignalThread ==
    ASSUME FixedInv, NEW d \in Callers, SignalThread(d)
    PROVE  Handover'
<1> USE DEF FixedInv
<1>1. /\ argConn' = argConn /\ tqueue' = tqueue /\ dpc[d] = "signal"
      /\ pc' = [pc EXCEPT ![darg[d]] = IF @ = "waiting" THEN "signaled" ELSE @]
      /\ darg' = [darg EXCEPT ![d] = NULL]
  BY Zenon DEF SignalThread, poolVars
<1>2. darg[d] \in Slots  BY Zenon, <1>1 DEF PtrInv, CallerPointers
<1>3. \A j \in Slots : pc'[j] = pc[j] \/ (pc[j] = "waiting" /\ pc'[j] = "signaled")
  BY Zenon, <1>1, <1>2 DEF PtrInv, TypeOK, ThreadTypeOK
<1>4. \A j \in Slots : /\ pc'[j] \in WaitPcs <=> pc[j] \in WaitPcs
                       /\ pc'[j] \in OwnerPcs <=> pc[j] \in OwnerPcs
  BY Zenon, <1>3 DEF WaitPcs, OwnerPcs
<1>5. \A e \in Callers : dpc'[e] = "assign" => dpc[e] = "assign" /\ darg'[e] = darg[e]
  BY Zenon, <1>1 DEF SignalThread, PtrInv, TypeOK, CallTypeOK
<1>6. tqueue \subseteq Slots  BY Zenon DEF PtrInv, TypeOK, PoolTypeOK
<1>7. \A e \in Callers : dpc[e] = "assign" => darg[e] \in Slots
  BY Zenon DEF PtrInv, CallerPointers
<1>8. ConnPlaces'  BY Zenon, <1>1, <1>4 DEF Handover, ConnPlaces
<1>9. QueueIdle'  BY Zenon, <1>1, <1>4, <1>6 DEF Handover, QueueIdle
<1>10. AssignIdle'
  <2>1. AssignIdle /\ tqueue' = tqueue /\ argConn' = argConn  BY Zenon, <1>1 DEF Handover
  <2> QED  BY Zenon, <1>4, <1>5, <1>7, <2>1 DEF AssignIdle
<1> QED  BY Zenon, <1>8, <1>9, <1>10 DEF Handover

LEMMA HandoverQueueConn ==
    ASSUME FixedInv, NEW d \in Callers, QueueWaiting(d) \/ QueueNew(d)
    PROVE  Handover'
<1> USE DEF FixedInv
<1>1. UNCHANGED <<pc, argConn, tqueue, darg>>
  BY ZenonT(30) DEF QueueWaiting, QueueNew, QueueConnGetFree, threadVars
<1>2. PICK v \in {"serve", "popidle"} : dpc' = [dpc EXCEPT ![d] = v]
  BY ZenonT(30) DEF QueueWaiting, QueueNew, QueueConnGetFree, QueueFull
<1> QED  BY ZenonT(30), <1>1, <1>2, HandoverCall

LEMMA HandoverOtherCall ==
    ASSUME FixedInv, NEW d \in Callers,
           \/ CreateFailed(d) \/ DecideCreate(d) \/ AppendWaiting(d) \/ CountCreate(d)
    PROVE  Handover'
<1> USE DEF FixedInv
<1>1. UNCHANGED <<pc, argConn, tqueue, darg>>
  BY Zenon DEF CreateFailed, DecideCreate, AppendWaiting, CountCreate, threadVars, poolVars, callVars
<1>2. \E v \in {"serve", "signal", "incr", "slot"} : dpc' = [dpc EXCEPT ![d] = v]
  BY Zenon DEF CreateFailed, DecideCreate, AppendWaiting, CountCreate
<1> QED  BY ZenonT(30), <1>1, <1>2, HandoverCall

(* Every step of a caller.                                                 *)
LEMMA HandoverCaller ==
    ASSUME FixedInv, NEW d \in Callers, CallStep(d) \/ StartRetry(d) \/ QueueNew(d)
    PROVE  Handover'
<1>1. ASSUME StartRetry(d) PROVE Handover'
  BY Zenon, <1>1, HandoverFrame DEF StartRetry, FixedInv, threadVars, poolVars, callVars
<1> QED
  BY Zenon, <1>1, HandoverCreateConnThread, HandoverPopIdleThread, HandoverAssignConn,
     HandoverSignalThread, HandoverQueueConn, HandoverOtherCall DEF CallStep

LEMMA HandoverDriver ==
    ASSUME FixedInv, NEW d \in Drivers, DriverTriggered(d) \/ PollTimeout(d) \/ DriverCollect(d)
    PROVE  Handover'
<1> USE DEF FixedInv
<1>1. d \in Callers  BY Zenon DEF Callers
<1>2. UNCHANGED <<pc, argConn, tqueue, darg>>
  BY Zenon DEF DriverTriggered, PollTimeout, DriverCollect, threadVars, poolVars, callVars
<1>3. \E v \in {"slot", "serve", "poll", "stopped"} : dpc' = [dpc EXCEPT ![d] = v]
  BY ZenonT(30) DEF DriverTriggered, PollTimeout, DriverCollect, NsEnsureRunningConnectionThreads
<1> QED  BY ZenonT(30), <1>1, <1>2, <1>3, HandoverCall

-----------------------------------------------------------------------------
(* Nobody stops the server, and no thread times out with nothing to do.    *)
LEMMA UndisturbedStep ==
    ASSUME FixedPool, FixedInv, NoSurplus, [Next]_vars
    PROVE  Undisturbed'
<1> USE DEF FixedInv
<1>1. Admins = {} /\ CanStop = FALSE  BY Zenon DEF FixedPool
<1>2. shutdown = FALSE /\ mpc = "run" /\ \A i \in Slots : timedout[i] = FALSE
  BY Zenon DEF Undisturbed
<1>3. ASSUME UNCHANGED <<shutdown, mpc, tmin, tmax, timedout>> PROVE Undisturbed'
  BY Zenon, <1>3 DEF Undisturbed
<1>4. CASE UNCHANGED vars
  BY Zenon, <1>3, <1>4 DEF vars, threadVars, serverVars, adminVars
<1>5. ASSUME NEW d \in Callers, CallStep(d) \/ StartRetry(d) \/ QueueNew(d)
      PROVE  Undisturbed'
  BY ZenonT(30), <1>3, <1>5 DEF CallStep, CreateConnThread, CreateFailed, QueueWaiting, PopIdleThread,
     AssignConn, DecideCreate, SignalThread, AppendWaiting, CountCreate, StartRetry, QueueNew,
     QueueConnGetFree, threadVars, serverVars, adminVars
<1>6. ASSUME NEW d \in Drivers, DriverTriggered(d) \/ PollTimeout(d) \/ DriverCollect(d)
      PROVE  Undisturbed'
  BY ZenonT(30), <1>3, <1>6 DEF DriverTriggered, PollTimeout, DriverCollect, threadVars, serverVars,
     adminVars
<1>7. ~(MainStep \/ NsStopDrivers \/ WaitServerTimeout)
  BY Zenon, <1>1, <1>2 DEF MainStep, NsStopServer, WakeupStart, WakeupConnThreads, WaitServerCheck,
     WaitServerWait, WaitServerJoin, NsStopDrivers, WaitServerTimeout
<1>8. ASSUME NEW i \in Slots, ConnThreadUncount(i) PROVE Undisturbed'
  <2>1. mpc' = mpc  BY ZenonT(30), <1>2, <1>8 DEF ConnThreadUncount
  <2> QED  BY ZenonT(30), <1>3, <1>8, <2>1 DEF ConnThreadUncount, adminVars
<1>9. ASSUME NEW i \in Slots, ConnThreadExit(i) PROVE Undisturbed'
  <2>1. timedout' = timedout
    BY Zenon, <1>2, <1>9 DEF ConnThreadExit, PtrInv, TypeOK, ThreadTypeOK
  <2> QED  BY ZenonT(30), <1>3, <1>9, <2>1 DEF ConnThreadExit, adminVars
<1>10. ASSUME NEW i \in Slots, IdleTimeout(i) PROVE Undisturbed'
  <2>1. timedout' = timedout
    BY <1>2, <1>10 DEF IdleTimeout, NoSurplus, PtrInv, TypeOK, ThreadTypeOK
  <2> QED  BY ZenonT(30), <1>3, <1>10, <2>1 DEF IdleTimeout, serverVars, adminVars
<1>11. ASSUME NEW i \in Slots,
              \/ ConnThreadStart(i) \/ ConnThreadReady(i) \/ LoopTop(i) \/ DequeueConn(i)
              \/ EnterIdle(i) \/ EnqueueThread(i) \/ IdleWait(i) \/ IdleSignaled(i)
              \/ LeaveIdle(i) \/ IdleDone(i) \/ ConnRunStart(i) \/ ConnRunClose(i)
       PROVE  Undisturbed'
  BY ZenonT(30), <1>3, <1>11 DEF ConnThreadStart, ConnThreadReady, LoopTop, DequeueConn, EnterIdle,
     EnqueueThread, IdleWait, IdleSignaled, Awake, LeaveIdle, IdleDone, ConnRunStart,
     ConnRunClose, serverVars, adminVars
<1>12. ASSUME NEW i \in Slots,
              \/ FreeConn(i) \/ Snapshot(i) \/ ConnThreadDead(i) \/ JoinPrevious(i)
              \/ IdleSpurious(i)
       PROVE  Undisturbed'
  BY ZenonT(30), <1>3, <1>12 DEF FreeConn, Snapshot, ConnThreadDead, JoinPrevious, IdleSpurious, Awake,
     serverVars, adminVars
<1> QED
  BY <1>1, <1>4, <1>5, <1>6, <1>7, <1>8, <1>9, <1>10, <1>11, <1>12, Zenon
     DEF Next, ThreadStep

LEMMA FixedStep ==
    ASSUME FixedPool, FixedInv, NoSurplus, [Next]_vars
    PROVE  FixedInv'
<1>1. PtrInv'  BY Zenon, PtrStep DEF FixedInv
<1>2. Undisturbed'  BY Zenon, UndisturbedStep
<1>3. Handover'
  <2>1. CASE UNCHANGED vars
    BY Zenon, <2>1, HandoverFrame DEF FixedInv, vars, threadVars, poolVars, driverVars, callVars
  <2>2. ~(MainStep \/ NsStopDrivers \/ WaitServerTimeout) /\ Admins = {}
    BY Zenon DEF FixedPool, FixedInv, Undisturbed, MainStep, NsStopServer, WakeupStart,
       WakeupConnThreads, WaitServerCheck, WaitServerWait, WaitServerJoin, NsStopDrivers,
       WaitServerTimeout
  <2> QED
    BY <2>1, <2>2, HandoverThread, HandoverCaller, HandoverDriver, Zenon DEF Next
<1> QED  BY Zenon, <1>1, <1>2, <1>3 DEF FixedInv

-----------------------------------------------------------------------------
(* There are never more threads than minthreads.                           *)

LEMMA SurplusOfStatic == FixedInv /\ Static => NoSurplus
BY ThreadRangeAssumption DEF FixedInv, Undisturbed, Static, NoSurplus

LEMMA StaticInit == Init => Static
BY Zenon DEF Init, Static, DeadPcs

(* No thread is needed in addition to minthreads of them.                  *)
LEMMA StaticNeeds ==
    ASSUME FixedPool, FixedInv, Static, NEW n
    PROVE  neededAdditionalConnectionThreads(n) = FALSE
<1>1. ~(current < tmax)
  BY ThreadRangeAssumption DEF FixedPool, FixedInv, Undisturbed, Static
<1> QED  BY Zenon, <1>1 DEF neededAdditionalConnectionThreads

(* A thread moves on, but does not leave.                                  *)
LEMMA StaticMove ==
    ASSUME PtrInv, Static, NEW i \in Slots, NEW v, Goto(i, v),
           v \notin {"snapshot", "exit"} \union DeadPcs,
           UNCHANGED <<current, dpc, dcreate>>
    PROVE  Static'
<1>1. pc'[i] = v /\ \A j \in Slots : j # i => pc'[j] = pc[j]
  BY Zenon DEF Goto, PtrInv, TypeOK, ThreadTypeOK
<1> QED  BY Zenon, <1>1 DEF Static

LEMMA StaticThread ==
    ASSUME FixedInv, ConnsPerThread = 0, Static, NEW i \in Slots,
           ThreadStep(i) \/ IdleTimeout(i) \/ IdleSpurious(i)
    PROVE  Static'
<1> USE DEF FixedInv, DeadPcs
<1>1. pc[i] \notin {"snapshot", "exit"} \union DeadPcs  BY Zenon DEF Static
<1>2. CASE \/ ConnThreadStart(i) \/ ConnThreadReady(i) \/ EnterIdle(i) \/ EnqueueThread(i)
           \/ LeaveIdle(i) \/ ConnRunStart(i) \/ ConnRunClose(i)
  <2>1. UNCHANGED <<current, dpc, dcreate>>
    BY ZenonT(30), <1>2 DEF ConnThreadStart, ConnThreadReady, EnterIdle, EnqueueThread, LeaveIdle,
       ConnRunStart, ConnRunClose, countVars, driverVars, callVars
  <2>2. \E v \in {"warm", "ready", "enqueue", "idlecheck", "unidle", "running", "freeing"} :
           Goto(i, v)
    BY ZenonT(30), <1>2 DEF ConnThreadStart, ConnThreadReady, EnterIdle, EnqueueThread, LeaveIdle,
       ConnRunStart, ConnRunClose
  <2> QED  BY Zenon, <2>1, <2>2, StaticMove
<1>3. CASE LoopTop(i) \/ DequeueConn(i)
  <2>1. UNCHANGED <<current, dpc, dcreate>>
    BY Zenon, <1>3 DEF LoopTop, DequeueConn, countVars, driverVars, callVars
  <2>2. \E v \in {"dequeue", "toidle", "run"} : Goto(i, v)
    BY Zenon, <1>3 DEF LoopTop, DequeueConn
  <2> QED  BY Zenon, <2>1, <2>2, StaticMove
<1>4. CASE IdleWait(i) \/ IdleSignaled(i) \/ IdleSpurious(i) \/ IdleTimeout(i)
  <2>1. UNCHANGED <<current, dpc, dcreate>>
    BY ZenonT(30), <1>4 DEF IdleWait, IdleSignaled, IdleSpurious, Awake, IdleTimeout, countVars,
       driverVars, callVars
  <2>2. \E v \in {"leave", "waiting", "idlecheck"} : Goto(i, v)
    BY ZenonT(30), <1>4 DEF IdleWait, IdleSignaled, IdleSpurious, Awake, IdleTimeout
  <2> QED  BY Zenon, <2>1, <2>2, StaticMove
<1>5. CASE IdleDone(i) \/ FreeConn(i)
  <2>1. UNCHANGED <<current, dpc, dcreate>>
    BY ZenonT(30), <1>5 DEF IdleDone, FreeConn, countVars, driverVars, callVars
  <2>2. shutdown = FALSE /\ timedout[i] = FALSE /\ ~(ConnsPerThread > 0)
    BY DEF Undisturbed
  <2>3. Goto(i, "run") \/ Goto(i, "ready")
    BY ZenonT(30), <1>5, <2>2 DEF IdleDone, FreeConn
  <2> QED  BY Zenon, <2>1, <2>3, StaticMove
<1>6. ~(\/ Snapshot(i) \/ ConnThreadDead(i) \/ ConnThreadUncount(i) \/ JoinPrevious(i)
        \/ ConnThreadExit(i))
  BY ZenonT(30), <1>1 DEF Snapshot, ConnThreadDead, ConnThreadUncount, JoinPrevious, ConnThreadExit
<1> QED  BY <1>2, <1>3, <1>4, <1>5, <1>6, Zenon DEF ThreadStep

(* A caller moves on, but not to the creation of a thread.                 *)
LEMMA StaticCall ==
    ASSUME PtrInv, Static, NEW d \in Callers, NEW v, dpc' = [dpc EXCEPT ![d] = v],
           v \notin {"incr", "slot", "nocreate"}, UNCHANGED <<current, pc>>,
           dcreate' = dcreate \/ dcreate' = [dcreate EXCEPT ![d] = FALSE]
    PROVE  Static'
<1>1. dpc'[d] = v /\ \A e \in Callers : e # d => dpc'[e] = dpc[e]
  BY Zenon DEF PtrInv, TypeOK, CallTypeOK
<1>2. \A e \in Callers : dcreate'[e] = FALSE
  BY Zenon DEF Static, PtrInv, TypeOK, CallTypeOK
<1> QED  BY Zenon, <1>1, <1>2 DEF Static

LEMMA StaticSignalThread ==
    ASSUME FixedInv, Static, NEW d \in Callers, SignalThread(d)
    PROVE  Static'
<1> USE DEF FixedInv
<1>1. /\ current' = current /\ dcreate' = dcreate /\ dpc[d] = "signal"
      /\ pc' = [pc EXCEPT ![darg[d]] = IF @ = "waiting" THEN "signaled" ELSE @]
      /\ dpc' = [dpc EXCEPT ![d] = "serve"]
  BY ZenonT(30) DEF SignalThread, Static, countVars
<1>2. darg[d] \in Slots  BY ZenonT(30), <1>1 DEF PtrInv, CallerPointers
<1>3. \A j \in Slots : pc'[j] = pc[j] \/ pc'[j] = "signaled"
  BY Zenon, <1>1, <1>2 DEF PtrInv, TypeOK, ThreadTypeOK
<1>4. \A e \in Callers : dpc'[e] = dpc[e] \/ dpc'[e] = "serve"
  BY Zenon, <1>1 DEF PtrInv, TypeOK, CallTypeOK
<1> QED  BY Zenon, <1>1, <1>3, <1>4 DEF Static, DeadPcs

LEMMA StaticCaller ==
    ASSUME FixedPool, FixedInv, Static, NEW d \in Callers,
           CallStep(d) \/ StartRetry(d) \/ QueueNew(d)
    PROVE  Static'
<1> USE DEF FixedInv
<1>1. \A n : neededAdditionalConnectionThreads(n) = FALSE  BY ZenonT(30), StaticNeeds
<1>2. ~(CreateConnThread(d) \/ CreateFailed(d) \/ CountCreate(d))
  BY Zenon DEF Static, CreateConnThread, CreateFailed, CountCreate
<1>3. CASE QueueWaiting(d) \/ QueueNew(d)
  <2>1. UNCHANGED <<current, pc, dcreate>>
    BY ZenonT(30), <1>3 DEF QueueWaiting, QueueNew, QueueConnGetFree, threadVars, countVars
  <2>2. \E v \in {"serve", "popidle"} : dpc' = [dpc EXCEPT ![d] = v]
    BY ZenonT(30), <1>3 DEF QueueWaiting, QueueNew, QueueConnGetFree, QueueFull
  <2> QED  BY ZenonT(30), <2>1, <2>2, StaticCall
<1>4. CASE PopIdleThread(d) \/ AssignConn(d)
  <2>1. UNCHANGED <<current, pc, dcreate>>
    BY Zenon, <1>4 DEF PopIdleThread, AssignConn, threadVars, countVars
  <2>2. \E v \in {"append", "assign", "need"} : dpc' = [dpc EXCEPT ![d] = v]
    BY Zenon, <1>4 DEF PopIdleThread, AssignConn
  <2> QED  BY ZenonT(30), <2>1, <2>2, StaticCall
<1>5. CASE DecideCreate(d) \/ AppendWaiting(d)
  <2>1. UNCHANGED <<current, pc>>
    BY Zenon, <1>5 DEF DecideCreate, AppendWaiting, threadVars, countVars
  <2>2. dcreate' = [dcreate EXCEPT ![d] = FALSE]
    BY Zenon, <1>1, <1>5 DEF DecideCreate, AppendWaiting
  <2>3. \E v \in {"signal", "serve"} : dpc' = [dpc EXCEPT ![d] = v]
    BY Zenon, <1>1, <1>5 DEF DecideCreate, AppendWaiting
  <2> QED  BY ZenonT(30), <2>1, <2>2, <2>3, StaticCall
<1>6. CASE StartRetry(d)
  BY ZenonT(30), <1>6 DEF StartRetry, Static, threadVars, countVars, callVars
<1> QED
  BY <1>2, <1>3, <1>4, <1>5, <1>6, StaticSignalThread, Zenon DEF CallStep

LEMMA StaticDriver ==
    ASSUME FixedPool, FixedInv, Static, NEW d \in Drivers,
           DriverTriggered(d) \/ PollTimeout(d) \/ DriverCollect(d)
    PROVE  Static'
<1> USE DEF FixedInv
<1>1. neededAdditionalConnectionThreads(Len(wait)) = FALSE  BY ZenonT(30), StaticNeeds
<1>2. d \in Callers  BY Zenon DEF Callers
<1>3. UNCHANGED <<current, pc, dcreate>>
  BY ZenonT(30), <1>1 DEF DriverTriggered, PollTimeout, DriverCollect, NsEnsureRunningConnectionThreads,
     threadVars, countVars, callVars
<1>4. \E v \in {"serve", "poll", "stopped"} : dpc' = [dpc EXCEPT ![d] = v]
  BY ZenonT(30), <1>1 DEF DriverTriggered, PollTimeout, DriverCollect, NsEnsureRunningConnectionThreads
<1> QED  BY ZenonT(30), <1>2, <1>3, <1>4, StaticCall

LEMMA NoOutside ==
    ASSUME FixedPool, FixedInv
    PROVE  ~(MainStep \/ NsStopDrivers \/ WaitServerTimeout) /\ Admins = {}
BY Zenon DEF FixedPool, FixedInv, Undisturbed, MainStep, NsStopServer, WakeupStart,
   WakeupConnThreads, WaitServerCheck, WaitServerWait, WaitServerJoin, NsStopDrivers,
   WaitServerTimeout

LEMMA StaticStep ==
    ASSUME FixedPool, ConnsPerThread = 0, FixedInv, Static, [Next]_vars
    PROVE  Static'
<1>1. CASE UNCHANGED vars
  BY ZenonT(30), <1>1 DEF Static, vars, threadVars, countVars, driverVars, callVars
<1> QED
  BY <1>1, NoOutside, StaticThread, StaticCaller, StaticDriver, Zenon DEF Next

-----------------------------------------------------------------------------
(* No Conn is lost.                                                        *)

(* A caller has a Conn between the free list and the hand-over only.       *)
ConnCallPcs == {"popidle", "assign", "append"}
CallerEmpty == \A d \in Callers : dpc[d] \notin ConnCallPcs => dconn[d] = NULL

LEMMA EmptyCaller ==
    ASSUME PtrInv, CallerEmpty, NEW d \in Callers, CallStep(d) \/ StartRetry(d) \/ QueueNew(d)
    PROVE  CallerEmpty'
<1> USE DEF ConnCallPcs
<1>1. ASSUME NEW v, dpc' = [dpc EXCEPT ![d] = v],
             \/ dconn' = dconn /\ (dpc[d] \in ConnCallPcs => v \in ConnCallPcs)
             \/ dconn' = [dconn EXCEPT ![d] = NULL]
             \/ v \in ConnCallPcs /\ \E c : dconn' = [dconn EXCEPT ![d] = c]
      PROVE  CallerEmpty'
  BY Zenon, <1>1 DEF CallerEmpty, PtrInv, TypeOK, CallTypeOK
<1>2. CASE QueueWaiting(d) \/ QueueNew(d)
  <2>1. dpc[d] \notin ConnCallPcs  BY ZenonT(30), <1>2 DEF QueueWaiting, QueueNew
  <2>2. \/ dpc' = [dpc EXCEPT ![d] = "serve"] /\ dconn' = dconn
        \/ /\ dpc' = [dpc EXCEPT ![d] = "popidle"]
           /\ \E c : dconn' = [dconn EXCEPT ![d] = c]
    BY Zenon, <1>2 DEF QueueWaiting, QueueNew, QueueConnGetFree, QueueFull
  <2> QED  BY ZenonT(30), <1>1, <2>1, <2>2
<1>3. CASE AssignConn(d) \/ AppendWaiting(d)
  <2>1. dconn' = [dconn EXCEPT ![d] = NULL] /\ \E v : dpc' = [dpc EXCEPT ![d] = v]
    BY Zenon, <1>3 DEF AssignConn, AppendWaiting
  <2> QED  BY ZenonT(30), <1>1, <2>1
<1>4. CASE PopIdleThread(d)
  <2>1. dconn' = dconn /\ \E v \in ConnCallPcs : dpc' = [dpc EXCEPT ![d] = v]
    BY Zenon, <1>4 DEF PopIdleThread
  <2> QED  BY ZenonT(30), <1>1, <2>1
<1>5. CASE CreateConnThread(d) \/ CreateFailed(d) \/ DecideCreate(d) \/ SignalThread(d)
           \/ CountCreate(d)
  <2>1. dconn' = dconn /\ dpc[d] \notin ConnCallPcs
    BY ZenonT(30), <1>5 DEF CreateConnThread, CreateFailed, DecideCreate, SignalThread, CountCreate, callVars
  <2>2. \E v : dpc' = [dpc EXCEPT ![d] = v]
    BY Zenon, <1>5 DEF CreateConnThread, CreateFailed, DecideCreate, SignalThread, CountCreate
  <2> QED  BY ZenonT(30), <1>1, <2>1, <2>2
<1>6. CASE StartRetry(d)
  BY ZenonT(30), <1>6 DEF StartRetry, CallerEmpty, callVars
<1> QED  BY <1>2, <1>3, <1>4, <1>5, <1>6, Zenon DEF CallStep

LEMMA EmptyStep ==
    ASSUME FixedPool, FixedInv, CallerEmpty, [Next]_vars
    PROVE  CallerEmpty'
<1> USE DEF FixedInv
<1>1. CASE UNCHANGED <<dpc, dconn>>
  BY Zenon, <1>1 DEF CallerEmpty
<1>2. ASSUME NEW i \in Slots, ThreadStep(i) \/ IdleTimeout(i) \/ IdleSpurious(i)
      PROVE  UNCHANGED <<dpc, dconn>>
  BY ZenonT(30), <1>2 DEF ThreadStep, ConnThreadStart, ConnThreadReady, LoopTop, DequeueConn, EnterIdle,
     EnqueueThread, IdleWait, IdleSignaled, LeaveIdle, IdleDone, ConnRunStart, ConnRunClose,
     FreeConn, Snapshot, ConnThreadDead, ConnThreadUncount, JoinPrevious, ConnThreadExit,
     IdleTimeout, IdleSpurious, Awake, driverVars, callVars
<1>3. ASSUME NEW d \in Drivers, DriverTriggered(d) \/ PollTimeout(d) \/ DriverCollect(d)
      PROVE  CallerEmpty'
  <2>1. d \in Callers  BY Zenon DEF Callers
  <2>2. dconn' = dconn /\ dpc[d] \notin ConnCallPcs
    BY ZenonT(30), <1>3 DEF DriverTriggered, PollTimeout, DriverCollect, callVars, ConnCallPcs
  <2>3. \E v : dpc' = [dpc EXCEPT ![d] = v]
    BY ZenonT(30), <1>3 DEF DriverTriggered, PollTimeout, DriverCollect, NsEnsureRunningConnectionThreads
  <2> QED  BY Zenon, <2>1, <2>2, <2>3 DEF CallerEmpty, PtrInv, TypeOK, CallTypeOK
<1>4. UNCHANGED vars => UNCHANGED <<dpc, dconn>>  BY Zenon DEF vars, driverVars, callVars
<1> QED  BY <1>1, <1>2, <1>3, <1>4, EmptyCaller, NoOutside, Zenon DEF Next

LEMMA KeptFrame ==
    ASSUME NoConnLost, UNCHANGED <<free, wait, dconn>>,
           \A i \in Slots : pc[i] \in OwnerPcs /\ Holds(i) \in Conns
                              => pc'[i] \in OwnerPcs /\ Holds(i)' = Holds(i)
    PROVE  NoConnLost'
<1> SUFFICES ASSUME NEW c \in Conns
             PROVE  \/ c \in free
                    \/ \E d \in Callers : dconn[d] = c
                    \/ \E k \in 1 .. Len(wait) : wait[k] = c
                    \/ \E i \in Slots : Holds(i)' = c /\ pc'[i] \in OwnerPcs
  BY Zenon DEF NoConnLost, OwnerPcs
<1>1. \/ c \in free
      \/ \E d \in Callers : dconn[d] = c
      \/ \E k \in 1 .. Len(wait) : wait[k] = c
      \/ \E i \in Slots : Holds(i) = c /\ pc[i] \in OwnerPcs
  BY Zenon DEF NoConnLost, OwnerPcs
<1> QED  BY Zenon, <1>1

(* A thread keeps what it has, wherever it goes.                           *)
LEMMA KeptThread ==
    ASSUME FixedInv, NoSurplus, NoConnLost, NEW i \in Slots,
           ThreadStep(i) \/ IdleTimeout(i) \/ IdleSpurious(i),
           ~DequeueConn(i), ~FreeConn(i)
    PROVE  NoConnLost'
<1> USE DEF FixedInv
<1>1. ASSUME NEW v, Goto(i, v), UNCHANGED <<free, wait, dconn, argConn, cur>>,
             pc[i] \notin OwnerPcs \/ (v \in OwnerPcs /\ (Running(i) <=> v \in {"running", "freeing"}))
      PROVE  NoConnLost'
  <2>1. pc'[i] = v /\ \A j \in Slots : j # i => pc'[j] = pc[j]
    BY Zenon, <1>1 DEF Goto, PtrInv, TypeOK, ThreadTypeOK
  <2>2. \A j \in Slots : pc[j] \in OwnerPcs => pc'[j] \in OwnerPcs /\ Holds(j)' = Holds(j)
    BY ZenonT(30), <1>1, <2>1 DEF Holds, Running
  <2> QED  BY ZenonT(30), <1>1, <2>2, KeptFrame
<1>2. CASE \/ ConnThreadStart(i) \/ ConnThreadReady(i) \/ LoopTop(i) \/ EnterIdle(i)
           \/ EnqueueThread(i)
  <2>1. \E v : Goto(i, v)
    BY Zenon, <1>2 DEF ConnThreadStart, ConnThreadReady, LoopTop, EnterIdle, EnqueueThread
  <2>2. UNCHANGED <<free, wait, dconn, argConn, cur>>
    BY Zenon, <1>2 DEF ConnThreadStart, ConnThreadReady, LoopTop, EnterIdle, EnqueueThread,
       poolVars, driverVars, callVars
  <2>3. pc[i] \notin OwnerPcs
    BY Zenon, <1>2 DEF ConnThreadStart, ConnThreadReady, LoopTop, EnterIdle, EnqueueThread, OwnerPcs
  <2> QED  BY Zenon, <1>1, <2>1, <2>2, <2>3
<1>3. CASE IdleWait(i) \/ IdleSignaled(i) \/ IdleSpurious(i) \/ IdleTimeout(i) \/ LeaveIdle(i)
  <2>1. \E v \in {"leave", "waiting", "idlecheck", "unidle"} : Goto(i, v)
    BY ZenonT(30), <1>3 DEF IdleWait, IdleSignaled, IdleSpurious, Awake, IdleTimeout, LeaveIdle
  <2>2. UNCHANGED <<free, wait, dconn, argConn, cur>>
    BY ZenonT(30), <1>3 DEF IdleWait, IdleSignaled, IdleSpurious, Awake, IdleTimeout, LeaveIdle,
       poolVars, driverVars, callVars
  <2>3. ~Running(i)
    BY ZenonT(30), <1>3 DEF IdleWait, IdleSignaled, IdleSpurious, IdleTimeout, LeaveIdle, Running
  <2> QED  BY Zenon, <1>1, <2>1, <2>2, <2>3 DEF OwnerPcs
<1>4. CASE IdleDone(i)
  <2>1. Goto(i, "run") /\ UNCHANGED <<free, wait, dconn, argConn, cur>> /\ ~Running(i)
    BY ZenonT(30), <1>4 DEF IdleDone, Undisturbed, poolVars, driverVars, callVars, Running
  <2> QED  BY Zenon, <1>1, <2>1 DEF OwnerPcs
<1>5. CASE ConnRunClose(i)
  <2>1. Goto(i, "freeing") /\ UNCHANGED <<free, wait, dconn, argConn, cur>> /\ Running(i)
    BY ZenonT(30), <1>5 DEF ConnRunClose, poolVars, callVars, Running
  <2> QED  BY Zenon, <1>1, <2>1 DEF OwnerPcs
<1>6. CASE ConnRunStart(i)
  <2>1. /\ pc[i] = "run" /\ pc'[i] = "running" /\ cur'[i] = argConn[i]
        /\ \A j \in Slots : j # i => pc'[j] = pc[j] /\ cur'[j] = cur[j]
        /\ UNCHANGED <<free, wait, dconn, argConn>>
    BY Zenon, <1>6 DEF ConnRunStart, Goto, PtrInv, TypeOK, ThreadTypeOK, poolVars, driverVars,
       callVars
  <2>2. \A j \in Slots : pc[j] \in OwnerPcs => pc'[j] \in OwnerPcs /\ Holds(j)' = Holds(j)
    BY ZenonT(30), <2>1 DEF Holds, Running, OwnerPcs
  <2> QED  BY ZenonT(30), <2>1, <2>2, KeptFrame
<1>7. CASE Snapshot(i) \/ ConnThreadDead(i) \/ ConnThreadUncount(i) \/ JoinPrevious(i)
  <2>1. \E v : Goto(i, v)
    BY ZenonT(30), <1>7 DEF Snapshot, ConnThreadDead, ConnThreadUncount, JoinPrevious
  <2>2. UNCHANGED <<free, wait, dconn, argConn, cur>>
    BY ZenonT(30), <1>7 DEF Snapshot, ConnThreadDead, ConnThreadUncount, JoinPrevious, poolVars,
       driverVars, callVars
  <2>3. pc[i] \notin OwnerPcs
    BY ZenonT(30), <1>7 DEF Snapshot, ConnThreadDead, ConnThreadUncount, JoinPrevious, OwnerPcs
  <2> QED  BY Zenon, <1>1, <2>1, <2>2, <2>3
<1>8. CASE ConnThreadExit(i)
  <2>1. /\ pc[i] = "join"
        /\ \A j \in Slots : j # i => pc'[j] = pc[j] /\ cur'[j] = cur[j]
        /\ UNCHANGED <<free, wait, dconn, argConn>>
    BY Zenon, <1>8 DEF ConnThreadExit, Goto, PtrInv, TypeOK, ThreadTypeOK, poolVars, driverVars,
       callVars
  <2>2. \A j \in Slots : pc[j] \in OwnerPcs => pc'[j] \in OwnerPcs /\ Holds(j)' = Holds(j)
    BY ZenonT(30), <2>1 DEF Holds, Running, OwnerPcs
  <2> QED  BY ZenonT(30), <2>1, <2>2, KeptFrame
<1> QED
  BY <1>2, <1>3, <1>4, <1>5, <1>6, <1>7, <1>8, Zenon DEF ThreadStep

(* The thread that finds the waiting queue empty has no Conn; one that     *)
(* does not takes the first.                                               *)
LEMMA KeptDequeue ==
    ASSUME FixedInv, NoConnLost, NEW i \in Slots, DequeueConn(i)
    PROVE  NoConnLost'
<1> USE DEF FixedInv
<1>1. /\ pc[i] = "dequeue" /\ UNCHANGED <<free, dconn>>
      /\ \A j \in Slots : j # i => /\ pc'[j] = pc[j] /\ argConn'[j] = argConn[j]
                                   /\ cur'[j] = cur[j]
  BY Zenon DEF DequeueConn, Goto, PtrInv, TypeOK, ThreadTypeOK, driverVars, callVars
<1>2. \A j \in Slots : pc[j] \in OwnerPcs => pc'[j] \in OwnerPcs /\ Holds(j)' = Holds(j)
  BY ZenonT(30), <1>1 DEF Holds, Running, OwnerPcs
<1>3. CASE wait = <<>>
  <2>1. wait' = wait  BY Zenon, <1>3 DEF DequeueConn
  <2> QED  BY Zenon, <1>1, <1>2, <2>1, KeptFrame
<1>4. CASE wait # <<>>
  <2>1. wait' = Tail(wait) /\ pc'[i] = "run" /\ argConn'[i] = Head(wait)
    BY Zenon, <1>4 DEF DequeueConn, Goto, PtrInv, TypeOK, ThreadTypeOK
  <2>2. Holds(i)' = Head(wait) /\ pc'[i] \in OwnerPcs
    BY Zenon, <2>1 DEF Holds, Running, OwnerPcs
  <2>3. wait \in Seq(Conns)  BY Zenon DEF PtrInv, TypeOK, PoolTypeOK
  <2>4. \A k \in 1 .. Len(wait) :
           wait[k] = Head(wait) \/ \E l \in 1 .. Len(wait') : wait'[l] = wait[k]
    <3> SUFFICES ASSUME NEW k \in 1 .. Len(wait), k # 1
                 PROVE  \E l \in 1 .. Len(wait') : wait'[l] = wait[k]
      BY <1>4, <2>3
    <3>1. k - 1 \in 1 .. Len(wait') /\ wait'[k - 1] = wait[k]  BY <1>4, <2>1, <2>3
    <3> QED  BY <3>1, Zenon
  <2>5. ASSUME NEW c \in Conns
        PROVE  \/ c \in free
               \/ \E d \in Callers : dconn[d] = c
               \/ \E k \in 1 .. Len(wait') : wait'[k] = c
               \/ \E j \in Slots : Holds(j)' = c /\ pc'[j] \in OwnerPcs
    <3>1. \/ c \in free
          \/ \E d \in Callers : dconn[d] = c
          \/ \E k \in 1 .. Len(wait) : wait[k] = c
          \/ \E j \in Slots : Holds(j) = c /\ pc[j] \in OwnerPcs
      BY Zenon DEF NoConnLost, OwnerPcs
    <3>2. CASE \E k \in 1 .. Len(wait) : wait[k] = c  BY Zenon, <2>2, <2>4, <3>2
    <3>3. CASE \E j \in Slots : Holds(j) = c /\ pc[j] \in OwnerPcs  BY Zenon, <1>2, <3>3
    <3> QED  BY Zenon, <3>1, <3>2, <3>3
  <2> QED  BY Zenon, <1>1, <2>5 DEF NoConnLost, OwnerPcs
<1> QED  BY Zenon, <1>3, <1>4

LEMMA KeptFreeConn ==
    ASSUME FixedInv, NoConnLost, NEW i \in Slots, FreeConn(i)
    PROVE  NoConnLost'
<1> USE DEF FixedInv
<1>1. /\ pc[i] = "freeing" /\ UNCHANGED <<wait, dconn, cur>>
      /\ free' = free \union {cur[i]}
      /\ \A j \in Slots : j # i => pc'[j] = pc[j] /\ argConn'[j] = argConn[j]
  BY Zenon DEF FreeConn, Goto, PtrInv, TypeOK, ThreadTypeOK, driverVars, callVars
<1>2. Holds(i) = cur[i]  BY ZenonT(30), <1>1 DEF Holds, Running
<1>3. \A j \in Slots : j # i => Holds(j)' = Holds(j)
  BY ZenonT(30), <1>1 DEF Holds, Running
<1> QED  BY Zenon, <1>1, <1>2, <1>3 DEF NoConnLost

(* A caller takes a Conn off the free list.                                *)
LEMMA KeptGetFree ==
    ASSUME FixedInv, CallerEmpty, NoConnLost, NEW d \in Callers,
           QueueWaiting(d) \/ QueueNew(d)
    PROVE  NoConnLost'
<1> USE DEF FixedInv
<1>1. PICK new \in BOOLEAN : QueueConnGetFree(d, new)
  BY ZenonT(30) DEF QueueWaiting, QueueNew
<1>2. UNCHANGED <<wait, pc, argConn, cur>>
  BY Zenon, <1>1 DEF QueueConnGetFree, threadVars
<1>3. \A i \in Slots : Holds(i)' = Holds(i)  BY ZenonT(30), <1>2 DEF Holds, Running
<1>4. CASE UNCHANGED <<free, dconn>>
  BY Zenon, <1>2, <1>3, <1>4, KeptFrame
<1>5. CASE \E c \in free : free' = free \ {c} /\ dconn' = [dconn EXCEPT ![d] = c]
  <2>1. PICK c \in free : free' = free \ {c} /\ dconn' = [dconn EXCEPT ![d] = c]
    BY ZenonT(30), <1>5
  <2>2. dpc[d] \in {"serve", "poll"}  BY ZenonT(30) DEF QueueWaiting, QueueNew
  <2>3. dconn[d] = NULL  BY ZenonT(30), <2>2 DEF CallerEmpty, ConnCallPcs
  <2>4. dconn'[d] = c /\ \A e \in Callers : e # d => dconn'[e] = dconn[e]
    BY Zenon, <2>1 DEF PtrInv, TypeOK, CallTypeOK
  <2> QED  BY ZenonT(30), <1>2, <1>3, <2>1, <2>3, <2>4, IdentityAssumption DEF NoConnLost
<1> QED  BY Zenon, <1>1, <1>4, <1>5 DEF QueueConnGetFree, QueueFull

(* The thread that is given a Conn has none yet.                           *)
LEMMA KeptAssign ==
    ASSUME FixedInv, NoConnLost, NEW d \in Callers, AssignConn(d)
    PROVE  NoConnLost'
<1> USE DEF FixedInv
<1>1. /\ UNCHANGED <<free, wait, pc, cur>> /\ dpc[d] = "assign"
      /\ argConn' = [argConn EXCEPT ![darg[d]] = dconn[d]]
      /\ dconn' = [dconn EXCEPT ![d] = NULL]
  BY ZenonT(30) DEF AssignConn, poolVars
<1>2. PICK i \in Slots : i = darg[d]  BY ZenonT(30), <1>1 DEF PtrInv, CallerPointers
<1>3. pc[i] \in WaitPcs /\ argConn[i] = NULL
  BY Zenon, <1>1, <1>2 DEF Handover, AssignIdle
<1>4. /\ argConn'[i] = dconn[d] /\ pc'[i] = pc[i]
      /\ \A j \in Slots : j # i => argConn'[j] = argConn[j]
      /\ \A e \in Callers : e # d => dconn'[e] = dconn[e]
  BY Zenon, <1>1, <1>2 DEF PtrInv, TypeOK, ThreadTypeOK, CallTypeOK
<1>5. Holds(i) = NULL /\ Holds(i)' = dconn[d] /\ pc'[i] \in OwnerPcs
  BY ZenonT(30), <1>3, <1>4 DEF Holds, Running, WaitPcs, OwnerPcs
<1>6. \A j \in Slots : j # i => Holds(j)' = Holds(j)
  BY ZenonT(30), <1>1, <1>4 DEF Holds, Running
<1> SUFFICES ASSUME NEW c \in Conns
             PROVE  \/ c \in free
                    \/ \E e \in Callers : dconn'[e] = c
                    \/ \E k \in 1 .. Len(wait) : wait[k] = c
                    \/ \E j \in Slots : Holds(j)' = c /\ pc'[j] \in OwnerPcs
  BY ZenonT(30), <1>1 DEF NoConnLost, OwnerPcs
<1>7. \/ c \in free
      \/ \E e \in Callers : dconn[e] = c
      \/ \E k \in 1 .. Len(wait) : wait[k] = c
      \/ \E j \in Slots : Holds(j) = c /\ pc[j] \in OwnerPcs
  BY Zenon DEF NoConnLost, OwnerPcs
<1>8. ASSUME NEW e \in Callers, dconn[e] = c
      PROVE  (\E f \in Callers : dconn'[f] = c)
                \/ \E j \in Slots : Holds(j)' = c /\ pc'[j] \in OwnerPcs
  BY ZenonT(30), <1>4, <1>5, <1>8
<1>9. ASSUME NEW j \in Slots, Holds(j) = c, pc[j] \in OwnerPcs
      PROVE  \E k \in Slots : Holds(k)' = c /\ pc'[k] \in OwnerPcs
  <2>1. j # i  BY ZenonT(30), <1>5, <1>9, IdentityAssumption
  <2>2. Holds(j)' = c /\ pc'[j] \in OwnerPcs  BY Zenon, <1>1, <1>6, <1>9, <2>1
  <2> QED  BY <2>2, Zenon
<1> QED  BY <1>7, <1>8, <1>9, Zenon

LEMMA KeptAppend ==
    ASSUME FixedInv, NoConnLost, NEW d \in Callers, AppendWaiting(d)
    PROVE  NoConnLost'
<1> USE DEF FixedInv
<1>1. /\ UNCHANGED <<free, pc, argConn, cur>> /\ dpc[d] = "append"
      /\ wait' = Append(wait, dconn[d]) /\ dconn' = [dconn EXCEPT ![d] = NULL]
  BY Zenon DEF AppendWaiting, threadVars
<1>2. \A e \in Callers : e # d => dconn'[e] = dconn[e]
  BY Zenon, <1>1 DEF PtrInv, TypeOK, CallTypeOK
<1>3. \A i \in Slots : Holds(i)' = Holds(i)  BY Zenon, <1>1 DEF Holds, Running
<1>4. wait \in Seq(Conns) /\ dconn[d] \in Conns
  BY Zenon, <1>1 DEF PtrInv, TypeOK, PoolTypeOK, CallTypeOK, CallerPointers
<1>5. Len(wait') = Len(wait) + 1 /\ Len(wait) \in Nat /\ wait'[Len(wait) + 1] = dconn[d]
  BY <1>1, <1>4
<1>7. \A k \in 1 .. Len(wait) : k \in 1 .. Len(wait') /\ wait'[k] = wait[k]
  BY <1>1, <1>4, <1>5
<1>6. \E k \in 1 .. Len(wait') : wait'[k] = dconn[d]
  <2>1. Len(wait) + 1 \in 1 .. Len(wait')  BY <1>5
  <2> QED  BY <1>5, <2>1, Zenon
<1> QED  BY ZenonT(30), <1>1, <1>2, <1>3, <1>6, <1>7 DEF NoConnLost

(* A signal or the creation of a thread takes no Conn away.                *)
LEMMA KeptOtherCall ==
    ASSUME FixedInv, NoConnLost, NEW d \in Callers,
           \/ CreateConnThread(d) \/ CreateFailed(d) \/ PopIdleThread(d) \/ DecideCreate(d)
           \/ SignalThread(d) \/ CountCreate(d) \/ StartRetry(d)
    PROVE  NoConnLost'
<1> USE DEF FixedInv
<1>1. UNCHANGED <<free, wait, dconn>>
  BY ZenonT(30) DEF CreateConnThread, CreateFailed, PopIdleThread, DecideCreate, SignalThread,
     CountCreate, StartRetry, poolVars, callVars
<1>2. CASE CreateFailed(d) \/ PopIdleThread(d) \/ DecideCreate(d) \/ CountCreate(d) \/ StartRetry(d)
  <2>1. UNCHANGED <<pc, argConn, cur>>
    BY ZenonT(30), <1>2 DEF CreateFailed, PopIdleThread, DecideCreate, CountCreate, StartRetry, threadVars
  <2> QED  BY ZenonT(30), <1>1, <2>1, KeptFrame DEF Holds, Running
<1>3. CASE SignalThread(d)
  <2>1. darg[d] \in Slots  BY ZenonT(30), <1>3 DEF SignalThread, PtrInv, CallerPointers
  <2>2. \A j \in Slots : pc'[j] = pc[j] \/ (pc[j] = "waiting" /\ pc'[j] = "signaled")
    BY ZenonT(30), <1>3, <2>1 DEF SignalThread, PtrInv, TypeOK, ThreadTypeOK
  <2>3. UNCHANGED <<argConn, cur>>  BY Zenon, <1>3 DEF SignalThread
  <2>4. \A j \in Slots : pc[j] \in OwnerPcs => pc'[j] \in OwnerPcs /\ Holds(j)' = Holds(j)
    BY ZenonT(30), <2>2, <2>3 DEF Holds, Running, OwnerPcs
  <2> QED  BY ZenonT(30), <1>1, <2>4, KeptFrame
<1>4. CASE CreateConnThread(d)
  <2>1. \A i \in Slots : state(i) = "free" => pc[i] = "none"
    BY Zenon DEF state, PtrInv, TypeOK, ThreadTypeOK, ThreadPcs, IdlePcs, ReadyPcs, BusyPcs, DeadPcs
  <2>2. \A j \in Slots : pc[j] # "none" =>
           pc'[j] = pc[j] /\ argConn'[j] = argConn[j] /\ cur'[j] = cur[j]
    BY ZenonT(30), <1>4, <2>1 DEF CreateConnThread, threadVars, PtrInv, TypeOK, ThreadTypeOK
  <2>3. \A j \in Slots : pc[j] \in OwnerPcs => pc'[j] \in OwnerPcs /\ Holds(j)' = Holds(j)
    BY ZenonT(30), <2>2 DEF Holds, Running, OwnerPcs
  <2> QED  BY ZenonT(30), <1>1, <2>3, KeptFrame
<1> QED  BY Zenon, <1>2, <1>3, <1>4

LEMMA KeptStep ==
    ASSUME FixedPool, FixedInv, NoSurplus, CallerEmpty, NoConnLost, [Next]_vars
    PROVE  NoConnLost'
<1>1. CASE UNCHANGED vars
  BY ZenonT(30), <1>1 DEF NoConnLost, Holds, Running, vars, poolVars, threadVars, driverVars, callVars
<1>2. ASSUME NEW i \in Slots, ThreadStep(i) \/ IdleTimeout(i) \/ IdleSpurious(i)
      PROVE  NoConnLost'
  BY Zenon, <1>2, KeptThread, KeptDequeue, KeptFreeConn
<1>3. ASSUME NEW d \in Callers, CallStep(d) \/ StartRetry(d) \/ QueueNew(d)
      PROVE  NoConnLost'
  BY Zenon, <1>3, KeptGetFree, KeptAssign, KeptAppend, KeptOtherCall DEF CallStep
<1>4. ASSUME NEW d \in Drivers, DriverTriggered(d) \/ PollTimeout(d) \/ DriverCollect(d)
      PROVE  NoConnLost'
  <2>1. UNCHANGED <<free, wait, dconn, pc, argConn, cur>>
    BY ZenonT(30), <1>4 DEF DriverTriggered, PollTimeout, DriverCollect, poolVars, threadVars, callVars
  <2> QED  BY ZenonT(30), <2>1, KeptFrame DEF Holds, Running
<1> QED  BY <1>1, <1>2, <1>3, <1>4, NoOutside, Zenon DEF Next
=============================================================================
