---------------------------- MODULE DbPoolProofs ----------------------------
(***************************************************************************)
(* A database pool, for every number of handles, threads and bounces: only *)
(* one thread collects handles; connections that were open at a bounce are *)
(* known to be stale; a handle is in one place, with the pool, a thread or *)
(* a check; the pool list keeps connected handles first; and the pool      *)
(* implements the allocator that grants all handles of a request or none.  *)
(***************************************************************************)
EXTENDS DbPool, Counting

Pcs == {"idle", "enter", "queued", "woken", "collecting", "getwoken", "connect", "failed",
        "own", "put"}
CollectPcs == {"collecting", "getwoken"}

(* The inductive form of OneCollector: if Pool.waiting is set there is a   *)
(* thread for which it is set, and no other collects.                      *)
Sole(p, w) ==
    /\ w => \E t \in Threads : \A u \in Threads : p[u] \in CollectPcs <=> u = t
    /\ ~w => \A u \in Threads : p[u] \notin CollectPcs

CollectInv == pc \in [Threads -> Pcs] /\ waiting \in BOOLEAN /\ Sole(pc, waiting)

LEMMA CollectForm == CollectInv => OneCollector
<1> SUFFICES ASSUME CollectInv PROVE OneCollector
  BY Zenon
<1> DEFINE C == {t \in Threads : pc[t] \in {"collecting", "getwoken"}}
<1>1. CASE waiting
  <2>1. PICK t \in Threads : \A u \in Threads : pc[u] \in CollectPcs <=> u = t
    BY Zenon, <1>1 DEF CollectInv, Sole
  <2>2. C = {t}  BY Zenon, <2>1 DEF CollectPcs
  <2>3. Cardinality(C) = 1  BY Zenon, <2>2, FS_Singleton
  <2> QED  BY Zenon, <1>1, <2>3 DEF OneCollector
<1>2. CASE ~waiting
  <2>1. C = {}  BY Zenon, <1>2 DEF CollectInv, Sole, CollectPcs
  <2>2. Cardinality(C) = 0  BY Zenon, <2>1, FS_EmptySet
  <2> QED  BY Zenon, <1>2, <2>2 DEF OneCollector
<1> QED  BY Zenon, <1>1, <1>2

LEMMA CollectInit == Init => CollectInv
BY Zenon DEF Init, CollectInv, Sole, Pcs, CollectPcs

(* A thread that does not collect goes on, and the one that collects may   *)
(* be told that handles are back.                                          *)
LEMMA CollectMove ==
    ASSUME CollectInv, NEW t \in Threads, pc[t] \notin CollectPcs,
           NEW v \in Pcs \ CollectPcs, waiting' = waiting,
           pc' = [pc EXCEPT ![t] = v] \/ pc' = SignalGet([pc EXCEPT ![t] = v])
    PROVE  CollectInv'
<1>1. pc' \in [Threads -> Pcs]  BY Zenon DEF CollectInv, SignalGet, Pcs
<1>2. \A u \in Threads : pc'[u] \in CollectPcs <=> pc[u] \in CollectPcs
  BY Zenon DEF CollectInv, SignalGet, CollectPcs
<1> QED  BY Zenon, <1>1, <1>2 DEF CollectInv, Sole

(* The thread has all handles, or gives up, and lets the next one collect. *)
LEMMA CollectEnds ==
    ASSUME CollectInv, NEW t \in Threads, NEW v \in Pcs \ CollectPcs, waiting' = FALSE,
           pc[t] \in CollectPcs \/ ~waiting,
           pc' \in SignalWait([pc EXCEPT ![t] = v])
    PROVE  CollectInv'
<1>1. \A u \in Threads : u # t => pc[u] \notin CollectPcs
  BY Zenon DEF CollectInv, Sole
<1> DEFINE q == [pc EXCEPT ![t] = v]
<1>2. q \in [Threads -> Pcs] /\ \A u \in Threads : q[u] \notin CollectPcs
  BY Zenon, <1>1 DEF CollectInv
<1> HIDE DEF q
<1>3. pc' = q \/ \E s \in Threads : pc' = [q EXCEPT ![s] = "woken"]
  BY Zenon DEF SignalWait, q
<1>4. pc' \in [Threads -> Pcs] /\ \A u \in Threads : pc'[u] \notin CollectPcs
  BY Zenon, <1>2, <1>3 DEF Pcs, CollectPcs
<1> QED  BY Zenon, <1>4 DEF CollectInv, Sole

LEMMA CollectCollect ==
    ASSUME CollectInv, NEW t \in Threads, Collect(t)
    PROVE  CollectInv'
<1>1. waiting' \in BOOLEAN  BY DEF Collect
<1>2. pc[t] \in CollectPcs \/ ~waiting  BY Zenon DEF Collect, CollectPcs
<1>3. CASE ~waiting'
  <2>1. pc' \in SignalWait([pc EXCEPT ![t] = "connect"])  BY Zenon, <1>3 DEF Collect
  <2>2. "connect" \in Pcs \ CollectPcs  BY Zenon DEF Pcs, CollectPcs
  <2> QED  BY Zenon, <1>1, <1>2, <1>3, <2>1, <2>2, CollectEnds
<1>4. CASE waiting'
  <2>1. pc' = [pc EXCEPT ![t] = "collecting"]  BY Zenon, <1>4 DEF Collect
  <2>2. \A u \in Threads : u # t => pc[u] \notin CollectPcs
    BY Zenon, <1>2 DEF CollectInv, Sole
  <2>3. pc' \in [Threads -> Pcs]  BY Zenon, <2>1 DEF CollectInv, Pcs
  <2>4. \A u \in Threads : pc'[u] \in CollectPcs <=> u = t
    BY Zenon, <2>1, <2>2 DEF CollectInv, CollectPcs
  <2> QED  BY Zenon, <1>1, <1>4, <2>3, <2>4 DEF CollectInv, Sole
<1> QED  BY Zenon, <1>1, <1>3, <1>4

LEMMA CollectGetTimeout ==
    ASSUME CollectInv, NEW t \in Threads, GetTimeout(t)
    PROVE  CollectInv'
<1>1. PICK v \in {"connect", "failed"} : pc' \in SignalWait([pc EXCEPT ![t] = v])
  BY Zenon DEF GetTimeout
<1>2. waiting' = FALSE /\ pc[t] \in CollectPcs  BY Zenon DEF GetTimeout, CollectPcs
<1>3. v \in Pcs \ CollectPcs  BY Zenon DEF Pcs, CollectPcs
<1> QED  BY Zenon, <1>1, <1>2, <1>3, CollectEnds

(* The other steps of a thread.                                            *)
LEMMA CollectThread ==
    ASSUME CollectInv, NEW t \in Threads,
           \/ Queue(t) \/ QueueTimeout(t) \/ GetFailed(t) \/ PutReturn(t)
           \/ \E n : Connect(t, n)
           \/ \E h : PutHandle(t, h)
           \/ \E n : BeginGet(t, n)
    PROVE  CollectInv'
<1>1. pc[t] \notin CollectPcs /\ waiting' = waiting
  BY Zenon DEF Queue, QueueTimeout, GetFailed, PutReturn, Connect, PutHandle, BeginGet, CollectPcs,
         poolVars
<1>2. \E v \in {"queued", "failed", "idle", "own", "put", "enter"} :
         pc' = [pc EXCEPT ![t] = v] \/ pc' = SignalGet([pc EXCEPT ![t] = v])
  BY Zenon DEF Queue, QueueTimeout, GetFailed, PutReturn, Connect, PutHandle, BeginGet
<1>3. PICK v \in {"queued", "failed", "idle", "own", "put", "enter"} :
         pc' = [pc EXCEPT ![t] = v] \/ pc' = SignalGet([pc EXCEPT ![t] = v])
  BY Zenon, <1>2
<1>4. v \in Pcs \ CollectPcs  BY Zenon DEF Pcs, CollectPcs
<1> QED  BY Zenon, <1>1, <1>3, <1>4, CollectMove

(* CheckPool returns its handles.                                          *)
LEMMA CollectCheckReturn ==
    ASSUME CollectInv, NEW k, CheckReturn(k)
    PROVE  CollectInv'
<1>1. pc' = SignalGet(pc) /\ waiting' = waiting  BY Zenon DEF CheckReturn
<1>2. pc' \in [Threads -> Pcs]  BY Zenon, <1>1 DEF CollectInv, SignalGet, Pcs
<1>3. \A u \in Threads : pc'[u] \in CollectPcs <=> pc[u] \in CollectPcs
  BY Zenon, <1>1 DEF CollectInv, SignalGet, CollectPcs
<1> QED  BY Zenon, <1>1, <1>2, <1>3 DEF CollectInv, Sole

LEMMA CollectStep == CollectInv /\ [Next]_vars => CollectInv'
<1> SUFFICES ASSUME CollectInv, [Next]_vars PROVE CollectInv'
  BY Zenon
<1>1. ASSUME UNCHANGED <<pc, waiting>> PROVE CollectInv'
  BY Zenon, <1>1 DEF CollectInv
<1>2. CASE UNCHANGED vars  BY Zenon, <1>1, <1>2 DEF vars, poolVars, threadVars
<1>3. ASSUME NEW t \in Threads,
             \/ ThreadStep(t) \/ QueueTimeout(t) \/ GetTimeout(t)
             \/ \E n \in 1 .. Cardinality(Handles) : BeginGet(t, n)
      PROVE  CollectInv'
  BY <1>3, CollectCollect, CollectGetTimeout, CollectThread, Zenon DEF ThreadStep
<1>4. ASSUME NEW t \in Threads, NEW h, Disconnect(t, h) PROVE CollectInv'
  BY Zenon, <1>1, <1>4 DEF Disconnect, poolVars, threadVars
<1>5. ASSUME NEW k, CheckGrab(k) \/ CheckHandle(k) \/ Ns_DbBouncePool(k) PROVE CollectInv'
  BY Zenon, <1>1, <1>5 DEF CheckGrab, CheckHandle, Ns_DbBouncePool, poolVars, threadVars
<1> QED
  BY <1>2, <1>3, <1>4, <1>5, CollectCheckReturn, Zenon DEF Next, CheckStep

(* At every time at most one thread collects the handles it wants, and     *)
(* Pool.waiting tells so: threads that each hold a part and wait for the   *)
(* rest cannot block each other.                                           *)
THEOREM CollectorIsAlone == Spec => []OneCollector
<1>1. Spec => []CollectInv  BY CollectInit, CollectStep, PTL DEF Spec
<1> QED  BY <1>1, CollectForm, PTL

-----------------------------------------------------------------------------
(* A handle never has a stale_on_close from the future, so that one that   *)
(* is not in the list at a bounce is older than the bounce.                *)
StaleInv ==
    /\ closes \in Nat /\ hcloses \in [Handles -> Nat]
    /\ \A h \in Handles : hcloses[h] <= closes
    /\ connected \subseteq Handles /\ old \subseteq connected
    /\ BouncedAreStale

LEMMA StaleInit == Init => StaleInv
BY DEF Init, StaleInv, BouncedAreStale

(* A connection is closed: the handle is no longer stale, or old.          *)
LEMMA StaleClose ==
    ASSUME StaleInv, NEW h, UNCHANGED <<closes, hcloses>>,
           NsDbDisconnect(h) \/ UNCHANGED <<connected, stale, old>>
    PROVE  StaleInv'
BY Zenon DEF StaleInv, BouncedAreStale, MustBeStale, NsDbDisconnect

(* Handles that were not connected become so: they are not old.            *)
LEMMA StaleConnect ==
    ASSUME StaleInv, NEW t, NEW n, Connect(t, n)
    PROVE  StaleInv'
<1>1. UNCHANGED <<closes, hcloses, old>>  BY Zenon DEF Connect
<1>2. connected \subseteq connected' /\ connected' \subseteq Handles
  BY Zenon DEF Connect, StaleInv
<1>3. stale' = stale \/ \E h : h \notin connected /\ stale' = stale \ {h}
  <2>1. CASE n < Len(got[t])  BY <2>1, Zenon DEF Connect
  <2>2. CASE ~(n < Len(got[t]))  BY Zenon, <2>2 DEF Connect
  <2> QED  BY Zenon, <2>1, <2>2
<1>4. BouncedAreStale'
  BY Zenon, <1>1, <1>2, <1>3 DEF StaleInv, BouncedAreStale, MustBeStale
<1> QED  BY Zenon, <1>1, <1>2, <1>4 DEF StaleInv

(* At a bounce every open connection becomes old.  Those whose handle is   *)
(* in the list are marked; the counter of the others is behind.            *)
LEMMA StaleBounce ==
    ASSUME StaleInv, NEW k, Ns_DbBouncePool(k)
    PROVE  StaleInv'
<1>1. /\ closes' = closes + 1 /\ old' = connected /\ connected' = connected
      /\ stale' = stale \union (Range(list) \intersect connected)
      /\ hcloses' = [h \in Handles |-> IF h \in Range(list) THEN closes' ELSE hcloses[h]]
  BY Zenon DEF Ns_DbBouncePool
<1>2. closes' \in Nat /\ hcloses' \in [Handles -> Nat]
  BY <1>1 DEF StaleInv
<1>3. \A h \in Handles : hcloses'[h] <= closes'
  BY <1>1 DEF StaleInv
<1>4. ASSUME NEW h \in connected PROVE MustBeStale(h)'
  <2>1. h \in Handles  BY Zenon DEF StaleInv
  <2>2. CASE h \in Range(list)  BY Zenon, <1>1, <2>2 DEF MustBeStale
  <2>3. CASE h \notin Range(list)
    <3>1. hcloses'[h] = hcloses[h]  BY Zenon, <1>1, <2>1, <2>3
    <3>2. closes' > hcloses'[h]  BY <1>1, <2>1, <3>1 DEF StaleInv
    <3> QED  BY Zenon, <1>1, <3>2 DEF MustBeStale
  <2> QED  BY Zenon, <2>2, <2>3
<1>5. BouncedAreStale'  BY Zenon, <1>1, <1>4 DEF BouncedAreStale
<1> QED  BY Zenon, <1>1, <1>2, <1>3, <1>5 DEF StaleInv

LEMMA StaleStep == StaleInv /\ [Next]_vars => StaleInv'
<1> SUFFICES ASSUME StaleInv, [Next]_vars PROVE StaleInv'
  BY Zenon
<1>1. ASSUME UNCHANGED handleVars PROVE StaleInv'
  BY Zenon, <1>1, StaleClose DEF handleVars
<1>2. CASE UNCHANGED vars  BY Zenon, <1>1, <1>2 DEF vars
<1>3. ASSUME NEW t \in Threads,
             \/ Queue(t) \/ Collect(t) \/ GetFailed(t) \/ PutReturn(t)
             \/ QueueTimeout(t) \/ GetTimeout(t) \/ \E n : BeginGet(t, n)
      PROVE  StaleInv'
  BY Zenon, <1>1, <1>3 DEF Queue, Collect, GetFailed, PutReturn, QueueTimeout, GetTimeout, BeginGet
<1>4. ASSUME NEW t, NEW h, PutHandle(t, h) \/ Disconnect(t, h) PROVE StaleInv'
  BY Zenon, <1>4, StaleClose DEF PutHandle, Disconnect, CloseIfStale
<1>5. ASSUME NEW k, CheckGrab(k) \/ CheckReturn(k) PROVE StaleInv'
  BY Zenon, <1>1, <1>5 DEF CheckGrab, CheckReturn
<1>6. ASSUME NEW k, CheckHandle(k) PROVE StaleInv'
  BY Zenon, <1>6, StaleClose DEF CheckHandle, CloseIfStale
<1> QED
  BY <1>2, <1>3, <1>4, <1>5, <1>6, StaleConnect, StaleBounce, Zenon
     DEF Next, ThreadStep, CheckStep

(* A connection that was open at a bounce is closed when its handle is put *)
(* or checked next, wherever the handle was: a bounce misses none, however *)
(* it races Ns_DbPoolPutHandle and CheckPool.                              *)
THEOREM BounceMissesNone == Spec => []BouncedAreStale
<1>1. Spec => []StaleInv  BY StaleInit, StaleStep, PTL DEF Spec
<1> QED  BY <1>1, PTL DEF StaleInv

-----------------------------------------------------------------------------
(* Lists of handles.                                                       *)

(* The sequence s has the elements of H, each once.                        *)
Lists(s, H) == s \in Seq(Handles) /\ IsInjective(s) /\ Range(s) = H

(* Its connected handles come first.                                       *)
Sorted(s) == \A i, j \in 1 .. Len(s) : i < j /\ s[j] \in connected => s[i] \in connected

(* The form of Lists without DOMAIN.                                       *)
LEMMA ListsForm ==
    ASSUME NEW s \in Seq(Handles), NEW H
    PROVE  Lists(s, H) <=> /\ \A i, j \in 1 .. Len(s) : s[i] = s[j] => i = j
                           /\ \A h : h \in H <=> \E i \in 1 .. Len(s) : s[i] = h
<1>1. DOMAIN s = 1 .. Len(s)  OBVIOUS
<1>2. IsInjective(s) <=> \A i, j \in 1 .. Len(s) : s[i] = s[j] => i = j
  BY Zenon, <1>1 DEF IsInjective
<1>3. Range(s) = {s[i] : i \in 1 .. Len(s)}  BY Zenon, <1>1 DEF Range
<1> QED  BY <1>2, <1>3 DEF Lists

LEMMA ListsFacts ==
    ASSUME NEW s, NEW H, Lists(s, H)
    PROVE  /\ s \in Seq(Handles) /\ Len(s) \in Nat /\ DOMAIN s = 1 .. Len(s)
           /\ \A i, j \in 1 .. Len(s) : s[i] = s[j] => i = j
           /\ \A h : h \in H <=> \E i \in 1 .. Len(s) : s[i] = h
<1>1. s \in Seq(Handles)  BY Zenon DEF Lists
<1>2. Len(s) \in Nat /\ DOMAIN s = 1 .. Len(s)  BY <1>1
<1> QED  BY <1>1, <1>2, ListsForm, Zenon

LEMMA ListsSize ==
    ASSUME NEW s, NEW H, Lists(s, H)
    PROVE  IsFiniteSet(H) /\ Cardinality(H) = Len(s) /\ H \subseteq Handles
<1>1. /\ s \in Seq(Handles)
      /\ \A i, j \in 1 .. Len(s) : s[i] = s[j] => i = j
      /\ \A h : h \in H <=> \E i \in 1 .. Len(s) : s[i] = h
  BY ListsFacts, Zenon
<1>2. Len(s) \in Nat /\ s \in [1 .. Len(s) -> Handles]  BY <1>1
<1>3. H \subseteq Handles  BY <1>1, <1>2
<1>4. s \in Bijection(1 .. Len(s), H)
  BY Zenon, <1>1, <1>2 DEF Bijection, Injection, Surjection, IsInjective
<1>5. ExistsBijection(1 .. Len(s), H)  BY Zenon, <1>4 DEF ExistsBijection
<1> QED  BY Zenon, <1>2, <1>3, <1>5, FS_CountingElements, FS_NatBijection

(* The rest of a list without its first n elements.                        *)
LEMMA ListsDrop ==
    ASSUME NEW s, NEW H, Lists(s, H), NEW n \in 0 .. Len(s),
           NEW b \in Seq(Handles), Len(b) = Len(s) - n,
           \A i \in 1 .. Len(s) - n : b[i] = s[n + i]
    PROVE  Lists(b, H \ {s[i] : i \in 1 .. n})
<1> DEFINE A == {s[i] : i \in 1 .. n}
<1>1. /\ s \in Seq(Handles) /\ Len(s) \in Nat
      /\ \A i, j \in 1 .. Len(s) : s[i] = s[j] => i = j
      /\ \A h : h \in H <=> \E i \in 1 .. Len(s) : s[i] = h
  BY ListsFacts, Zenon
<1>2. \A i, j \in 1 .. Len(b) : b[i] = b[j] => i = j
  <2> SUFFICES ASSUME NEW i \in 1 .. Len(b), NEW j \in 1 .. Len(b), b[i] = b[j]
               PROVE  i = j
    BY Zenon
  <2>1. n + i \in 1 .. Len(s) /\ n + j \in 1 .. Len(s)  BY <1>1
  <2>2. n + i = n + j  BY Zenon, <1>1, <2>1
  <2> QED  BY <1>1, <2>2
<1>3. ASSUME NEW h PROVE h \in H \ A <=> \E i \in 1 .. Len(b) : b[i] = h
  <2>1. ASSUME NEW i \in 1 .. Len(b), b[i] = h PROVE h \in H \ A
    <3>1. n + i \in 1 .. Len(s) /\ s[n + i] = h  BY <1>1, <2>1
    <3>2. \A k \in 1 .. n : k \in 1 .. Len(s) /\ k # n + i  BY <1>1
    <3> QED  BY Zenon, <1>1, <3>1, <3>2
  <2>2. ASSUME h \in H \ A PROVE \E i \in 1 .. Len(b) : b[i] = h
    <3>1. PICK k \in 1 .. Len(s) : s[k] = h  BY Zenon, <1>1, <2>2
    <3>2. k \notin 1 .. n  BY Zenon, <2>2, <3>1
    <3>3. k - n \in 1 .. Len(b) /\ b[k - n] = h  BY <1>1, <3>1, <3>2
    <3> QED  BY <3>3, Zenon
  <2> QED  BY Zenon, <2>1, <2>2
<1> HIDE DEF A
<1>4. Lists(b, H \ A)  BY Zenon, <1>2, <1>3, ListsForm
<1> QED  BY Zenon, <1>4 DEF A

(* The first n elements are taken off a list.                              *)
LEMMA ListsSplit ==
    ASSUME NEW s, NEW H, Lists(s, H), NEW n \in 0 .. Len(s)
    PROVE  LET a == SubSeq(s, 1, n)
               b == SubSeq(s, n + 1, Len(s))
           IN /\ Lists(a, Range(a)) /\ Range(a) \subseteq H /\ Len(a) = n
              /\ Lists(b, H \ Range(a))
              /\ Sorted(s) => Sorted(b)
<1> DEFINE a == SubSeq(s, 1, n)
           b == SubSeq(s, n + 1, Len(s))
<1>1. /\ s \in Seq(Handles) /\ Len(s) \in Nat
      /\ \A i, j \in 1 .. Len(s) : s[i] = s[j] => i = j
      /\ \A h : h \in H <=> \E i \in 1 .. Len(s) : s[i] = h
  BY ListsFacts, Zenon
<1>2. a \in Seq(Handles) /\ Len(a) = n /\ \A i \in 1 .. n : a[i] = s[i]
  BY <1>1
<1>3. b \in Seq(Handles) /\ Len(b) = Len(s) - n /\ \A i \in 1 .. Len(s) - n : b[i] = s[n + i]
  BY <1>1
<1> HIDE DEF a, b
<1>4. Range(a) = {s[i] : i \in 1 .. n}  BY <1>2 DEF Range
<1>5. Lists(a, Range(a)) /\ Range(a) \subseteq H
  <2>1. \A i, j \in 1 .. Len(a) : a[i] = a[j] => i = j  BY <1>1, <1>2
  <2>2. DOMAIN a = 1 .. Len(a)  BY <1>2
  <2>3. IsInjective(a)  BY Zenon, <2>1, <2>2 DEF IsInjective
  <2> QED  BY <1>1, <1>2, <1>4, <2>3 DEF Lists
<1>6. Lists(b, H \ Range(a))  BY Zenon, <1>3, <1>4, ListsDrop
<1>7. ASSUME Sorted(s) PROVE Sorted(b)
  <2> SUFFICES ASSUME NEW i \in 1 .. Len(b), NEW j \in 1 .. Len(b), i < j, b[j] \in connected
               PROVE  b[i] \in connected
    BY Zenon DEF Sorted
  <2>1. n + i \in 1 .. Len(s) /\ n + j \in 1 .. Len(s) /\ n + i < n + j  BY <1>1, <1>3
  <2> QED  BY Zenon, <1>3, <1>7, <2>1 DEF Sorted
<1> QED  BY Zenon, <1>2, <1>5, <1>6, <1>7 DEF a, b

LEMMA ListsJoin ==
    ASSUME NEW s, NEW X, Lists(s, X), NEW t, NEW Y, Lists(t, Y), X \intersect Y = {}
    PROVE  Lists(s \o t, X \union Y) /\ Len(s \o t) = Len(s) + Len(t)
<1> DEFINE r == s \o t
<1>1. /\ s \in Seq(Handles) /\ Len(s) \in Nat
      /\ \A i, j \in 1 .. Len(s) : s[i] = s[j] => i = j
      /\ \A h : h \in X <=> \E i \in 1 .. Len(s) : s[i] = h
  BY ListsFacts, Zenon
<1>2. /\ t \in Seq(Handles) /\ Len(t) \in Nat
      /\ \A i, j \in 1 .. Len(t) : t[i] = t[j] => i = j
      /\ \A h : h \in Y <=> \E i \in 1 .. Len(t) : t[i] = h
  BY ListsFacts, Zenon
<1>3. /\ r \in Seq(Handles) /\ Len(r) = Len(s) + Len(t)
      /\ \A i \in 1 .. Len(r) : r[i] = IF i <= Len(s) THEN s[i] ELSE t[i - Len(s)]
  BY <1>1, <1>2
<1> HIDE DEF r
<1>4. \A i \in 1 .. Len(r) : /\ i <= Len(s) => i \in 1 .. Len(s) /\ r[i] = s[i] /\ r[i] \in X
                             /\ ~(i <= Len(s)) => /\ i - Len(s) \in 1 .. Len(t)
                                                  /\ r[i] = t[i - Len(s)] /\ r[i] \in Y
  BY <1>1, <1>2, <1>3
<1>5. \A i, j \in 1 .. Len(r) : r[i] = r[j] => i = j
  <2> SUFFICES ASSUME NEW i \in 1 .. Len(r), NEW j \in 1 .. Len(r), r[i] = r[j]
               PROVE  i = j
    BY Zenon
  <2>1. CASE i <= Len(s) /\ j <= Len(s)  BY Zenon, <1>1, <1>4, <2>1
  <2>2. CASE ~(i <= Len(s)) /\ ~(j <= Len(s))
    <3>1. i - Len(s) = j - Len(s)  BY Zenon, <1>2, <1>4, <2>2
    <3> QED  BY <1>1, <1>3, <3>1
  <2>3. (i <= Len(s)) <=> (j <= Len(s))  BY <1>4, Zenon
  <2> QED  BY Zenon, <2>1, <2>2, <2>3
<1>6. ASSUME NEW h PROVE h \in X \union Y <=> \E i \in 1 .. Len(r) : r[i] = h
  <2>1. ASSUME h \in X PROVE \E i \in 1 .. Len(r) : r[i] = h
    <3>1. PICK i \in 1 .. Len(s) : s[i] = h  BY Zenon, <1>1, <2>1
    <3>2. i \in 1 .. Len(r) /\ r[i] = h  BY <1>1, <1>2, <1>3, <3>1
    <3> QED  BY <3>2, Zenon
  <2>2. ASSUME h \in Y PROVE \E i \in 1 .. Len(r) : r[i] = h
    <3>1. PICK i \in 1 .. Len(t) : t[i] = h  BY Zenon, <1>2, <2>2
    <3> DEFINE m == Len(s) + i
    <3>2. m \in 1 .. Len(r) /\ ~(m <= Len(s)) /\ m - Len(s) = i  BY <1>1, <1>2, <1>3
    <3> HIDE DEF m
    <3>3. r[m] = h  BY Zenon, <1>3, <3>1, <3>2
    <3> QED  BY <3>2, <3>3, Zenon
  <2>3. ASSUME NEW i \in 1 .. Len(r), r[i] = h PROVE h \in X \union Y  BY <1>4, <2>3, Zenon
  <2> QED  BY Zenon, <2>1, <2>2, <2>3
<1> QED  BY Zenon, <1>3, <1>5, <1>6, ListsForm DEF r

LEMMA ListsOne ==
    ASSUME NEW h \in Handles
    PROVE  Lists(<<h>>, {h}) /\ Len(<<h>>) = 1
<1> DEFINE s == <<h>>
<1>1. s \in Seq(Handles) /\ Len(s) = 1 /\ s[1] = h  OBVIOUS
<1> HIDE DEF s
<1>2. \A i, j \in 1 .. Len(s) : s[i] = s[j] => i = j  BY <1>1
<1>3. \A g : g \in {h} <=> \E i \in 1 .. Len(s) : s[i] = g  BY <1>1
<1>4. Lists(s, {h})  BY Zenon, <1>1, <1>2, <1>3, ListsForm
<1> QED  BY Zenon, <1>1, <1>4 DEF s

LEMMA ListsNone == Lists(<<>>, {}) /\ Len(<<>>) = 0
<1> DEFINE s == <<>>
<1>1. s \in Seq(Handles) /\ Len(s) = 0  OBVIOUS
<1> HIDE DEF s
<1>2. \A i, j \in 1 .. Len(s) : s[i] = s[j] => i = j  BY <1>1
<1>3. \A g : g \in {} <=> \E i \in 1 .. Len(s) : s[i] = g  BY <1>1
<1>4. Lists(s, {})  BY Zenon, <1>1, <1>2, <1>3, ListsForm
<1> QED  BY Zenon, <1>1, <1>4 DEF s

LEMMA ListsTail ==
    ASSUME NEW s, NEW H, Lists(s, H), s # <<>>
    PROVE  /\ Head(s) \in H /\ Lists(Tail(s), H \ {Head(s)})
<1> DEFINE b == Tail(s)
<1>1. s \in Seq(Handles) /\ Len(s) \in Nat /\ Len(s) >= 1 /\ Head(s) = s[1]  BY DEF Lists
<1>2. b \in Seq(Handles) /\ Len(b) = Len(s) - 1 /\ \A i \in 1 .. Len(s) - 1 : b[i] = s[1 + i]
  BY <1>1
<1> HIDE DEF b
<1>3. 1 \in 0 .. Len(s) /\ 1 \in 1 .. Len(s)  BY <1>1
<1>4. Lists(b, H \ {s[i] : i \in 1 .. 1})  BY Zenon, <1>2, <1>3, ListsDrop
<1>5. {s[i] : i \in 1 .. 1} = {Head(s)}  BY <1>1
<1>6. Head(s) \in H  BY Zenon, <1>1, <1>3, ListsFacts
<1> QED  BY Zenon, <1>4, <1>5, <1>6 DEF b

LEMMA ListsReverse ==
    ASSUME NEW s, NEW H, Lists(s, H)
    PROVE  Lists(Reverse(s), H) /\ Len(Reverse(s)) = Len(s)
<1> DEFINE r == Reverse(s)
           k(i) == Len(s) - i + 1
<1>1. /\ s \in Seq(Handles) /\ Len(s) \in Nat
      /\ \A i, j \in 1 .. Len(s) : s[i] = s[j] => i = j
      /\ \A h : h \in H <=> \E i \in 1 .. Len(s) : s[i] = h
  BY ListsFacts, Zenon
<1>2. \A i \in 1 .. Len(s) : k(i) \in 1 .. Len(s) /\ k(k(i)) = i  BY <1>1
<1>3. r \in Seq(Handles) /\ Len(r) = Len(s) /\ \A i \in 1 .. Len(s) : r[i] = s[k(i)]
  BY <1>1, <1>2 DEF Reverse
<1> HIDE DEF r
<1>4. \A i, j \in 1 .. Len(r) : r[i] = r[j] => i = j
  <2> SUFFICES ASSUME NEW i \in 1 .. Len(r), NEW j \in 1 .. Len(r), r[i] = r[j]
               PROVE  i = j
    BY Zenon
  <2>1. k(i) \in 1 .. Len(s) /\ k(j) \in 1 .. Len(s)  BY Zenon, <1>2, <1>3
  <2>2. s[k(i)] = s[k(j)]
    <3> HIDE DEF k
    <3> QED  BY Zenon, <1>3
  <2>3. k(i) = k(j)
    <3> HIDE DEF k
    <3> QED  BY Zenon, <1>1, <2>1, <2>2
  <2> QED  BY <1>1, <1>3, <2>3
<1>5. ASSUME NEW h PROVE h \in H <=> \E i \in 1 .. Len(r) : r[i] = h
  <2>1. ASSUME NEW i \in 1 .. Len(r), r[i] = h PROVE h \in H  BY Zenon, <1>1, <1>2, <1>3, <2>1
  <2>2. ASSUME h \in H PROVE \E i \in 1 .. Len(r) : r[i] = h
    <3>1. PICK i \in 1 .. Len(s) : s[i] = h  BY Zenon, <1>1, <2>2
    <3>2. k(i) \in 1 .. Len(r) /\ r[k(i)] = h  BY Zenon, <1>2, <1>3, <3>1
    <3> HIDE DEF k
    <3> QED  BY <3>2, Zenon
  <2> QED  BY Zenon, <2>1, <2>2
<1> QED  BY Zenon, <1>3, <1>4, <1>5, ListsForm DEF r

LEMMA ListsWithout ==
    ASSUME NEW s, NEW H, Lists(s, H), NEW g \in H
    PROVE  Lists(Without(s, g), H \ {g}) /\ Len(Without(s, g)) = Len(s) - 1
<1> DEFINE r == Without(s, g)
           k == CHOOSE k \in 1 .. Len(s) : s[k] = g
           p(i) == IF i < k THEN i ELSE i + 1
<1>1. /\ s \in Seq(Handles) /\ Len(s) \in Nat
      /\ \A i, j \in 1 .. Len(s) : s[i] = s[j] => i = j
      /\ \A h : h \in H <=> \E i \in 1 .. Len(s) : s[i] = h
  BY ListsFacts, Zenon
<1>2. k \in 1 .. Len(s) /\ s[k] = g
  <2>1. \E i \in 1 .. Len(s) : s[i] = g  BY Zenon, <1>1
  <2> QED  BY <2>1, Zenon
<1>3. r = [i \in 1 .. Len(s) - 1 |-> s[p(i)]]  BY Zenon DEF Without
<1> HIDE DEF k, r
<1>4. \A i \in 1 .. Len(s) - 1 : p(i) \in 1 .. Len(s) /\ p(i) # k  BY <1>1, <1>2
<1>5. \A i, j \in 1 .. Len(s) - 1 : p(i) = p(j) => i = j  BY <1>1, <1>2
<1>6. \A m \in 1 .. Len(s) : m # k => \E i \in 1 .. Len(s) - 1 : p(i) = m
  <2> SUFFICES ASSUME NEW m \in 1 .. Len(s), m # k PROVE \E i \in 1 .. Len(s) - 1 : p(i) = m
    BY Zenon
  <2>1. CASE m < k
    <3>1. m \in 1 .. Len(s) - 1 /\ p(m) = m  BY <1>1, <1>2, <2>1
    <3> QED  BY Zenon, <3>1
  <2>2. CASE m > k
    <3>1. m - 1 \in 1 .. Len(s) - 1 /\ p(m - 1) = m  BY <1>1, <1>2, <2>2
    <3> QED  BY Zenon, <3>1
  <2> QED  BY <1>1, <1>2, <2>1, <2>2
<1> HIDE DEF p
<1>7. /\ r \in Seq(Handles) /\ Len(r) = Len(s) - 1
      /\ \A i \in 1 .. Len(r) : r[i] = s[p(i)]
  <2>1. Len(s) - 1 \in Nat  BY <1>1, <1>2
  <2>2. \A i \in 1 .. Len(s) - 1 : s[p(i)] \in Handles  BY <1>1, <1>4
  <2> QED  BY <1>3, <2>1, <2>2
<1>8. \A i, j \in 1 .. Len(r) : r[i] = r[j] => i = j  BY <1>1, <1>4, <1>5, <1>7
<1>9. ASSUME NEW h PROVE h \in H \ {g} <=> \E i \in 1 .. Len(r) : r[i] = h
  <2>1. ASSUME NEW i \in 1 .. Len(r), r[i] = h PROVE h \in H \ {g}
    <3>1. p(i) \in 1 .. Len(s) /\ p(i) # k /\ s[p(i)] = h  BY Zenon, <1>4, <1>7, <2>1
    <3> QED  BY Zenon, <1>1, <1>2, <3>1
  <2>2. ASSUME h \in H \ {g} PROVE \E i \in 1 .. Len(r) : r[i] = h
    <3>1. PICK m \in 1 .. Len(s) : s[m] = h  BY Zenon, <1>1, <2>2
    <3>2. m # k  BY Zenon, <1>2, <2>2, <3>1
    <3>3. PICK i \in 1 .. Len(s) - 1 : p(i) = m  BY Zenon, <1>6, <3>2
    <3> QED  BY Zenon, <1>7, <3>1, <3>3
  <2> QED  BY Zenon, <2>1, <2>2
<1> QED  BY Zenon, <1>7, <1>8, <1>9, ListsForm DEF r

(* A handle is returned: the list has it, and its connected handles are    *)
(* still the first.                                                        *)
LEMMA ListsReturn ==
    ASSUME NEW l, NEW H, Lists(l, H), NEW h \in Handles, h \notin H
    PROVE  /\ Lists(ReturnHandle(l, h), H \union {h})
           /\ Sorted(l) => Sorted(ReturnHandle(l, h))
<1>1. Lists(<<h>>, {h}) /\ {h} \intersect H = {}  BY Zenon, ListsOne
<1>2. l \in Seq(Handles) /\ Len(l) \in Nat  BY DEF Lists
<1>3. CASE h \in connected
  <2> DEFINE r == <<h>> \o l
  <2>1. ReturnHandle(l, h) = r  BY Zenon, <1>3 DEF ReturnHandle
  <2>2. Lists(r, {h} \union H)  BY Zenon, <1>1, ListsJoin
  <2>3. /\ Len(r) = Len(l) + 1 /\ r[1] = h
        /\ \A i \in 1 .. Len(r) : i # 1 => i - 1 \in 1 .. Len(l) /\ r[i] = l[i - 1]
    BY <1>2
  <2> HIDE DEF r
  <2>4. {h} \union H = H \union {h}  BY Zenon
  <2>5. ASSUME Sorted(l) PROVE Sorted(r)
    <3> SUFFICES ASSUME NEW i \in 1 .. Len(r), NEW j \in 1 .. Len(r), i < j, r[j] \in connected
                 PROVE  r[i] \in connected
      BY Zenon DEF Sorted
    <3>1. CASE i = 1  BY Zenon, <1>3, <2>3, <3>1
    <3>2. CASE i # 1
      <4>1. j # 1 /\ i - 1 < j - 1  BY <1>2, <2>3, <3>2
      <4> QED  BY Zenon, <2>3, <2>5, <3>2, <4>1 DEF Sorted
    <3> QED  BY Zenon, <3>1, <3>2
  <2> QED  BY Zenon, <2>1, <2>2, <2>4, <2>5
<1>4. CASE h \notin connected
  <2> DEFINE r == Append(l, h)
  <2>1. ReturnHandle(l, h) = r  BY Zenon, <1>4 DEF ReturnHandle
  <2>2. r = l \o <<h>>  BY <1>2
  <2>3. Lists(r, H \union {h})
    <3>1. H \intersect {h} = {}  BY Zenon
    <3> QED  BY <1>1, <2>2, <3>1, ListsJoin
  <2>4. /\ Len(r) = Len(l) + 1 /\ r[Len(r)] = h
        /\ \A i \in 1 .. Len(r) : i # Len(r) => i \in 1 .. Len(l) /\ r[i] = l[i]
    BY <1>2
  <2> HIDE DEF r
  <2>5. ASSUME Sorted(l) PROVE Sorted(r)
    <3> SUFFICES ASSUME NEW i \in 1 .. Len(r), NEW j \in 1 .. Len(r), i < j, r[j] \in connected
                 PROVE  r[i] \in connected
      BY Zenon DEF Sorted
    <3>1. j # Len(r)  BY Zenon, <1>4, <2>4
    <3>2. i # Len(r)  BY <1>2, <2>4
    <3> QED  BY Zenon, <2>4, <2>5, <3>1, <3>2 DEF Sorted
  <2> QED  BY Zenon, <2>1, <2>3, <2>5
<1> QED  BY Zenon, <1>3, <1>4

(* A loop that returns handles keeps this at every turn.                   *)
LEMMA ListsReturnAll ==
    ASSUME NEW H, Lists(list, H), NEW hs, NEW X, Lists(hs, X), X \intersect H = {}
    PROVE  /\ Lists(ReturnAll(hs), H \union X)
           /\ Sorted(list) => Sorted(ReturnAll(hs))
<1> DEFINE D == 0 .. Len(hs)
           First(n) == {hs[i] : i \in 1 .. n}
           Good(l, n) == Lists(l, H \union First(n)) /\ (Sorted(list) => Sorted(l))
           After == [n \in D |-> {l \in Seq(Handles) : Good(l, n)}]
           F == [n \in D |-> [l \in Seq(Handles) |-> ReturnHandle(l, hs[n])]]
<1>1. /\ hs \in Seq(Handles) /\ Len(hs) \in Nat
      /\ \A i, j \in 1 .. Len(hs) : hs[i] = hs[j] => i = j
      /\ \A h : h \in X <=> \E i \in 1 .. Len(hs) : hs[i] = h
  BY ListsFacts, Zenon
<1>2. ASSUME NEW m \in 1 .. Len(hs), NEW l, Good(l, m - 1)
      PROVE  Good(ReturnHandle(l, hs[m]), m)
  <2>1. hs[m] \in Handles /\ hs[m] \in X  BY <1>1
  <2>2. m - 1 \in Nat /\ \A i \in 1 .. m - 1 : i \in 1 .. Len(hs) /\ i # m  BY <1>1
  <2>3. hs[m] \notin First(m - 1)  BY Zenon, <1>1, <2>2
  <2>4. First(m) = First(m - 1) \union {hs[m]}
    <3>1. \A i : i \in 1 .. m <=> i \in 1 .. m - 1 \/ i = m  BY <1>1
    <3> QED  BY <3>1, Zenon
  <2> HIDE DEF First
  <2>5. hs[m] \notin H \union First(m - 1)  BY Zenon, <2>1, <2>3
  <2>6. (H \union First(m - 1)) \union {hs[m]} = H \union First(m)  BY Zenon, <2>4
  <2> QED  BY Zenon, <1>2, <2>1, <2>5, <2>6, ListsReturn
<1> HIDE DEF Good
<1>3. Good(list, 0)
  <2>1. First(0) = {}  OBVIOUS
  <2>2. H \union First(0) = H  BY Zenon, <2>1
  <2> HIDE DEF First
  <2> QED  BY Zenon, <2>2 DEF Good
<1>4. /\ \A l, n : Good(l, n) => l \in Seq(Handles)
      /\ \A n \in D : \A l : l \in After[n] <=> Good(l, n)
  BY Zenon DEF Good, Lists
<1>5. \A n \in D : n # 0 => n - 1 \in D /\ n \in 1 .. Len(hs)  BY <1>1
<1>6. Initial(D)  BY Zenon, <1>1, RangeInitial
<1>7. \A n \in D : n # 0 => \A l \in After[n - 1] : F[n][l] \in After[n]
  BY Zenon, <1>2, <1>4, <1>5
<1>8. list \in After[0]  BY Zenon, <1>3, <1>4, <1>6 DEF Initial
<1> HIDE DEF After
<1>9. PICK g : Computes(g, D, list, F) /\ \A n \in D : g[n] \in After[n]
  <2> HIDE DEF D, F
  <2> QED  BY Zenon, <1>6, <1>7, <1>8, LoopIn
<1> DEFINE f == [n \in D |-> g[n]]
           r == CHOOSE r : r = [n \in D |-> IF n = 0 THEN list ELSE ReturnHandle(r[n - 1], hs[n])]
<1>10. f = [n \in D |-> IF n = 0 THEN list ELSE ReturnHandle(f[n - 1], hs[n])]
  BY Zenon, <1>4, <1>5, <1>9 DEF Computes
<1>11. r = [n \in D |-> IF n = 0 THEN list ELSE ReturnHandle(r[n - 1], hs[n])]
  <2> HIDE DEF f
  <2> QED  BY Zenon, <1>10
<1>12. ReturnAll(hs) = r[Len(hs)]  BY Zenon DEF ReturnAll
<1> HIDE DEF r
<1>13. \A n \in D : r[n] \in After[n]
  <2>1. r[0] \in After[0]  BY Zenon, <1>6, <1>8, <1>11 DEF Initial
  <2>2. \A n \in D : n # 0 /\ r[n - 1] \in After[n - 1] => r[n] \in After[n]
    BY Zenon, <1>2, <1>4, <1>5, <1>11
  <2> HIDE DEF D
  <2> QED  BY Zenon, <1>6, <2>1, <2>2, LoopKeeps
<1>14. Len(hs) \in D /\ First(Len(hs)) = X  BY <1>1
<1> HIDE DEF First, D
<1> QED  BY Zenon, <1>4, <1>14, <1>12, <1>13 DEF Good

-----------------------------------------------------------------------------
(* Where a handle can be.                                                  *)
Place == {<<"list", NULL>>} \union ({"got"} \X Threads)
           \union ({"klist"} \X Checkers) \union ({"kchecked"} \X Checkers)

(* What is in every place, if the list is l, and so on.                    *)
Where(l, g, a, b) ==
    [p \in Place |-> IF p[1] = "list" THEN Range(l)
                     ELSE IF p[1] = "got" THEN Range(g[p[2]])
                     ELSE IF p[1] = "klist" THEN Range(a[p[2]]) ELSE Range(b[p[2]])]

OnePlace(w) == \A h \in Handles : \E p \in Place : \A q \in Place : h \in w[q] <=> q = p

(* Every list has a handle once, and every handle is in one of them.       *)
Distinct ==
    /\ Lists(list, Range(list))
    /\ \A t \in Threads : Lists(got[t], Range(got[t]))
    /\ \A k \in Checkers : /\ Lists(klist[k], Range(klist[k]))
                           /\ Lists(kchecked[k], Range(kchecked[k]))
Placed == Distinct /\ OnePlace(Where(list, got, klist, kchecked))

LEMMA PlaceForm ==
    /\ <<"list", NULL>> \in Place
    /\ \A t \in Threads : <<"got", t>> \in Place
    /\ \A k \in Checkers : <<"klist", k>> \in Place /\ <<"kchecked", k>> \in Place
    /\ \A p \in Place : \/ p = <<"list", NULL>>
                        \/ \E t \in Threads : p = <<"got", t>>
                        \/ \E k \in Checkers : p = <<"klist", k>> \/ p = <<"kchecked", k>>
BY DEF Place

LEMMA WhereAt ==
    ASSUME NEW l, NEW g, NEW a, NEW b
    PROVE  /\ Where(l, g, a, b)[<<"list", NULL>>] = Range(l)
           /\ \A t \in Threads : Where(l, g, a, b)[<<"got", t>>] = Range(g[t])
           /\ \A k \in Checkers : /\ Where(l, g, a, b)[<<"klist", k>>] = Range(a[k])
                                  /\ Where(l, g, a, b)[<<"kchecked", k>>] = Range(b[k])
<1>1. \A c, t : <<c, t>>[1] = c /\ <<c, t>>[2] = t  BY Zenon
<1> QED  BY Zenon, <1>1, PlaceForm DEF Where

(* What is in two different places is different.                           *)
LEMMA PlacesApart ==
    ASSUME Placed
    PROVE  /\ \A t \in Threads : Range(got[t]) \intersect Range(list) = {}
           /\ \A t, u \in Threads : t # u => Range(got[t]) \intersect Range(got[u]) = {}
           /\ \A k \in Checkers : /\ Range(klist[k]) \intersect Range(list) = {}
                                  /\ Range(kchecked[k]) \intersect Range(list) = {}
                                  /\ Range(klist[k]) \intersect Range(kchecked[k]) = {}
<1> DEFINE w == Where(list, got, klist, kchecked)
<1>1. ASSUME NEW p \in Place, NEW q \in Place, p # q, w[p] \subseteq Handles
      PROVE  w[p] \intersect w[q] = {}
  BY <1>1, Zenon DEF Placed, OnePlace
<1>2. /\ \A t \in Threads : Range(got[t]) \subseteq Handles
      /\ \A k \in Checkers : /\ Range(klist[k]) \subseteq Handles
                             /\ Range(kchecked[k]) \subseteq Handles
  BY ListsSize, Zenon DEF Placed, Distinct
<1>3. \A t, u : /\ <<"got", t>> # <<"list", NULL>> /\ (t # u => <<"got", t>> # <<"got", u>>)
                /\ <<"klist", t>> # <<"list", NULL>> /\ <<"kchecked", t>> # <<"list", NULL>>
                /\ <<"klist", t>> # <<"kchecked", t>>
  BY Zenon
<1>4. /\ w[<<"list", NULL>>] = Range(list)
      /\ \A t \in Threads : w[<<"got", t>>] = Range(got[t])
      /\ \A k \in Checkers : /\ w[<<"klist", k>>] = Range(klist[k])
                             /\ w[<<"kchecked", k>>] = Range(kchecked[k])
  BY WhereAt
<1> HIDE DEF w
<1>5. ASSUME NEW t \in Threads
      PROVE  /\ Range(got[t]) \intersect Range(list) = {}
             /\ \A u \in Threads : t # u => Range(got[t]) \intersect Range(got[u]) = {}
  <2>1. <<"got", t>> \in Place /\ w[<<"got", t>>] = Range(got[t])  BY Zenon, <1>4, PlaceForm
  <2>2. \A q \in Place : q # <<"got", t>> => Range(got[t]) \intersect w[q] = {}
    BY <1>1, <1>2, <2>1, Zenon
  <2>3. Range(got[t]) \intersect Range(list) = {}  BY Zenon, <1>3, <1>4, <2>2, PlaceForm
  <2>4. ASSUME NEW u \in Threads, t # u PROVE Range(got[t]) \intersect Range(got[u]) = {}
    <3>1. <<"got", u>> \in Place /\ <<"got", u>> # <<"got", t>>  BY Zenon, <2>4, PlaceForm
    <3> QED  BY Zenon, <1>4, <2>2, <3>1
  <2> QED  BY Zenon, <2>3, <2>4
<1>6. ASSUME NEW k \in Checkers
      PROVE  /\ Range(klist[k]) \intersect Range(list) = {}
             /\ Range(kchecked[k]) \intersect Range(list) = {}
             /\ Range(klist[k]) \intersect Range(kchecked[k]) = {}
  <2>1. /\ <<"klist", k>> \in Place /\ w[<<"klist", k>>] = Range(klist[k])
        /\ <<"kchecked", k>> \in Place /\ w[<<"kchecked", k>>] = Range(kchecked[k])
    BY Zenon, <1>4, PlaceForm
  <2>2. \A q \in Place : q # <<"klist", k>> => Range(klist[k]) \intersect w[q] = {}
    BY <1>1, <1>2, <2>1, Zenon
  <2>3. \A q \in Place : q # <<"kchecked", k>> => Range(kchecked[k]) \intersect w[q] = {}
    BY <1>1, <1>2, <2>1, Zenon
  <2> QED  BY Zenon, <1>3, <1>4, <2>1, <2>2, <2>3, PlaceForm
<1> QED  BY <1>5, <1>6, Zenon

(* The handles of X move from place p to place q.                          *)
LEMMA OnePlaceMove ==
    ASSUME NEW w, OnePlace(w), NEW v, NEW p \in Place, NEW q \in Place, p # q,
           NEW X, X \subseteq w[p], v[p] = w[p] \ X, v[q] = w[q] \union X,
           \A r \in Place : r # p /\ r # q => v[r] = w[r]
    PROVE  OnePlace(v)
<1> SUFFICES ASSUME NEW h \in Handles
             PROVE  \E r \in Place : \A s \in Place : h \in v[s] <=> s = r
  BY Zenon DEF OnePlace
<1>1. PICK r \in Place : \A s \in Place : h \in w[s] <=> s = r  BY Zenon DEF OnePlace
<1>2. CASE h \in X
  <2>1. r = p  BY Zenon, <1>1, <1>2
  <2>2. \A s \in Place : h \in v[s] <=> s = q  BY Zenon, <1>1, <1>2, <2>1
  <2> QED  BY Zenon, <2>2
<1>3. CASE h \notin X
  <2>1. \A s \in Place : h \in v[s] <=> s = r  BY Zenon, <1>1, <1>3
  <2> QED  BY Zenon, <2>1
<1> QED  BY Zenon, <1>2, <1>3

(* Handles move between the list and the array of a thread.                *)
LEMMA PlacedThread ==
    ASSUME Placed, NEW t \in Threads, NEW X,
           \/ /\ X \subseteq Range(list) /\ Lists(list', Range(list) \ X)
              /\ Lists(got'[t], Range(got[t]) \union X)
           \/ /\ X \subseteq Range(got[t]) /\ Lists(list', Range(list) \union X)
              /\ Lists(got'[t], Range(got[t]) \ X),
           \A u \in Threads : u # t => got'[u] = got[u],
           UNCHANGED <<klist, kchecked>>
    PROVE  Placed'
<1> DEFINE w == Where(list, got, klist, kchecked)
           v == Where(list', got', klist', kchecked')
           p == <<"list", NULL>>
           q == <<"got", t>>
<1>0. /\ \A i \in Checkers : /\ v[<<"klist", i>>] = Range(klist'[i])
                             /\ v[<<"kchecked", i>>] = Range(kchecked'[i])
      /\ \A i \in Checkers : /\ w[<<"klist", i>>] = Range(klist[i])
                             /\ w[<<"kchecked", i>>] = Range(kchecked[i])
  <2>1. /\ v[<<"list", NULL>>] = Range(list')
        /\ \A u \in Threads : v[<<"got", u>>] = Range(got'[u])
        /\ \A i \in Checkers : /\ v[<<"klist", i>>] = Range(klist'[i])
                               /\ v[<<"kchecked", i>>] = Range(kchecked'[i])
    BY WhereAt
  <2>2. /\ w[<<"list", NULL>>] = Range(list)
        /\ \A u \in Threads : w[<<"got", u>>] = Range(got[u])
        /\ \A i \in Checkers : /\ w[<<"klist", i>>] = Range(klist[i])
                               /\ w[<<"kchecked", i>>] = Range(kchecked[i])
    BY WhereAt
  <2> HIDE DEF w, v
  <2> QED  BY <2>1, <2>2, Zenon
<1>1. p \in Place /\ q \in Place /\ p # q  BY Zenon, PlaceForm
<1>2. w[p] = Range(list) /\ v[p] = Range(list') /\ w[q] = Range(got[t]) /\ v[q] = Range(got'[t])
  BY WhereAt
<1>3. \A r \in Place : r # p /\ r # q => v[r] = w[r]
  <2> SUFFICES ASSUME NEW r \in Place, r # p, r # q PROVE v[r] = w[r]
    BY Zenon
  <2>1. ASSUME NEW u \in Threads, r = <<"got", u>> PROVE v[r] = w[r]
    <3>1. u # t  BY Zenon, <2>1
    <3>2. v[r] = Range(got'[u]) /\ w[r] = Range(got[u])  BY <2>1, WhereAt
    <3> QED  BY Zenon, <3>1, <3>2
  <2>2. ASSUME NEW k \in Checkers, r = <<"klist", k>> PROVE v[r] = w[r]
    <3>1. v[r] = Range(klist'[k]) /\ w[r] = Range(klist[k])  BY <2>2, <1>0, Zenon
    <3> QED  BY Zenon, <3>1
  <2>3. ASSUME NEW k \in Checkers, r = <<"kchecked", k>> PROVE v[r] = w[r]
    <3>1. v[r] = Range(kchecked'[k]) /\ w[r] = Range(kchecked[k])  BY <2>3, <1>0, Zenon
    <3> QED  BY Zenon, <3>1
  <2> HIDE DEF w, v
  <2> QED  BY Zenon, <2>1, <2>2, <2>3, PlaceForm
<1>4. Distinct'
  <2>1. Lists(list', Range(list')) /\ Lists(got'[t], Range(got'[t]))  BY Zenon DEF Lists
  <2> QED  BY <2>1, Zenon DEF Placed, Distinct
<1>5. OnePlace(w)  BY Zenon DEF Placed
<1>6. \/ /\ X \subseteq w[p] /\ v[p] = w[p] \ X /\ v[q] = w[q] \union X
      \/ /\ X \subseteq w[q] /\ v[q] = w[q] \ X /\ v[p] = w[p] \union X
  BY Zenon, <1>2 DEF Lists
<1> HIDE DEF w, v, p, q
<1>7. OnePlace(v)  BY <1>1, <1>3, <1>5, <1>6, OnePlaceMove
<1> QED  BY Zenon, <1>4, <1>7 DEF Placed, v

(* What CheckPool does leaves alone what the other threads have.           *)
LEMMA CheckRest ==
    ASSUME NEW k \in Checkers, got' = got,
           \A j \in Checkers : j # k => klist'[j] = klist[j] /\ kchecked'[j] = kchecked[j],
           NEW r \in Place, r # <<"list", NULL>>, r # <<"klist", k>>, r # <<"kchecked", k>>
    PROVE  Where(list', got', klist', kchecked')[r] = Where(list, got, klist, kchecked)[r]
<1> DEFINE w == Where(list, got, klist, kchecked)
           v == Where(list', got', klist', kchecked')
<1>0. /\ \A i \in Checkers : /\ v[<<"klist", i>>] = Range(klist'[i])
                             /\ v[<<"kchecked", i>>] = Range(kchecked'[i])
      /\ \A i \in Checkers : /\ w[<<"klist", i>>] = Range(klist[i])
                             /\ w[<<"kchecked", i>>] = Range(kchecked[i])
  <2>1. /\ v[<<"list", NULL>>] = Range(list')
        /\ \A u \in Threads : v[<<"got", u>>] = Range(got'[u])
        /\ \A i \in Checkers : /\ v[<<"klist", i>>] = Range(klist'[i])
                               /\ v[<<"kchecked", i>>] = Range(kchecked'[i])
    BY WhereAt
  <2>2. /\ w[<<"list", NULL>>] = Range(list)
        /\ \A u \in Threads : w[<<"got", u>>] = Range(got[u])
        /\ \A i \in Checkers : /\ w[<<"klist", i>>] = Range(klist[i])
                               /\ w[<<"kchecked", i>>] = Range(kchecked[i])
    BY WhereAt
  <2> HIDE DEF w, v
  <2> QED  BY <2>1, <2>2, Zenon
<1>1. ASSUME NEW u \in Threads, r = <<"got", u>> PROVE v[r] = w[r]
  <2>1. v[r] = Range(got'[u]) /\ w[r] = Range(got[u])  BY <1>1, WhereAt
  <2> QED  BY Zenon, <2>1
<1>2. ASSUME NEW j \in Checkers, r = <<"klist", j>> \/ r = <<"kchecked", j>> PROVE v[r] = w[r]
  <2>1. j # k  BY Zenon, <1>2
  <2>2. CASE r = <<"klist", j>>
    <3>1. v[r] = Range(klist'[j]) /\ w[r] = Range(klist[j])  BY <2>2, <1>0, Zenon
    <3> QED  BY Zenon, <2>1, <3>1
  <2>3. CASE r = <<"kchecked", j>>
    <3>1. v[r] = Range(kchecked'[j]) /\ w[r] = Range(kchecked[j])  BY <2>3, <1>0, Zenon
    <3> QED  BY Zenon, <2>1, <3>1
  <2> QED  BY Zenon, <1>2, <2>2, <2>3
<1> HIDE DEF w, v
<1>3. v[r] = w[r]  BY <1>1, <1>2, PlaceForm, Zenon
<1> QED  BY Zenon, <1>3 DEF w, v

(* The handles of X move between the list and the two lists of CheckPool.  *)
LEMMA PlacedCheck ==
    ASSUME Placed, NEW k \in Checkers, got' = got, NEW X,
           \A j \in Checkers : j # k => klist'[j] = klist[j] /\ kchecked'[j] = kchecked[j],
           \/ /\ X \subseteq Range(list) /\ Lists(list', Range(list) \ X)
              /\ Lists(klist'[k], Range(klist[k]) \union X) /\ kchecked'[k] = kchecked[k]
           \/ /\ X \subseteq Range(klist[k]) /\ Lists(klist'[k], Range(klist[k]) \ X)
              /\ Lists(kchecked'[k], Range(kchecked[k]) \union X) /\ list' = list
           \/ /\ X \subseteq Range(kchecked[k]) /\ Lists(kchecked'[k], Range(kchecked[k]) \ X)
              /\ Lists(list', Range(list) \union X) /\ klist'[k] = klist[k]
    PROVE  Placed'
<1> DEFINE w == Where(list, got, klist, kchecked)
           v == Where(list', got', klist', kchecked')
           p == <<"list", NULL>>
           q == <<"klist", k>>
           s == <<"kchecked", k>>
<1>1. p \in Place /\ q \in Place /\ s \in Place /\ p # q /\ q # s /\ s # p  BY Zenon, PlaceForm
<1>2. /\ w[p] = Range(list) /\ v[p] = Range(list')
      /\ w[q] = Range(klist[k]) /\ v[q] = Range(klist'[k])
      /\ w[s] = Range(kchecked[k]) /\ v[s] = Range(kchecked'[k])
  BY WhereAt
<1>3. \A r \in Place : r # p /\ r # q /\ r # s => v[r] = w[r]  BY Zenon, CheckRest
<1>4. Distinct'
  <2>1. \A x, H : Lists(x, H) => Lists(x, Range(x))  BY Zenon DEF Lists
  <2>2. Lists(list', Range(list'))  BY <2>1, Zenon DEF Placed, Distinct
  <2>3. Lists(klist'[k], Range(klist'[k])) /\ Lists(kchecked'[k], Range(kchecked'[k]))
    BY <2>1, Zenon DEF Placed, Distinct
  <2> QED  BY <2>2, <2>3, Zenon DEF Placed, Distinct
<1>5. OnePlace(w)  BY Zenon DEF Placed
<1>6. \/ /\ X \subseteq w[p] /\ v[p] = w[p] \ X /\ v[q] = w[q] \union X /\ v[s] = w[s]
      \/ /\ X \subseteq w[q] /\ v[q] = w[q] \ X /\ v[s] = w[s] \union X /\ v[p] = w[p]
      \/ /\ X \subseteq w[s] /\ v[s] = w[s] \ X /\ v[p] = w[p] \union X /\ v[q] = w[q]
  BY Zenon, <1>2 DEF Lists
<1> HIDE DEF w, v, p, q, s
<1>7. OnePlace(v)
  <2>1. CASE X \subseteq w[p] /\ v[p] = w[p] \ X /\ v[q] = w[q] \union X /\ v[s] = w[s]
    <3>1. \A r \in Place : r # p /\ r # q => v[r] = w[r]  BY Zenon, <1>3, <2>1
    <3> QED  BY <1>1, <1>5, <2>1, <3>1, OnePlaceMove, SMTT(30)
  <2>2. CASE X \subseteq w[q] /\ v[q] = w[q] \ X /\ v[s] = w[s] \union X /\ v[p] = w[p]
    <3>1. \A r \in Place : r # q /\ r # s => v[r] = w[r]  BY Zenon, <1>3, <2>2
    <3> QED  BY <1>1, <1>5, <2>2, <3>1, OnePlaceMove
  <2>3. CASE X \subseteq w[s] /\ v[s] = w[s] \ X /\ v[p] = w[p] \union X /\ v[q] = w[q]
    <3>1. \A r \in Place : r # s /\ r # p => v[r] = w[r]  BY Zenon, <1>3, <2>3
    <3> QED  BY <1>1, <1>5, <2>3, <3>1, OnePlaceMove
  <2> QED  BY Zenon, <1>6, <2>1, <2>2, <2>3
<1> QED  BY Zenon, <1>4, <1>7 DEF Placed, v

LEMMA PlacedForm == Placed => HandleInOnePlace
<1> SUFFICES ASSUME Placed, NEW h \in Handles
             PROVE  InSeq(list, h) + Cardinality({t \in Threads : h \in Range(got[t])})
                      + Cardinality({k \in Checkers : h \in Range(klist[k]) \union Range(kchecked[k])})
                      = 1
  BY Zenon DEF HandleInOnePlace
<1> DEFINE w == Where(list, got, klist, kchecked)
           L == {i \in 1 .. Len(list) : list[i] = h}
           T == {t \in Threads : h \in Range(got[t])}
           C == {k \in Checkers : h \in Range(klist[k]) \union Range(kchecked[k])}
<1>1. PICK p \in Place : \A q \in Place : h \in w[q] <=> q = p  BY Zenon DEF Placed, OnePlace
<1>2. /\ h \in Range(list) <=> p = <<"list", NULL>>
      /\ \A t \in Threads : h \in Range(got[t]) <=> p = <<"got", t>>
      /\ \A k \in Checkers : /\ h \in Range(klist[k]) <=> p = <<"klist", k>>
                             /\ h \in Range(kchecked[k]) <=> p = <<"kchecked", k>>
  <2>1. /\ w[<<"list", NULL>>] = Range(list)
        /\ \A t \in Threads : w[<<"got", t>>] = Range(got[t])
        /\ \A k \in Checkers : /\ w[<<"klist", k>>] = Range(klist[k])
                               /\ w[<<"kchecked", k>>] = Range(kchecked[k])
    BY WhereAt
  <2> HIDE DEF w
  <2> QED  BY Zenon, <1>1, <2>1, PlaceForm
<1>3. /\ list \in Seq(Handles)
      /\ \A i, j \in 1 .. Len(list) : list[i] = list[j] => i = j
      /\ h \in Range(list) <=> \E i \in 1 .. Len(list) : list[i] = h
  BY Zenon, ListsForm DEF Placed, Distinct, Lists
<1>4. CASE p = <<"list", NULL>>
  <2>1. PICK i \in 1 .. Len(list) : list[i] = h  BY Zenon, <1>2, <1>3, <1>4
  <2>2. L = {i} /\ T = {} /\ C = {}  BY Zenon, <1>2, <1>3, <1>4, <2>1
  <2>3. Cardinality(L) = 1 /\ Cardinality(T) = 0 /\ Cardinality(C) = 0
    BY <2>2, FS_Singleton, FS_EmptySet, Zenon
  <2> QED  BY <2>3 DEF InSeq
<1>5. ASSUME NEW t \in Threads, p = <<"got", t>>
      PROVE  Cardinality(L) + Cardinality(T) + Cardinality(C) = 1
  <2>1. L = {} /\ T = {t} /\ C = {}  BY Zenon, <1>2, <1>3, <1>5
  <2>2. Cardinality(L) = 0 /\ Cardinality(T) = 1 /\ Cardinality(C) = 0
    BY <2>1, FS_Singleton, FS_EmptySet, Zenon
  <2> QED  BY <2>2
<1>6. ASSUME NEW k \in Checkers, p = <<"klist", k>> \/ p = <<"kchecked", k>>
      PROVE  Cardinality(L) + Cardinality(T) + Cardinality(C) = 1
  <2>1. L = {} /\ T = {} /\ C = {k}  BY <1>2, <1>3, <1>6
  <2>2. Cardinality(L) = 0 /\ Cardinality(T) = 0 /\ Cardinality(C) = 1
    BY <2>1, FS_Singleton, FS_EmptySet, Zenon
  <2> QED  BY <2>2
<1> HIDE DEF L, T, C
<1>7. Cardinality(L) + Cardinality(T) + Cardinality(C) = 1
  <2>1. CASE p = <<"list", NULL>>  BY Zenon, <1>4, <2>1 DEF InSeq, L, T, C
  <2> QED  BY <1>5, <1>6, <2>1, PlaceForm, Zenon
<1> QED  BY Zenon, <1>7 DEF InSeq, L, T, C

-----------------------------------------------------------------------------
(* What a thread has while it gets and puts handles: p is where it is, w   *)
(* what it wants, g what it got, c its count and x what it is putting.     *)
Request(p, w, g, c, x) ==
    /\ p = "idle" => g = <<>> /\ c = 0
    /\ p \in {"enter", "queued", "woken"} => g = <<>> /\ w >= 1 /\ c = w
    /\ p \in CollectPcs => Len(g) < w /\ c = w
    /\ p = "connect" => Len(g) = w /\ w >= 1 /\ c = w
    /\ p = "failed" => Len(g) <= w /\ w >= 1 /\ c = w
    /\ p = "own" => Len(g) = c /\ c >= 1
    /\ p = "put" => Len(g) = c + 1 /\ x \in Range(g)

ThreadInv ==
    /\ pc \in [Threads -> Pcs] /\ want \in [Threads -> 0 .. Cardinality(Handles)]
    /\ got \in [Threads -> Seq(Handles)] /\ count \in [Threads -> Nat]
    /\ putting \in [Threads -> Handles \union {NULL}]
    /\ \A t \in Threads : Request(pc[t], want[t], got[t], count[t], putting[t])

HandleInv ==
    /\ closes \in 0 .. MaxBounce /\ hcloses \in [Handles -> 0 .. MaxBounce]
    /\ stale \subseteq connected /\ connected \subseteq Handles /\ old \subseteq connected

(* CheckPool has handles only between its two regions under the lock.      *)
CheckInv ==
    /\ kpc \in [Checkers -> {"idle", "grab", "check"}]
    /\ klist \in [Checkers -> Seq(Handles)] /\ kchecked \in [Checkers -> Seq(Handles)]
    /\ \A k \in Checkers : kpc[k] # "check" => klist[k] = <<>> /\ kchecked[k] = <<>>

ListInv == waiting \in BOOLEAN /\ ThreadInv /\ Placed /\ ConnectedFirst

PoolInv == ListInv /\ HandleInv /\ CheckInv

LEMMA PoolInvForm == PoolInv => TypeOK /\ HandleInOnePlace /\ ConnectedFirst
<1> SUFFICES ASSUME PoolInv PROVE TypeOK /\ HandleInOnePlace
  BY Zenon DEF PoolInv, ListInv
<1>1. list \in Seq(Handles)  BY Zenon DEF PoolInv, ListInv, Placed, Distinct, Lists
<1>2. TypeOK  BY <1>1, Zenon DEF PoolInv, ListInv, ThreadInv, HandleInv, CheckInv, TypeOK, Pcs
<1> QED  BY Zenon, <1>2, PlacedForm DEF PoolInv, ListInv

(* At first all handles are in the list.                                   *)
LEMMA PoolInit == Init => PoolInv
<1> SUFFICES ASSUME Init PROVE PoolInv
  BY Zenon
<1>1. Cardinality(Handles) \in Nat /\ IsFiniteSet(Handles)
  BY Zenon, DbPoolAssumption, FS_CardinalityType
<1>2. <<>> \in Seq(Handles) /\ Len(<<>>) = 0  OBVIOUS
<1>3. waiting \in BOOLEAN /\ HandleInv
  <2>1. closes \in 0 .. MaxBounce  BY DbPoolAssumption DEF Init
  <2>2. hcloses \in [Handles -> 0 .. MaxBounce]  BY Zenon, <2>1 DEF Init
  <2>3. stale \subseteq connected /\ connected \subseteq Handles /\ old \subseteq connected
    BY Zenon DEF Init
  <2>4. waiting \in BOOLEAN  BY Zenon DEF Init
  <2> QED  BY Zenon, <2>1, <2>2, <2>3, <2>4 DEF HandleInv
<1>4. CheckInv  BY Zenon, <1>2 DEF Init, CheckInv
<1>5. ThreadInv  BY <1>1, <1>2 DEF Init, ThreadInv, Request, Pcs, CollectPcs
<1>6. ConnectedFirst  BY Zenon DEF Init, ConnectedFirst
<1>7. Lists(list, Handles)
  <2> DEFINE n == Cardinality(Handles)
  <2>1. list \in [1 .. n -> Handles] /\ IsInjective(list)  BY Zenon DEF Init
  <2>2. list \in Injection(1 .. n, Handles)  BY Zenon, <2>1 DEF Injection
  <2>3. IsFiniteSet(1 .. n) /\ Cardinality(1 .. n) = n
    <3>1. 1 \in Int /\ n \in Int  BY <1>1
    <3> QED  BY <1>1, <3>1, FS_Interval
  <2>4. list \in Surjection(1 .. n, Handles)  BY Zenon, <1>1, <2>2, <2>3, FS_Injection
  <2>5. \A h \in Handles : \E i \in 1 .. n : list[i] = h  BY <2>4, Zenon DEF Surjection
  <2>6. list \in Seq(Handles)  BY <1>1, <2>1
  <2>7. Range(list) = Handles  BY Zenon, <2>1, <2>5 DEF Range
  <2> QED  BY Zenon, <2>1, <2>6, <2>7 DEF Lists
<1>8. Placed
  <2> DEFINE w == Where(list, got, klist, kchecked)
  <2>1. Range(<<>>) = {} /\ Range(list) = Handles  BY Zenon, <1>7, ListsNone DEF Lists
  <2>2. /\ \A t \in Threads : got[t] = <<>>
        /\ \A k \in Checkers : klist[k] = <<>> /\ kchecked[k] = <<>>
    BY Zenon DEF Init
  <2>3. Distinct  BY Zenon, <1>7, <2>1, <2>2, ListsNone DEF Distinct
  <2>4. w[<<"list", NULL>>] = Handles /\ \A p \in Place : p # <<"list", NULL>> => w[p] = {}
    <3>1. /\ w[<<"list", NULL>>] = Range(list)
          /\ \A t \in Threads : w[<<"got", t>>] = Range(got[t])
          /\ \A k \in Checkers : /\ w[<<"klist", k>>] = Range(klist[k])
                                 /\ w[<<"kchecked", k>>] = Range(kchecked[k])
      BY WhereAt
    <3> HIDE DEF w
    <3>2. /\ \A t \in Threads : w[<<"got", t>>] = {}
          /\ \A k \in Checkers : w[<<"klist", k>>] = {} /\ w[<<"kchecked", k>>] = {}
      BY Zenon, <2>1, <2>2, <3>1
    <3>3. \A p \in Place : p # <<"list", NULL>> => w[p] = {}  BY <3>2, PlaceForm, Zenon
    <3> QED  BY Zenon, <2>1, <3>1, <3>3
  <2>5. <<"list", NULL>> \in Place  BY Zenon, PlaceForm
  <2> HIDE DEF w
  <2>6. OnePlace(w)
    <3>1. \A h \in Handles, q \in Place : h \in w[q] <=> q = <<"list", NULL>>
      BY Zenon, <2>4
    <3> QED  BY <2>5, <3>1, Zenon DEF OnePlace
  <2> QED  BY Zenon, <2>3, <2>6 DEF Placed, w
<1> QED  BY Zenon, <1>3, <1>4, <1>5, <1>6, <1>8 DEF PoolInv, ListInv

LEMMA HandleStep == HandleInv /\ [Next]_vars => HandleInv'
<1> SUFFICES ASSUME HandleInv, [Next]_vars PROVE HandleInv'
  BY Zenon
<1>1. ASSUME UNCHANGED handleVars PROVE HandleInv'
  BY Zenon, <1>1 DEF handleVars, HandleInv
<1>2. CASE UNCHANGED vars  BY Zenon, <1>1, <1>2 DEF vars
<1>3. ASSUME NEW t \in Threads,
             \/ Queue(t) \/ Collect(t) \/ GetFailed(t) \/ PutReturn(t)
             \/ QueueTimeout(t) \/ GetTimeout(t) \/ \E n : BeginGet(t, n)
      PROVE  HandleInv'
  BY Zenon, <1>1, <1>3 DEF Queue, Collect, GetFailed, PutReturn, QueueTimeout, GetTimeout, BeginGet
<1>4. ASSUME NEW h, NsDbDisconnect(h) \/ UNCHANGED <<connected, stale, old>>,
             UNCHANGED <<closes, hcloses>>
      PROVE  HandleInv'
  BY Zenon, <1>4 DEF NsDbDisconnect, HandleInv
<1>5. ASSUME NEW t, NEW h, PutHandle(t, h) \/ Disconnect(t, h) PROVE HandleInv'
  BY Zenon, <1>4, <1>5 DEF PutHandle, Disconnect, CloseIfStale
<1>6. ASSUME NEW k, CheckGrab(k) \/ CheckReturn(k) PROVE HandleInv'
  BY Zenon, <1>1, <1>6 DEF CheckGrab, CheckReturn
<1>7. ASSUME NEW k, CheckHandle(k) PROVE HandleInv'
  BY Zenon, <1>4, <1>7 DEF CheckHandle, CloseIfStale
<1>8. ASSUME NEW t, NEW n, Connect(t, n) PROVE HandleInv'
  <2>1. /\ UNCHANGED <<closes, hcloses, old>> /\ connected \subseteq connected'
        /\ connected' \subseteq Handles
    BY Zenon, <1>8 DEF Connect, HandleInv
  <2>2. stale' \subseteq stale  BY Zenon, <1>8 DEF Connect
  <2> QED  BY Zenon, <2>1, <2>2 DEF HandleInv
<1>9. ASSUME NEW k, Ns_DbBouncePool(k) PROVE HandleInv'
  <2>1. closes' \in 0 .. MaxBounce  BY <1>9, DbPoolAssumption DEF Ns_DbBouncePool, HandleInv
  <2>2. hcloses' \in [Handles -> 0 .. MaxBounce]  BY Zenon, <1>9, <2>1 DEF Ns_DbBouncePool, HandleInv
  <2> QED  BY Zenon, <1>9, <2>1, <2>2 DEF Ns_DbBouncePool, HandleInv
<1> QED
  BY <1>2, <1>3, <1>5, <1>6, <1>7, <1>8, <1>9, Zenon DEF Next, ThreadStep, CheckStep

LEMMA CheckInvStep == CheckInv /\ Distinct /\ [Next]_vars => CheckInv'
<1> SUFFICES ASSUME CheckInv, Distinct, [Next]_vars PROVE CheckInv'
  BY Zenon
<1>1. ASSUME UNCHANGED checkVars PROVE CheckInv'
  BY Zenon, <1>1 DEF checkVars, CheckInv
<1>2. CASE UNCHANGED vars  BY Zenon, <1>1, <1>2 DEF vars
<1>3. ASSUME NEW t \in Threads,
             \/ Queue(t) \/ Collect(t) \/ GetFailed(t) \/ PutReturn(t)
             \/ QueueTimeout(t) \/ GetTimeout(t) \/ \E n : BeginGet(t, n)
             \/ \E n : Connect(t, n)
             \/ \E h : PutHandle(t, h) \/ Disconnect(t, h)
      PROVE  CheckInv'
  BY Zenon, <1>1, <1>3 DEF Queue, Collect, GetFailed, PutReturn, QueueTimeout, GetTimeout, BeginGet,
                    Connect, PutHandle, Disconnect
<1>4. list \in Seq(Handles)  BY Zenon DEF Distinct, Lists
<1>5. ASSUME NEW k \in Checkers, CheckGrab(k) PROVE CheckInv'
  BY Zenon, <1>4, <1>5 DEF CheckGrab, CheckInv
<1>6. ASSUME NEW k \in Checkers, CheckHandle(k) PROVE CheckInv'
  <2>1. klist[k] \in Seq(Handles) /\ klist[k] # <<>> /\ kchecked[k] \in Seq(Handles)
    BY Zenon, <1>6 DEF CheckHandle, CheckInv
  <2>2. Tail(klist[k]) \in Seq(Handles) /\ <<Head(klist[k])>> \o kchecked[k] \in Seq(Handles)
    BY <2>1
  <2> QED  BY Zenon, <1>6, <2>2 DEF CheckHandle, CheckInv
<1>7. ASSUME NEW k \in Checkers, CheckReturn(k) PROVE CheckInv'
  BY Zenon, <1>7 DEF CheckReturn, CheckInv
<1>8. ASSUME NEW k \in Bouncers, Ns_DbBouncePool(k) PROVE CheckInv'
  <2>1. k \in Checkers  BY Zenon DEF Checkers
  <2> QED  BY Zenon, <1>8, <2>1 DEF Ns_DbBouncePool, CheckInv
<1> QED
  BY <1>2, <1>3, <1>5, <1>6, <1>7, <1>8, Zenon DEF Next, ThreadStep, CheckStep

-----------------------------------------------------------------------------
(* Where another thread is changes only by a signal.                       *)
Woken(p, q) == \/ q = p
               \/ p = "collecting" /\ q = "getwoken"
               \/ p = "queued" /\ q = "woken"

(* Thread t goes on to v, and may signal others.                           *)
GoesOn(t, v) ==
    \/ pc' = [pc EXCEPT ![t] = v]
    \/ /\ v \notin {"collecting", "queued"}
       /\ \/ pc' = SignalGet([pc EXCEPT ![t] = v])
          \/ pc' \in SignalWait([pc EXCEPT ![t] = v])

LEMMA PcGoesOn ==
    ASSUME pc \in [Threads -> Pcs], NEW t \in Threads, NEW v \in Pcs, GoesOn(t, v)
    PROVE  /\ pc' \in [Threads -> Pcs] /\ pc'[t] = v
           /\ \A u \in Threads : u # t => Woken(pc[u], pc'[u])
<1> DEFINE q == [pc EXCEPT ![t] = v]
<1>1. q \in [Threads -> Pcs] /\ q[t] = v /\ \A u \in Threads : u # t => q[u] = pc[u]
  BY Zenon
<1>2. CASE pc' = q  BY Zenon, <1>1, <1>2 DEF Woken
<1>3. CASE v \notin {"collecting", "queued"} /\ pc' = SignalGet(q)
  <2> HIDE DEF q
  <2>1. pc' = [u \in Threads |-> IF waiting /\ q[u] = "collecting" THEN "getwoken" ELSE q[u]]
    BY Zenon, <1>3 DEF SignalGet
  <2> QED  BY Zenon, <1>1, <1>3, <2>1 DEF Woken, Pcs
<1>4. CASE v \notin {"collecting", "queued"} /\ pc' \in SignalWait(q)
  <2> HIDE DEF q
  <2>1. pc' = q \/ \E s \in Threads : q[s] = "queued" /\ pc' = [q EXCEPT ![s] = "woken"]
    BY Zenon, <1>4 DEF SignalWait
  <2> QED  BY Zenon, <1>1, <1>4, <2>1 DEF Woken, Pcs
<1> QED  BY Zenon, <1>2, <1>3, <1>4 DEF GoesOn

LEMMA RequestWoken ==
    ASSUME NEW p, NEW q, Woken(p, q), NEW w, NEW g, NEW c, NEW x, Request(p, w, g, c, x)
    PROVE  Request(q, w, g, c, x)
BY Zenon DEF Woken, Request, CollectPcs

(* A thread goes on, and has what is right where it is then.               *)
LEMMA ThreadMove ==
    ASSUME ThreadInv, NEW t \in Threads, NEW v \in Pcs, GoesOn(t, v),
           NEW w \in 0 .. Cardinality(Handles), want' = [want EXCEPT ![t] = w],
           NEW g \in Seq(Handles), got' = [got EXCEPT ![t] = g],
           NEW c \in Nat, count' = [count EXCEPT ![t] = c],
           NEW x \in Handles \union {NULL}, putting' = [putting EXCEPT ![t] = x],
           Request(v, w, g, c, x)
    PROVE  ThreadInv'
<1>1. /\ pc' \in [Threads -> Pcs] /\ pc'[t] = v
      /\ \A u \in Threads : u # t => Woken(pc[u], pc'[u])
  BY Zenon, PcGoesOn DEF ThreadInv
<1>2. /\ want' \in [Threads -> 0 .. Cardinality(Handles)] /\ got' \in [Threads -> Seq(Handles)]
      /\ count' \in [Threads -> Nat] /\ putting' \in [Threads -> Handles \union {NULL}]
  BY Zenon DEF ThreadInv
<1>3. want'[t] = w /\ got'[t] = g /\ count'[t] = c /\ putting'[t] = x  BY Zenon DEF ThreadInv
<1>4. \A u \in Threads : u # t => /\ want'[u] = want[u] /\ got'[u] = got[u]
                                  /\ count'[u] = count[u] /\ putting'[u] = putting[u]
  BY Zenon DEF ThreadInv
<1>5. ASSUME NEW u \in Threads PROVE Request(pc'[u], want'[u], got'[u], count'[u], putting'[u])
  <2>1. CASE u = t  BY Zenon, <1>1, <1>3, <2>1
  <2>2. CASE u # t
    <3>1. Request(pc[u], want[u], got[u], count[u], putting[u])  BY Zenon DEF ThreadInv
    <3>2. Request(pc'[u], want[u], got[u], count[u], putting[u])
      BY Zenon, <1>1, <2>2, <3>1, RequestWoken
    <3> QED  BY Zenon, <1>4, <2>2, <3>2
  <2> QED  BY Zenon, <2>1, <2>2
<1> QED  BY Zenon, <1>1, <1>2, <1>5 DEF ThreadInv

(* The types of what one thread has.                                       *)
LEMMA ThreadTypes ==
    ASSUME ThreadInv, NEW t \in Threads
    PROVE  /\ pc[t] \in Pcs /\ want[t] \in 0 .. Cardinality(Handles) /\ got[t] \in Seq(Handles)
           /\ count[t] \in Nat /\ putting[t] \in Handles \union {NULL}
           /\ Request(pc[t], want[t], got[t], count[t], putting[t])
           /\ pc = [pc EXCEPT ![t] = pc[t]] /\ want = [want EXCEPT ![t] = want[t]]
           /\ got = [got EXCEPT ![t] = got[t]] /\ count = [count EXCEPT ![t] = count[t]]
           /\ putting = [putting EXCEPT ![t] = putting[t]]
           /\ Cardinality(Handles) \in Nat /\ Len(got[t]) \in Nat
BY DbPoolAssumption, FS_CardinalityType DEF ThreadInv

LEMMA ThreadQueue ==
    ASSUME ThreadInv, NEW t \in Threads, Queue(t) \/ QueueTimeout(t)
    PROVE  ThreadInv'
<1>1. PICK v \in {"queued", "failed"} : pc' = [pc EXCEPT ![t] = v]
  BY Zenon DEF Queue, QueueTimeout
<1>2. /\ UNCHANGED <<want, got, count, putting>> /\ pc[t] \in {"enter", "woken", "queued"}
  BY Zenon DEF Queue, QueueTimeout
<1>3. Request(v, want[t], got[t], count[t], putting[t])
  BY <1>2, ThreadTypes DEF Request, CollectPcs
<1>4. GoesOn(t, v) /\ v \in Pcs  BY Zenon, <1>1 DEF GoesOn, Pcs
<1> QED  BY Zenon, <1>2, <1>3, <1>4, ThreadTypes, ThreadMove

LEMMA ThreadBegin ==
    ASSUME ThreadInv, NEW t \in Threads, NEW n \in 1 .. Cardinality(Handles), BeginGet(t, n)
    PROVE  ThreadInv' /\ pc[t] = "idle"
<1>1. /\ pc[t] \in {"idle", "own"} /\ count[t] = 0 /\ count' = [count EXCEPT ![t] = count[t] + n]
      /\ want' = [want EXCEPT ![t] = n] /\ pc' = [pc EXCEPT ![t] = "enter"]
      /\ UNCHANGED <<got, putting>>
  BY Zenon DEF BeginGet
<1>2. pc[t] = "idle" /\ got[t] = <<>>  BY <1>1, ThreadTypes DEF Request
<1>3. count[t] + n = n /\ n \in Nat /\ n \in 0 .. Cardinality(Handles)  BY <1>1, ThreadTypes
<1>4. Request("enter", n, got[t], n, putting[t])  BY <1>2, <1>3 DEF Request, CollectPcs
<1>5. GoesOn(t, "enter") /\ "enter" \in Pcs  BY Zenon, <1>1 DEF GoesOn, Pcs
<1>6. ThreadInv'  BY Zenon, <1>1, <1>3, <1>4, <1>5, ThreadTypes, ThreadMove
<1> QED  BY Zenon, <1>2, <1>6

LEMMA ThreadConnect ==
    ASSUME ThreadInv, NEW t \in Threads, NEW n, Connect(t, n)
    PROVE  ThreadInv' /\ pc[t] = "connect"
<1>1. PICK v \in {"own", "failed"} : pc' = [pc EXCEPT ![t] = v]
  BY Zenon DEF Connect
<1>2. pc[t] = "connect" /\ UNCHANGED <<want, got, count, putting>>  BY Zenon DEF Connect
<1>3. Request(v, want[t], got[t], count[t], putting[t])
  BY <1>2, ThreadTypes DEF Request, CollectPcs
<1>4. GoesOn(t, v) /\ v \in Pcs  BY Zenon, <1>1 DEF GoesOn, Pcs
<1>5. ThreadInv'  BY Zenon, <1>2, <1>3, <1>4, ThreadTypes, ThreadMove
<1> QED  BY Zenon, <1>2, <1>5

LEMMA ThreadFailed ==
    ASSUME ThreadInv, NEW t \in Threads, GetFailed(t)
    PROVE  ThreadInv' /\ pc'[t] = "idle"
<1>1. /\ pc[t] = "failed" /\ got' = [got EXCEPT ![t] = <<>>]
      /\ count' = [count EXCEPT ![t] = count[t] - want[t]] /\ want' = [want EXCEPT ![t] = 0]
      /\ pc' = SignalGet([pc EXCEPT ![t] = "idle"]) /\ UNCHANGED putting
  BY Zenon DEF GetFailed
<1>2. count[t] - want[t] = 0 /\ 0 \in Nat /\ 0 \in 0 .. Cardinality(Handles)
  BY <1>1, ThreadTypes DEF Request
<1>3. Request("idle", 0, <<>>, 0, putting[t])  BY Zenon DEF Request, CollectPcs
<1>4. GoesOn(t, "idle") /\ "idle" \in Pcs /\ <<>> \in Seq(Handles)  BY <1>1 DEF GoesOn, Pcs
<1>5. ThreadInv'  BY Zenon, <1>1, <1>2, <1>3, <1>4, ThreadTypes, ThreadMove
<1>6. pc'[t] = "idle"  BY Zenon, <1>4, PcGoesOn DEF ThreadInv
<1> QED  BY Zenon, <1>5, <1>6

LEMMA ThreadPut ==
    ASSUME ThreadInv, NEW t \in Threads, NEW h \in Handles, PutHandle(t, h)
    PROVE  ThreadInv'
<1>1. /\ pc[t] = "own" /\ h \in Range(got[t]) /\ count' = [count EXCEPT ![t] = count[t] - 1]
      /\ putting' = [putting EXCEPT ![t] = h] /\ pc' = [pc EXCEPT ![t] = "put"]
      /\ UNCHANGED <<want, got>>
  BY Zenon DEF PutHandle
<1>2. count[t] - 1 \in Nat /\ Len(got[t]) = (count[t] - 1) + 1
  BY <1>1, ThreadTypes DEF Request
<1>3. Request("put", want[t], got[t], count[t] - 1, h)  BY Zenon, <1>1, <1>2 DEF Request, CollectPcs
<1>4. GoesOn(t, "put") /\ "put" \in Pcs  BY Zenon, <1>1 DEF GoesOn, Pcs
<1> QED  BY Zenon, <1>1, <1>2, <1>3, <1>4, ThreadTypes, ThreadMove

(* The handle that is put leaves the array of its thread.                  *)
LEMMA ThreadReturn ==
    ASSUME ThreadInv, Distinct, NEW t \in Threads, PutReturn(t)
    PROVE  /\ ThreadInv' /\ putting[t] \in Range(got[t]) /\ pc'[t] \in {"idle", "own"}
           /\ Lists(got'[t], Range(got[t]) \ {putting[t]})
           /\ \A u \in Threads : u # t => got'[u] = got[u]
<1> DEFINE left == Without(got[t], putting[t])
           v == IF left = <<>> THEN "idle" ELSE "own"
<1>1. /\ pc[t] = "put" /\ got' = [got EXCEPT ![t] = left]
      /\ putting' = [putting EXCEPT ![t] = NULL] /\ want' = [want EXCEPT ![t] = Len(left)]
      /\ pc' = SignalGet([pc EXCEPT ![t] = v]) /\ UNCHANGED count
  BY Zenon DEF PutReturn
<1>2. putting[t] \in Range(got[t]) /\ Len(got[t]) = count[t] + 1 /\ count[t] \in Nat
  BY Zenon, <1>1, ThreadTypes DEF Request
<1>3. Lists(got[t], Range(got[t]))  BY Zenon DEF Distinct
<1>4. Lists(left, Range(got[t]) \ {putting[t]}) /\ Len(left) = Len(got[t]) - 1
  BY Zenon, <1>2, <1>3, ListsWithout
<1> HIDE DEF left
<1>5. left \in Seq(Handles) /\ Len(left) = count[t]  BY <1>2, <1>4 DEF Lists
<1>6. Len(left) \in 0 .. Cardinality(Handles)
  <2>1. /\ Range(got[t]) \in SUBSET Handles /\ Cardinality(Range(got[t])) = Len(got[t])
    BY Zenon, <1>3, ListsSize
  <2>2. Len(got[t]) <= Cardinality(Handles)  BY Zenon, <2>1, DbPoolAssumption, FS_Subset
  <2> QED  BY <1>2, <1>5, <2>2, ThreadTypes
<1>7. Request(v, Len(left), left, count[t], NULL)
  <2>1. CASE left = <<>>  BY Zenon, <1>5, <2>1 DEF Request, CollectPcs
  <2>2. CASE left # <<>>
    <3>1. Len(left) # 0  BY <1>5, <2>2
    <3> QED  BY <1>2, <1>5, <2>2, <3>1 DEF Request, CollectPcs
  <2> QED  BY Zenon, <2>1, <2>2
<1>8. GoesOn(t, v) /\ v \in Pcs /\ v \in {"idle", "own"} /\ NULL \in Handles \union {NULL}
  BY Zenon, <1>1 DEF GoesOn, Pcs
<1> HIDE DEF v
<1>9. ThreadInv'  BY Zenon, <1>1, <1>2, <1>5, <1>6, <1>7, <1>8, ThreadTypes, ThreadMove
<1>10. pc'[t] = v  BY Zenon, <1>8, PcGoesOn DEF ThreadInv
<1>11. got'[t] = left /\ \A u \in Threads : u # t => got'[u] = got[u]
  BY Zenon, <1>1 DEF ThreadInv
<1> QED  BY Zenon, <1>2, <1>4, <1>8, <1>9, <1>10, <1>11

(* The first n handles of the list go to the array of thread t.            *)
LEMMA Take ==
    ASSUME ThreadInv, Placed, NEW t \in Threads, NEW n \in 0 .. Len(list),
           got' = [got EXCEPT ![t] = got[t] \o SubSeq(list, 1, n)],
           list' = SubSeq(list, n + 1, Len(list)),
           UNCHANGED <<klist, kchecked, connected>>, ConnectedFirst
    PROVE  /\ Placed' /\ ConnectedFirst'
           /\ got'[t] \in Seq(Handles) /\ Len(got'[t]) = Len(got[t]) + n
<1> DEFINE a == SubSeq(list, 1, n)
           b == SubSeq(list, n + 1, Len(list))
<1>1. Lists(list, Range(list)) /\ Lists(got[t], Range(got[t]))  BY Zenon DEF Placed, Distinct
<1>2. /\ Lists(a, Range(a)) /\ Range(a) \subseteq Range(list) /\ Len(a) = n
      /\ Lists(b, Range(list) \ Range(a)) /\ (Sorted(list) => Sorted(b))
  BY Zenon, <1>1, ListsSplit
<1>3. got'[t] = got[t] \o a /\ (\A u \in Threads : u # t => got'[u] = got[u]) /\ list' = b
  BY Zenon DEF ThreadInv
<1> HIDE DEF a, b
<1>4. Range(got[t]) \intersect Range(a) = {}  BY Zenon, <1>2, PlacesApart
<1>5. Lists(got'[t], Range(got[t]) \union Range(a)) /\ Len(got'[t]) = Len(got[t]) + n
  <2>1. /\ Lists(got[t] \o a, Range(got[t]) \union Range(a))
        /\ Len(got[t] \o a) = Len(got[t]) + Len(a)
    BY <1>1, <1>2, <1>4, ListsJoin, Zenon
  <2> QED  BY Zenon, <1>2, <1>3, <2>1
<1>6. Placed'  BY Zenon, <1>2, <1>3, <1>5, PlacedThread
<1>7. ConnectedFirst'  BY Zenon, <1>2, <1>3 DEF Sorted, ConnectedFirst
<1> QED  BY Zenon, <1>5, <1>6, <1>7 DEF Lists

LEMMA InvCollect ==
    ASSUME ThreadInv, Placed, ConnectedFirst, NEW t \in Threads, Collect(t)
    PROVE  /\ ThreadInv' /\ Placed' /\ ConnectedFirst' /\ waiting' \in BOOLEAN
           /\ pc'[t] \in {"collecting", "connect"}
<1> DEFINE n == Available(want[t] - Len(got[t]))
           g == got[t] \o SubSeq(list, 1, n)
           v == IF waiting' THEN "collecting" ELSE "connect"
<1>1. /\ pc[t] \in {"enter", "woken", "getwoken"} /\ got' = [got EXCEPT ![t] = g]
      /\ list' = SubSeq(list, n + 1, Len(list)) /\ waiting' = (Len(got'[t]) < want[t])
      /\ UNCHANGED <<want, count, putting, klist, kchecked, connected>>
  BY Zenon DEF Collect, handleVars, checkVars
<1>2. /\ want[t] \in Nat /\ Len(got[t]) \in Nat /\ count[t] = want[t] /\ Len(got[t]) < want[t]
  BY <1>1, ThreadTypes DEF Request, CollectPcs
<1>3. Len(list) \in Nat  BY ListsFacts, Zenon DEF Placed, Distinct
<1>4. n \in 0 .. Len(list) /\ n <= want[t] - Len(got[t])  BY <1>2, <1>3 DEF Available
<1> HIDE DEF n
<1>5. /\ Placed' /\ ConnectedFirst'
      /\ got'[t] \in Seq(Handles) /\ Len(got'[t]) = Len(got[t]) + n
  BY Zenon, <1>1, <1>4, Take
<1>6. got'[t] = g  BY Zenon, <1>1 DEF ThreadInv
<1> HIDE DEF g
<1>7. GoesOn(t, v) /\ v \in Pcs
  <2>1. CASE waiting'  BY Zenon, <2>1 DEF Collect, GoesOn, Pcs
  <2>2. CASE ~waiting'  BY Zenon, <2>2 DEF Collect, GoesOn, Pcs
  <2> QED  BY Zenon, <2>1, <2>2
<1>8. Request(v, want[t], g, count[t], putting[t])
  <2>1. CASE waiting'
    <3>1. Len(g) < want[t]  BY Zenon, <1>1, <1>6, <2>1
    <3> QED  BY Zenon, <1>2, <2>1, <3>1 DEF Request, CollectPcs
  <2>2. CASE ~waiting'
    <3>1. ~(Len(g) < want[t])  BY Zenon, <1>1, <1>6, <2>2
    <3>2. Len(g) = Len(got[t]) + n  BY Zenon, <1>5, <1>6
    <3>3. Len(g) = want[t] /\ want[t] >= 1  BY <1>2, <1>4, <3>1, <3>2
    <3> QED  BY Zenon, <1>2, <2>2, <3>3 DEF Request, CollectPcs
  <2> QED  BY Zenon, <2>1, <2>2
<1>9. v \in {"collecting", "connect"}  BY Zenon
<1> HIDE DEF v
<1>10. ThreadInv'
  <2>1. g \in Seq(Handles)  BY Zenon, <1>5, <1>6
  <2>2. /\ want' = [want EXCEPT ![t] = want[t]] /\ count' = [count EXCEPT ![t] = count[t]]
        /\ putting' = [putting EXCEPT ![t] = putting[t]]
    BY <1>1, ThreadTypes, Zenon
  <2>3. /\ want[t] \in 0 .. Cardinality(Handles) /\ count[t] \in Nat
        /\ putting[t] \in Handles \union {NULL}
    BY ThreadTypes, Zenon
  <2> QED  BY <1>1, <1>7, <1>8, <2>1, <2>2, <2>3, ThreadMove, Zenon
<1>11. pc'[t] = v  BY Zenon, <1>7, PcGoesOn DEF ThreadInv
<1>12. waiting' \in BOOLEAN  BY DEF Collect
<1> QED  BY <1>5, <1>9, <1>10, <1>11, <1>12, Zenon

LEMMA InvTimeout ==
    ASSUME ThreadInv, Placed, ConnectedFirst, NEW t \in Threads, GetTimeout(t)
    PROVE  /\ ThreadInv' /\ Placed' /\ ConnectedFirst' /\ waiting' \in BOOLEAN
           /\ pc'[t] \in {"failed", "connect"}
<1> DEFINE n == Available(1)
           g == got[t] \o SubSeq(list, 1, n)
           v == IF Len(got'[t]) = want[t] THEN "connect" ELSE "failed"
<1>1. /\ pc[t] \in CollectPcs /\ got' = [got EXCEPT ![t] = g]
      /\ list' = SubSeq(list, n + 1, Len(list)) /\ waiting' = FALSE
      /\ pc' \in SignalWait([pc EXCEPT ![t] = v])
      /\ UNCHANGED <<want, count, putting, klist, kchecked, connected>>
  BY Zenon DEF GetTimeout, handleVars, checkVars, CollectPcs
<1>2. /\ want[t] \in Nat /\ Len(got[t]) \in Nat /\ count[t] = want[t] /\ Len(got[t]) < want[t]
  BY Zenon, <1>1, ThreadTypes DEF Request, CollectPcs
<1>3. Len(list) \in Nat  BY ListsFacts, Zenon DEF Placed, Distinct
<1>4. n \in 0 .. Len(list) /\ n <= 1  BY <1>3 DEF Available
<1> HIDE DEF n
<1>5. /\ Placed' /\ ConnectedFirst'
      /\ got'[t] \in Seq(Handles) /\ Len(got'[t]) = Len(got[t]) + n
  BY Zenon, <1>1, <1>4, Take
<1>6. got'[t] = g  BY Zenon, <1>1 DEF ThreadInv
<1> HIDE DEF g
<1>7. GoesOn(t, v) /\ v \in Pcs /\ v \in {"failed", "connect"}  BY Zenon, <1>1 DEF GoesOn, Pcs
<1>8. Request(v, want[t], g, count[t], putting[t])
  <2>1. Len(g) <= want[t] /\ want[t] >= 1  BY <1>2, <1>4, <1>5, <1>6
  <2> QED  BY Zenon, <1>2, <1>6, <2>1 DEF Request, CollectPcs
<1> HIDE DEF v
<1>9. ThreadInv'
  <2>1. g \in Seq(Handles)  BY Zenon, <1>5, <1>6
  <2>2. /\ want' = [want EXCEPT ![t] = want[t]] /\ count' = [count EXCEPT ![t] = count[t]]
        /\ putting' = [putting EXCEPT ![t] = putting[t]]
    BY <1>1, ThreadTypes, Zenon
  <2>3. /\ want[t] \in 0 .. Cardinality(Handles) /\ count[t] \in Nat
        /\ putting[t] \in Handles \union {NULL}
    BY ThreadTypes, Zenon
  <2> QED  BY <1>1, <1>7, <1>8, <2>1, <2>2, <2>3, ThreadMove, Zenon
<1>10. pc'[t] = v  BY Zenon, <1>7, PcGoesOn DEF ThreadInv
<1> QED  BY Zenon, <1>1, <1>5, <1>7, <1>9, <1>10

(* Nothing moves, and only handles that are not in the list are connected  *)
(* or closed.                                                              *)
LEMMA StayPut ==
    ASSUME Placed, ConnectedFirst, UNCHANGED <<list, got, klist, kchecked>>,
           NEW S, S \intersect Range(list) = {},
           \A h : h \notin S => (h \in connected' <=> h \in connected)
    PROVE  Placed' /\ ConnectedFirst'
<1>1. Placed'  BY Zenon DEF Placed, Distinct
<1>2. \A i \in 1 .. Len(list) : list[i] \in Range(list)
  <2>1. DOMAIN list = 1 .. Len(list)  BY ListsFacts, Zenon DEF Placed, Distinct
  <2> QED  BY Zenon, <2>1 DEF Range
<1>3. \A i \in 1 .. Len(list) : list[i] \in connected' <=> list[i] \in connected
  BY <1>2, Zenon
<1>4. ConnectedFirst'  BY Zenon, <1>3 DEF ConnectedFirst
<1> QED  BY Zenon, <1>1, <1>4

LEMMA InvGetFailed ==
    ASSUME ThreadInv, Placed, ConnectedFirst, NEW t \in Threads, GetFailed(t)
    PROVE  Placed' /\ ConnectedFirst'
<1>1. /\ list' = ReturnAll(Reverse(got[t])) /\ got' = [got EXCEPT ![t] = <<>>]
      /\ UNCHANGED <<klist, kchecked, connected>>
  BY Zenon DEF GetFailed, handleVars, checkVars
<1>2. Lists(list, Range(list)) /\ Lists(got[t], Range(got[t]))  BY Zenon DEF Placed, Distinct
<1>3. Range(got[t]) \intersect Range(list) = {}  BY Zenon, PlacesApart
<1>4. Lists(Reverse(got[t]), Range(got[t]))  BY Zenon, <1>2, ListsReverse
<1>5. /\ Lists(list', Range(list) \union Range(got[t])) /\ (Sorted(list) => Sorted(list'))
  BY Zenon, <1>1, <1>2, <1>3, <1>4, ListsReturnAll
<1>6. got'[t] = <<>> /\ \A u \in Threads : u # t => got'[u] = got[u]
  BY Zenon, <1>1 DEF ThreadInv
<1>7. Range(got[t]) \ Range(got[t]) = {}  BY Zenon
<1>8. Lists(got'[t], Range(got[t]) \ Range(got[t]))  BY Zenon, <1>6, <1>7, ListsNone
<1>9. Placed'  BY Zenon, <1>1, <1>5, <1>6, <1>8, PlacedThread
<1>10. ConnectedFirst'  BY Zenon, <1>1, <1>5 DEF Sorted, ConnectedFirst
<1> QED  BY Zenon, <1>9, <1>10

LEMMA InvPutReturn ==
    ASSUME ThreadInv, Placed, ConnectedFirst, NEW t \in Threads, PutReturn(t)
    PROVE  Placed' /\ ConnectedFirst'
<1>1. list' = ReturnHandle(list, putting[t]) /\ UNCHANGED <<klist, kchecked, connected>>
  BY Zenon DEF PutReturn, handleVars, checkVars
<1>2. /\ putting[t] \in Range(got[t]) /\ Lists(got'[t], Range(got[t]) \ {putting[t]})
      /\ \A u \in Threads : u # t => got'[u] = got[u]
  BY Zenon, ThreadReturn DEF Placed
<1>3. Lists(list, Range(list)) /\ Lists(got[t], Range(got[t]))  BY Zenon DEF Placed, Distinct
<1>4. putting[t] \in Handles  BY Zenon, <1>2, <1>3, ListsSize
<1>5. putting[t] \notin Range(list)  BY Zenon, <1>2, PlacesApart
<1>6. Lists(list', Range(list) \union {putting[t]}) /\ (Sorted(list) => Sorted(list'))
  BY Zenon, <1>1, <1>3, <1>4, <1>5, ListsReturn
<1>7. {putting[t]} \subseteq Range(got[t])  BY Zenon, <1>2
<1>8. Placed'  BY Zenon, <1>1, <1>2, <1>6, <1>7, PlacedThread
<1>9. ConnectedFirst'  BY Zenon, <1>1, <1>6 DEF Sorted, ConnectedFirst
<1> QED  BY Zenon, <1>8, <1>9

(* The connections that a step on handles of a thread changes.             *)
LEMMA InvConnections ==
    ASSUME ThreadInv, Placed, ConnectedFirst, NEW t \in Threads,
           \/ \E n \in Nat : Connect(t, n)
           \/ \E h : PutHandle(t, h) \/ Disconnect(t, h)
    PROVE  Placed' /\ ConnectedFirst'
<1>1. UNCHANGED <<list, got, klist, kchecked>>
  BY Zenon DEF Connect, PutHandle, Disconnect, poolVars, threadVars, checkVars
<1>2. Range(got[t]) \intersect Range(list) = {}  BY Zenon, PlacesApart
<1>3. \A h : h \notin Range(got[t]) => (h \in connected' <=> h \in connected)
  <2>1. ASSUME NEW n \in Nat, Connect(t, n)
        PROVE  \A h : h \notin Range(got[t]) => (h \in connected' <=> h \in connected)
    <3>1. /\ connected' = connected \union {h \in Handles : \E i \in 1 .. n : got[t][i] = h}
          /\ n <= Len(got[t])
      BY Zenon, <2>1 DEF Connect
    <3>2. DOMAIN got[t] = 1 .. Len(got[t]) /\ Len(got[t]) \in Nat  BY ThreadTypes
    <3>3. \A i \in 1 .. n : got[t][i] \in Range(got[t])  BY <3>1, <3>2 DEF Range
    <3> QED  BY Zenon, <3>1, <3>3
  <2>2. ASSUME NEW g, PutHandle(t, g) \/ Disconnect(t, g)
        PROVE  \A h : h \notin Range(got[t]) => (h \in connected' <=> h \in connected)
    BY Zenon, <2>2 DEF PutHandle, Disconnect, CloseIfStale, NsDbDisconnect
  <2> QED  BY <2>1, <2>2, Zenon
<1> QED  BY Zenon, <1>1, <1>2, <1>3, StayPut

LEMMA InvCheckGrab ==
    ASSUME CheckInv, Placed, ConnectedFirst, NEW k \in Checkers, CheckGrab(k)
    PROVE  Placed' /\ ConnectedFirst'
<1>1. /\ klist' = [klist EXCEPT ![k] = list] /\ list' = <<>> /\ kpc[k] # "check"
      /\ got' = got /\ kchecked' = kchecked
  BY Zenon DEF CheckGrab, threadVars
<1>2. /\ klist[k] = <<>> /\ klist'[k] = list
      /\ \A j \in Checkers : j # k => klist'[j] = klist[j]
  BY Zenon, <1>1 DEF CheckInv
<1>3. Lists(list, Range(list)) /\ Range(klist[k]) = {}
  BY Zenon, <1>2, ListsNone DEF Placed, Distinct, Lists
<1>4. Range(klist[k]) \union Range(list) = Range(list) /\ Range(list) \ Range(list) = {}
  BY Zenon, <1>3
<1>5. Lists(klist'[k], Range(klist[k]) \union Range(list))  BY Zenon, <1>2, <1>3, <1>4
<1>6. Lists(list', Range(list) \ Range(list))  BY Zenon, <1>1, <1>4, ListsNone
<1>7. Placed'  BY Zenon, <1>1, <1>2, <1>5, <1>6, PlacedCheck
<1>8. ConnectedFirst'  BY <1>1 DEF ConnectedFirst
<1> QED  BY Zenon, <1>7, <1>8

LEMMA InvCheckHandle ==
    ASSUME CheckInv, Placed, ConnectedFirst, NEW k \in Checkers, CheckHandle(k)
    PROVE  Placed' /\ ConnectedFirst'
<1> DEFINE h == Head(klist[k])
<1>1. /\ kchecked' = [kchecked EXCEPT ![k] = <<h>> \o kchecked[k]]
      /\ klist' = [klist EXCEPT ![k] = Tail(klist[k])] /\ klist[k] # <<>>
      /\ CloseIfStale(h) /\ got' = got /\ list' = list
  BY Zenon DEF CheckHandle, threadVars, poolVars
<1>2. /\ klist'[k] = Tail(klist[k]) /\ kchecked'[k] = <<h>> \o kchecked[k]
      /\ \A j \in Checkers : j # k => klist'[j] = klist[j] /\ kchecked'[j] = kchecked[j]
  BY Zenon, <1>1 DEF CheckInv
<1>3. Lists(klist[k], Range(klist[k])) /\ Lists(kchecked[k], Range(kchecked[k]))
  BY Zenon DEF Placed, Distinct
<1>4. h \in Range(klist[k]) /\ Lists(klist'[k], Range(klist[k]) \ {h})
  BY Zenon, <1>1, <1>2, <1>3, ListsTail
<1>5. /\ Range(klist[k]) \intersect Range(list) = {}
      /\ Range(klist[k]) \intersect Range(kchecked[k]) = {}
  BY Zenon, PlacesApart
<1>6. h \in Handles  BY Zenon, <1>3, <1>4, ListsSize
<1> HIDE DEF h
<1>7. Lists(kchecked'[k], Range(kchecked[k]) \union {h})
  <2>1. Lists(<<h>>, {h}) /\ {h} \intersect Range(kchecked[k]) = {}
    BY Zenon, <1>4, <1>5, <1>6, ListsOne
  <2>2. {h} \union Range(kchecked[k]) = Range(kchecked[k]) \union {h}  BY Zenon
  <2>3. Lists(<<h>> \o kchecked[k], {h} \union Range(kchecked[k]))
    BY Zenon, <1>3, <2>1, ListsJoin
  <2> QED  BY Zenon, <1>2, <2>2, <2>3
<1>8. {h} \subseteq Range(klist[k])  BY Zenon, <1>4
<1>9. Placed'  BY Zenon, <1>1, <1>2, <1>4, <1>7, <1>8, PlacedCheck
<1>10. ConnectedFirst'
  <2>1. \A g : g # h => (g \in connected' <=> g \in connected)
    BY Zenon, <1>1 DEF CloseIfStale, NsDbDisconnect
  <2>2. \A i \in 1 .. Len(list) : list[i] \in Range(list)
    <3>1. DOMAIN list = 1 .. Len(list)  BY ListsFacts, Zenon DEF Placed, Distinct
    <3> QED  BY Zenon, <3>1 DEF Range
  <2>3. \A i \in 1 .. Len(list) : list[i] # h  BY <1>4, <1>5, <2>2, Zenon
  <2>4. \A i \in 1 .. Len(list) : list[i] \in connected' <=> list[i] \in connected
    BY <2>1, <2>3, Zenon
  <2> QED  BY Zenon, <1>1, <2>4 DEF ConnectedFirst
<1> QED  BY Zenon, <1>9, <1>10

LEMMA InvCheckReturn ==
    ASSUME CheckInv, Placed, ConnectedFirst, NEW k \in Checkers, CheckReturn(k)
    PROVE  Placed' /\ ConnectedFirst'
<1>1. /\ list' = ReturnAll(kchecked[k]) /\ kchecked' = [kchecked EXCEPT ![k] = <<>>]
      /\ got' = got /\ klist' = klist /\ connected' = connected
  BY Zenon DEF CheckReturn, handleVars
<1>2. kchecked'[k] = <<>> /\ \A j \in Checkers : j # k => kchecked'[j] = kchecked[j]
  BY Zenon, <1>1 DEF CheckInv
<1>3. /\ Lists(list, Range(list)) /\ Lists(kchecked[k], Range(kchecked[k]))
      /\ Range(kchecked[k]) \intersect Range(list) = {}
  BY Zenon, PlacesApart DEF Placed, Distinct
<1>4. Lists(list', Range(list) \union Range(kchecked[k])) /\ (Sorted(list) => Sorted(list'))
  BY Zenon, <1>1, <1>3, ListsReturnAll
<1>5. Range(kchecked[k]) \ Range(kchecked[k]) = {}  BY Zenon
<1>6. Lists(kchecked'[k], Range(kchecked[k]) \ Range(kchecked[k]))  BY Zenon, <1>2, <1>5, ListsNone
<1>7. Placed'  BY Zenon, <1>1, <1>2, <1>4, <1>6, PlacedCheck
<1>8. ConnectedFirst'  BY Zenon, <1>1, <1>4 DEF Sorted, ConnectedFirst
<1> QED  BY Zenon, <1>7, <1>8

(* CheckPool wakes the thread that collects.                               *)
LEMMA ThreadWoken ==
    ASSUME ThreadInv, pc' = SignalGet(pc), UNCHANGED <<want, got, count, putting>>
    PROVE  ThreadInv' /\ \A t \in Threads : Woken(pc[t], pc'[t])
<1>1. pc' \in [Threads -> Pcs] /\ \A t \in Threads : Woken(pc[t], pc'[t])
  BY Zenon DEF SignalGet, ThreadInv, Woken, Pcs
<1>2. \A t \in Threads : Request(pc'[t], want[t], got[t], count[t], putting[t])
  BY Zenon, <1>1, RequestWoken DEF ThreadInv
<1> QED  BY Zenon, <1>1, <1>2 DEF ThreadInv

LEMMA PoolStep == PoolInv /\ [Next]_vars => PoolInv'
<1> SUFFICES ASSUME PoolInv, [Next]_vars PROVE ListInv'
  BY Zenon, HandleStep, CheckInvStep DEF PoolInv, ListInv, Placed
<1> USE DEF PoolInv, ListInv
<1>1. ASSUME UNCHANGED <<list, got, klist, kchecked, connected>> PROVE Placed' /\ ConnectedFirst'
  <2>1. {} \intersect Range(list) = {}  BY Zenon
  <2> QED  BY Zenon, <1>1, <2>1, StayPut
<1>2. CASE UNCHANGED vars
  <2>1. UNCHANGED <<list, got, klist, kchecked, connected>>
    BY Zenon, <1>2 DEF vars, poolVars, handleVars, threadVars, checkVars
  <2>2. waiting' \in BOOLEAN /\ ThreadInv'
    BY Zenon, <1>2 DEF vars, poolVars, threadVars, ThreadInv
  <2> QED  BY Zenon, <1>1, <2>1, <2>2
<1>3. ASSUME NEW t \in Threads,
             \/ ThreadStep(t) \/ QueueTimeout(t) \/ GetTimeout(t)
             \/ \E n \in 1 .. Cardinality(Handles) : BeginGet(t, n)
             \/ \E h \in Handles : Disconnect(t, h)
      PROVE  ListInv'
  <2>1. CASE Collect(t) \/ GetTimeout(t)  BY Zenon, <2>1, InvCollect, InvTimeout
  <2>2. CASE Queue(t) \/ QueueTimeout(t)
    <3>1. UNCHANGED <<list, got, klist, kchecked, connected, waiting>>
      BY Zenon, <2>2 DEF Queue, QueueTimeout, poolVars, handleVars, checkVars
    <3> QED  BY Zenon, <1>1, <2>2, <3>1, ThreadQueue
  <2>3. ASSUME NEW n \in 1 .. Cardinality(Handles), BeginGet(t, n)
        PROVE  ListInv'
    <3>1. UNCHANGED <<list, got, klist, kchecked, connected, waiting>>
      BY Zenon, <2>3 DEF BeginGet, poolVars, handleVars, checkVars
    <3> QED  BY Zenon, <1>1, <2>3, <3>1, ThreadBegin
  <2>4. CASE GetFailed(t)
    BY Zenon, <2>4, InvGetFailed, ThreadFailed DEF GetFailed
  <2>5. CASE PutReturn(t)
    BY Zenon, <2>5, InvPutReturn, ThreadReturn DEF PutReturn, Placed
  <2>6. ASSUME NEW n \in 0 .. Cardinality(Handles), Connect(t, n)
        PROVE  ListInv'
    <3>1. n \in Nat /\ waiting' = waiting
      BY <2>6, DbPoolAssumption, FS_CardinalityType DEF Connect, poolVars
    <3>2. Placed' /\ ConnectedFirst'  BY <2>6, <3>1, InvConnections, Zenon
    <3>3. ThreadInv'  BY <2>6, <3>1, ThreadConnect, Zenon
    <3> QED  BY Zenon, <3>1, <3>2, <3>3
  <2>7. ASSUME NEW h \in Handles, PutHandle(t, h)
        PROVE  ListInv'
    <3>1. waiting' = waiting  BY Zenon, <2>7 DEF PutHandle, poolVars
    <3>2. Placed' /\ ConnectedFirst'  BY <2>7, InvConnections, Zenon
    <3>3. ThreadInv'  BY <2>7, ThreadPut, Zenon
    <3> QED  BY Zenon, <3>1, <3>2, <3>3
  <2>8. ASSUME NEW h \in Handles, Disconnect(t, h)
        PROVE  ListInv'
    <3>1. waiting' = waiting /\ ThreadInv'
      BY Zenon, <2>8 DEF Disconnect, poolVars, threadVars, ThreadInv
    <3>2. Placed' /\ ConnectedFirst'  BY <2>8, InvConnections, Zenon
    <3> QED  BY Zenon, <3>1, <3>2
  <2> HIDE DEF ListInv, PoolInv
  <2> QED  BY <1>3, <2>1, <2>2, <2>3, <2>4, <2>5, <2>6, <2>7, <2>8, Zenon DEF ThreadStep
<1>4. ASSUME NEW k \in Checkers, CheckStep(k)
      PROVE  ListInv'
  <2>1. CASE CheckGrab(k)
    <3>1. waiting' = waiting /\ ThreadInv'  BY Zenon, <2>1 DEF CheckGrab, threadVars, ThreadInv
    <3> QED  BY <2>1, <3>1, InvCheckGrab, Zenon
  <2>2. CASE CheckHandle(k)
    <3>1. waiting' = waiting /\ ThreadInv'
      BY Zenon, <2>2 DEF CheckHandle, poolVars, threadVars, ThreadInv
    <3> QED  BY <2>2, <3>1, InvCheckHandle, Zenon
  <2>3. CASE CheckReturn(k)
    <3>1. waiting' = waiting /\ ThreadInv'  BY Zenon, <2>3, ThreadWoken DEF CheckReturn
    <3> QED  BY <2>3, <3>1, InvCheckReturn, Zenon
  <2> QED  BY Zenon, <1>4, <2>1, <2>2, <2>3 DEF CheckStep
<1>5. ASSUME NEW k, Ns_DbBouncePool(k)
      PROVE  ListInv'
  <2>1. UNCHANGED <<list, got, klist, kchecked, connected, waiting, threadVars>>
    BY Zenon, <1>5 DEF Ns_DbBouncePool, poolVars, threadVars
  <2>2. ThreadInv'  BY Zenon, <2>1 DEF threadVars, ThreadInv
  <2> QED  BY Zenon, <1>1, <2>1, <2>2
<1> HIDE DEF PoolInv, ListInv
<1> QED  BY <1>2, <1>3, <1>4, <1>5, Zenon DEF Next

(* Whatever threads, CheckPool and bounces do, a handle is in the list, in *)
(* the array of one thread, or with one CheckPool: none is lost, and none  *)
(* is given to two threads.                                                *)
THEOREM HandlesInOnePlace == Spec => []HandleInOnePlace
<1>1. Spec => []PoolInv  BY PoolInit, PoolStep, PTL DEF Spec
<1> QED  BY <1>1, PoolInvForm, PTL

(* Wherever handles are returned, one by one or by CheckPool, the          *)
(* connected ones come before the others in the list.                      *)
THEOREM PoolStaysSorted == Spec => []ConnectedFirst
<1>1. Spec => []PoolInv  BY PoolInit, PoolStep, PTL DEF Spec
<1> QED  BY <1>1, PoolInvForm, PTL

(* All variables keep their types; only open connections are stale.        *)
THEOREM PoolTypes == Spec => []TypeOK
<1>1. Spec => []PoolInv  BY PoolInit, PoolStep, PTL DEF Spec
<1> QED  BY <1>1, PoolInvForm, PTL

-----------------------------------------------------------------------------
(* The pool implements the abstract allocator.                             *)

(* What the other threads own and ask for does not change.                 *)
OthersKeep(t) ==
    \A u \in Threads : u # t => OwnedBy(u)' = OwnedBy(u) /\ AskedBy(u)' = AskedBy(u)

LEMMA WokenKeeps ==
    ASSUME NEW u, Woken(pc[u], pc'[u]), want'[u] = want[u], got'[u] = got[u]
    PROVE  OwnedBy(u)' = OwnedBy(u) /\ AskedBy(u)' = AskedBy(u)
BY Zenon DEF Woken, OwnedBy, AskedBy

LEMMA GoesOnKeeps ==
    ASSUME ThreadInv, NEW t \in Threads, NEW v \in Pcs, GoesOn(t, v),
           \A u \in Threads : u # t => want'[u] = want[u] /\ got'[u] = got[u]
    PROVE  OthersKeep(t)
<1>1. \A u \in Threads : u # t => Woken(pc[u], pc'[u])  BY Zenon, PcGoesOn DEF ThreadInv
<1> QED  BY Zenon, <1>1, WokenKeeps DEF OthersKeep

LEMMA AllKeep ==
    ASSUME \A u \in Threads : OwnedBy(u)' = OwnedBy(u) /\ AskedBy(u)' = AskedBy(u)
    PROVE  UNCHANGED <<Free, Owned, Asked>>
<1>1. Owned' = Owned  BY Zenon DEF Owned
<1>2. Asked' = Asked  BY Zenon DEF Asked
<1>3. {OwnedBy(u)' : u \in Threads} = {OwnedBy(u) : u \in Threads}  BY Zenon
<1>4. Free' = Free  BY <1>3, Zenon DEF Free
<1> QED  BY Zenon, <1>1, <1>2, <1>4

(* How the abstract state changes if only thread t is concerned.           *)
LEMMA OneChanges ==
    ASSUME NEW t \in Threads, OthersKeep(t)
    PROVE  /\ Owned' = [Owned EXCEPT ![t] = OwnedBy(t)']
           /\ Asked' = [Asked EXCEPT ![t] = AskedBy(t)']
           /\ OwnedBy(t)' = OwnedBy(t) => Free' = Free
<1>1. Owned' = [Owned EXCEPT ![t] = OwnedBy(t)']  BY Zenon DEF Owned, OthersKeep
<1>2. Asked' = [Asked EXCEPT ![t] = AskedBy(t)']  BY Zenon DEF Asked, OthersKeep
<1>3. ASSUME OwnedBy(t)' = OwnedBy(t) PROVE Free' = Free
  <2>1. \A u \in Threads : OwnedBy(u)' = OwnedBy(u)  BY <1>3, Zenon DEF OthersKeep
  <2>2. {OwnedBy(u)' : u \in Threads} = {OwnedBy(u) : u \in Threads}  BY Zenon, <2>1
  <2> QED  BY <2>2, Zenon DEF Free
<1> QED  BY Zenon, <1>1, <1>2, <1>3

(* No two threads own the same handle.                                     *)
LEMMA OwnedApart ==
    ASSUME Placed
    PROVE  /\ \A t, u \in Threads : t # u => Range(got[t]) \intersect OwnedBy(u) = {}
           /\ \A t \in Threads : Range(got[t]) \subseteq Handles
<1>1. \A u : OwnedBy(u) \subseteq Range(got[u])  BY Zenon DEF OwnedBy
<1>2. \A t \in Threads : Range(got[t]) \subseteq Handles
  BY ListsSize, Zenon DEF Placed, Distinct
<1> QED  BY Zenon, <1>1, <1>2, PlacesApart

(* The Cardinality of DbAllocator is that of FiniteSets.                   *)
LEMMA SameCardinality == \A S : Allocator!Cardinality(S) = Cardinality(S)
BY Zenon DEF Allocator!Cardinality, Cardinality

LEMMA RefineInit == Init => Allocator!Init
<1> SUFFICES ASSUME Init PROVE Allocator!Init
  BY Zenon
<1>1. \A t \in Threads : OwnedBy(t) = {} /\ AskedBy(t) = 0  BY Zenon DEF Init, OwnedBy, AskedBy
<1>2. Owned = [t \in Threads |-> {}] /\ Asked = [t \in Threads |-> 0]
  BY Zenon, <1>1 DEF Owned, Asked
<1>3. Free = Handles  BY Zenon, <1>1 DEF Free
<1> QED  BY Zenon, <1>2, <1>3 DEF Allocator!Init

(* A request begins.                                                       *)
LEMMA RefineBegin ==
    ASSUME ThreadInv, NEW t \in Threads, NEW n \in 1 .. Cardinality(Handles), BeginGet(t, n)
    PROVE  Allocator!Ask(t)
<1>1. /\ pc[t] = "idle" /\ want' = [want EXCEPT ![t] = n] /\ pc' = [pc EXCEPT ![t] = "enter"]
      /\ got' = got
  BY Zenon, ThreadBegin DEF BeginGet
<1>2. pc'[t] = "enter" /\ want'[t] = n /\ \A u \in Threads : u # t => want'[u] = want[u]
  BY Zenon, <1>1 DEF ThreadInv
<1>3. GoesOn(t, "enter") /\ "enter" \in Pcs  BY Zenon, <1>1 DEF GoesOn, Pcs
<1>4. OthersKeep(t)  BY Zenon, <1>1, <1>2, <1>3, GoesOnKeeps
<1>5. OwnedBy(t) = {} /\ OwnedBy(t)' = {} /\ AskedBy(t) = 0 /\ AskedBy(t)' = n
  BY Zenon, <1>1, <1>2 DEF OwnedBy, AskedBy
<1>6. Asked[t] = 0 /\ Owned[t] = {}  BY Zenon, <1>5 DEF Asked, Owned
<1>7. Asked' = [Asked EXCEPT ![t] = n] /\ Free' = Free  BY Zenon, <1>4, <1>5, OneChanges
<1>8. Owned' = Owned  BY Zenon, <1>4, <1>5 DEF Owned, OthersKeep
<1> QED  BY Zenon, <1>6, <1>7, <1>8, SameCardinality DEF Allocator!Ask

(* All handles are connected: the request is granted as a whole.           *)
LEMMA RefineGrant ==
    ASSUME ThreadInv, Placed, NEW t \in Threads, NEW n, Connect(t, n), n = Len(got[t])
    PROVE  Allocator!Grant(t)
<1> DEFINE S == Range(got[t])
<1>1. pc[t] = "connect" /\ pc' = [pc EXCEPT ![t] = "own"] /\ want' = want /\ got' = got
  BY Zenon DEF Connect
<1>2. pc'[t] = "own" /\ GoesOn(t, "own") /\ "own" \in Pcs  BY Zenon, <1>1 DEF ThreadInv, GoesOn, Pcs
<1>3. OthersKeep(t)  BY Zenon, <1>1, <1>2, GoesOnKeeps
<1>4. OwnedBy(t) = {} /\ OwnedBy(t)' = S /\ AskedBy(t) = want[t] /\ AskedBy(t)' = 0
  BY Zenon, <1>1, <1>2 DEF OwnedBy, AskedBy
<1>5. Cardinality(S) = want[t] /\ want[t] # 0
  <2>1. Cardinality(S) = Len(got[t])  BY Zenon, ListsSize DEF Placed, Distinct
  <2> QED  BY <1>1, <2>1, ThreadTypes DEF Request
<1>6. S \subseteq Free
  <2>1. \A u \in Threads : S \intersect OwnedBy(u) = {}  BY Zenon, <1>4, OwnedApart
  <2>2. S \subseteq Handles  BY Zenon, OwnedApart
  <2> HIDE DEF S
  <2> QED  BY Zenon, <2>1, <2>2 DEF Free
<1>7. Free' = Free \ S
  <2>1. \A u \in Threads : u # t => OwnedBy(u)' = OwnedBy(u)  BY Zenon, <1>3 DEF OthersKeep
  <2> DEFINE A == UNION {OwnedBy(u) : u \in Threads}
             B == UNION {OwnedBy(u)' : u \in Threads}
  <2>2. B = A \union S
    <3> HIDE DEF S
    <3>1. ASSUME NEW h PROVE (\E u \in Threads : h \in OwnedBy(u)')
                             <=> (\E u \in Threads : h \in OwnedBy(u)) \/ h \in S
      BY <1>4, <2>1, Zenon
    <3> QED  BY Zenon, <3>1
  <2>3. Free' = Handles \ B /\ Free = Handles \ A  BY Zenon DEF Free
  <2> HIDE DEF A, B, S
  <2> QED  BY Zenon, <2>2, <2>3
<1>8. Asked[t] = want[t]  BY Zenon, <1>4 DEF Asked
<1>9. Owned' = [Owned EXCEPT ![t] = S] /\ Asked' = [Asked EXCEPT ![t] = 0]
  BY Zenon, <1>3, <1>4, OneChanges
<1> HIDE DEF S
<1> QED  BY Zenon, <1>5, <1>6, <1>7, <1>8, <1>9, SameCardinality DEF Allocator!Grant

(* A request fails, and what was taken is back.                            *)
LEMMA RefineFailed ==
    ASSUME ThreadInv, NEW t \in Threads, GetFailed(t)
    PROVE  Allocator!Refuse(t)
<1>1. /\ pc[t] = "failed" /\ pc' = SignalGet([pc EXCEPT ![t] = "idle"])
      /\ want' = [want EXCEPT ![t] = 0] /\ got' = [got EXCEPT ![t] = <<>>]
  BY Zenon DEF GetFailed
<1>2. \A u \in Threads : u # t => want'[u] = want[u] /\ got'[u] = got[u]
  BY Zenon, <1>1 DEF ThreadInv
<1>3. pc'[t] = "idle" /\ GoesOn(t, "idle") /\ "idle" \in Pcs
  BY Zenon, <1>1, ThreadFailed DEF GoesOn, Pcs
<1>4. OthersKeep(t)  BY Zenon, <1>2, <1>3, GoesOnKeeps
<1>5. OwnedBy(t) = {} /\ OwnedBy(t)' = {} /\ AskedBy(t) = want[t] /\ AskedBy(t)' = 0
  BY Zenon, <1>1, <1>3 DEF OwnedBy, AskedBy
<1>6. want[t] # 0  BY <1>1, ThreadTypes DEF Request
<1>7. Asked[t] = want[t]  BY Zenon, <1>5 DEF Asked
<1>8. Asked' = [Asked EXCEPT ![t] = 0] /\ Free' = Free  BY Zenon, <1>4, <1>5, OneChanges
<1>9. Owned' = Owned  BY Zenon, <1>4, <1>5 DEF Owned, OthersKeep
<1> QED  BY Zenon, <1>6, <1>7, <1>8, <1>9 DEF Allocator!Refuse

(* A handle is returned.                                                   *)
LEMMA RefinePut ==
    ASSUME ThreadInv, Placed, NEW t \in Threads, PutReturn(t)
    PROVE  Allocator!Release(t)
<1> DEFINE h == putting[t]
<1>1. /\ ThreadInv' /\ h \in Range(got[t]) /\ pc'[t] \in {"idle", "own"}
      /\ Lists(got'[t], Range(got[t]) \ {h})
      /\ \A u \in Threads : u # t => got'[u] = got[u]
  BY Zenon, ThreadReturn DEF Placed
<1>2. /\ pc[t] = "put"
      /\ \E v \in {"idle", "own"} : pc' = SignalGet([pc EXCEPT ![t] = v])
      /\ \A u \in Threads : u # t => want'[u] = want[u]
  BY Zenon DEF PutReturn, ThreadInv
<1>3. PICK v \in {"idle", "own"} : pc' = SignalGet([pc EXCEPT ![t] = v])  BY Zenon, <1>2
<1>4. GoesOn(t, v) /\ v \in Pcs  BY Zenon, <1>3 DEF GoesOn, Pcs
<1>5. OthersKeep(t)  BY Zenon, <1>1, <1>2, <1>4, GoesOnKeeps
<1>6. OwnedBy(t) = Range(got[t]) /\ AskedBy(t) = 0 /\ AskedBy(t)' = 0
  BY Zenon, <1>1, <1>2 DEF OwnedBy, AskedBy
<1>7. OwnedBy(t)' = Range(got[t]) \ {h}
  <2>1. Range(got'[t]) = Range(got[t]) \ {h}  BY Zenon, <1>1 DEF Lists
  <2>2. CASE pc'[t] = "own"  BY Zenon, <2>1, <2>2 DEF OwnedBy
  <2>3. CASE pc'[t] = "idle"
    <3>1. got'[t] = <<>>  BY Zenon, <1>1, <2>3 DEF ThreadInv, Request
    <3>2. Range(<<>>) = {}  BY Zenon, ListsNone DEF Lists
    <3> QED  BY Zenon, <2>1, <2>3, <3>1, <3>2 DEF OwnedBy
  <2> QED  BY Zenon, <1>1, <2>2, <2>3
<1>8. Free' = Free \union {h}
  <2>1. \A u \in Threads : u # t => OwnedBy(u)' = OwnedBy(u) /\ h \notin OwnedBy(u)
    BY Zenon, <1>1, <1>5, OwnedApart DEF OthersKeep
  <2>2. h \in Handles  BY Zenon, <1>1, OwnedApart
  <2> DEFINE A == UNION {OwnedBy(u) : u \in Threads}
             B == UNION {OwnedBy(u)' : u \in Threads}
  <2> HIDE DEF h
  <2>3. B = A \ {h}
    <3>1. ASSUME NEW g PROVE (\E u \in Threads : g \in OwnedBy(u)')
                             <=> (\E u \in Threads : g \in OwnedBy(u)) /\ g # h
      BY <1>6, <1>7, <2>1, Zenon
    <3> QED  BY Zenon, <3>1
  <2>4. Free' = Handles \ B /\ Free = Handles \ A  BY Zenon DEF Free
  <2> HIDE DEF A, B
  <2> QED  BY Zenon, <2>2, <2>3, <2>4
<1>9. Owned[t] = Range(got[t])  BY Zenon, <1>6 DEF Owned
<1>10. Owned' = [Owned EXCEPT ![t] = Owned[t] \ {h}]  BY Zenon, <1>5, <1>7, <1>9, OneChanges
<1>11. Asked' = Asked  BY Zenon, <1>5, <1>6 DEF Asked, OthersKeep
<1> QED  BY <1>1, <1>8, <1>9, <1>10, <1>11, Zenon DEF Allocator!Release

(* Every other step is one that the users of the pool do not see.          *)
LEMMA RefineHidden ==
    ASSUME ThreadInv, Placed, ConnectedFirst, NEW t \in Threads,
           \/ Queue(t) \/ QueueTimeout(t) \/ Collect(t) \/ GetTimeout(t)
           \/ \E n : Connect(t, n) /\ n # Len(got[t])
           \/ \E h : PutHandle(t, h)
    PROVE  UNCHANGED <<Free, Owned, Asked>>
<1> DEFINE Begun == {"enter", "queued", "woken", "collecting", "getwoken", "connect", "failed"}
<1>1. want' = want /\ \A u \in Threads : u # t => got'[u] = got[u]
  BY Zenon DEF Queue, QueueTimeout, Collect, GetTimeout, Connect, PutHandle, ThreadInv
<1>2. PICK v \in Pcs : GoesOn(t, v)
  <2>1. ASSUME Collect(t) PROVE GoesOn(t, IF waiting' THEN "collecting" ELSE "connect")
    BY Zenon, <2>1 DEF Collect, GoesOn
  <2>2. ASSUME GetTimeout(t) PROVE GoesOn(t, "connect") \/ GoesOn(t, "failed")
    BY Zenon, <2>2 DEF GetTimeout, GoesOn
  <2>3. \/ Collect(t) \/ GetTimeout(t)
        \/ \E v \in {"queued", "failed", "own", "put"} : pc' = [pc EXCEPT ![t] = v]
    BY Zenon DEF Queue, QueueTimeout, Connect, PutHandle
  <2> QED  BY Zenon, <2>1, <2>2, <2>3 DEF GoesOn, Pcs
<1>3. OthersKeep(t)  BY Zenon, <1>1, <1>2, GoesOnKeeps
<1>4. \/ pc[t] \in Begun /\ pc'[t] \in Begun
      \/ pc[t] = "own" /\ pc'[t] = "put" /\ got'[t] = got[t]
  <2>1. CASE Queue(t) \/ QueueTimeout(t)  BY Zenon, <2>1 DEF Queue, QueueTimeout, ThreadInv
  <2>2. CASE Collect(t)  BY Zenon, <2>2, InvCollect DEF Collect
  <2>3. CASE GetTimeout(t)  BY Zenon, <2>3, InvTimeout DEF GetTimeout
  <2>4. ASSUME NEW n, Connect(t, n), n # Len(got[t])
        PROVE  pc[t] \in Begun /\ pc'[t] \in Begun
    BY Zenon, <2>4 DEF Connect, ThreadInv
  <2>5. ASSUME NEW h, PutHandle(t, h)
        PROVE  pc[t] = "own" /\ pc'[t] = "put" /\ got'[t] = got[t]
    BY Zenon, <2>5 DEF PutHandle, ThreadInv
  <2> QED  BY <2>1, <2>2, <2>3, <2>4, <2>5, Zenon
<1>5. OwnedBy(t)' = OwnedBy(t) /\ AskedBy(t)' = AskedBy(t)  BY Zenon, <1>1, <1>4 DEF OwnedBy, AskedBy
<1> QED  BY <1>3, <1>5, AllKeep, Zenon DEF OthersKeep

LEMMA RefineStep == PoolInv /\ [Next]_vars => [Allocator!Next]_<<Free, Owned, Asked>>
<1> SUFFICES ASSUME PoolInv, [Next]_vars
             PROVE  Allocator!Next \/ UNCHANGED <<Free, Owned, Asked>>
  BY Zenon
<1>1. ThreadInv /\ Placed /\ ConnectedFirst  BY Zenon DEF PoolInv, ListInv
<1>2. ASSUME UNCHANGED <<pc, want, got>> PROVE UNCHANGED <<Free, Owned, Asked>>
  BY Zenon, <1>2, AllKeep DEF OwnedBy, AskedBy
<1>3. CASE UNCHANGED vars  BY Zenon, <1>2, <1>3 DEF vars, threadVars
<1>4. ASSUME NEW t \in Threads,
             \/ GetFailed(t) \/ PutReturn(t)
             \/ \E n \in 1 .. Cardinality(Handles) : BeginGet(t, n)
             \/ \E n : Connect(t, n) /\ n = Len(got[t])
      PROVE  Allocator!Next
  <2>1. Allocator!Ask(t) \/ Allocator!Refuse(t) \/ Allocator!Grant(t) \/ Allocator!Release(t)
    BY <1>1, <1>4, RefineFailed, RefinePut, RefineBegin, RefineGrant, Zenon
  <2> QED  BY <2>1, Zenon DEF Allocator!Next
<1>5. ASSUME NEW t \in Threads, NEW h, Disconnect(t, h) PROVE UNCHANGED <<Free, Owned, Asked>>
  BY Zenon, <1>2, <1>5 DEF Disconnect, threadVars
<1>6. ASSUME NEW k, CheckGrab(k) \/ CheckHandle(k) \/ Ns_DbBouncePool(k)
      PROVE  UNCHANGED <<Free, Owned, Asked>>
  BY Zenon, <1>2, <1>6 DEF CheckGrab, CheckHandle, Ns_DbBouncePool, threadVars
<1>7. ASSUME NEW k, CheckReturn(k) PROVE UNCHANGED <<Free, Owned, Asked>>
  <2>1. UNCHANGED <<want, got, count, putting>> /\ pc' = SignalGet(pc)  BY Zenon, <1>7 DEF CheckReturn
  <2>2. \A u \in Threads : Woken(pc[u], pc'[u])  BY Zenon, <1>1, <2>1, ThreadWoken
  <2>3. \A u \in Threads : OwnedBy(u)' = OwnedBy(u) /\ AskedBy(u)' = AskedBy(u)
    BY Zenon, <2>1, <2>2, WokenKeeps
  <2> QED  BY Zenon, <2>3, AllKeep
<1> QED
  BY <1>1, <1>3, <1>4, <1>5, <1>6, <1>7, RefineHidden, Zenon DEF Next, ThreadStep, CheckStep

(* The pool implements the allocator of DbAllocator: a request for several *)
(* handles is granted as a whole or not at all, to a thread that owned     *)
(* none, and no handle has two owners.                                     *)
THEOREM PoolImplementsAllocator == Spec => GrantsAllOrNothing
<1>1. Spec => []PoolInv  BY PoolInit, PoolStep, PTL DEF Spec
<1> QED
  BY <1>1, RefineInit, RefineStep, PTL DEF Spec, GrantsAllOrNothing, Allocator!Spec
=============================================================================
