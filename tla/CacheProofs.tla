---------------------------- MODULE CacheProofs -----------------------------
(***************************************************************************)
(* The theorems about Cache, for all sets of keys, threads, sizes and      *)
(* limits: one lemma for each action says that it keeps the invariant of   *)
(* CacheUpdates.                                                           *)
(*                                                                         *)
(* Hypotheses of the theorems: no two threads begin transactions at a time *)
(* and keys of transactions have no expiry time.                           *)
(***************************************************************************)
EXTENDS CacheUpdates

(* The leaves that name no prover are for Zenon.                           *)
USE Zenon

LEMMA KeepsCommand ==
    ASSUME CacheInv, Hyps, NEW t \in Threads, NEW k \in Keys,
           NEW cmd \in {"eval", "force", "update"}, Command(t, cmd, k)
    PROVE  CacheInv' /\ (~TxDrops /\ WaitInv => WaitInv')
<1> DEFINE m == [cmd |-> cmd, key |-> k]
<1>1. m \in CallType /\ m.key = k  BY SMT DEF CallType
<1>2. pc[t] = "idle" /\ CreateEntry(t, m) /\ (stack[t] # <<>> => k \in TxKeys)
  BY DEF Command, MayWrite
<1> HIDE DEF m
<1>3. Asks(t, m)  BY <1>1, <1>2 DEF Asks
<1> QED  BY <1>2, <1>3, KeepsCreate

LEMMA KeepsRetry ==
    ASSUME CacheInv, Hyps, NEW t \in Threads, Retry(t)
    PROVE  CacheInv' /\ (~TxDrops /\ WaitInv => WaitInv')
<1>1. pc[t] = "woken" /\ CreateEntry(t, call[t])  BY DEF Retry
<1>2. call[t].key \in Keys /\ (stack[t] # <<>> => call[t].key \in TxKeys)
  BY <1>1 DEF CacheInv, CallInv
<1>3. Asks(t, call[t])  BY <1>1, <1>2 DEF CacheInv, TypeInv, Asks
<1> QED  BY <1>1, <1>3, KeepsCreate

LEMMA KeepsTimeUp ==
    ASSUME CacheInv, NEW t \in Threads, TimeUp(t)
    PROVE  CacheInv' /\ (WaitInv => WaitInv')
<1>1. /\ pc[t] = "wait" /\ pc' = [pc EXCEPT ![t] = "late"] /\ cache' = cache /\ call' = call
      /\ stack' = stack /\ UNCHANGED <<transactionEpoch, tmp>>
  BY DEF TimeUp
<1>2. TypeInv /\ IsCache(cache) /\ call \in [Threads -> CallType] /\ call[t] \in CallType
  BY DEF CacheInv, TypeInv
<1>3. call' = [call EXCEPT ![t] = call[t]]  BY <1>1, <1>2
<1>4. pc[t] # "eval" /\ "late" \in Pcs /\ "late" # "eval" /\ "late" # "wait" /\ "late" # "begin"
  BY <1>1, PcFacts
<1>5. /\ pc'[t] = "late" /\ \A u \in Threads : u # t => pc'[u] = pc[u]
      /\ \A j : SameEvals(pc, call, pc', call', j)
  BY <1>1, <1>2, <1>3, <1>4, OneThread
<1>6. /\ SameStacks(stack, stack') /\ stack' \in [Threads -> StackType]
      /\ MoreTx(stack, stack')
  BY <1>1, <1>2, MoreSame
<1>7. AllOk(cache, pc, call, stack)  BY DEF CacheInv, EntriesInv, AllOk
<1>8. AllOk(cache', pc', call', stack')
  <2>1. ASSUME NEW j \in Keys
        PROVE  KeyOk(j, j \in Elems(cache.lru), cache.entry[j], pc', call', stack')
    <3>1. KeyOk(j, j \in Elems(cache.lru), cache.entry[j], pc, call, stack)
      BY <1>7 DEF AllOk
    <3>2. SameEvals(pc, call, pc', call', j)  BY <1>5
    <3> QED  BY <1>6, <3>1, <3>2, KeyFrame
  <2> QED  BY <1>1, <2>1 DEF AllOk
<1>9. call[t].key \in Keys /\ (stack[t] # <<>> => call[t].key \in TxKeys)
  BY <1>1 DEF CacheInv, CallInv
<1>10. CacheInv'  BY <1>1, <1>2, <1>3, <1>4, <1>6, <1>8, <1>9, OneKeeps
<1>11. WaitInv => WaitInv'  BY <1>1, <1>4, <1>5 DEF WaitInv
<1> QED  BY <1>10, <1>11

LEMMA KeepsGiveUp ==
    ASSUME CacheInv, Hyps, NEW t \in Threads, GiveUp(t)
    PROVE  CacheInv' /\ (WaitInv => WaitInv')
<1> DEFINE k == call[t].key
           d(x) == Ns_CacheCreateEntry(cache, k, x)
<1>1. PICK x \in BOOLEAN :
        /\ MayExpire(k, x)
        /\ cache' = IF IsNew(cache, k, x) THEN [d(x) EXCEPT !.entry[k].owner = Nobody] ELSE d(x)
  BY DEF GiveUp
<1> DEFINE c == d(x)
           y == Fresh(cache.entry[k], x)
<1>2. /\ pc[t] = "late" /\ pc' = [pc EXCEPT ![t] = "idle"] /\ call' = [call EXCEPT ![t] = NoCall]
      /\ stack' = stack /\ UNCHANGED <<transactionEpoch, tmp>>
  BY DEF GiveUp, Return, NoCall
<1>3. TypeInv /\ IsCache(cache) /\ Expiring \intersect TxKeys = {}
  BY DEF CacheInv, TypeInv, Hyps
<1>4. k \in Keys  BY <1>2 DEF CacheInv, CallInv
<1>5. pc[t] # "eval"  BY <1>2, PcFacts
<1>6. /\ pc'[t] = "idle" /\ \A u \in Threads : u # t => pc'[u] = pc[u] /\ call'[u] = call[u]
      /\ \A j : SameEvals(pc, call, pc', call', j)
  BY <1>2, <1>3, <1>5, OneThread, PcFacts
<1>7. /\ SameStacks(stack, stack') /\ stack' \in [Threads -> StackType]
      /\ MoreTx(stack, stack')
  BY <1>2, <1>3, MoreSame
<1>8. IsCache(cache') /\ AllOk(cache', pc', call', stack') /\ BlankKept(t)
  <2>1. CASE IsNew(cache, k, x)
    <3>1. Changed(cache, c, k, TRUE, y)  BY <1>1, <1>3, <1>4, CreateMoves
    <3>2. /\ Ready(y, k, t) /\ ~Filled(y) /\ ~y.pending
          /\ \A u \in Threads : ~Evaluates(pc, call, u, k)
      BY <1>1, <1>3, <1>4, <2>1, Usable
    <3>3. \A u \in Threads : ~Blank(cache, k, u)
      BY <1>1, <1>3, <1>4, <2>1, BlankReady
    <3>4. cache' = [c EXCEPT !.entry[k].owner = Nobody]  BY <1>1, <2>1
    <3> HIDE DEF c, y, k
    <3> DEFINE z == OwnedBy(y, Nobody)
    <3>5. Changed(cache, cache', k, TRUE, z)  BY <1>4, <3>1, <3>4, OwnMoves
    <3>6. /\ z.owner = Nobody /\ z.value = y.value /\ z.uncommitted = y.uncommitted
          /\ z.pending = y.pending /\ z.expires = y.expires
      BY <3>2, OwnedParts DEF Ready
    <3> HIDE DEF z
    <3>7. Orphan(z) /\ ~z.expires /\ ~z.pending
      BY <3>2, <3>6 DEF Orphan, NoValue, Filled, Ready
    <3>8. \A u \in Threads : ~Evaluates(pc', call', u, k)
      BY <1>6, <3>2 DEF SameEvals
    <3>9. KeyOk(k, TRUE, z, pc', call', stack')  BY <3>7, <3>8 DEF KeyOk
    <3>10. MovesTo(cache', k, TRUE, z)  BY <3>5, MovesNone
    <3>11. OthersSame(pc, call, pc', call', k)  BY <1>6 DEF OthersSame
    <3>12. IsCache(cache') /\ AllOk(cache', pc', call', stack')
      BY <1>4, <1>7, <3>9, <3>10, <3>11, MovesOk
    <3> QED  BY <1>3, <1>4, <3>3, <3>10, <3>12, MovesKept
  <2>2. CASE ~IsNew(cache, k, x)
    <3>1. cache' = c  BY <1>1, <2>2
    <3>2. /\ IsCache(cache') /\ AllOk(cache', pc', call', stack')
          /\ MovesTo(cache', k, TRUE, cache.entry[k])
      BY <1>1, <1>2, <1>4, <1>6, <2>2, <3>1, TouchOk
    <3> QED  BY <1>3, <1>4, <3>2, MovesKept DEF Blank
  <2> QED  BY <2>1, <2>2
<1>9. CacheInv'  BY <1>2, <1>5, <1>7, <1>8, OneKeeps, PcFacts
<1>10. ASSUME WaitInv PROVE WaitInv'
  <2>1. \A u \in Threads : pc'[u] = "wait" => u # t /\ pc[u] = "wait" /\ call'[u] = call[u]
    BY <1>6, PcFacts
  <2> QED  BY <1>8, <1>10, <2>1, WaitsKept
<1> QED  BY <1>9, <1>10

(* Ns_CacheBroadcast leaves nobody waiting.                                *)
LEMMA Broadcasts ==
    ASSUME TypeInv
    PROVE  /\ Ns_CacheBroadcast(pc) \in [Threads -> Pcs]
           /\ \A u \in Threads : /\ Ns_CacheBroadcast(pc)[u] # "wait"
                                 /\ pc[u] = "wait" => Ns_CacheBroadcast(pc)[u] = "woken"
                                 /\ pc[u] # "wait" => Ns_CacheBroadcast(pc)[u] = pc[u]
BY PcFacts DEF TypeInv, Ns_CacheBroadcast

LEMMA KeepsFinishEval ==
    ASSUME CacheInv, NEW t \in Threads, FinishEval(t)
    PROVE  CacheInv' /\ WaitInv'
<1> DEFINE k == call[t].key
           c == Ns_CacheCreateEntry(cache, k, FALSE)
           e == cache.entry[k]
           b == Ns_CacheBroadcast(pc)
<1>1. /\ pc[t] = "eval" /\ pc' = [b EXCEPT ![t] = "idle"] /\ call' = [call EXCEPT ![t] = NoCall]
      /\ UNCHANGED <<transactionEpoch, tmp>>
      /\ \/ \E n \in Sizes : SetEntry(c, t, k, n)
         \/ cache' = Ns_CacheDeleteEntry(c, k) /\ stack' = stack
  BY DEF FinishEval, NoCall
<1>2. /\ TypeInv /\ IsCache(cache) /\ call \in [Threads -> CallType]
      /\ stack \in [Threads -> StackType]
  BY DEF CacheInv, TypeInv
<1>3. k \in Keys /\ (stack[t] # <<>> => k \in TxKeys)
  BY <1>1 DEF CacheInv, CallInv
<1>4. KeyOk(k, k \in Elems(cache.lru), e, pc, call, stack)
  BY <1>3 DEF CacheInv, EntriesInv
<1>5. Changed(cache, c, k, TRUE, e)
  BY <1>2, <1>3, CreateMoves DEF MayExpire, Fresh
<1>6. e \in EntryType  BY <1>2, <1>3, CacheParts
<1>7. Evaluates(pc, call, t, k)  BY <1>1 DEF Evaluates
<1>8. /\ b \in [Threads -> Pcs]
      /\ \A u \in Threads : /\ b[u] # "wait" /\ (pc[u] = "wait" => b[u] = "woken")
                            /\ pc[u] # "wait" => b[u] = pc[u]
  BY <1>2, Broadcasts
<1> HIDE DEF c, e, b
<1>9. Ready(e, k, t) /\ \A u \in Threads : Evaluates(pc, call, u, k) => u = t
  <2>1. k \in Elems(cache.lru) /\ NoValue(e) /\ e.owner = t
    BY <1>4, <1>7 DEF KeyOk
  <2>2. t # Nobody  BY CacheAssumption
  <2>3. Computed(k, e, pc, call, stack)
    BY <1>4, <2>1, <2>2, CacheAssumption DEF KeyOk, HasValue, Private, Orphan, NoValue
  <2>4. e.pending => k \in TxKeys /\ e.epoch \in EpochsIn(stack[t])
    BY <1>4, <2>1, <2>3 DEF KeyOk, Computed
  <2>5. Ready(e, k, t)  BY <1>6, <2>1, <2>4 DEF Ready, NoValue
  <2>6. \A u \in Threads : Evaluates(pc, call, u, k) => u = t
    BY <1>4, <2>1 DEF KeyOk
  <2> QED  BY <2>5, <2>6
<1>10. /\ pc'[t] = "idle" /\ \A u \in Threads : u # t => pc'[u] = b[u] /\ call'[u] = call[u]
       /\ pc' \in [Threads -> Pcs] /\ call' \in [Threads -> CallType]
  BY <1>1, <1>2, <1>8, PcFacts
<1>11. ASSUME NEW u \in Threads, NEW j, Evaluates(pc', call', u, j) # Evaluates(pc, call, u, j)
       PROVE  u = t /\ j = k /\ ~Evaluates(pc', call', u, j)
  <2>1. u # t => (pc'[u] = "eval" <=> pc[u] = "eval") /\ call'[u] = call[u]
    BY <1>8, <1>10, PcFacts
  <2>2. u = t => pc'[u] # "eval"  BY <1>10, PcFacts
  <2> QED  BY <1>11, <2>1, <2>2 DEF Evaluates
<1>12. OthersSame(pc, call, pc', call', k)
  BY <1>11 DEF OthersSame, SameEvals, Evaluates
<1>13. \A u \in Threads : ~Evaluates(pc', call', u, k)
  <2> SUFFICES ASSUME NEW u \in Threads, Evaluates(pc', call', u, k) PROVE FALSE
    OBVIOUS
  <2>1. u # t  BY <1>10, PcFacts DEF Evaluates
  <2>2. Evaluates(pc, call, u, k)  BY <1>11, <2>1
  <2> QED  BY <1>9, <2>1, <2>2
<1> HIDE DEF k
<1>14. /\ IsCache(cache') /\ AllOk(cache', pc', call', stack')
       /\ SameStacks(stack, stack') /\ stack' \in [Threads -> StackType]
  <2>1. CASE \E n \in Sizes : SetEntry(c, t, k, n)
    BY <1>3, <1>5, <1>9, <1>12, <1>13, <2>1, SetEntryOk
  <2>2. CASE cache' = Ns_CacheDeleteEntry(c, k) /\ stack' = stack
    <3>1. MovesTo(cache', k, FALSE, Newborn)
      BY <1>3, <1>5, <2>2, DeleteMoves, MovesNone
    <3>2. KeyOk(k, FALSE, Newborn, pc', call', stack')  BY <1>3, <1>13, KeyGone
    <3>3. /\ SameStacks(stack, stack') /\ stack' \in [Threads -> StackType]
          /\ MoreTx(stack, stack')
      BY <1>2, <2>2, MoreSame
    <3> QED  BY <1>3, <1>12, <3>1, <3>2, <3>3, MovesOk
  <2> QED  BY <1>1, <2>1, <2>2
<1>15. \A u \in Threads : pc'[u] = "begin" => pc[u] = "begin"
  BY <1>8, <1>10, PcFacts
<1>16. \A u \in Threads : pc'[u] \in CallPcs => pc[u] \in CallPcs /\ call'[u] = call[u]
  <2>1. "wait" \in CallPcs  BY SMT DEF CallPcs
  <2> QED  BY <1>8, <1>10, <2>1, PcFacts
<1>17. CacheInv'  BY <1>1, <1>10, <1>14, <1>15, <1>16, ThreadsKeep
<1>18. WaitInv'  BY <1>8, <1>10, PcFacts DEF WaitInv
<1> QED  BY <1>17, <1>18

(* Ns_CacheFindEntryT touches an entry, or drops it when it has expired.   *)
LEMMA FindIs ==
    ASSUME NEW c, IsCache(c), NEW t, NEW k, NEW x \in BOOLEAN, NEW P, x => k \in P
    PROVE  Drops(c, Ns_CacheFindEntryT(c, t, k, x), P)
<1> DEFINE d == Ns_CacheFindEntryT(c, t, k, x)
<1>1. CASE ~Exists(c, k) \/ (c.entry[k].value = NULL /\ stack[t] = <<>>)
  <2>1. d = c  BY <1>1 DEF Ns_CacheFindEntryT
  <2> QED  BY <2>1, DropsNone
<1>2. CASE ~(~Exists(c, k) \/ (c.entry[k].value = NULL /\ stack[t] = <<>>))
  <2>1. k \in Elems(c.lru)  BY <1>2, CacheParts
  <2>2. d = IF x THEN Ns_CacheDeleteEntry(c, k)
            ELSE IF Ns_CacheGetValueT(c, t, k) # NULL THEN Touch(c, k) ELSE c
    BY <1>2 DEF Ns_CacheFindEntryT
  <2>3. Drops(c, c, P)  BY DropsNone
  <2>4. x => Drops(c, Ns_CacheDeleteEntry(c, k), P)  BY <2>1, <2>3, DropsMore
  <2>5. Drops(c, Touch(c, k), P)
    <3>1. Becomes(c, Touch(c, k), Elems(c.lru), c.entry)  BY <2>1, TouchIs
    <3> QED  BY <3>1 DEF Becomes, Drops
  <2> HIDE DEF d
  <2>6. Drops(c, d, P)  BY <2>2, <2>3, <2>4, <2>5
  <2> QED  BY <2>6 DEF d
<1> QED  BY <1>1, <1>2

(* The entries that ns_cache_get, ns_cache_flush and ns_cache_keys of a    *)
(* thread may drop: those that have expired, and of ks those it sees.      *)
Gone(t, ks) == {j \in Keys : MayExpire(j, TRUE) \/ (j \in ks /\ j \in Seen(cache, t))}

LEMMA QuietKeeps ==
    ASSUME CacheInv, IsCache(cache'), AllOk(cache', pc, call, stack),
           UNCHANGED <<transactionEpoch, pc, call, stack, tmp>>
    PROVE  CacheInv'
<1>1. /\ transactionEpoch' = transactionEpoch /\ pc' = pc /\ call' = call /\ stack' = stack
      /\ tmp' = tmp
  OBVIOUS
<1>2. TypeInv /\ CallInv /\ StackInv /\ BeginInv  BY DEF CacheInv
<1>3. TypeInv'  BY <1>1, <1>2 DEF TypeInv
<1>4. CallInv' /\ BeginInv'  BY <1>1, <1>2 DEF CallInv, BeginInv
<1>5. StackInv'  BY <1>1, <1>2 DEF StackInv
<1>6. EntriesInv'  BY <1>1 DEF EntriesInv, AllOk
<1> QED  BY <1>3, <1>4, <1>5, <1>6 DEF CacheInv

LEMMA DropKeeps ==
    ASSUME CacheInv, Hyps, NEW t \in Threads, NEW ks, Drops(cache, cache', Gone(t, ks)),
           pc[t] = "idle", \A j \in ks : cache.entry[j].epoch \in Epochs(t) => TxDrops,
           UNCHANGED <<transactionEpoch, pc, call, stack, tmp>>
    PROVE  CacheInv' /\ (~TxDrops /\ WaitInv => WaitInv')
<1>1. IsCache(cache) /\ IsCache(cache')  BY DEF CacheInv, TypeInv, Drops
<1>2. ASSUME NEW j \in Keys, j \in Gone(t, ks)
      PROVE  /\ Filled(cache.entry[j])
             /\ cache.entry[j].value # NULL \/ TxDrops
  <2> DEFINE e == cache.entry[j]
  <2>1. KeyOk(j, j \in Elems(cache.lru), e, pc, call, stack)
    BY DEF CacheInv, EntriesInv
  <2>2. CASE MayExpire(j, TRUE)
    <3>1. j \in Elems(cache.lru) /\ e.expires
      BY <1>1, <2>2, CacheParts DEF MayExpire
    <3> HIDE DEF e
    <3>2. j \in Expiring /\ (e.pending => j \in TxKeys)  BY <2>1, <3>1 DEF KeyOk
    <3>3. ~e.pending  BY <3>2 DEF Hyps
    <3>4. HasValue(e)
      BY <2>1, <3>1, <3>3 DEF KeyOk, Private, Computed, Orphan, NoValue
    <3> QED  BY <3>4 DEF HasValue, Filled, e
  <2>3. CASE j \in ks /\ j \in Seen(cache, t)
    <3>1. Ns_CacheGetValueT(cache, t, j) # NULL  BY <2>3 DEF Seen
    <3>2. e.value # NULL \/ (e.uncommitted # NULL /\ e.epoch \in Epochs(t))
      BY <3>1 DEF Ns_CacheGetValueT
    <3> QED  BY <2>3, <3>2 DEF Filled
  <2> QED  BY <1>2, <2>2, <2>3 DEF Gone
<1>3. AllOk(cache, pc, call, stack)  BY DEF CacheInv, EntriesInv, AllOk
<1>4. AllOk(cache', pc, call, stack)  BY <1>2, <1>3, DropsOk
<1>5. CacheInv'  BY <1>1, <1>4, QuietKeeps
<1>6. ASSUME ~TxDrops, WaitInv PROVE WaitInv'
  <2>1. ASSUME NEW u \in Threads, NEW j \in Keys, Blank(cache, j, u) PROVE Blank(cache', j, u)
    <3>1. j \in Elems(cache.lru) /\ cache.entry[j].value = NULL  BY <2>1 DEF Blank
    <3>2. j \notin Gone(t, ks)  BY <1>2, <1>6, <3>1
    <3>3. j \in Elems(cache'.lru) /\ cache'.entry[j] = cache.entry[j]
      BY <3>1, <3>2 DEF Drops
    <3> QED  BY <2>1, <3>3 DEF Blank
  <2>2. BlankKept(t)  BY <2>1 DEF BlankKept
  <2>3. \A u \in Threads : pc'[u] = "wait" => u # t /\ pc[u] = "wait" /\ call'[u] = call[u]
    <3>1. pc' = pc /\ call' = call  OBVIOUS
    <3> QED  BY <3>1, PcFacts
  <2> QED  BY <1>6, <2>2, <2>3, WaitsKept
<1> QED  BY <1>5, <1>6

LEMMA KeepsGet ==
    ASSUME CacheInv, Hyps, NEW t \in Threads, NEW k \in Keys, Get(t, k)
    PROVE  CacheInv' /\ (~TxDrops /\ WaitInv => WaitInv')
<1>1. /\ pc[t] = "idle" /\ UNCHANGED <<transactionEpoch, pc, call, stack, tmp>>
      /\ \E x \in BOOLEAN : MayExpire(k, x) /\ cache' = Ns_CacheFindEntryT(cache, t, k, x)
  BY DEF Get
<1>2. PICK x \in BOOLEAN : MayExpire(k, x) /\ cache' = Ns_CacheFindEntryT(cache, t, k, x)
  BY <1>1
<1> DEFINE ks == {}
<1>3. x => k \in Gone(t, ks)  BY <1>2 DEF Gone, MayExpire
<1>4. IsCache(cache)  BY DEF CacheInv, TypeInv
<1>5. Drops(cache, cache', Gone(t, ks))  BY <1>2, <1>3, <1>4, FindIs
<1>6. \A j \in ks : cache.entry[j].epoch \in Epochs(t) => TxDrops  OBVIOUS
<1> HIDE DEF ks
<1> QED  BY <1>1, <1>5, <1>6, DropKeeps

LEMMA KeepsFlush ==
    ASSUME CacheInv, Hyps, NEW t \in Threads, NEW k \in Keys, Flush(t, k)
    PROVE  CacheInv' /\ (~TxDrops /\ WaitInv => WaitInv')
<1>1. /\ pc[t] = "idle" /\ UNCHANGED <<transactionEpoch, pc, call, stack, tmp>>
      /\ cache.entry[k].epoch \in Epochs(t) => TxDrops
  BY DEF Flush
<1>2. PICK x \in BOOLEAN :
        MayExpire(k, x) /\ cache' = FlushEntry(Ns_CacheFindEntryT(cache, t, k, x), t, k)
  BY DEF Flush
<1>3. x => k \in Gone(t, {k})  BY <1>2 DEF Gone, MayExpire
<1>4. k \in Seen(cache, t) => k \in Gone(t, {k})  BY DEF Gone
<1>5. IsCache(cache)  BY DEF CacheInv, TypeInv
<1>6. Drops(cache, Ns_CacheFindEntryT(cache, t, k, x), Gone(t, {k}))
  BY <1>3, <1>5, FindIs
<1>7. Drops(cache, cache', Gone(t, {k}))  BY <1>2, <1>4, <1>6, FlushKeeps
<1>8. \A j \in {k} : cache.entry[j].epoch \in Epochs(t) => TxDrops  BY <1>1
<1> QED  BY <1>1, <1>7, <1>8, DropKeeps

LEMMA KeepsWalk ==
    ASSUME CacheInv, Hyps, NEW t \in Threads, NEW ks \in SUBSET Keys, Walk(t, ks)
    PROVE  CacheInv' /\ (~TxDrops /\ WaitInv => WaitInv')
<1>1. /\ pc[t] = "idle" /\ UNCHANGED <<transactionEpoch, pc, call, stack, tmp>>
      /\ \A j \in ks : cache.entry[j].epoch \in Epochs(t) => TxDrops
  BY DEF Walk
<1>2. PICK xs \in SUBSET {k \in Keys : MayExpire(k, TRUE)} :
        cache' = WalkEntries(cache, t, ks \union xs)
  BY DEF Walk
<1>3. \A j \in ks \union xs : j \in Seen(cache, t) => j \in Gone(t, ks)  BY DEF Gone
<1>4. IsCache(cache)  BY DEF CacheInv, TypeInv
<1>5. Drops(cache, cache', Gone(t, ks))  BY <1>2, <1>3, <1>4, WalkIs
<1> QED  BY <1>1, <1>5, DropKeeps

LEMMA KeepsConfigure ==
    ASSUME CacheInv, NEW m \in MaxSizes, Configure(m)
    PROVE  CacheInv' /\ (WaitInv => WaitInv')
<1> DEFINE l == cache.lru
           f == cache.entry
           v == cache.currentSize
<1>1. /\ cache' = [cache EXCEPT !.maxSize = m]
      /\ UNCHANGED <<transactionEpoch, pc, call, stack, tmp>>
  BY DEF Configure
<1>2. IsCache(cache)  BY DEF CacheInv, TypeInv
<1>3. /\ cache = Made(l, f, v, cache.maxSize) /\ l \in Seq(Keys) /\ f \in [Keys -> EntryType]
      /\ v \in Int
  BY <1>2, CacheParts
<1>4. NoRepeat(l) /\ Sized(v, l, f) /\ \A k \in Keys \ Elems(l) : f[k] = Newborn
  BY <1>2 DEF IsCache
<1>5. cache' = Made(l, f, v, m)
  <2> HIDE DEF l, f, v
  <2> QED  BY SMT, <1>1, <1>3 DEF Made
<1> HIDE DEF l, f, v
<1>6. /\ cache' \in CacheType /\ cache'.lru = l /\ cache'.entry = f /\ cache'.currentSize = v
  <2>1. /\ Made(l, f, v, m) \in CacheType /\ Made(l, f, v, m).lru = l
        /\ Made(l, f, v, m).entry = f /\ Made(l, f, v, m).currentSize = v
    BY SMT, <1>3, MadeParts
  <2> QED  BY <1>5, <2>1
<1>7. IsCache(cache')  BY <1>4, <1>6 DEF IsCache
<1>8. AllOk(cache', pc, call, stack)  BY <1>6 DEF CacheInv, EntriesInv, AllOk, l, f
<1>9. CacheInv'  BY <1>1, <1>7, <1>8, QuietKeeps
<1>10. WaitInv => WaitInv'
  <2>1. pc' = pc /\ call' = call  BY <1>1
  <2> QED  BY <1>6, <2>1 DEF WaitInv, l, f
<1> QED  BY <1>9, <1>10

(* A thread begins: it has read the epoch that it will increment, and      *)
(* without Racy no other has.                                              *)
LEMMA KeepsBeginRead ==
    ASSUME CacheInv, Hyps, NEW t \in Threads, BeginRead(t)
    PROVE  CacheInv' /\ (WaitInv => WaitInv')
<1>1. /\ pc[t] = "idle" /\ transactionEpoch < MaxEpoch /\ \A u \in Threads : pc[u] # "begin"
      /\ tmp' = [tmp EXCEPT ![t] = transactionEpoch] /\ pc' = [pc EXCEPT ![t] = "begin"]
      /\ cache' = cache /\ transactionEpoch' = transactionEpoch /\ call' = call
      /\ stack' = stack
  BY DEF BeginRead, Hyps
<1>2. /\ TypeInv /\ IsCache(cache) /\ call \in [Threads -> CallType] /\ call[t] \in CallType
      /\ tmp \in [Threads -> Nat] /\ transactionEpoch \in 0 .. MaxEpoch
      /\ stack \in [Threads -> StackType]
  BY DEF CacheInv, TypeInv
<1>3. call' = [call EXCEPT ![t] = call[t]]  BY <1>1, <1>2
<1>4. pc[t] # "eval" /\ "begin" \in Pcs /\ "begin" # "eval"  BY <1>1, PcFacts
<1>5. /\ pc' \in [Threads -> Pcs] /\ pc'[t] = "begin"
      /\ \A u \in Threads : u # t => pc'[u] = pc[u]
      /\ \A j : SameEvals(pc, call, pc', call', j)
  BY <1>1, <1>2, <1>3, <1>4, OneThread
<1>6. MoreTx(stack, stack')  BY <1>1, <1>2, MoreSame
<1>7. transactionEpoch \in Nat  BY SMT, <1>2, CacheAssumption
<1>8. tmp' \in [Threads -> Nat] /\ tmp'[t] = transactionEpoch  BY <1>1, <1>2, <1>7
<1>9. TypeInv'  BY <1>1, <1>2, <1>5, <1>8 DEF TypeInv
<1>10. EntriesInv'
  <2> SUFFICES ASSUME NEW j \in Keys
               PROVE  KeyOk(j, j \in Elems(cache.lru), cache.entry[j], pc', call', stack')
    BY <1>1 DEF EntriesInv
  <2>1. KeyOk(j, j \in Elems(cache.lru), cache.entry[j], pc, call, stack)
    BY DEF CacheInv, EntriesInv
  <2>2. SameEvals(pc, call, pc', call', j)  BY <1>5
  <2> QED  BY <1>6, <2>1, <2>2, KeyFrame
<1>11. CallInv'
  <2>1. CallInv /\ "begin" \notin CallPcs  BY PcFacts DEF CacheInv
  <2> QED  BY <1>1, <1>5, <2>1 DEF CallInv, CallPcs
<1>12. StackInv'
  <2>1. StackInv  BY DEF CacheInv
  <2> QED  BY <1>1, <2>1 DEF StackInv
<1>13. BeginInv'
  <2>1. \A u \in Threads : pc'[u] = "begin" => u = t  BY <1>1, <1>5
  <2> QED  BY <1>1, <1>8, <2>1 DEF BeginInv
<1>14. CacheInv'  BY <1>9, <1>10, <1>11, <1>12, <1>13 DEF CacheInv
<1>15. WaitInv => WaitInv'
  BY <1>1, <1>5, PcFacts DEF WaitInv
<1> QED  BY <1>14, <1>15

(* One transaction more on a stack.                                        *)
Pushed(s, z, x) ==
    /\ z \in StackType /\ Len(z) = Len(s) + 1 /\ z[Len(s) + 1].epoch = x
    /\ \A i \in 1 .. Len(s) : z[i] = s[i]

LEMMA PushedParts ==
    ASSUME NEW s \in StackType, NEW x \in 1 .. MaxEpoch
    PROVE  Pushed(s, Append(s, [epoch |-> x, wrote |-> FALSE]), x)
<1> DEFINE R == [epoch : 1 .. MaxEpoch, wrote : BOOLEAN]
           r == [epoch |-> x, wrote |-> FALSE]
           z == Append(s, r)
<1>1. r \in R /\ r.epoch = x  BY SMT
<1>2. s \in Seq(R)  BY DEF StackType
<1> HIDE DEF R, r
<1>3. /\ z \in Seq(R) /\ Len(z) = Len(s) + 1 /\ z[Len(s) + 1] = r
      /\ \A i \in 1 .. Len(s) : z[i] = s[i]
  BY SMT, <1>1, <1>2
<1> HIDE DEF z
<1>4. Pushed(s, z, x)  BY <1>1, <1>3 DEF Pushed, StackType, R
<1> QED  BY <1>4 DEF z, r

LEMMA PushedEpochs ==
    ASSUME NEW s \in StackType, NEW z, NEW x, Pushed(s, z, x)
    PROVE  /\ EpochsIn(z) = EpochsIn(s) \union {x}
           /\ \A y : Wrote(s, y) => Wrote(z, y)
           /\ \A i \in 1 .. Len(z) : i \in 1 .. Len(s) \/ i = Len(s) + 1
<1>1. /\ Len(s) \in Nat /\ Len(z) = Len(s) + 1 /\ z[Len(s) + 1].epoch = x
      /\ \A i \in 1 .. Len(s) : z[i] = s[i]
  BY SMT DEF Pushed, StackType
<1>2. /\ \A i \in 1 .. Len(z) : i \in 1 .. Len(s) \/ i = Len(s) + 1
      /\ \A i \in 1 .. Len(s) : i \in 1 .. Len(z)
      /\ Len(s) + 1 \in 1 .. Len(z)
  BY SMT, <1>1
<1>3. EpochsIn(z) = EpochsIn(s) \union {x}  BY <1>1, <1>2 DEF EpochsIn
<1>4. \A y : Wrote(s, y) => Wrote(z, y)  BY <1>1, <1>2 DEF Wrote
<1> QED  BY <1>2, <1>3, <1>4

LEMMA EpochType ==
    ASSUME NEW s \in StackType
    PROVE  /\ Len(s) \in Nat /\ EpochsIn(s) \subseteq 1 .. MaxEpoch
           /\ \A i \in 1 .. Len(s) : s[i].epoch \in EpochsIn(s)
<1> DEFINE R == [epoch : 1 .. MaxEpoch, wrote : BOOLEAN]
<1>1. s \in Seq(R)  BY DEF StackType
<1>2. \A r \in R : r.epoch \in 1 .. MaxEpoch  BY SMT
<1> HIDE DEF R
<1>3. Len(s) \in Nat /\ \A i \in 1 .. Len(s) : s[i] \in R  BY SMT, <1>1
<1> QED  BY <1>2, <1>3 DEF EpochsIn

(* The epoch that a transaction is given is above all others.              *)
LEMMA PushedInv ==
    ASSUME CacheInv, NEW t \in Threads, transactionEpoch' = transactionEpoch + 1,
           stack' \in [Threads -> StackType],
           \A u \in Threads : u # t => stack'[u] = stack[u],
           stack'[t] = stack[t] \/ Pushed(stack[t], stack'[t], transactionEpoch + 1)
    PROVE  StackInv' /\ MoreTx(stack, stack')
<1> DEFINE x == transactionEpoch + 1
           s == stack[t]
<1>1. /\ StackInv /\ stack \in [Threads -> StackType] /\ transactionEpoch \in 0 .. MaxEpoch
      /\ \A u \in Threads : stack[u] \in StackType
  BY DEF CacheInv, TypeInv
<1>2. \A u \in Threads : EpochsIn(stack[u]) \subseteq 1 .. MaxEpoch
  BY <1>1, EpochType
<1>3. \A u \in Threads : \A y \in EpochsIn(stack[u]) : y <= transactionEpoch
  BY <1>1 DEF StackInv
<1>4. \A u \in Threads : \A y \in EpochsIn(stack[u]) : y <= x /\ y # x
  BY SMT, <1>1, <1>2, <1>3, CacheAssumption
<1>5. x <= x  BY SMT, <1>1, CacheAssumption
<1> HIDE DEF x
<1>6. transactionEpoch' = x  BY DEF x
<1>7. CASE stack'[t] = s
  <2>1. \A u \in Threads : stack'[u] = stack[u]  BY <1>7
  <2>2. MoreTx(stack, stack')  BY <2>1 DEF MoreTx
  <2>3. StackInv'  BY <1>1, <1>4, <1>6, <2>1 DEF StackInv
  <2> QED  BY <2>2, <2>3
<1>8. CASE Pushed(s, stack'[t], x)
  <2> DEFINE z == stack'[t]
  <2>1. s \in StackType /\ Pushed(s, z, x)  BY <1>1, <1>8
  <2>2. /\ EpochsIn(z) = EpochsIn(s) \union {x} /\ \A y : Wrote(s, y) => Wrote(z, y)
        /\ \A i \in 1 .. Len(z) : i \in 1 .. Len(s) \/ i = Len(s) + 1
    BY <2>1, PushedEpochs
  <2>3. /\ z[Len(s) + 1].epoch = x /\ \A i \in 1 .. Len(s) : z[i] = s[i]
        /\ \A i \in 1 .. Len(s) : s[i].epoch \in EpochsIn(s)
    BY <2>1, EpochType DEF Pushed
  <2>4. MoreTx(stack, stack')
    <3> SUFFICES ASSUME NEW u \in Threads
                 PROVE  /\ EpochsIn(stack[u]) \subseteq EpochsIn(stack'[u])
                        /\ \A y : Wrote(stack[u], y) => Wrote(stack'[u], y)
      BY DEF MoreTx
    <3>1. CASE u = t  BY <2>2, <3>1
    <3>2. CASE u # t  BY <3>2
    <3> QED  BY <3>1, <3>2
  <2>5. ASSUME NEW u \in Threads, NEW y \in EpochsIn(stack'[u]) PROVE y <= transactionEpoch'
    BY <1>4, <1>5, <1>6, <2>2, <2>5
  <2>6. ASSUME NEW u \in Threads, NEW i \in 1 .. Len(stack'[u]), NEW j \in 1 .. Len(stack'[u]),
               stack'[u][i].epoch = stack'[u][j].epoch
        PROVE  i = j
    <3>1. CASE u # t
      <4>1. stack'[u] = stack[u]  BY <3>1
      <4> QED  BY <1>1, <2>6, <4>1 DEF StackInv
    <3>2. CASE u = t
      <4>1. i \in 1 .. Len(z) /\ j \in 1 .. Len(z) /\ z[i].epoch = z[j].epoch
        BY <2>6, <3>2
      <4>2. \A a \in 1 .. Len(s) : z[a].epoch = s[a].epoch /\ z[a].epoch # x
        BY <1>4, <2>3
      <4>3. \A a, b \in 1 .. Len(s) : s[a].epoch = s[b].epoch => a = b
        BY <1>1 DEF StackInv
      <4> HIDE DEF z, s
      <4>4. CASE i \in 1 .. Len(s) /\ j \in 1 .. Len(s)  BY <4>1, <4>2, <4>3, <4>4
      <4>5. CASE i = Len(s) + 1 /\ j = Len(s) + 1  BY <4>5
      <4>6. CASE (i = Len(s) + 1) # (j = Len(s) + 1)
        BY <2>2, <2>3, <4>1, <4>2, <4>6
      <4> QED  BY <2>2, <4>1, <4>4, <4>5, <4>6
    <3> QED  BY <3>1, <3>2
  <2>7. ASSUME NEW u \in Threads, NEW v \in Threads, u # v, NEW y \in EpochsIn(stack'[u])
        PROVE  y \notin EpochsIn(stack'[v])
    <3>1. \A a, b \in Threads : a # b => \A e \in EpochsIn(stack[a]) : e \notin EpochsIn(stack[b])
      BY <1>1 DEF StackInv
    <3>2. CASE u = t
      <4>1. stack'[v] = stack[v]  BY <2>7, <3>2
      <4>2. y \in EpochsIn(stack[u]) \/ y = x  BY <2>2, <2>7, <3>2
      <4> QED  BY <1>4, <2>7, <3>1, <4>1, <4>2
    <3>3. CASE v = t
      <4>1. stack'[u] = stack[u]  BY <2>7, <3>3
      <4>2. EpochsIn(stack'[v]) = EpochsIn(stack[v]) \union {x}  BY <2>2, <3>3
      <4> QED  BY <1>4, <2>7, <3>1, <4>1, <4>2
    <3>4. CASE u # t /\ v # t  BY <2>7, <3>1, <3>4
    <3> QED  BY <3>2, <3>3, <3>4
  <2>8. StackInv'  BY <2>5, <2>6, <2>7 DEF StackInv
  <2> QED  BY <2>4, <2>8
<1> QED  BY <1>7, <1>8 DEF x

LEMMA KeepsBeginWrite ==
    ASSUME CacheInv, NEW t \in Threads, BeginWrite(t)
    PROVE  CacheInv' /\ (WaitInv => WaitInv')
<1>1. /\ pc[t] = "begin" /\ transactionEpoch' = tmp[t] + 1
      /\ stack' = IF Len(stack[t]) < MaxDepth
                    THEN [stack EXCEPT ![t] =
                            Append(stack[t], [epoch |-> tmp[t] + 1, wrote |-> FALSE])]
                    ELSE stack
      /\ pc' = [pc EXCEPT ![t] = "idle"] /\ tmp' = [tmp EXCEPT ![t] = 0]
      /\ cache' = cache /\ call' = call
  BY DEF BeginWrite
<1>2. /\ TypeInv /\ IsCache(cache) /\ call \in [Threads -> CallType] /\ call[t] \in CallType
      /\ tmp \in [Threads -> Nat] /\ transactionEpoch \in 0 .. MaxEpoch
      /\ stack \in [Threads -> StackType] /\ stack[t] \in StackType
  BY DEF CacheInv, TypeInv
<1>3. call' = [call EXCEPT ![t] = call[t]]  BY <1>1, <1>2
<1>4. pc[t] # "eval" /\ "idle" \in Pcs /\ "idle" # "eval"  BY <1>1, PcFacts
<1>5. /\ pc' \in [Threads -> Pcs] /\ pc'[t] = "idle"
      /\ \A u \in Threads : u # t => pc'[u] = pc[u]
      /\ \A j : SameEvals(pc, call, pc', call', j)
  BY <1>1, <1>2, <1>3, <1>4, OneThread
<1>6. /\ tmp[t] = transactionEpoch /\ tmp[t] < MaxEpoch
      /\ \A u \in Threads : pc[u] = "begin" => u = t
  BY <1>1 DEF CacheInv, BeginInv
<1> DEFINE x == transactionEpoch + 1
<1>7. x \in 1 .. MaxEpoch /\ x \in 0 .. MaxEpoch  BY SMT, <1>2, <1>6, CacheAssumption
<1>8. transactionEpoch' = x /\ tmp[t] + 1 = x  BY <1>1, <1>6
<1> HIDE DEF x
<1> DEFINE z == Append(stack[t], [epoch |-> x, wrote |-> FALSE])
<1>9. Pushed(stack[t], z, x)  BY <1>2, <1>7, PushedParts
<1>10. stack' = [stack EXCEPT ![t] = z] \/ stack' = stack  BY <1>1, <1>8
<1> HIDE DEF z
<1>11. /\ stack' \in [Threads -> StackType]
       /\ \A u \in Threads : u # t => stack'[u] = stack[u]
       /\ stack'[t] = stack[t] \/ Pushed(stack[t], stack'[t], transactionEpoch + 1)
  <2>1. z \in StackType  BY <1>9 DEF Pushed
  <2>2. CASE stack' = stack  BY <1>2, <2>2
  <2>3. CASE stack' = [stack EXCEPT ![t] = z]
    BY <1>2, <1>9, <2>1, <2>3 DEF x
  <2> QED  BY <1>10, <2>2, <2>3
<1>12. StackInv' /\ MoreTx(stack, stack')
  <2>1. transactionEpoch' = transactionEpoch + 1  BY <1>8 DEF x
  <2> QED  BY <1>11, <2>1, PushedInv
<1>13. tmp' \in [Threads -> Nat]
  <2>1. 0 \in Nat  BY SMT
  <2> QED  BY <1>1, <1>2, <2>1
<1>14. TypeInv'  BY <1>1, <1>2, <1>5, <1>7, <1>8, <1>11, <1>13 DEF TypeInv
<1>15. EntriesInv'
  <2> SUFFICES ASSUME NEW j \in Keys
               PROVE  KeyOk(j, j \in Elems(cache.lru), cache.entry[j], pc', call', stack')
    BY <1>1 DEF EntriesInv
  <2>1. KeyOk(j, j \in Elems(cache.lru), cache.entry[j], pc, call, stack)
    BY DEF CacheInv, EntriesInv
  <2>2. SameEvals(pc, call, pc', call', j)  BY <1>5
  <2> QED  BY <1>12, <2>1, <2>2, KeyFrame
<1>16. CallInv'
  <2>1. CallInv /\ "idle" \notin CallPcs  BY PcFacts DEF CacheInv
  <2> QED  BY <1>1, <1>5, <1>11, <2>1 DEF CallInv, CallPcs
<1>17. BeginInv'
  <2>1. \A u \in Threads : pc'[u] # "begin"  BY <1>5, <1>6, PcFacts
  <2> QED  BY <2>1 DEF BeginInv
<1>18. CacheInv'  BY <1>12, <1>14, <1>15, <1>16, <1>17 DEF CacheInv
<1>19. WaitInv => WaitInv'
  BY <1>1, <1>5, PcFacts DEF WaitInv
<1> QED  BY <1>18, <1>19

(* A stack without its innermost transaction, which has epoch x.           *)
Popped(s, z, x) ==
    /\ z \in StackType /\ EpochsIn(z) \subseteq EpochsIn(s) /\ x \in EpochsIn(s)
    /\ \A i \in 1 .. Len(z) : i \in 1 .. Len(s) /\ z[i] = s[i]
    /\ \A y : Wrote(s, y) => Wrote(z, y) \/ y = x

LEMMA PoppedParts ==
    ASSUME NEW s \in StackType, s # <<>>,
           \A i, j \in 1 .. Len(s) : s[i].epoch = s[j].epoch => i = j
    PROVE  /\ Popped(s, Front(s), Last(s).epoch)
           /\ Wrote(s, Last(s).epoch) => Last(s).wrote
<1> DEFINE R == [epoch : 1 .. MaxEpoch, wrote : BOOLEAN]
           z == Front(s)
           n == Len(s)
<1>1. n \in 1 .. n /\ Last(s) = s[n]  BY LastEpoch
<1>2. s \in Seq(R)  BY DEF StackType
<1> HIDE DEF R
<1>3. /\ z \in Seq(R) /\ Len(z) = n - 1 /\ n \in Nat
      /\ \A i \in 1 .. n - 1 : z[i] = s[i]
  <2>1. n \in Nat /\ n - 1 \in 0 .. n  BY SMT, <1>1, <1>2
  <2>2. z = SubSeq(s, 1, n - 1)  BY DEF Front
  <2>3. z \in Seq(R)  BY SMT, <1>2, <2>1, <2>2
  <2>4. Len(z) = n - 1
    <3> DEFINE m == n - 1
    <3>1. m \in 0 .. Len(s) /\ Len(s) \in Nat /\ z = SubSeq(s, 1, m)  BY SMT, <2>1, <2>2
    <3> HIDE DEF m, z
    <3>2. m = 0 => Len(z) = m  BY SMT, <1>2, <3>1
    <3>3. m # 0 => 1 <= m /\ m <= Len(s) /\ m \in Nat  BY SMT, <3>1
    <3>4. m # 0 => Len(z) = m - 1 + 1  BY SMT, <1>2, <3>1, <3>3
    <3>5. Len(z) = m  BY SMT, <3>1, <3>2, <3>4
    <3> QED  BY <3>5 DEF m
  <2>5. \A i \in 1 .. n - 1 : z[i] = s[i]  BY SMT, <1>2, <2>1, <2>2
  <2> QED  BY <2>1, <2>3, <2>4, <2>5
<1> HIDE DEF z
<1>4. /\ \A i \in 1 .. Len(z) : i \in 1 .. n
      /\ \A i \in 1 .. n : i = n \/ i \in 1 .. Len(z)
  BY SMT, <1>3
<1> HIDE DEF n
<1>5. \A i \in 1 .. Len(z) : z[i] = s[i]  BY <1>3
<1>6. z \in StackType  BY <1>3 DEF StackType, R
<1>7. EpochsIn(z) \subseteq EpochsIn(s) /\ s[n].epoch \in EpochsIn(s)
  <2>1. \A i \in 1 .. n : s[i].epoch \in EpochsIn(s)  BY EpochType DEF n
  <2>2. \A y \in EpochsIn(z) : \E i \in 1 .. Len(z) : y = z[i].epoch
    BY DEF EpochsIn
  <2>3. ASSUME NEW y \in EpochsIn(z) PROVE y \in EpochsIn(s)
    <3>1. PICK i \in 1 .. Len(z) : y = z[i].epoch  BY <2>2
    <3>2. i \in 1 .. n /\ z[i] = s[i]  BY <1>4, <1>5
    <3> QED  BY <2>1, <3>1, <3>2
  <2> QED  BY <1>1, <2>1, <2>3
<1>8. \A y : Wrote(s, y) => Wrote(z, y) \/ y = s[n].epoch
  BY <1>4, <1>5 DEF Wrote, n
<1>9. Wrote(s, s[n].epoch) => s[n].wrote  BY <1>1 DEF Wrote, n
<1> QED  BY <1>1, <1>4, <1>5, <1>6, <1>7, <1>8, <1>9 DEF Popped, z, n

LEMMA PoppedInv ==
    ASSUME StackInv, NEW t \in Threads, UNCHANGED transactionEpoch,
           \A u \in Threads : u # t => stack'[u] = stack[u],
           NEW x, Popped(stack[t], stack'[t], x)
    PROVE  StackInv'
<1>1. \A u \in Threads : EpochsIn(stack'[u]) \subseteq EpochsIn(stack[u])
  BY DEF Popped
<1>2. \A u \in Threads : \A i \in 1 .. Len(stack'[u]) :
        i \in 1 .. Len(stack[u]) /\ stack'[u][i] = stack[u][i]
  BY DEF Popped
<1>3. ASSUME NEW u \in Threads, NEW y \in EpochsIn(stack'[u]) PROVE y <= transactionEpoch'
  BY <1>1, <1>3 DEF StackInv
<1>4. ASSUME NEW u \in Threads, NEW i \in 1 .. Len(stack'[u]), NEW j \in 1 .. Len(stack'[u]),
             stack'[u][i].epoch = stack'[u][j].epoch
      PROVE  i = j
  <2>1. \A a, b \in 1 .. Len(stack[u]) : stack[u][a].epoch = stack[u][b].epoch => a = b
    BY DEF StackInv
  <2>2. /\ i \in 1 .. Len(stack[u]) /\ stack'[u][i] = stack[u][i]
        /\ j \in 1 .. Len(stack[u]) /\ stack'[u][j] = stack[u][j]
    BY <1>2
  <2>3. stack[u][i].epoch = stack[u][j].epoch  BY <1>4, <2>2
  <2> QED  BY <2>1, <2>2, <2>3
<1>5. ASSUME NEW u \in Threads, NEW v \in Threads, u # v, NEW y \in EpochsIn(stack'[u])
      PROVE  y \notin EpochsIn(stack'[v])
  BY <1>1, <1>5 DEF StackInv
<1> QED  BY <1>3, <1>4, <1>5 DEF StackInv

(* An entry that the transaction has not written stays as it is.           *)
LEMMA PoppedKey ==
    ASSUME NEW t \in Threads, pc[t] = "idle", NEW k \in Keys, NEW in, NEW e,
           KeyOk(k, in, e, pc, call, stack), SameEvals(pc, call, pc', call', k),
           \A u \in Threads : u # t => stack'[u] = stack[u],
           NEW x, Popped(stack[t], stack'[t], x), ~(Private(e, stack) /\ e.epoch = x)
    PROVE  KeyOk(k, in, e, pc', call', stack')
<1>1. \A u \in Threads : Evaluates(pc', call', u, k) <=> Evaluates(pc, call, u, k)
  BY DEF SameEvals
<1>2. Private(e, stack) => Private(e, stack')
  <2> SUFFICES ASSUME Private(e, stack) PROVE Wrote(stack'[e.uncommitted], e.epoch)
    BY DEF Private
  <2>1. e.uncommitted \in Threads /\ Wrote(stack[e.uncommitted], e.epoch) /\ e.epoch # x
    BY DEF Private
  <2>2. CASE e.uncommitted = t  BY <2>1, <2>2 DEF Popped
  <2>3. CASE e.uncommitted # t  BY <2>1, <2>3
  <2> QED  BY <2>2, <2>3
<1>3. Computed(k, e, pc, call, stack) => Computed(k, e, pc', call', stack')
  <2> SUFFICES ASSUME Computed(k, e, pc, call, stack) PROVE Computed(k, e, pc', call', stack')
    OBVIOUS
  <2>1. /\ NoValue(e) /\ e.owner \in Threads /\ Evaluates(pc, call, e.owner, k)
        /\ e.pending => e.epoch \in EpochsIn(stack[e.owner])
    BY DEF Computed
  <2>2. e.owner # t  BY <2>1, PcFacts DEF Evaluates
  <2>3. stack'[e.owner] = stack[e.owner] /\ Evaluates(pc', call', e.owner, k)
    BY <1>1, <2>1, <2>2
  <2> QED  BY <2>1, <2>3 DEF Computed
<1> QED  BY <1>1, <1>2, <1>3 DEF KeyOk

(* A commit publishes and a rollback drops what the transaction has        *)
(* written; when it visits no cache there is nothing that it has.          *)
LEMMA FinishedKey ==
    ASSUME CacheInv, NEW t \in Threads, pc[t] = "idle", NEW k \in Keys,
           SameEvals(pc, call, pc', call', k),
           \A u \in Threads : u # t => stack'[u] = stack[u],
           NEW x, Popped(stack[t], stack'[t], x), NEW commit \in BOOLEAN,
           IsCache(cache'), Elems(cache'.lru) \subseteq Elems(cache.lru),
           k \in Elems(cache.lru) => Ended(cache, cache', k, x, commit)
    PROVE  KeyOk(k, k \in Elems(cache'.lru), cache'.entry[k], pc', call', stack')
<1> DEFINE e == cache.entry[k]
<1>1. IsCache(cache) /\ e \in EntryType  BY CacheParts DEF CacheInv, TypeInv
<1>2. KeyOk(k, k \in Elems(cache.lru), e, pc, call, stack)
  BY DEF CacheInv, EntriesInv
<1> HIDE DEF e
<1>3. CASE k \notin Elems(cache.lru)
  <2>1. k \notin Elems(cache'.lru) /\ cache'.entry[k] = Newborn
    BY <1>3 DEF IsCache
  <2>2. \A u \in Threads : ~Evaluates(pc', call', u, k)
    BY <1>2, <1>3 DEF KeyOk, SameEvals
  <2> QED  BY <2>1, <2>2, KeyGone DEF KeyOk
<1>4. CASE k \in Elems(cache.lru) /\ ~Matches(e, x)
  <2>1. k \in Elems(cache'.lru) /\ cache'.entry[k] = e
    BY <1>4 DEF Ended, Kept, e
  <2>2. ~(Private(e, stack) /\ e.epoch = x)  BY <1>4 DEF Private, Matches
  <2>3. KeyOk(k, k \in Elems(cache.lru), e, pc', call', stack')
    BY <1>2, <2>2, PoppedKey
  <2> QED  BY <1>4, <2>1, <2>3 DEF KeyOk
<1>5. CASE k \in Elems(cache.lru) /\ Matches(e, x)
  <2>1. e.pending /\ e.value = NULL /\ e.epoch = x  BY <1>5 DEF Matches
  <2>2. ~Computed(k, e, pc, call, stack)
    <3> SUFFICES ASSUME Computed(k, e, pc, call, stack) PROVE FALSE
      BY SMT
    <3>1. /\ e.owner \in Threads /\ pc[e.owner] = "eval" /\ x \in EpochsIn(stack[e.owner])
      BY <2>1 DEF Computed, Evaluates
    <3>2. e.owner # t /\ x \in EpochsIn(stack[t])  BY <3>1, PcFacts DEF Popped
    <3> QED  BY <3>1, <3>2 DEF CacheInv, StackInv
  <2>3. Private(e, stack)  BY <1>2, <1>5, <2>1, <2>2 DEF KeyOk, HasValue, Orphan
  <2>4. e.uncommitted \in Threads /\ e.uncommitted # NULL
    BY <2>3, CacheAssumption DEF Private
  <2>5. \A u \in Threads : ~Evaluates(pc', call', u, k)
    BY <1>2, <2>4 DEF KeyOk, NoValue, SameEvals
  <2>6. CASE commit
    <3>1. k \in Elems(cache'.lru) /\ cache'.entry[k] = Committed(e)
      BY <1>5, <2>6 DEF Ended, e
    <3> DEFINE y == Committed(e)
    <3>2. /\ y.value = e.uncommitted /\ y.uncommitted = NULL /\ ~y.pending
          /\ y.expires = e.expires
      BY <1>1, <2>1, CommittedParts
    <3> HIDE DEF y
    <3>3. HasValue(y)  BY <2>4, <3>2 DEF HasValue
    <3>4. y.expires => k \in Expiring  BY <1>2, <3>2 DEF KeyOk
    <3>5. KeyOk(k, k \in Elems(cache'.lru), y, pc', call', stack')
      BY <2>5, <3>2, <3>3, <3>4 DEF KeyOk
    <3> QED  BY <3>1, <3>5 DEF y
  <2>7. CASE ~commit
    <3>1. k \notin Elems(cache'.lru) /\ cache'.entry[k] = Newborn
      BY <1>5, <2>7 DEF Ended, e
    <3> QED  BY <2>5, <3>1, KeyGone DEF KeyOk
  <2> QED  BY <2>6, <2>7
<1> QED  BY <1>3, <1>4, <1>5

LEMMA KeepsFinish ==
    ASSUME CacheInv, NEW t \in Threads, Finish(t)
    PROVE  CacheInv' /\ (WaitInv => WaitInv')
<1> DEFINE s == stack[t]
           x == Last(s).epoch
           visits == Last(s).wrote /\ \E k \in Keys : cache.entry[k].pending
           b == Ns_CacheBroadcast(pc)
<1>1. PICK commit \in BOOLEAN : CacheTransactionFinishPop(t, commit)  BY DEF Finish
<1>2. /\ pc[t] = "idle" /\ s # <<>> /\ stack' = [stack EXCEPT ![t] = Front(s)]
      /\ cache' = IF visits THEN CacheTransaction(cache, x, commit) ELSE cache
      /\ pc' = IF visits THEN b ELSE pc
      /\ transactionEpoch' = transactionEpoch /\ call' = call /\ tmp' = tmp
  BY <1>1 DEF CacheTransactionFinishPop
<1>3. /\ TypeInv /\ IsCache(cache) /\ pc \in [Threads -> Pcs] /\ call \in [Threads -> CallType]
      /\ stack \in [Threads -> StackType] /\ s \in StackType /\ StackInv /\ BeginInv /\ CallInv
  BY DEF CacheInv, TypeInv
<1>4. Popped(s, Front(s), x) /\ (Wrote(s, x) => Last(s).wrote)
  <2>1. \A i, j \in 1 .. Len(s) : s[i].epoch = s[j].epoch => i = j
    BY <1>3 DEF StackInv
  <2> QED  BY <1>2, <1>3, <2>1, PoppedParts
<1>5. /\ stack' \in [Threads -> StackType] /\ Popped(stack[t], stack'[t], x)
      /\ \A u \in Threads : u # t => stack'[u] = stack[u]
  <2>1. Front(s) \in StackType  BY <1>4 DEF Popped
  <2>2. stack'[t] = Front(s) /\ \A u \in Threads : u # t => stack'[u] = stack[u]
    BY <1>2, <1>3
  <2>3. stack' \in [Threads -> StackType]  BY <1>2, <1>3, <2>1
  <2> QED  BY <1>4, <2>2, <2>3
<1>6. /\ b \in [Threads -> Pcs]
      /\ \A u \in Threads : /\ b[u] # "wait" /\ (pc[u] = "wait" => b[u] = "woken")
                            /\ pc[u] # "wait" => b[u] = pc[u]
  BY <1>3, Broadcasts
<1> HIDE DEF b
<1>7. /\ pc' \in [Threads -> Pcs]
      /\ \A u \in Threads : pc'[u] = pc[u] \/ (pc[u] = "wait" /\ pc'[u] = "woken")
  <2>1. CASE visits
    <3>1. pc' = b  BY <1>2, <2>1
    <3> QED  BY <1>6, <3>1
  <2>2. CASE ~visits
    <3>1. pc' = pc  BY <1>2, <2>2
    <3> QED  BY <1>3, <3>1
  <2> QED  BY <2>1, <2>2
<1>8. \A j : SameEvals(pc, call, pc', call', j)
  BY <1>2, <1>7, PcFacts DEF SameEvals, Evaluates
<1>9. /\ IsCache(cache') /\ Elems(cache'.lru) \subseteq Elems(cache.lru)
      /\ visits => \A k \in Elems(cache.lru) : Ended(cache, cache', k, x, commit)
  <2>1. CASE visits
    <3>1. cache' = CacheTransaction(cache, x, commit)  BY <1>2, <2>1
    <3>2. Visited(cache, cache', Len(cache.lru), x, commit)
      BY <1>3, <3>1, TransactionIs
    <3>3. \A i \in 1 .. Len(cache.lru) : i <= Len(cache.lru)
      <4>1. cache.lru \in Seq(Keys)  BY <1>3, CacheParts
      <4> QED  BY SMT, <4>1
    <3>4. \A k \in Elems(cache.lru) : \E i \in 1 .. Len(cache.lru) : k = cache.lru[i]
      BY DEF Elems
    <3> HIDE DEF x
    <3> QED  BY <3>2, <3>3, <3>4 DEF Visited
  <2>2. CASE ~visits
    <3>1. cache' = cache  BY <1>2, <2>2
    <3> QED  BY <1>3, <2>2, <3>1
  <2> QED  BY <2>1, <2>2
<1>10. EntriesInv'
  <2> SUFFICES ASSUME NEW k \in Keys
               PROVE  KeyOk(k, k \in Elems(cache'.lru), cache'.entry[k], pc', call', stack')
    BY DEF EntriesInv
  <2>1. SameEvals(pc, call, pc', call', k)  BY <1>8
  <2>2. CASE visits
    <3> HIDE DEF x
    <3> QED  BY <1>2, <1>5, <1>9, <2>1, <2>2, FinishedKey
  <2>3. CASE ~visits
    <3> DEFINE e == cache.entry[k]
    <3>1. cache' = cache  BY <1>2, <2>3
    <3>2. KeyOk(k, k \in Elems(cache.lru), e, pc, call, stack)
      BY DEF CacheInv, EntriesInv
    <3>3. ~(Private(e, stack) /\ e.epoch = x)
      <4> SUFFICES ASSUME Private(e, stack), e.epoch = x PROVE FALSE
        BY SMT
      <4>1. e.pending /\ e.uncommitted \in Threads /\ Wrote(stack[e.uncommitted], x)
        BY DEF Private
      <4>2. x \in EpochsIn(stack[e.uncommitted])  BY <4>1, WroteIn
      <4>3. x \in EpochsIn(s)  BY <1>4 DEF Popped
      <4>4. e.uncommitted = t  BY <1>3, <4>1, <4>2, <4>3 DEF StackInv
      <4>5. Last(s).wrote  BY <1>4, <4>1, <4>4
      <4> QED  BY <2>3, <4>1, <4>5
    <3> HIDE DEF e, x
    <3>4. KeyOk(k, k \in Elems(cache.lru), e, pc', call', stack')
      BY <1>2, <1>5, <2>1, <3>2, <3>3, PoppedKey
    <3> QED  BY <3>1, <3>4 DEF e
  <2> QED  BY <2>2, <2>3
<1>11. TypeInv'  BY <1>2, <1>3, <1>5, <1>7, <1>9 DEF TypeInv
<1>12. CallInv'
  <2> SUFFICES ASSUME NEW u \in Threads, pc'[u] \in CallPcs
               PROVE  call[u].key \in Keys /\ (stack'[u] # <<>> => call[u].key \in TxKeys)
    BY <1>2 DEF CallInv, CallPcs
  <2>1. pc[u] \in CallPcs
    <3>1. "wait" \in CallPcs  BY SMT DEF CallPcs
    <3> QED  BY <1>7, <3>1
  <2>2. u # t  BY <1>2, <2>1, PcFacts
  <2>3. call[u].key \in Keys /\ (stack[u] # <<>> => call[u].key \in TxKeys)
    BY <1>3, <2>1 DEF CallInv, CallPcs
  <2> QED  BY <1>5, <2>2, <2>3
<1>13. StackInv'
  <2> HIDE DEF x
  <2> QED  BY <1>2, <1>3, <1>5, PoppedInv
<1>14. BeginInv'
  <2>1. \A u \in Threads : pc'[u] = "begin" => pc[u] = "begin"  BY <1>7, PcFacts
  <2> QED  BY <1>2, <1>3, <2>1 DEF BeginInv
<1>15. CacheInv'  BY <1>10, <1>11, <1>12, <1>13, <1>14 DEF CacheInv
<1>16. WaitInv => WaitInv'
  <2>1. CASE visits
    <3>1. pc' = b  BY <1>2, <2>1
    <3> QED  BY <1>6, <3>1 DEF WaitInv
  <2>2. CASE ~visits
    <3>1. pc' = pc /\ cache' = cache  BY <1>2, <2>2
    <3> QED  BY <1>2, <3>1 DEF WaitInv
  <2> QED  BY <2>1, <2>2
<1> QED  BY <1>15, <1>16

-----------------------------------------------------------------------------
LEMMA InvariantInit == Init => CacheInv /\ WaitInv
<1> SUFFICES ASSUME Init PROVE CacheInv /\ WaitInv
  BY SMT
<1> DEFINE f == [k \in Keys |-> Newborn]
<1>1. PICK m \in MaxSizes :
        cache = [lru |-> <<>>, entry |-> f, currentSize |-> 0, maxSize |-> m]
  BY DEF Init
<1>2. /\ transactionEpoch = 0 /\ pc = [t \in Threads |-> "idle"]
      /\ call = [t \in Threads |-> NoCall] /\ stack = [t \in Threads |-> <<>>]
      /\ tmp = [t \in Threads |-> 0]
  BY DEF Init, NoCall
<1>3. f \in [Keys -> EntryType] /\ \A k \in Keys : f[k] = Newborn  BY NewbornType
<1> HIDE DEF f
<1>4. /\ cache \in CacheType /\ cache.lru = <<>> /\ cache.entry = f /\ cache.currentSize = 0
  BY SMT, <1>1, <1>3 DEF CacheType
<1>5. NoRepeat(<<>>) /\ Elems(<<>>) = {}  BY SMT DEF NoRepeat, Elems
<1>6. Sized(0, <<>>, f)  BY SizedEmpty
<1>7. IsCache(cache)  BY <1>3, <1>4, <1>5, <1>6 DEF IsCache
<1>8. <<>> \in StackType /\ 0 \in Nat /\ 0 \in 0 .. MaxEpoch
  BY SMT, CacheAssumption DEF StackType
<1>9. TypeInv  BY <1>2, <1>7, <1>8, PcFacts DEF TypeInv
<1>10. \A t \in Threads : pc[t] = "idle" /\ stack[t] = <<>>  BY <1>2
<1>11. EntriesInv
  <2>1. \A t \in Threads, k \in Keys : ~Evaluates(pc, call, t, k)
    BY <1>10, PcFacts DEF Evaluates
  <2>2. \A k \in Keys : KeyOk(k, FALSE, Newborn, pc, call, stack)  BY <2>1, KeyGone
  <2>3. \A k \in Keys : k \notin Elems(cache.lru) /\ cache.entry[k] = Newborn
    BY <1>3, <1>4, <1>5
  <2> QED  BY <2>2, <2>3 DEF EntriesInv, KeyOk
<1>12. CallInv
  <2>1. \A t \in Threads : pc[t] \notin CallPcs  BY <1>10, PcFacts
  <2> QED  BY <2>1 DEF CallInv, CallPcs
<1>13. StackInv
  <2>1. EpochsIn(<<>>) = {}  BY <1>8, NoEpochs
  <2>2. 1 .. Len(<<>>) = {}  BY SMT
  <2> QED  BY <1>10, <2>1, <2>2 DEF StackInv
<1>14. BeginInv /\ WaitInv  BY <1>10, PcFacts DEF BeginInv, WaitInv
<1> QED  BY <1>9, <1>11, <1>12, <1>13, <1>14 DEF CacheInv

LEMMA ThreadKeeps ==
    ASSUME Hyps, CacheInv, NEW t \in Threads, ThreadStep(t)
    PROVE  CacheInv' /\ (~TxDrops /\ WaitInv => WaitInv')
<1>1. CASE \E k \in Keys, cmd \in {"eval", "force", "update"} : Command(t, cmd, k)
  BY <1>1, KeepsCommand
<1>2. CASE Retry(t)  BY <1>2, KeepsRetry
<1>3. CASE TimeUp(t)  BY <1>3, KeepsTimeUp
<1>4. CASE GiveUp(t)  BY <1>4, KeepsGiveUp
<1>5. CASE FinishEval(t)  BY <1>5, KeepsFinishEval
<1>6. CASE \E k \in Keys : Get(t, k) \/ Flush(t, k)  BY <1>6, KeepsGet, KeepsFlush
<1>7. CASE \E ks \in SUBSET Keys : Walk(t, ks)  BY <1>7, KeepsWalk
<1>8. CASE BeginRead(t)  BY <1>8, KeepsBeginRead
<1>9. CASE BeginWrite(t)  BY <1>9, KeepsBeginWrite
<1>10. CASE Finish(t)  BY <1>10, KeepsFinish
<1> QED
  BY <1>1, <1>2, <1>3, <1>4, <1>5, <1>6, <1>7, <1>8, <1>9, <1>10 DEF ThreadStep

LEMMA InvariantStep ==
    ASSUME Hyps, CacheInv, [Next]_vars
    PROVE  CacheInv' /\ (~TxDrops /\ WaitInv => WaitInv')
<1>1. CASE \E t \in Threads : ThreadStep(t)  BY <1>1, ThreadKeeps
<1>2. CASE \E m \in MaxSizes : Configure(m)  BY <1>2, KeepsConfigure
<1>3. CASE UNCHANGED vars
  <2>1. /\ cache' = cache /\ pc' = pc /\ call' = call
        /\ UNCHANGED <<transactionEpoch, pc, call, stack, tmp>>
    BY <1>3 DEF vars
  <2>2. IsCache(cache') /\ AllOk(cache', pc, call, stack)
    BY <2>1 DEF CacheInv, TypeInv, EntriesInv, AllOk
  <2>3. CacheInv'  BY <2>1, <2>2, QuietKeeps
  <2>4. WaitInv => WaitInv'  BY <2>1 DEF WaitInv
  <2> QED  BY <2>3, <2>4
<1> QED  BY <1>1, <1>2, <1>3 DEF Next

LEMMA Invariant ==
    ASSUME Hyps PROVE Spec => [](CacheInv /\ (~TxDrops => WaitInv))
<1> DEFINE I == CacheInv /\ (~TxDrops => WaitInv)
<1>1. Init => I  BY InvariantInit
<1>2. I /\ [Next]_vars => I'
  <2> SUFFICES ASSUME I, [Next]_vars PROVE I'
    OBVIOUS
  <2> QED  BY InvariantStep
<1> QED  BY <1>1, <1>2, PTL DEF Spec

(* What follows from the invariant for a key of the list.                  *)
LEMMA ListedKeys ==
    ASSUME CacheInv
    PROVE  /\ IsCache(cache) /\ cache.lru \in Seq(Keys) /\ Range(cache.lru) = Elems(cache.lru)
           /\ Elems(cache.lru) \subseteq Keys /\ \A k : Exists(cache, k) <=> k \in Elems(cache.lru)
           /\ \A k \in Keys : KeyOk(k, k \in Elems(cache.lru), cache.entry[k], pc, call, stack)
           /\ \A t \in Threads : Epochs(t) = EpochsIn(stack[t])
<1>1. IsCache(cache) /\ stack \in [Threads -> StackType]  BY DEF CacheInv, TypeInv
<1>2. /\ cache.lru \in Seq(Keys) /\ Elems(cache.lru) \subseteq Keys
      /\ \A k : Exists(cache, k) <=> k \in Elems(cache.lru)
  BY <1>1, CacheParts
<1>3. Range(cache.lru) = Elems(cache.lru)  BY <1>2, RangeElems
<1>4. \A t \in Threads : Epochs(t) = EpochsIn(stack[t])  BY <1>1, EpochsAre
<1> QED  BY <1>1, <1>2, <1>3, <1>4 DEF CacheInv, EntriesInv

(* The uncommitted value of an entry belongs to one thread's transaction.  *)
LEMMA PrivateEpoch ==
    ASSUME CacheInv, NEW e, Private(e, stack)
    PROVE  /\ e.pending /\ e.uncommitted \in Threads
           /\ \A t \in Threads : (e.epoch \in Epochs(t)) <=> (t = e.uncommitted)
<1>1. e.pending /\ e.uncommitted \in Threads /\ Wrote(stack[e.uncommitted], e.epoch)
  BY DEF Private
<1>2. e.epoch \in EpochsIn(stack[e.uncommitted])  BY <1>1, WroteIn
<1>3. \A t \in Threads : Epochs(t) = EpochsIn(stack[t])  BY ListedKeys
<1>4. \A t \in Threads : e.epoch \in EpochsIn(stack[t]) => t = e.uncommitted
  BY <1>1, <1>2 DEF CacheInv, StackInv
<1> QED  BY <1>1, <1>2, <1>3, <1>4

LEMMA TypesHold == ASSUME CacheInv PROVE TypeOK
<1>1. /\ IsCache(cache) /\ cache.lru \in Seq(Keys)
      /\ \A k : Exists(cache, k) <=> k \in Elems(cache.lru)
  BY ListedKeys
<1>2. /\ cache.entry \in [Keys -> EntryType] /\ cache.maxSize \in MaxSizes
      /\ \A k \in Elems(cache.lru) : cache.entry[k] \in EntryType
  BY <1>1, CacheParts
<1>3. cache.entry \in [Keys -> EntryRecord]
  <2>1. EntryType \subseteq EntryRecord  BY DEF EntryType
  <2> QED  BY <1>2, <2>1
<1>4. IsInjective(cache.lru)
  <2> DEFINE s == cache.lru
  <2>1. s \in Seq(Keys) /\ NoRepeat(s)  BY <1>1 DEF IsCache
  <2> HIDE DEF s
  <2>2. DOMAIN s = 1 .. Len(s)  BY SMT, <2>1
  <2> QED  BY <2>1, <2>2 DEF NoRepeat, IsInjective, s
<1>5. cache.currentSize \in Nat
  <2>1. \A k \in Elems(cache.lru) : cache.entry[k].size \in Nat  BY <1>2, SizeType
  <2>2. Sized(cache.currentSize, cache.lru, cache.entry)  BY <1>1 DEF IsCache
  <2> QED  BY <1>1, <2>1, <2>2, SizedNat
<1>6. \A k \in Keys : ~Exists(cache, k) => cache.entry[k] = Newborn
  BY <1>1 DEF IsCache
<1>7. /\ transactionEpoch \in 0 .. MaxEpoch /\ pc \in [Threads -> Pcs]
      /\ \A t \in Threads : stack[t] \in StackType
  BY DEF CacheInv, TypeInv
<1> QED
  BY <1>1, <1>2, <1>3, <1>4, <1>5, <1>6, <1>7 DEF TypeOK, EntryRecord, Pcs, StackType

LEMMA OwnedHolds == ASSUME CacheInv PROVE UpdateOwned
<1>1. ASSUME NEW t \in Threads, pc[t] = "eval"
      PROVE  /\ Exists(cache, call[t].key) /\ cache.entry[call[t].key].owner = t
             /\ cache.entry[call[t].key].value = NULL
             /\ cache.entry[call[t].key].uncommitted = NULL
  <2> DEFINE k == call[t].key
             e == cache.entry[k]
  <2>1. k \in Keys  BY <1>1 DEF CacheInv, CallInv
  <2>2. Evaluates(pc, call, t, k)  BY <1>1 DEF Evaluates
  <2>3. KeyOk(k, k \in Elems(cache.lru), e, pc, call, stack)  BY <2>1, ListedKeys
  <2> HIDE DEF e, k
  <2>4. k \in Elems(cache.lru) /\ NoValue(e) /\ e.owner = t
    BY <2>2, <2>3 DEF KeyOk
  <2>5. Exists(cache, k)  BY <2>4, ListedKeys
  <2> QED  BY <2>4, <2>5 DEF NoValue, e, k
<1>2. ASSUME NEW k \in Range(cache.lru), cache.entry[k].value = NULL,
             cache.entry[k].uncommitted = NULL
      PROVE  \/ cache.entry[k].owner = Nobody
             \/ /\ cache.entry[k].owner \in Threads /\ pc[cache.entry[k].owner] = "eval"
                /\ call[cache.entry[k].owner].key = k
  <2> DEFINE e == cache.entry[k]
  <2>1. k \in Elems(cache.lru) /\ k \in Keys  BY ListedKeys
  <2>2. KeyOk(k, k \in Elems(cache.lru), e, pc, call, stack)  BY <2>1, ListedKeys
  <2>3. ~HasValue(e) /\ ~Private(e, stack)
    BY <1>2, CacheAssumption DEF HasValue, Private
  <2> HIDE DEF e
  <2>4. Computed(k, e, pc, call, stack) \/ Orphan(e)  BY <2>1, <2>2, <2>3 DEF KeyOk
  <2> QED  BY <2>4 DEF Computed, Evaluates, Orphan, e
<1> QED  BY <1>1, <1>2 DEF UpdateOwned

LEMMA IsolationHolds == ASSUME CacheInv PROVE Isolation
<1> SUFFICES ASSUME NEW k \in Range(cache.lru), cache.entry[k].value = NULL,
                    cache.entry[k].uncommitted # NULL
             PROVE  /\ cache.entry[k].pending
                    /\ \A t \in Threads : (cache.entry[k].epoch \in Epochs(t))
                                            <=> (t = cache.entry[k].uncommitted)
  BY DEF Isolation
<1> DEFINE e == cache.entry[k]
<1>1. k \in Elems(cache.lru) /\ k \in Keys  BY ListedKeys
<1>2. KeyOk(k, k \in Elems(cache.lru), e, pc, call, stack)  BY <1>1, ListedKeys
<1>3. ~HasValue(e) /\ ~NoValue(e)  BY DEF HasValue, NoValue
<1> HIDE DEF e
<1>4. Private(e, stack)  BY <1>1, <1>2, <1>3 DEF KeyOk, Computed, Orphan
<1> QED  BY <1>4, PrivateEpoch DEF e

LEMMA WaitsHold == ASSUME CacheInv, WaitInv PROVE WaitsForSomeone
<1> SUFFICES ASSUME NEW t \in Threads, pc[t] = "wait"
             PROVE  LET k == call[t].key
                        e == cache.entry[k]
                    IN  /\ Exists(cache, k) /\ Ns_CacheGetValueT(cache, t, k) = NULL
                        /\ \/ e.owner = Nobody
                           \/ \E u \in Threads \ {t} :
                                \/ pc[u] = "eval" /\ call[u].key = k
                                \/ e.uncommitted # NULL /\ e.epoch \in Epochs(u)
  BY DEF WaitsForSomeone
<1> DEFINE k == call[t].key
           e == cache.entry[k]
<1>1. k \in Elems(cache.lru) /\ e.value = NULL /\ e.uncommitted # t  BY DEF WaitInv
<1>2. k \in Keys /\ Exists(cache, k)  BY <1>1, ListedKeys
<1>3. KeyOk(k, k \in Elems(cache.lru), e, pc, call, stack)  BY <1>2, ListedKeys
<1>4. e.epoch \in Epochs(t) => e.uncommitted = NULL
  <2> SUFFICES ASSUME e.uncommitted # NULL PROVE e.epoch \notin Epochs(t)
    OBVIOUS
  <2> HIDE DEF e, k
  <2>1. ~HasValue(e) /\ ~NoValue(e)  BY <1>1 DEF HasValue, NoValue
  <2>2. Private(e, stack)  BY <1>1, <1>3, <2>1 DEF KeyOk, Computed, Orphan
  <2> QED  BY <1>1, <2>2, PrivateEpoch
<1>5. Ns_CacheGetValueT(cache, t, k) = NULL  BY <1>1, <1>4 DEF Ns_CacheGetValueT
<1> HIDE DEF e, k
<1>6. Private(e, stack) \/ Computed(k, e, pc, call, stack) \/ Orphan(e)
  BY <1>1, <1>3 DEF KeyOk, HasValue
<1>7. \/ e.owner = Nobody
      \/ \E u \in Threads \ {t} : \/ pc[u] = "eval" /\ call[u].key = k
                                  \/ e.uncommitted # NULL /\ e.epoch \in Epochs(u)
  <2>1. CASE Private(e, stack)
    <3>1. e.uncommitted \in Threads /\ e.epoch \in Epochs(e.uncommitted)
      BY <2>1, PrivateEpoch
    <3>2. e.uncommitted # NULL  BY <3>1, CacheAssumption
    <3> QED  BY <1>1, <3>1, <3>2
  <2>2. CASE Computed(k, e, pc, call, stack)
    <3>1. e.owner \in Threads /\ pc[e.owner] = "eval" /\ call[e.owner].key = k
      BY <2>2 DEF Computed, Evaluates
    <3>2. e.owner # t  BY <3>1, PcFacts
    <3> QED  BY <3>1, <3>2
  <2>3. CASE Orphan(e)  BY <2>3 DEF Orphan
  <2> QED  BY <1>6, <2>1, <2>2, <2>3
<1> QED  BY <1>2, <1>5, <1>7 DEF e, k

-----------------------------------------------------------------------------
(* The Cache structure and its list stay well formed: no key is linked     *)
(* twice, an entry that is not linked holds nothing, and currentSize never *)
(* drops below zero.                                                       *)
THEOREM CacheTypes ==
    ASSUME ~Racy, Expiring \intersect TxKeys = {} PROVE Spec => []TypeOK
<1>1. Hyps  BY DEF Hyps
<1>2. CacheInv => TypeOK  BY TypesHold
<1> QED  BY <1>1, <1>2, Invariant, PTL

(* Cache.currentSize is exactly what the entries take: every path of       *)
(* cache.c that creates, sets, unsets, deletes, evicts, commits or rolls   *)
(* back entries accounts for the same sizes.                               *)
THEOREM CacheSizeAccounted ==
    ASSUME ~Racy, Expiring \intersect TxKeys = {} PROVE Spec => []SizeAccounted
<1>1. Hyps  BY DEF Hyps
<1>2. CacheInv => SizeAccounted
  <2> SUFFICES ASSUME CacheInv PROVE SizeAccounted
    BY SMT
  <2>1. cache.lru \in Seq(Keys) /\ Sized(cache.currentSize, cache.lru, cache.entry)
    BY ListedKeys DEF IsCache
  <2> QED  BY <2>1, SizedTotal DEF SizeAccounted
<1> QED  BY <1>1, <1>2, Invariant, PTL

(* While the script of ns_cache_eval runs without Cache.lock, its entry is *)
(* neither evicted, flushed, expired nor evaluated by another thread, and  *)
(* every entry without a value has a thread that computes it or was left   *)
(* by a wait that timed out.                                               *)
THEOREM EvaluationsOwnTheirEntries ==
    ASSUME ~Racy, Expiring \intersect TxKeys = {} PROVE Spec => []UpdateOwned
<1>1. Hyps  BY DEF Hyps
<1>2. CacheInv => UpdateOwned  BY OwnedHolds
<1> QED  BY <1>1, <1>2, Invariant, PTL

(* What a transaction has written is seen by its thread alone until        *)
(* ns_cache_transaction_commit, and its end will find it.                  *)
THEOREM TransactionsIsolated ==
    ASSUME ~Racy, Expiring \intersect TxKeys = {} PROVE Spec => []Isolation
<1>1. Hyps  BY DEF Hyps
<1>2. CacheInv => Isolation  BY IsolationHolds
<1> QED  BY <1>1, <1>2, Invariant, PTL

(* No thread sleeps in Ns_CacheWaitCreateEntryT on an entry that has a     *)
(* value for it, or that is gone: unless transactions drop what they have  *)
(* written, every change of an entry wakes those who wait for it.          *)
THEOREM WaitersHaveSomeone ==
    ASSUME ~Racy, Expiring \intersect TxKeys = {}, ~TxDrops PROVE Spec => []WaitsForSomeone
<1>1. Hyps /\ ~TxDrops  BY DEF Hyps
<1>2. CacheInv /\ WaitInv => WaitsForSomeone  BY WaitsHold
<1> QED  BY <1>1, <1>2, Invariant, PTL
=============================================================================
