------------------------------- MODULE Cache --------------------------------
(***************************************************************************)
(* A Tcl cache (nsd/cache.c, nsd/tclcache.c): threads that run the         *)
(* ns_cache commands and cache transactions on its entries.                *)
(*                                                                         *)
(* One step is one region under Cache.lock.  ns_cache_eval releases the    *)
(* lock while its script runs, and a thread that finds an entry without a  *)
(* value for it waits on Cache.cond.  Scripts are opaque.  Of an expiry    *)
(* time only is kept that an entry has one.  Statistics are left out.      *)
(***************************************************************************)
EXTENDS Naturals, Sequences, FiniteSets, Functions

CONSTANTS
    Keys, Threads,
    Timed,       \* threads that wait with a timeout
    Expiring,    \* keys whose values have an expiry time
    TxKeys,      \* keys that are written in transactions
    TxThreads,   \* threads that use transactions
    TxDrops,     \* whether a transaction drops entries that it has written
    Racy,        \* whether two threads may begin transactions at a time
    Sizes,       \* the sizes of values
    Overhead,    \* what an entry takes besides its value
    MaxEntry,    \* TclCache.maxEntry
    MaxSizes,    \* the values that Cache.maxSize is given
    MaxDepth,    \* NS_CACHE_MAX_TRANSACTION_DEPTH
    MaxEpoch,    \* bound: transactions begun
    NULL, Nobody

ASSUME CacheAssumption ==
    /\ IsFiniteSet(Keys) /\ IsFiniteSet(Threads) /\ {NULL, Nobody} \intersect Threads = {}
    /\ Sizes \subseteq Nat /\ MaxSizes \subseteq Nat \ {0} /\ MaxSizes # {}
    /\ {Overhead, MaxEntry, MaxDepth, MaxEpoch} \subseteq Nat
    /\ {TxDrops, Racy} \subseteq BOOLEAN

VARIABLES
    cache,             \* the Cache structure with its entries
    transactionEpoch,  \* NsServer.tcl.transactionEpoch
    pc,                \* where a thread is
    call,              \* the command a thread waits or evaluates for
    stack,             \* its Ns_CacheTransactionStack
    tmp                \* the epoch it has read to increment it

vars == <<cache, transactionEpoch, pc, call, stack, tmp>>

(* An entry: a value is named by the thread that computed it.  The owner   *)
(* is history: the thread that is to give the entry a value, or Nobody     *)
(* when a thread that gave up has left it without one.                     *)
Newborn == [value |-> NULL, uncommitted |-> NULL, epoch |-> 0, size |-> 0,
            expires |-> FALSE, pending |-> FALSE, owner |-> NULL]

(* The entries are lru, most recently used first; pending ones are in      *)
(* uncommittedTable.                                                       *)
Init ==
    /\ \E m \in MaxSizes :
         cache = [lru |-> <<>>, entry |-> [k \in Keys |-> Newborn], currentSize |-> 0,
                  maxSize |-> m]
    /\ transactionEpoch = 0
    /\ pc = [t \in Threads |-> "idle"]
    /\ call = [t \in Threads |-> [cmd |-> "none", key |-> NULL]]
    /\ stack = [t \in Threads |-> <<>>]
    /\ tmp = [t \in Threads |-> 0]

-----------------------------------------------------------------------------
(* The functions of cache.c, from a cache to the changed cache.            *)

Last(s) == s[Len(s)]

Front(s) == SubSeq(s, 1, Len(s) - 1)

Exists(c, k) == k \in Range(c.lru)

(* The list without k, which it holds once, or as it is.                   *)
Without(s, k) ==
    IF k \notin Range(s) THEN s
    ELSE LET p == CHOOSE p \in 1 .. Len(s) : s[p] = k
         IN  [i \in 1 .. Len(s) - 1 |-> s[IF i < p THEN i ELSE i + 1]]

(* Mutant: the entry is not removed before it is pushed.                   *)
PushOnly(c, k) == [c EXCEPT !.lru = <<k>> \o @]

(* Remove, then Push.                                                      *)
Touch(c, k) == [c EXCEPT !.lru = <<k>> \o Without(@, k)]

(* Mutant: the size of the entry is kept.                                  *)
UnsetKeepingSize(c, k) ==
    LET e == c.entry[k] IN
    IF e.value = NULL /\ e.uncommitted = NULL
      THEN c
      ELSE [c EXCEPT !.currentSize = @ - e.size,
                     !.entry[k] = [e EXCEPT !.value = NULL, !.expires = FALSE,
                                            !.uncommitted = IF e.value # NULL THEN @ ELSE NULL]]

Ns_CacheUnsetValue(c, k) ==
    LET e == c.entry[k] IN
    IF e.value = NULL /\ e.uncommitted = NULL
      THEN c
      ELSE [c EXCEPT !.currentSize = @ - e.size,
                     !.entry[k] = [e EXCEPT !.value = NULL, !.size = 0, !.expires = FALSE,
                                            !.uncommitted = IF e.value # NULL THEN @ ELSE NULL]]

Ns_CacheDeleteEntry(c, k) ==
    [Ns_CacheUnsetValue(c, k) EXCEPT !.currentSize = @ - Overhead, !.lru = Without(@, k),
                                     !.entry[k] = Newborn]

(* Whether Ns_CacheCreateEntry finds no entry or, x, an expired one.       *)
IsNew(c, k, x) == ~Exists(c, k) \/ x

Ns_CacheCreateEntry(c, k, x) ==
    IF Exists(c, k)
      THEN Touch(IF x THEN Ns_CacheUnsetValue(c, k) ELSE c, k)
      ELSE Touch([c EXCEPT !.currentSize = @ + Overhead], k)

Epochs(t) == {stack[t][i].epoch : i \in DOMAIN stack[t]}

Ns_CacheGetValueT(c, t, k) ==
    LET e == c.entry[k] IN
    IF e.value # NULL THEN e.value
    ELSE IF e.epoch \in Epochs(t) THEN e.uncommitted ELSE NULL

Ns_CacheFindEntryT(c, t, k, x) ==
    CASE ~Exists(c, k) \/ (c.entry[k].value = NULL /\ stack[t] = <<>>) -> c
      [] OTHER -> IF x THEN Ns_CacheDeleteEntry(c, k)
                  ELSE IF Ns_CacheGetValueT(c, t, k) # NULL THEN Touch(c, k) ELSE c

(* Mutant: an entry without a committed value is evicted as well.          *)
EvictAny(c, k) ==
    IF c.currentSize > c.maxSize /\ Last(c.lru) # k
      THEN Ns_CacheDeleteEntry(c, Last(c.lru))
      ELSE c

(* The least recently used entry makes space for k.                        *)
Evict(c, k) ==
    IF c.currentSize > c.maxSize /\ Last(c.lru) # k /\ c.entry[Last(c.lru)].value # NULL
      THEN Ns_CacheDeleteEntry(c, Last(c.lru))
      ELSE c

(* The loop that makes space, one iteration for every entry at most.       *)
Prune(c, k) ==
    LET step[n \in 0 .. Len(c.lru)] == IF n = 0 THEN c ELSE Evict(step[n - 1], k)
    IN  step[Len(c.lru)]

(* Thread t gives the entry a value of size n, in its innermost            *)
(* transaction when it has one.                                            *)
Ns_CacheSetValueExpires(c, t, k, n) ==
    LET d == Ns_CacheUnsetValue(c, k)
        e == [d.entry[k] EXCEPT !.size = n, !.expires = (k \in Expiring), !.owner = NULL]
        f == IF stack[t] = <<>>
               THEN [e EXCEPT !.value = t]
               ELSE [e EXCEPT !.uncommitted = t, !.epoch = Last(stack[t]).epoch,
                              !.pending = TRUE]
    IN  Prune([d EXCEPT !.entry[k] = f, !.currentSize = @ + n], k)

(* The end of transaction ep for an entry that it has written last.        *)
FinishEntry(c, k, ep, commit) ==
    LET e == c.entry[k] IN
    IF ~(e.pending /\ e.value = NULL /\ e.epoch = ep) THEN c
    ELSE IF ~commit THEN Ns_CacheDeleteEntry(c, k)
    ELSE [c EXCEPT !.entry[k] = [e EXCEPT !.value = e.uncommitted, !.uncommitted = NULL,
                                          !.epoch = 0, !.pending = FALSE]]

CacheTransaction(c, ep, commit) ==
    LET step[n \in 0 .. Len(c.lru)] ==
          IF n = 0 THEN c ELSE FinishEntry(step[n - 1], c.lru[n], ep, commit)
    IN  step[Len(c.lru)]

-----------------------------------------------------------------------------
(* The functions of tclcache.c.                                            *)

MayExpire(k, x) == x => Exists(cache, k) /\ cache.entry[k].expires

(* Mutant: nobody is woken.                                                *)
NoBroadcast(pcs) == pcs

Ns_CacheBroadcast(pcs) == [t \in Threads |-> IF pcs[t] = "wait" THEN "woken" ELSE pcs[t]]

(* Mutant: the transaction does not note that it has written.              *)
SetEntryUncounted(c, t, k, n) ==
    /\ cache' = IF n > MaxEntry THEN Ns_CacheDeleteEntry(c, k)
                                ELSE Ns_CacheSetValueExpires(c, t, k, n)
    /\ stack' = stack

(* A value above maxEntry is not cached.                                   *)
SetEntry(c, t, k, n) ==
    /\ cache' = IF n > MaxEntry THEN Ns_CacheDeleteEntry(c, k)
                                ELSE Ns_CacheSetValueExpires(c, t, k, n)
    /\ stack' = IF n > MaxEntry \/ stack[t] = <<>> THEN stack
                ELSE [stack EXCEPT ![t][Len(stack[t])].wrote = TRUE]

(* The script of ns_cache_eval is to be run, without the lock.             *)
StartEval(t, c, k, m) ==
    /\ cache' = [c EXCEPT !.entry[k].owner = t]
    /\ pc' = [pc EXCEPT ![t] = "eval"] /\ call' = [call EXCEPT ![t] = m]
    /\ UNCHANGED stack

Return(t) ==
    pc' = [pc EXCEPT ![t] = "idle"] /\ call' = [call EXCEPT ![t] = [cmd |-> "none", key |-> NULL]]

(* Keys that a thread may write: those for transactions when it is in one. *)
MayWrite(t, k) == stack[t] # <<>> => k \in TxKeys

(* An entry without a value for the thread makes it wait.                  *)
Collide(t, m, x) ==
    /\ ~IsNew(cache, m.key, x) /\ Ns_CacheGetValueT(cache, t, m.key) = NULL
    /\ cache' = Ns_CacheCreateEntry(cache, m.key, x)
    /\ pc' = [pc EXCEPT ![t] = "wait"] /\ call' = [call EXCEPT ![t] = m]
    /\ UNCHANGED stack

(* ns_cache_eval with the entry it needs.                                  *)
Eval(t, m, x) ==
    LET c   == Ns_CacheCreateEntry(cache, m.key, x)
        new == IsNew(cache, m.key, x)
    IN  /\ m.cmd \in {"eval", "force"}
        /\ new \/ Ns_CacheGetValueT(cache, t, m.key) # NULL
        /\ CASE new -> StartEval(t, c, m.key, m)
             [] ~new /\ m.cmd = "force" -> StartEval(t, Ns_CacheUnsetValue(c, m.key), m.key, m)
             [] OTHER -> cache' = c /\ Return(t) /\ UNCHANGED stack

(* ns_cache_incr, ns_cache_append and ns_cache_lappend, which fail on a    *)
(* value that is no integer or list.                                       *)
Update(t, m, x) ==
    LET c   == Ns_CacheCreateEntry(cache, m.key, x)
        new == IsNew(cache, m.key, x)
    IN  /\ m.cmd = "update"
        /\ new \/ Ns_CacheGetValueT(cache, t, m.key) # NULL
        /\ \/ \E n \in Sizes :
                /\ n > MaxEntry /\ stack[t] # <<>> => TxDrops
                /\ SetEntry(c, t, m.key, n)
           \/ ~new /\ cache' = c /\ UNCHANGED stack
        /\ Return(t)

CreateEntry(t, m) ==
    /\ \E x \in BOOLEAN :
         MayExpire(m.key, x) /\ (Collide(t, m, x) \/ Eval(t, m, x) \/ Update(t, m, x))
    /\ UNCHANGED <<transactionEpoch, tmp>>

(* A thread issues one of these commands.                                  *)
Command(t, cmd, k) ==
    /\ pc[t] = "idle" /\ MayWrite(t, k)
    /\ CreateEntry(t, [cmd |-> cmd, key |-> k])

(* After a broadcast it tries again.                                       *)
Retry(t) == pc[t] = "woken" /\ CreateEntry(t, call[t])

(* The wait ends by timeout, before the lock is held again.                *)
TimeUp(t) ==
    /\ t \in Timed /\ pc[t] = "wait"
    /\ pc' = [pc EXCEPT ![t] = "late"]
    /\ UNCHANGED <<cache, transactionEpoch, call, stack, tmp>>

(* Ns_CacheWaitCreateEntryT creates the entry once more before it gives up.*)
GiveUp(t) ==
    LET k == call[t].key IN
    /\ pc[t] = "late"
    /\ \E x \in BOOLEAN :
         LET c == Ns_CacheCreateEntry(cache, k, x) IN
         /\ MayExpire(k, x)
         /\ cache' = IF IsNew(cache, k, x) THEN [c EXCEPT !.entry[k].owner = Nobody] ELSE c
    /\ Return(t)
    /\ UNCHANGED <<transactionEpoch, stack, tmp>>

(* The script has ended, and its result is cached unless it failed.        *)
FinishEval(t) ==
    LET k == call[t].key
        c == Ns_CacheCreateEntry(cache, k, FALSE)
    IN  /\ pc[t] = "eval"
        /\ \/ \E n \in Sizes : SetEntry(c, t, k, n)
           \/ cache' = Ns_CacheDeleteEntry(c, k) /\ UNCHANGED stack
        /\ pc' = [Ns_CacheBroadcast(pc) EXCEPT ![t] = "idle"]
        /\ call' = [call EXCEPT ![t] = [cmd |-> "none", key |-> NULL]]
        /\ UNCHANGED <<transactionEpoch, tmp>>

(* ns_cache_get.                                                           *)
Get(t, k) ==
    /\ pc[t] = "idle"
    /\ \E x \in BOOLEAN : MayExpire(k, x) /\ cache' = Ns_CacheFindEntryT(cache, t, k, x)
    /\ UNCHANGED <<transactionEpoch, pc, call, stack, tmp>>

(* An entry is deleted if it has a value for the thread.                   *)
FlushEntry(c, t, k) ==
    IF Exists(c, k) /\ Ns_CacheGetValueT(c, t, k) # NULL THEN Ns_CacheDeleteEntry(c, k) ELSE c

(* ns_cache_flush of one key.                                              *)
Flush(t, k) ==
    /\ pc[t] = "idle"
    /\ cache.entry[k].epoch \in Epochs(t) => TxDrops
    /\ \E x \in BOOLEAN :
         MayExpire(k, x) /\ cache' = FlushEntry(Ns_CacheFindEntryT(cache, t, k, x), t, k)
    /\ UNCHANGED <<transactionEpoch, pc, call, stack, tmp>>

(* A walk through all entries that deletes those with a value for the      *)
(* thread that are in ks or have expired, which are in xs.                 *)
WalkEntries(c, t, ks) ==
    LET step[n \in 0 .. Len(c.lru)] ==
          IF n = 0 THEN c
          ELSE IF c.lru[n] \in ks THEN FlushEntry(step[n - 1], t, c.lru[n]) ELSE step[n - 1]
    IN  step[Len(c.lru)]

(* ns_cache_keys, and ns_cache_flush of all keys or of patterns.           *)
Walk(t, ks) ==
    /\ pc[t] = "idle"
    /\ \A k \in ks : cache.entry[k].epoch \in Epochs(t) => TxDrops
    /\ \E xs \in SUBSET {k \in Keys : MayExpire(k, TRUE)} :
         cache' = WalkEntries(cache, t, ks \union xs)
    /\ UNCHANGED <<transactionEpoch, pc, call, stack, tmp>>

(* ns_cache_configure -maxsize.                                            *)
Configure(m) ==
    /\ m # cache.maxSize /\ cache' = [cache EXCEPT !.maxSize = m]
    /\ UNCHANGED <<transactionEpoch, pc, call, stack, tmp>>

-----------------------------------------------------------------------------
(* Transactions.                                                           *)

(* ns_cache_transaction_begin increments transactionEpoch under a read     *)
(* lock: two threads may do so at a time.                                  *)
BeginRead(t) ==
    /\ t \in TxThreads /\ pc[t] = "idle" /\ transactionEpoch < MaxEpoch
    /\ Racy \/ \A u \in Threads : pc[u] # "begin"
    /\ tmp' = [tmp EXCEPT ![t] = transactionEpoch] /\ pc' = [pc EXCEPT ![t] = "begin"]
    /\ UNCHANGED <<cache, transactionEpoch, call, stack>>

(* At the maximal depth the command fails.                                 *)
BeginWrite(t) ==
    /\ pc[t] = "begin"
    /\ transactionEpoch' = tmp[t] + 1
    /\ stack' = IF Len(stack[t]) < MaxDepth
                  THEN [stack EXCEPT ![t] = Append(@, [epoch |-> tmp[t] + 1, wrote |-> FALSE])]
                  ELSE stack
    /\ pc' = [pc EXCEPT ![t] = "idle"] /\ tmp' = [tmp EXCEPT ![t] = 0]
    /\ UNCHANGED <<cache, call>>

(* ns_cache_transaction_commit and ns_cache_transaction_rollback visit     *)
(* caches with uncommitted entries, if the transaction has written.        *)
CacheTransactionFinishPop(t, commit) ==
    LET tx     == Last(stack[t])
        visits == tx.wrote /\ \E k \in Keys : cache.entry[k].pending
    IN  /\ pc[t] = "idle" /\ stack[t] # <<>>
        /\ stack' = [stack EXCEPT ![t] = Front(@)]
        /\ cache' = IF visits THEN CacheTransaction(cache, tx.epoch, commit) ELSE cache
        /\ pc' = IF visits THEN Ns_CacheBroadcast(pc) ELSE pc
        /\ UNCHANGED <<transactionEpoch, call, tmp>>

Finish(t) == \E commit \in BOOLEAN : CacheTransactionFinishPop(t, commit)

-----------------------------------------------------------------------------
ThreadStep(t) ==
    \/ \E k \in Keys, cmd \in {"eval", "force", "update"} : Command(t, cmd, k)
    \/ Retry(t) \/ TimeUp(t) \/ GiveUp(t) \/ FinishEval(t)
    \/ \E k \in Keys : Get(t, k) \/ Flush(t, k)
    \/ \E ks \in SUBSET Keys : Walk(t, ks)
    \/ BeginRead(t) \/ BeginWrite(t) \/ Finish(t)

Next == (\E t \in Threads : ThreadStep(t)) \/ (\E m \in MaxSizes : Configure(m))

Spec == Init /\ [][Next]_vars

(* A thread that holds nothing up gets the lock, scripts end, and a script *)
(* that has begun a transaction ends it.                                   *)
FairSpec ==
    /\ Spec
    /\ \A t \in Threads : /\ WF_vars(Retry(t) \/ FinishEval(t) \/ GiveUp(t) \/ BeginWrite(t))
                          /\ SF_vars(Finish(t))
-----------------------------------------------------------------------------
(* The variables have the values that their C types and the fields of the  *)
(* structures allow; no key is twice in the list.                          *)
TypeOK ==
    /\ cache.lru \in Seq(Keys) /\ IsInjective(cache.lru)
    /\ cache.currentSize \in Nat /\ cache.maxSize \in MaxSizes
    /\ cache.entry \in
         [Keys -> [value : Threads \union {NULL}, uncommitted : Threads \union {NULL},
                   epoch : 0..MaxEpoch, size : Sizes \union {0}, expires : BOOLEAN,
                   pending : BOOLEAN, owner : Threads \union {NULL, Nobody}]]
    /\ \A k \in Keys : ~Exists(cache, k) => cache.entry[k] = Newborn
    /\ transactionEpoch \in 0..MaxEpoch
    /\ pc \in [Threads -> {"idle", "wait", "woken", "late", "eval", "begin"}]
    /\ \A t \in Threads : stack[t] \in Seq([epoch : 1..MaxEpoch, wrote : BOOLEAN])

(* What the entries of a cache take.                                       *)
Total(c) ==
    LET total[n \in 0 .. Len(c.lru)] ==
          IF n = 0 THEN 0 ELSE total[n - 1] + Overhead + c.entry[c.lru[n]].size
    IN  total[Len(c.lru)]

(* Cache.currentSize is what the entries take, so that it never wraps      *)
(* below zero and eviction sees the size the cache has: creating, unsetting*)
(* and deleting entries, commits and rollbacks keep it.                    *)
SizeAccounted == cache.currentSize = Total(cache)

(* While the script of ns_cache_eval runs without the lock, its entry      *)
(* stays in the cache, without a value, and no other thread evaluates it:  *)
(* what it then sets or deletes is no freed entry.  And every entry        *)
(* without a value will get one, unless a wait that timed out created it.  *)
UpdateOwned ==
    /\ \A t \in Threads : pc[t] = "eval" =>
         LET k == call[t].key IN
         /\ Exists(cache, k) /\ cache.entry[k].owner = t
         /\ cache.entry[k].value = NULL /\ cache.entry[k].uncommitted = NULL
    /\ \A k \in Range(cache.lru) :
         LET e == cache.entry[k] IN
         e.value = NULL /\ e.uncommitted = NULL =>
           e.owner = Nobody \/ (e.owner \in Threads /\ pc[e.owner] = "eval" /\ call[e.owner].key = k)

(* A thread that waits on Cache.cond in Ns_CacheWaitCreateEntryT waits for *)
(* something: the entry has no value for it, and a script that will        *)
(* provide one runs, or another thread's transaction holds one, or it was  *)
(* left by a wait that timed out.  No change of an entry misses to wake it.*)
WaitsForSomeone ==
    \A t \in Threads : pc[t] = "wait" =>
      LET k == call[t].key
          e == cache.entry[k]
      IN  /\ Exists(cache, k) /\ Ns_CacheGetValueT(cache, t, k) = NULL
          /\ \/ e.owner = Nobody
             \/ \E u \in Threads \ {t} :
                  \/ pc[u] = "eval" /\ call[u].key = k
                  \/ e.uncommitted # NULL /\ e.epoch \in Epochs(u)

(* Values of a transaction that is not committed are seen by the thread    *)
(* that computed them only, and its transaction can still end for them.    *)
Isolation ==
    \A k \in Range(cache.lru) :
      LET e == cache.entry[k] IN
      e.value = NULL /\ e.uncommitted # NULL =>
        /\ e.pending
        /\ \A t \in Threads : (e.epoch \in Epochs(t)) <=> (t = e.uncommitted)

(* A wait for an entry ends without a timeout, unless a wait that timed    *)
(* out left the entry: scripts end and transactions end, and both wake     *)
(* those who wait.                                                         *)
WaitEnds ==
    \A t \in Threads \ Timed :
      pc[t] = "wait" ~> \/ pc[t] # "wait"
                       \/ cache.entry[call[t].key].owner = Nobody
=============================================================================
