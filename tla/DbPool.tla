------------------------------- MODULE DbPool --------------------------------
(***************************************************************************)
(* A pool of database handles (nsdb/dbinit.c): threads that get and put    *)
(* handles, CheckPool, which closes stale ones and is run by SchedThread   *)
(* and after a bounce, and Ns_DbBouncePool.                                *)
(*                                                                         *)
(* One step is one region under Pool.lock, or the work between two of them *)
(* on handles that only one thread can reach.  Of the times that make a    *)
(* connection stale only is kept that they may.  Statistics are left out.  *)
(***************************************************************************)
EXTENDS Naturals, Sequences, FiniteSets, Functions

CONSTANTS
    Handles,     \* the handles that CreatePool allocates, Pool.nhandles many
    Threads,     \* threads that get and put handles
    Timed,       \* those that do so with a timeout
    Bouncers,    \* threads that call Ns_DbBouncePool
    Aging,       \* whether maxidle or maxopen is set
    MaxBounce,   \* bound: calls of Ns_DbBouncePool
    Sched,       \* SchedThread, which runs CheckPool at intervals
    NULL

ASSUME DbPoolAssumption ==
    /\ IsFiniteSet(Handles) /\ Handles # {} /\ NULL \notin Handles
    /\ Sched \notin Bouncers /\ Timed \subseteq Threads /\ Aging \in BOOLEAN /\ MaxBounce \in Nat

(* The threads that run CheckPool.                                         *)
Checkers == Bouncers \union {Sched}

VARIABLES
    list,        \* firstPtr ... lastPtr
    waiting,     \* Pool.waiting: a thread collects handles
    closes,      \* Pool.stale_on_close
    connected,   \* handles with Handle.connected
    stale,       \* handles with Handle.stale
    hcloses,     \* Handle.stale_on_close
    pc,          \* where a thread is
    want, got,   \* nwant, and the array of the handles it got
    count,       \* what IncrCount counts
    putting,     \* the handle it is putting back
    kpc,         \* where a checker is
    klist,       \* its handles that are to be checked
    kchecked,    \* its handles that are
    old          \* history: connections that were open at the last bounce

poolVars   == <<list, waiting>>
handleVars == <<closes, connected, stale, hcloses, old>>
threadVars == <<pc, want, got, count, putting>>
checkVars  == <<kpc, klist, kchecked>>
vars == <<poolVars, handleVars, threadVars, checkVars>>

Init ==
    /\ list \in {l \in [1 .. Cardinality(Handles) -> Handles] : IsInjective(l)}
    /\ waiting = FALSE
    /\ closes = 0 /\ connected = {} /\ stale = {} /\ old = {}
    /\ hcloses = [h \in Handles |-> 0]
    /\ pc = [t \in Threads |-> "idle"] /\ want = [t \in Threads |-> 0]
    /\ got = [t \in Threads |-> <<>>] /\ count = [t \in Threads |-> 0]
    /\ putting = [t \in Threads |-> NULL]
    /\ kpc = [k \in Checkers |-> "idle"] /\ klist = [k \in Checkers |-> <<>>]
    /\ kchecked = [k \in Checkers |-> <<>>]

-----------------------------------------------------------------------------
(* Mutant: every handle is returned to the front.                          *)
ReturnFirst(l, h) == <<h>> \o l

(* A connected handle is returned to the front of the list.                *)
ReturnHandle(l, h) == IF h \in connected THEN <<h>> \o l ELSE Append(l, h)

(* Several handles are returned one after the other.                       *)
ReturnAll(hs) ==
    LET returned[n \in 0 .. Len(hs)] ==
            IF n = 0 THEN list ELSE ReturnHandle(returned[n - 1], hs[n])
    IN  returned[Len(hs)]

Reverse(s) == [i \in 1 .. Len(s) |-> s[Len(s) - i + 1]]

(* The sequence s without its element h.                                   *)
Without(s, h) ==
    LET k == CHOOSE k \in 1 .. Len(s) : s[k] = h
    IN  [i \in 1 .. Len(s) - 1 |-> s[IF i < k THEN i ELSE i + 1]]

(* How many handles are taken from the list by one who wants n more.       *)
Available(n) == IF n <= Len(list) THEN n ELSE Len(list)

(* Mutant: nobody is told that handles are back.                           *)
SignalNone(pcs) == pcs

(* A signal of getCond, for which only the collecting thread can wait.     *)
SignalGet(pcs) ==
    [t \in Threads |-> IF waiting /\ pcs[t] = "collecting" THEN "getwoken" ELSE pcs[t]]

(* The outcomes of a signal of waitCond.                                   *)
SignalWait(pcs) ==
    LET queued == {t \in Threads : pcs[t] = "queued"} IN
    IF queued = {} THEN {pcs} ELSE {[pcs EXCEPT ![t] = "woken"] : t \in queued}

MayBeStale(h) == h \in connected /\ (Aging \/ h \in stale \/ closes > hcloses[h])
MustBeStale(h) == h \in connected /\ (h \in stale \/ closes > hcloses[h])

NsDbDisconnect(h) ==
    connected' = connected \ {h} /\ stale' = stale \ {h} /\ old' = old \ {h}

(* IsStale, without the lock, and the disconnect that follows.             *)
CloseIfStale(h) ==
    \/ MayBeStale(h) /\ NsDbDisconnect(h)
    \/ ~MustBeStale(h) /\ UNCHANGED <<connected, stale, old>>

-----------------------------------------------------------------------------
(* Ns_DbPoolTimedGetMultipleHandles.                                       *)

(* A thread that owns handles, by its own count, is refused.               *)
BeginGet(t, n) ==
    /\ pc[t] \in {"idle", "own"}
    /\ count[t] = 0
    /\ count' = [count EXCEPT ![t] = @ + n] /\ want' = [want EXCEPT ![t] = n]
    /\ pc' = [pc EXCEPT ![t] = "enter"]
    /\ UNCHANGED <<poolVars, handleVars, got, putting, checkVars>>

(* Only one thread collects handles; the others queue up for that.         *)
Queue(t) ==
    /\ pc[t] \in {"enter", "woken"} /\ waiting
    /\ pc' = [pc EXCEPT ![t] = "queued"]
    /\ UNCHANGED <<poolVars, handleVars, want, got, count, putting, checkVars>>

(* Mutant: two threads may collect at a time.                              *)
CollectAnyway(t) ==
    LET n == Available(want[t] - Len(got[t])) IN
    /\ pc[t] \in {"enter", "woken", "getwoken"}
    /\ got' = [got EXCEPT ![t] = @ \o SubSeq(list, 1, n)]
    /\ list' = SubSeq(list, n + 1, Len(list))
    /\ waiting' = (Len(got'[t]) < want[t])
    /\ IF waiting' THEN pc' = [pc EXCEPT ![t] = "collecting"]
                   ELSE pc' \in SignalWait([pc EXCEPT ![t] = "connect"])
    /\ UNCHANGED <<handleVars, want, count, putting, checkVars>>

(* The thread takes handles until it has all, or the list is empty.        *)
Collect(t) ==
    LET n == Available(want[t] - Len(got[t])) IN
    /\ \/ pc[t] \in {"enter", "woken"} /\ ~waiting
       \/ pc[t] = "getwoken"
    /\ got' = [got EXCEPT ![t] = @ \o SubSeq(list, 1, n)]
    /\ list' = SubSeq(list, n + 1, Len(list))
    /\ waiting' = (Len(got'[t]) < want[t])
    /\ IF waiting' THEN pc' = [pc EXCEPT ![t] = "collecting"]
                   ELSE pc' \in SignalWait([pc EXCEPT ![t] = "connect"])
    /\ UNCHANGED <<handleVars, want, count, putting, checkVars>>

(* The time is up before it is this thread's turn.                         *)
QueueTimeout(t) ==
    /\ t \in Timed /\ pc[t] = "queued"
    /\ pc' = [pc EXCEPT ![t] = "failed"]
    /\ UNCHANGED <<poolVars, handleVars, want, got, count, putting, checkVars>>

(* Mutant: a part of the handles is enough.                                *)
GetTimeoutPartial(t) ==
    LET n == Available(1) IN
    /\ t \in Timed /\ pc[t] \in {"collecting", "getwoken"}
    /\ got' = [got EXCEPT ![t] = @ \o SubSeq(list, 1, n)]
    /\ list' = SubSeq(list, n + 1, Len(list))
    /\ waiting' = FALSE
    /\ pc' \in SignalWait([pc EXCEPT ![t] = IF got'[t] # <<>> THEN "connect" ELSE "failed"])
    /\ UNCHANGED <<handleVars, want, count, putting, checkVars>>

(* The time is up while it collects.  A handle that was returned meanwhile *)
(* is still taken, and may be the last one that it wants.                  *)
GetTimeout(t) ==
    LET n == Available(1) IN
    /\ t \in Timed /\ pc[t] \in {"collecting", "getwoken"}
    /\ got' = [got EXCEPT ![t] = @ \o SubSeq(list, 1, n)]
    /\ list' = SubSeq(list, n + 1, Len(list))
    /\ waiting' = FALSE
    /\ pc' \in SignalWait([pc EXCEPT ![t] = IF Len(got'[t]) = want[t] THEN "connect"
                                                                    ELSE "failed"])
    /\ UNCHANGED <<handleVars, want, count, putting, checkVars>>

(* The handles are connected one after the other, the first n of them with *)
(* success.                                                                *)
Connect(t, n) ==
    LET hs == got[t] IN
    /\ pc[t] = "connect"
    /\ n <= Len(hs) /\ (n < Len(hs) => hs[n + 1] \notin connected)
    /\ connected' = connected \union {h \in Handles : \E i \in 1 .. n : hs[i] = h}
    /\ stale' = IF n < Len(hs) THEN stale \ {hs[n + 1]} ELSE stale
    /\ pc' = [pc EXCEPT ![t] = IF n = Len(hs) THEN "own" ELSE "failed"]
    /\ UNCHANGED <<poolVars, closes, hcloses, old, want, got, count, putting, checkVars>>

(* Mutant: what was taken is not returned.                                 *)
GetFailedKeeps(t) ==
    /\ pc[t] = "failed"
    /\ got' = [got EXCEPT ![t] = <<>>]
    /\ count' = [count EXCEPT ![t] = @ - want[t]] /\ want' = [want EXCEPT ![t] = 0]
    /\ pc' = SignalGet([pc EXCEPT ![t] = "idle"])
    /\ UNCHANGED <<poolVars, handleVars, putting, checkVars>>

(* What was taken is returned, the last one first.                         *)
GetFailed(t) ==
    /\ pc[t] = "failed"
    /\ list' = ReturnAll(Reverse(got[t])) /\ got' = [got EXCEPT ![t] = <<>>]
    /\ count' = [count EXCEPT ![t] = @ - want[t]] /\ want' = [want EXCEPT ![t] = 0]
    /\ pc' = SignalGet([pc EXCEPT ![t] = "idle"])
    /\ UNCHANGED <<waiting, handleVars, putting, checkVars>>

-----------------------------------------------------------------------------
(* Ns_DbPoolPutHandle: a stale connection is closed before the lock is     *)
(* taken.                                                                  *)
PutHandle(t, h) ==
    /\ pc[t] = "own" /\ h \in Range(got[t])
    /\ CloseIfStale(h)
    /\ count' = [count EXCEPT ![t] = @ - 1]
    /\ putting' = [putting EXCEPT ![t] = h] /\ pc' = [pc EXCEPT ![t] = "put"]
    /\ UNCHANGED <<poolVars, closes, hcloses, want, got, checkVars>>

PutReturn(t) ==
    LET left == Without(got[t], putting[t]) IN
    /\ pc[t] = "put"
    /\ list' = ReturnHandle(list, putting[t])
    /\ got' = [got EXCEPT ![t] = left] /\ putting' = [putting EXCEPT ![t] = NULL]
    /\ want' = [want EXCEPT ![t] = Len(left)]
    /\ pc' = SignalGet([pc EXCEPT ![t] = IF left = <<>> THEN "idle" ELSE "own"])
    /\ UNCHANGED <<waiting, handleVars, count, checkVars>>

(* "ns_db disconnect".                                                     *)
Disconnect(t, h) ==
    /\ pc[t] = "own" /\ h \in Range(got[t]) \intersect connected
    /\ NsDbDisconnect(h)
    /\ UNCHANGED <<poolVars, closes, hcloses, threadVars, checkVars>>

-----------------------------------------------------------------------------
(* CheckPool takes the whole list.                                         *)
CheckGrab(k) ==
    /\ kpc[k] = "grab" \/ (k = Sched /\ kpc[k] = "idle")
    /\ klist' = [klist EXCEPT ![k] = list] /\ list' = <<>>
    /\ kpc' = [kpc EXCEPT ![k] = IF list = <<>> THEN "idle" ELSE "check"]
    /\ UNCHANGED <<waiting, handleVars, threadVars, kchecked>>

CheckHandle(k) ==
    /\ kpc[k] = "check" /\ klist[k] # <<>>
    /\ CloseIfStale(Head(klist[k]))
    /\ kchecked' = [kchecked EXCEPT ![k] = <<Head(klist[k])>> \o @]
    /\ klist' = [klist EXCEPT ![k] = Tail(@)]
    /\ UNCHANGED <<poolVars, closes, hcloses, threadVars, kpc>>

CheckReturn(k) ==
    /\ kpc[k] = "check" /\ klist[k] = <<>>
    /\ list' = ReturnAll(kchecked[k]) /\ kchecked' = [kchecked EXCEPT ![k] = <<>>]
    /\ pc' = SignalGet(pc)
    /\ kpc' = [kpc EXCEPT ![k] = "idle"]
    /\ UNCHANGED <<waiting, handleVars, want, got, count, putting, klist>>

(* Mutant: handles that are not connected are marked too.                  *)
BounceAll(k) ==
    /\ kpc[k] = "idle" /\ closes < MaxBounce
    /\ closes' = closes + 1
    /\ stale' = stale \union Range(list)
    /\ hcloses' = [h \in Handles |-> IF h \in Range(list) THEN closes' ELSE hcloses[h]]
    /\ old' = connected
    /\ kpc' = [kpc EXCEPT ![k] = "grab"]
    /\ UNCHANGED <<poolVars, connected, threadVars, klist, kchecked>>

(* Mutant: handles in use are forgotten.                                   *)
BounceIdle(k) ==
    /\ kpc[k] = "idle" /\ closes < MaxBounce
    /\ stale' = stale \union (Range(list) \intersect connected)
    /\ old' = connected
    /\ kpc' = [kpc EXCEPT ![k] = "grab"]
    /\ UNCHANGED <<poolVars, closes, connected, hcloses, threadVars, klist, kchecked>>

(* The handles in the list are marked; those in use show by their counter  *)
(* that they are older than the bounce.                                    *)
Ns_DbBouncePool(k) ==
    /\ kpc[k] = "idle" /\ closes < MaxBounce
    /\ closes' = closes + 1
    /\ stale' = stale \union (Range(list) \intersect connected)
    /\ hcloses' = [h \in Handles |-> IF h \in Range(list) THEN closes' ELSE hcloses[h]]
    /\ old' = connected
    /\ kpc' = [kpc EXCEPT ![k] = "grab"]
    /\ UNCHANGED <<poolVars, connected, threadVars, klist, kchecked>>

-----------------------------------------------------------------------------
ThreadStep(t) ==
    \/ Queue(t) \/ Collect(t) \/ GetFailed(t) \/ PutReturn(t)
    \/ \E n \in 0 .. Cardinality(Handles) : Connect(t, n)
    \/ \E h \in Handles : PutHandle(t, h)

CheckStep(k) == CheckGrab(k) \/ CheckHandle(k) \/ CheckReturn(k)

Next ==
    \/ \E t \in Threads :
         \/ ThreadStep(t) \/ QueueTimeout(t) \/ GetTimeout(t)
         \/ \E n \in 1 .. Cardinality(Handles) : BeginGet(t, n)
         \/ \E h \in Handles : Disconnect(t, h)
    \/ \E k \in Checkers : CheckStep(k)
    \/ \E k \in Bouncers : Ns_DbBouncePool(k)

Spec == Init /\ [][Next]_vars

(* Threads run and get the lock, the database answers, whoever owns a      *)
(* handle puts it back, and SchedThread runs CheckPool again and again,    *)
(* with enough time in between for a thread to find handles in the list.   *)
FairSpec ==
    /\ Spec
    /\ \A t \in Threads : WF_vars(ThreadStep(t)) /\ SF_vars(Collect(t) /\ list # <<>>)
    /\ \A k \in Checkers : WF_vars(CheckStep(k))
-----------------------------------------------------------------------------
TypeOK ==
    /\ list \in Seq(Handles) /\ waiting \in BOOLEAN
    /\ closes \in 0 .. MaxBounce /\ hcloses \in [Handles -> 0 .. MaxBounce]
    /\ stale \subseteq connected /\ connected \subseteq Handles /\ old \subseteq connected
    /\ pc \in [Threads -> {"idle", "enter", "queued", "woken", "collecting", "getwoken",
                           "connect", "failed", "own", "put"}]
    /\ want \in [Threads -> 0 .. Cardinality(Handles)]
    /\ got \in [Threads -> Seq(Handles)] /\ count \in [Threads -> Nat]
    /\ putting \in [Threads -> Handles \union {NULL}]
    /\ kpc \in [Checkers -> {"idle", "grab", "check"}]
    /\ klist \in [Checkers -> Seq(Handles)] /\ kchecked \in [Checkers -> Seq(Handles)]

(* A handle that is back in the pool with its connection open is taken     *)
(* before one that has to be connected first.                              *)
ConnectedFirst ==
    \A i, j \in 1 .. Len(list) : i < j /\ list[j] \in connected => list[i] \in connected

(* Only one thread collects handles, and it is the one for which           *)
(* Pool.waiting is set: two that each hold a part of what they want, and   *)
(* wait for the rest, would wait for each other.                           *)
OneCollector ==
    Cardinality({t \in Threads : pc[t] \in {"collecting", "getwoken"}})
        = IF waiting THEN 1 ELSE 0

(* The pool does what the abstract allocator does: handles that a request  *)
(* or CheckPool holds for a while count as free, until the whole request   *)
(* is granted.                                                             *)
OwnedBy(t) == IF pc[t] \in {"own", "put"} THEN Range(got[t]) ELSE {}
AskedBy(t) == IF pc[t] \in {"idle", "own", "put"} THEN 0 ELSE want[t]
Free  == Handles \ UNION {OwnedBy(t) : t \in Threads}
Owned == [t \in Threads |-> OwnedBy(t)]
Asked == [t \in Threads |-> AskedBy(t)]
Allocator == INSTANCE DbAllocator WITH free <- Free, owned <- Owned, asked <- Asked
GrantsAllOrNothing == Allocator!Spec

(* No handle gets lost or is in two places at a time.                      *)
InSeq(s, h) == Cardinality({i \in 1 .. Len(s) : s[i] = h})
HandleInOnePlace ==
    \A h \in Handles :
        LET holders == {t \in Threads : h \in Range(got[t])}
            checking == {k \in Checkers : h \in Range(klist[k]) \union Range(kchecked[k])}
        IN InSeq(list, h) + Cardinality(holders) + Cardinality(checking) = 1

(* A thread that asks for handles without a timeout gets an answer, as     *)
(* long as those who own handles put them back: no signal is lost, neither *)
(* that of a put nor that of CheckPool, which holds all idle handles.      *)
GetReturns ==
    \A t \in Threads \ Timed : pc[t] = "enter" ~> pc[t] \in {"own", "idle"}

(* Every connection that was open at a bounce is known to be stale until   *)
(* it is closed, wherever its handle was at that time: in the pool, in     *)
(* use, past the check of a put, or with another CheckPool.                *)
BouncedAreStale == \A h \in old : MustBeStale(h)
=============================================================================
