----------------------------- MODULE DbAllocator -----------------------------
(***************************************************************************)
(* What a pool of database handles promises to its users (nsdb): a thread  *)
(* that owns no handles of the pool may ask for some; it gets all of them  *)
(* at once or none, and no handle has two owners.                          *)
(***************************************************************************)
EXTENDS Naturals, FiniteSets

CONSTANTS Handles, Threads

VARIABLES
    free,    \* handles without an owner
    owned,   \* the handles of every thread
    asked    \* how many it asked for, 0 if it does not

Init ==
    /\ free = Handles
    /\ owned = [t \in Threads |-> {}]
    /\ asked = [t \in Threads |-> 0]

Ask(t) ==
    /\ asked[t] = 0 /\ owned[t] = {}
    /\ \E n \in 1 .. Cardinality(Handles) : asked' = [asked EXCEPT ![t] = n]
    /\ UNCHANGED <<free, owned>>

Refuse(t) ==
    /\ asked[t] # 0
    /\ asked' = [asked EXCEPT ![t] = 0]
    /\ UNCHANGED <<free, owned>>

Grant(t) ==
    /\ asked[t] # 0
    /\ \E S \in SUBSET free :
         /\ Cardinality(S) = asked[t]
         /\ owned' = [owned EXCEPT ![t] = S]
         /\ free' = free \ S
    /\ asked' = [asked EXCEPT ![t] = 0]

Release(t) ==
    /\ \E h \in owned[t] :
         /\ owned' = [owned EXCEPT ![t] = @ \ {h}]
         /\ free' = free \union {h}
    /\ UNCHANGED asked

Next == \E t \in Threads : Ask(t) \/ Refuse(t) \/ Grant(t) \/ Release(t)

Spec == Init /\ [][Next]_<<free, owned, asked>>
=============================================================================
