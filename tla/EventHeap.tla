----------------------------- MODULE EventHeap ------------------------------
(***************************************************************************)
(* The priority queue of scheduled events (nsd/sched.c): a binary heap in  *)
(* the array queue[1 .. nqueue], ordered by Event.nextqueue.  A heap is a  *)
(* record of the array and of Event.qid, the position that every event     *)
(* remembers.  The loops of the code are functions of the number of their  *)
(* iterations, of which none needs more than the array is long.            *)
(***************************************************************************)
EXTENDS Naturals, Sequences

(* Mutant: only one of the two events learns its new position.             *)
ExchangeOneQid(h, i, j) ==
    LET q == [h.queue EXCEPT ![i] = h.queue[j], ![j] = h.queue[i]] IN
    [queue |-> q, qid |-> [h.qid EXCEPT ![q[i]] = i]]

(* When an event is exchanged with itself, its position stays.             *)
Exchange(h, i, j) ==
    LET q == [h.queue EXCEPT ![i] = h.queue[j], ![j] = h.queue[i]] IN
    [queue |-> q, qid |-> [h.qid EXCEPT ![q[i]] = i, ![q[j]] = j]]

(* The parent j of a child k has the later time.                           *)
Larger(h, nextqueue, j, k) == nextqueue[h.queue[j]] > nextqueue[h.queue[k]]

(* The event at s.k moves up if its parent is later.                       *)
SwimOnce(s, nextqueue) ==
    LET j == s.k \div 2 IN
    IF s.k > 1 /\ Larger(s.heap, nextqueue, j, s.k)
      THEN [heap |-> Exchange(s.heap, j, s.k), k |-> j]
      ELSE s

Swim(h, nextqueue, start) ==
    LET step[n \in Nat] ==
          IF n = 0 THEN [heap |-> h, k |-> start] ELSE SwimOnce(step[n - 1], nextqueue)
    IN  step[Len(h.queue)].heap

(* The event at s.k moves down if it is later than its earlier child.      *)
SinkOnce(s, nextqueue) ==
    LET last == Len(s.heap.queue)
        l == 2 * s.k
        j == IF l < last /\ Larger(s.heap, nextqueue, l, l + 1) THEN l + 1 ELSE l
    IN  IF l <= last /\ Larger(s.heap, nextqueue, s.k, j)
          THEN [heap |-> Exchange(s.heap, s.k, j), k |-> j]
          ELSE s

Sink(h, nextqueue, start) ==
    LET step[n \in Nat] ==
          IF n = 0 THEN [heap |-> h, k |-> start] ELSE SinkOnce(step[n - 1], nextqueue)
    IN  step[Len(h.queue)].heap

(* The end of QueueEvent: the event is appended and moves up.              *)
Enqueue(h, nextqueue, e) ==
    LET n == Len(h.queue) + 1 IN
    Swim([queue |-> Append(h.queue, e), qid |-> [h.qid EXCEPT ![e] = n]], nextqueue, n)

(* The event at k is exchanged with the last one, which then moves down.   *)
DeQueueEvent(h, nextqueue, k) ==
    LET n == Len(h.queue)
        x == Exchange(h, k, n)
    IN Sink([queue |-> SubSeq(x.queue, 1, n - 1),
             qid   |-> [x.qid EXCEPT ![x.queue[n]] = 0]], nextqueue, k)

(* The array is a heap: no parent is later than a child.                   *)
IsHeap(h, nextqueue) ==
    \A k \in 2 .. Len(h.queue) : ~Larger(h, nextqueue, k \div 2, k)

(* Every event in the array knows its position.                            *)
QidsMatch(h) == \A k \in 1 .. Len(h.queue) : h.qid[h.queue[k]] = k
=============================================================================
