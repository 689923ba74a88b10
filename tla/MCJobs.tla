------------------------------- MODULE MCJobs -------------------------------
(* Two queues with one thread each, and two jobs of the first one, of      *)
(* which the second is detached.  The threads of both queues compete for   *)
(* the jobs of one.                                                        *)
EXTENDS Jobs, TLC

CONSTANTS q1, q2, j1, j2, c1, c2, t1, t2

MCQueueOf == [j \in Jobs |-> q1]
MCMaxThreads == [q \in Queues |-> 1]
Symmetry == Permutations(Callers) \union Permutations(Threads)
=============================================================================
