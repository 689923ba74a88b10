----------------------------- MODULE MCConnPool -----------------------------
(* Instances of ConnPool for TLC.                                          *)
EXTENDS ConnPool, TLC

Symmetry == Permutations(Drivers) \union Permutations(Spoolers) \union Permutations(Conns)
=============================================================================
