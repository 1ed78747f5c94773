------------------------------ MODULE MCBarrier ------------------------------
(* Instances of Barrier for TLC. *)
EXTENDS Barrier, TLC

CONSTANTS t1, t2, t3

\* The threads are interchangeable.
Symmetry == Permutations(Threads)
================================================================================
