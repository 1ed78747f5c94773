--------------------------- MODULE MCThreadScheduler ---------------------------
(* Instances of ThreadScheduler for TLC. *)
EXTENDS ThreadScheduler, TLC

CONSTANTS t1, t2, t3, m1, m2

\* InitialThread is t1; the threads created by it are interchangeable.
Symmetry == Permutations(Threads \ {InitialThread})
================================================================================
