---------------------------- MODULE MCSubprocess ----------------------------
(* Instances of Subprocess for TLC.                                        *)
EXTENDS Subprocess

Symmetry == Permutations(Pids) \cup Permutations(Objects) \cup Permutations(Threads)
MCSlots == {1, 2}
OneSlot == {1}
=============================================================================
