------------------------------- MODULE MCProc -------------------------------
(* Proc for TLC: CPUs are interchangeable. *)
EXTENDS Proc, TLC
Symmetry == Permutations(CPUs)
=============================================================================
