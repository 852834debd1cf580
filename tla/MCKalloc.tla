------------------------------ MODULE MCKalloc ------------------------------
(* Kalloc for TLC: CPUs are interchangeable where all of them may free. *)
EXTENDS Kalloc, TLC
Symmetry == Permutations(CPUs)
=============================================================================
