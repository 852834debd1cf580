---------------------------- MODULE MCFileCalls -----------------------------
(* FileCalls on small instances: which sets TLC may permute. *)
EXTENDS FileCalls

Symmetry == Permutations(Procs) \cup Permutations(Names)
=============================================================================
