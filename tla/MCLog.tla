------------------------------- MODULE MCLog -------------------------------
(* Log on small instances: which sets TLC may permute. *)
EXTENDS Log, TLC

Symmetric == Permutations(Procs)
SymmetricAll == Permutations(Procs) \cup Permutations(Blocks) \cup Permutations(Values)
=============================================================================
