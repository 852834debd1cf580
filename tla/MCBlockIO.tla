----------------------------- MODULE MCBlockIO -----------------------------
(* BlockIO on small instances: which sets TLC may permute. *)
EXTENDS BlockIO, TLC

Symmetry == Permutations(Procs) \cup Permutations(Blocks)
=============================================================================
