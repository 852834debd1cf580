------------------------------- MODULE MCPipe -------------------------------
(* Pipe for TLC: processes at the same end are interchangeable. *)
EXTENDS Pipe, TLC
Symmetry == Permutations(Writers) \cup Permutations(Readers)
=============================================================================
