----------------------------- MODULE MCConsole ------------------------------
(* Console with one reading and one writing CPU. *)
EXTENDS Console

=============================================================================
