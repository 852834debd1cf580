------------------------------ MODULE TxnDisk ------------------------------
(***************************************************************************)
(* What the logging layer of the file system promises to its callers.      *)
(*                                                                         *)
(* The disk is an array of blocks with two readings: `durable' is what a   *)
(* reboot would find, `current' is what system calls read and write.       *)
(* System calls bracket their writes; `durable' catches up with `current'  *)
(* in one step and only while no system call is in progress, so a crash    *)
(* keeps all the writes of a system call or none of them.                  *)
(***************************************************************************)
CONSTANTS
  Procs,    \* processes that make file-system calls
  Blocks,   \* block numbers outside the log area
  Values    \* contents of a block

VARIABLES
  durable,  \* contents after a crash and a recovery
  current,  \* contents as seen through the buffer cache
  active    \* processes between begin_op and end_op

vars == <<durable, current, active>>

TypeOK ==
  /\ durable \in [Blocks -> Values]
  /\ current \in [Blocks -> Values]
  /\ active \subseteq Procs

Init ==
  /\ durable \in [Blocks -> Values]
  /\ current = durable
  /\ active = {}

Begin(p) ==
  /\ p \notin active
  /\ active' = active \cup {p}
  /\ UNCHANGED <<durable, current>>

Write(p, b, v) ==
  /\ p \in active
  /\ current' = [current EXCEPT ![b] = v]
  /\ UNCHANGED <<durable, active>>

End(p) ==
  /\ p \in active
  /\ active' = active \ {p}
  /\ UNCHANGED <<durable, current>>

Commit ==
  /\ active = {}
  /\ durable' = current
  /\ UNCHANGED <<current, active>>

Crash ==
  /\ current' = durable
  /\ active' = {}
  /\ UNCHANGED durable

Next ==
  \/ \E p \in Procs : Begin(p) \/ End(p)
  \/ \E p \in Procs, b \in Blocks, v \in Values : Write(p, b, v)
  \/ Commit
  \/ Crash

Spec == Init /\ [][Next]_vars
=============================================================================
