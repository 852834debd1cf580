---- MODULE MCKernelParts ----
(* Three components of the kernel that share no state with one another, checked
   in one run: `part` says which of them a behaviour is about, and only that one
   takes steps. *)
EXTENDS Kalloc, FileTable, Trap

VARIABLE part


PartVars == <<part, vars, FileTableVars, TrapVars>>

PartsInit ==
  /\ part \in {"kalloc", "files", "trap"}
  /\ Init
  /\ FileTableInit
  /\ TrapInit

PartsNext ==
  \/ /\ part = "kalloc" /\ Next
     /\ UNCHANGED <<part, FileTableVars, TrapVars>>
  \/ /\ part = "files" /\ FileTableNext
     /\ UNCHANGED <<part, vars, TrapVars>>
  \/ /\ part = "trap" /\ TrapNext
     /\ UNCHANGED <<part, vars, FileTableVars>>

PartsSpec == PartsInit /\ [][PartsNext]_PartVars
====
