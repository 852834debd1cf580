----------------------------- MODULE FileTable ------------------------------
(***************************************************************************)
(* The table of open files (kernel/file.c), the descriptors of processes   *)
(* that open, dup, close, pipe, fork and exit (kernel/sysfile.c, fork and  *)
(* exit of kernel/proc.c), and the pipe ends and inode references that the *)
(* last fileclose() of a file gives back.  A critical section of           *)
(* ftable.lock is one step; the steps of processes interleave.             *)
(***************************************************************************)
EXTENDS Naturals, FiniteSets, FiniteSetsExt, Sequences, SequencesExt

CONSTANTS
  Users, InitUser,  \* processes, the first among them
  NFILE, NOFILE,
  PipePages         \* what kalloc() has for pipes

VARIABLES
  ftable,       \* per file: ref, type, the pipe, writable
  ofile,        \* per process and descriptor: a file, 0 if none
  call,         \* per process: its place in a call, the files it still has to
                \* close or holds by itself, the child of a fork()
  ends,         \* per pipe page: which ends are open
  irefs,        \* references to inodes that files have taken over
  ftpanic

FileTableVars == <<ftable, ofile, call, ends, irefs, ftpanic>>

FTfiles == 1..NFILE

FTfds == 0..(NOFILE - 1)

FTempty == [ref |-> 0, type |-> "none", pipe |-> "none", writable |-> FALSE]

FTat(p, pc) == ~ftpanic /\ call[p].pc = pc

FTgoto(p, pc, fs) == call' = [call EXCEPT ![p] = [@ EXCEPT !.pc = pc, !.files = fs]]

FreeFds(p) == {fd \in FTfds : ofile[p][fd] = 0}

(* filealloc(): the first file with no references, if there is one. *)
filealloc == {Min(S) : S \in {{f \in FTfiles : ftable[f].ref = 0}} \ {{}}}

Taken(f) == [ftable EXCEPT ![f].ref = 1]

-----------------------------------------------------------------------------
(* sys_open(): filealloc(), once the inode is found. *)
sys_open(p) ==
  /\ FTat(p, "user")
  /\ \E f \in filealloc : ftable' = Taken(f) /\ FTgoto(p, "open", <<f>>)
  /\ UNCHANGED <<ofile, ends, irefs, ftpanic>>

(* ... then fdalloc(); the file takes over the inode, or is closed. *)
sys_open_fd(p) ==
  LET f == call[p].files[1] IN
  /\ FTat(p, "open")
  /\ IF FreeFds(p) = {}
     THEN FTgoto(p, "close", <<f>>) /\ UNCHANGED <<ftable, ofile, irefs>>
     ELSE /\ ofile' = [ofile EXCEPT ![p][Min(FreeFds(p))] = f]
          /\ ftable' = [ftable EXCEPT ![f].type = "inode"]
          /\ irefs' = irefs + 1
          /\ FTgoto(p, "user", <<>>)
  /\ UNCHANGED <<ends, ftpanic>>

(* sys_dup(): the descriptor comes before the reference. *)
sys_dup(p, fd) ==
  /\ FTat(p, "user") /\ ofile[p][fd] # 0 /\ FreeFds(p) # {}
  /\ ofile' = [ofile EXCEPT ![p][Min(FreeFds(p))] = ofile[p][fd]]
  /\ FTgoto(p, "dup", <<ofile[p][fd]>>)
  /\ UNCHANGED <<ftable, ends, irefs, ftpanic>>

filedup(f) ==
  IF ftable[f].ref < 1 THEN ftpanic' = TRUE /\ UNCHANGED ftable
  ELSE ftable' = [ftable EXCEPT ![f].ref = @ + 1] /\ UNCHANGED ftpanic

sys_dup_ref(p) ==
  /\ FTat(p, "dup")
  /\ filedup(call[p].files[1])
  /\ FTgoto(p, "user", <<>>)
  /\ UNCHANGED <<ofile, ends, irefs>>

sys_close(p, fd) ==
  /\ FTat(p, "user") /\ ofile[p][fd] # 0
  /\ ofile' = [ofile EXCEPT ![p][fd] = 0]
  /\ FTgoto(p, "close", <<ofile[p][fd]>>)
  /\ UNCHANGED <<ftable, ends, irefs, ftpanic>>

(* fileclose() of the last reference, in the table; the pipe and writable    *)
(* that stay in f are set anew before anything reads them, and cleared here. *)
Emptied(f) == [ftable EXCEPT ![f] = FTempty]

(* fileclose() under ftable.lock; `last' is its copy of a file that went. *)
fileclose(p) ==
  LET f == Head(call[p].files) IN
  /\ FTat(p, "close") /\ call[p].files # <<>>
  /\ IF ftable[f].ref < 1
     THEN ftpanic' = TRUE /\ UNCHANGED <<ftable, call>>
     ELSE /\ ftable' = IF ftable[f].ref > 1 THEN [ftable EXCEPT ![f].ref = @ - 1] ELSE Emptied(f)
          /\ call' = [call EXCEPT ![p].files = Tail(@), ![p].last =
                        IF ftable[f].ref > 1 THEN FTempty ELSE [ftable[f] EXCEPT !.ref = 0],
                        ![p].pc = "last"]
          /\ UNCHANGED ftpanic
  /\ UNCHANGED <<ofile, ends, irefs>>

(* fileclose() after the lock: pipeclose(), or iput() in a transaction. *)
fileclose_last(p) ==
  LET ff == call[p].last IN
  /\ FTat(p, "last")
  /\ ends' = IF ff.type # "pipe" THEN ends
             ELSE [ends EXCEPT ![ff.pipe] = @ \ {IF ff.writable THEN "write" ELSE "read"}]
  /\ irefs' = IF ff.type = "inode" THEN irefs - 1 ELSE irefs
  /\ call' = [call EXCEPT ![p].pc = "close", ![p].last = FTempty]
  /\ UNCHANGED <<ftable, ofile, ftpanic>>

(* The caller goes on: exit() to the end of the process. *)
closed(p) ==
  /\ FTat(p, "close") /\ call[p].files = <<>>
  /\ FTgoto(p, IF call[p].exits THEN "unused" ELSE "user", <<>>)
  /\ UNCHANGED <<ftable, ofile, ends, irefs, ftpanic>>

-----------------------------------------------------------------------------
(* sys_pipe(): pipealloc()'s first filealloc(), ... *)
sys_pipe(p) ==
  /\ FTat(p, "user")
  /\ \E f \in filealloc : ftable' = Taken(f) /\ FTgoto(p, "pipe", <<f>>)
  /\ UNCHANGED <<ofile, ends, irefs, ftpanic>>

(* ... its second, ... *)
pipealloc(p) ==
  LET f0 == call[p].files[1] IN
  /\ FTat(p, "pipe")
  /\ IF filealloc = {}
     THEN FTgoto(p, "close", <<f0>>) /\ UNCHANGED ftable
     ELSE \E f1 \in filealloc : ftable' = Taken(f1) /\ FTgoto(p, "pipe2", <<f0, f1>>)
  /\ UNCHANGED <<ofile, ends, irefs, ftpanic>>

PipeEnd(q, w) == [ref |-> 1, type |-> "pipe", pipe |-> q, writable |-> w]

PipeFailed_ReadEnd(fs) == <<fs[1]>>

(* The files sys_pipe() closes when it cannot give out descriptors. *)
PipeFailed(fs) == fs

(* ... the page for the pipe and two descriptors, which copyout() may fail   *)
(* to hand over; the files and the pipe are still the caller's own.          *)
sys_pipe_fds(p) ==
  LET fs == call[p].files IN
  /\ FTat(p, "pipe2")
  /\ IF {q \in PipePages : ends[q] = {}} = {}
     THEN FTgoto(p, "close", fs) /\ UNCHANGED <<ftable, ofile, ends>>
     ELSE LET q == CHOOSE r \in PipePages : ends[r] = {}
              fd0 == Min(FreeFds(p))
              fd1 == Min(FreeFds(p) \ {fd0})
          IN
          /\ ftable' = [ftable EXCEPT ![fs[1]] = PipeEnd(q, FALSE), ![fs[2]] = PipeEnd(q, TRUE)]
          /\ ends' = [ends EXCEPT ![q] = {"read", "write"}]
          /\ \E copied \in BOOLEAN :
               IF Cardinality(FreeFds(p)) < 2 \/ ~copied
               THEN FTgoto(p, "close", PipeFailed(fs)) /\ UNCHANGED ofile
               ELSE /\ ofile' = [ofile EXCEPT ![p][fd0] = fs[1], ![p][fd1] = fs[2]]
                    /\ FTgoto(p, "user", <<>>)
  /\ UNCHANGED <<irefs, ftpanic>>

-----------------------------------------------------------------------------
(* fork() of a child c: its descriptors are copied one filedup() at a time,  *)
(* while p itself is in fork().                                              *)
fork(p, c) ==
  /\ FTat(p, "user") /\ FTat(c, "unused")
  /\ call' = [call EXCEPT ![p].pc = "fork", ![p].child = c, ![c].pc = "used"]
  /\ UNCHANGED <<ftable, ofile, ends, irefs, ftpanic>>

fork_dup(p) ==
  LET c == call[p].child
      todo == {fd \in FTfds : ofile[p][fd] # ofile[c][fd]}
  IN
  /\ FTat(p, "fork")
  /\ IF todo = {}
     THEN /\ call' = [call EXCEPT ![p].pc = "user", ![p].child = p,
                                  ![c].pc = "user", ![c].exits = FALSE]
          /\ UNCHANGED <<ftable, ofile, ftpanic>>
     ELSE LET fd == Min(todo) IN
          /\ filedup(ofile[p][fd])
          /\ ofile' = [ofile EXCEPT ![c][fd] = ofile[p][fd]]
          /\ UNCHANGED call
  /\ UNCHANGED <<ends, irefs>>

(* exit(): close every descriptor, in order. *)
exit(p) ==
  /\ FTat(p, "user") /\ p # InitUser
  /\ LET open == SelectSeq([i \in 1..NOFILE |-> ofile[p][i - 1]], LAMBDA f : f # 0) IN
     call' = [call EXCEPT ![p].pc = "close", ![p].files = open, ![p].exits = TRUE]
  /\ ofile' = [ofile EXCEPT ![p] = [fd \in FTfds |-> 0]]
  /\ UNCHANGED <<ftable, ends, irefs, ftpanic>>

-----------------------------------------------------------------------------
FileTableInit ==
  /\ ftable = [f \in FTfiles |-> FTempty]
  /\ ofile = [p \in Users |-> [fd \in FTfds |-> 0]]
  /\ call = [p \in Users |-> [pc |-> IF p = InitUser THEN "user" ELSE "unused", files |-> <<>>,
                              last |-> FTempty, child |-> p, exits |-> FALSE]]
  /\ ends = [q \in PipePages |-> {}]
  /\ irefs = 0
  /\ ftpanic = FALSE

FileTableNext ==
  \E p \in Users :
    \/ sys_open(p) \/ sys_open_fd(p) \/ sys_dup_ref(p)
    \/ sys_pipe(p) \/ pipealloc(p) \/ sys_pipe_fds(p)
    \/ fileclose(p) \/ fileclose_last(p) \/ closed(p)
    \/ fork_dup(p) \/ exit(p)
    \/ \E fd \in FTfds : sys_dup(p, fd) \/ sys_close(p, fd)
    \/ \E c \in Users : fork(p, c)

-----------------------------------------------------------------------------
FileTableTypeOK ==
  /\ \A f \in FTfiles : ftable[f].ref \in 0..(NOFILE * Cardinality(Users) + 1)
  /\ \A p \in Users, fd \in FTfds : ofile[p][fd] \in 0..NFILE
  /\ irefs \in 0..(NFILE + Cardinality(Users))

(* filedup() and fileclose() always find a file with references. *)
FilesAlive == ~ftpanic

Holders(f) == {<<p, fd>> \in Users \X FTfds : ofile[p][fd] = f}

(* References p has besides its descriptors; dup() is one behind. *)
Private(p, f) ==
  IF call[p].pc = "dup" THEN {} ELSE {i \in 1..Len(call[p].files) : call[p].files[i] = f}

Pending(f) == {p \in Users : call[p].pc = "dup" /\ call[p].files = <<f>>}

(* ref counts exactly the descriptors of all processes and what calls on     *)
(* their way hold, so that no file leaks on any failure path and none is     *)
(* closed under a descriptor.                                                *)
FileRefsCount ==
  \A f \in FTfiles :
    ftable[f].ref + Cardinality(Pending(f)) =
      Cardinality(Holders(f)) + Cardinality({<<p, i>> \in Users \X (1..NFILE) : i \in Private(p, f)})

(* What a file stands for is given back once: every open pipe end and every  *)
(* inode reference belongs to one file in use or to one last fileclose() on  *)
(* its way.                                                                  *)
EndsMatchFiles ==
  LET owners(type, pipe, w) ==
        Cardinality({f \in FTfiles : [ftable[f] EXCEPT !.ref = 0] =
                       [ref |-> 0, type |-> type, pipe |-> pipe, writable |-> w]})
        + Cardinality({p \in Users : call[p].last =
                       [ref |-> 0, type |-> type, pipe |-> pipe, writable |-> w]})
      open(q, e) == IF e \in ends[q] THEN 1 ELSE 0
  IN
  /\ \A q \in PipePages :
       owners("pipe", q, FALSE) = open(q, "read") /\ owners("pipe", q, TRUE) = open(q, "write")
  /\ irefs = owners("inode", "none", FALSE)

(* filedup(), fileclose() and their callers count every reference, and give   *)
(* each pipe end and inode back once.                                         *)
FilesCounted == FileTableTypeOK /\ FilesAlive /\ FileRefsCount /\ EndsMatchFiles
=============================================================================
