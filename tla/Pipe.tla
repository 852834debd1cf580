-------------------------------- MODULE Pipe --------------------------------
(***************************************************************************)
(* kernel/pipe.c: one pipe from pipealloc() on, used by the processes that *)
(* hold its write end and those that hold its read end.  pi->lock is held  *)
(* from acquire to release or sleep; one turn of a loop is one step, since *)
(* kill() may come between two turns.  Sleeping and waking are those of    *)
(* Proc: sleep() gives up pi->lock and parks the process in one step.      *)
(***************************************************************************)
EXTENDS Integers, Sequences

CONSTANTS
  Writers, Readers,
  Bytes,
  PIPESIZE,
  UINT,         \* nread and nwrite count modulo this (2^32 in the code)
  MAXN,         \* bound: bytes one call asks for
  NoProc        \* "pi->lock not held"

Procs == Writers \cup Readers

ASSUME PipeConstants ==
  /\ PIPESIZE \in Nat \ {0}
  /\ UINT \in Nat /\ UINT > PIPESIZE /\ UINT % PIPESIZE = 0
  /\ MAXN \in Nat
  /\ Writers \cap Readers = {}
  /\ NoProc \notin Procs

VARIABLES
  data, nread, nwrite, readopen, writeopen,   \* struct pipe
  lock,         \* owner of pi->lock
  pc,           \* where each process is
  i, n,         \* its call's progress and size
  killed,       \* p->killed
  open          \* processes that still hold their end

pipe == <<data, nread, nwrite, readopen, writeopen>>
vars == <<pipe, lock, pc, i, n, killed, open>>

TypeOK ==
  /\ data \in [0..(PIPESIZE - 1) -> Bytes]
  /\ nread \in 0..(UINT - 1)
  /\ nwrite \in 0..(UINT - 1)
  /\ (nwrite - nread) % UINT <= PIPESIZE
  /\ readopen \in BOOLEAN
  /\ writeopen \in BOOLEAN
  /\ lock \in Procs \cup {NoProc}
  /\ pc \in [Procs -> {"user", "enter", "loop", "copy", "sleep", "asleep", "done"}]
  /\ i \in [Procs -> 0..MAXN]
  /\ n \in [Procs -> 0..MAXN]
  /\ killed \subseteq Procs
  /\ open \subseteq Procs

-----------------------------------------------------------------------------
Goto(p, place) == pc' = [pc EXCEPT ![p] = place]

(* wakeup(chan): sleepers on it go back to take pi->lock. *)
Woken(S, pcs) == [q \in Procs |-> IF q \in S /\ pcs[q] = "asleep" THEN "enter" ELSE pcs[q]]

(* release(&pi->lock) and return; the call's locals are dead. *)
Return(p, pcs) ==
  /\ pc' = [pcs EXCEPT ![p] = "user"]
  /\ lock' = NoProc
  /\ i' = [i EXCEPT ![p] = 0]
  /\ n' = [n EXCEPT ![p] = 0]

Full_OffByOne == (nwrite - nread) % UINT = PIPESIZE + 1

Full == nwrite = (nread + PIPESIZE) % UINT

Empty == nread = nwrite

(* sys_read() or sys_write() of m bytes. *)
call(p, m) ==
  /\ pc[p] = "user"
  /\ p \in open
  /\ p \notin killed
  /\ i' = [i EXCEPT ![p] = 0]
  /\ n' = [n EXCEPT ![p] = m]
  /\ Goto(p, "enter")
  /\ UNCHANGED <<pipe, lock, killed, open>>

(* acquire(&pi->lock), at the start and after sleep(). *)
enter(p) ==
  /\ pc[p] = "enter"
  /\ lock = NoProc
  /\ lock' = p
  /\ Goto(p, "loop")
  /\ UNCHANGED <<pipe, i, n, killed, open>>

(* sleep(): gives up pi->lock and parks.  A kill() since the test of        *)
(* killed() has not been noticed.                                           *)
sleep(p) ==
  /\ pc[p] = "sleep"
  /\ lock' = NoProc
  /\ Goto(p, "asleep")
  /\ UNCHANGED <<pipe, i, n, killed, open>>

-----------------------------------------------------------------------------
(* pipewrite(): nobody will read, or killed.  Nobody is woken here. *)
write_fail(p) ==
  /\ p \in Writers
  /\ pc[p] = "loop"
  /\ i[p] < n[p]
  /\ ~readopen \/ p \in killed
  /\ Return(p, pc)
  /\ UNCHANGED <<pipe, killed, open>>

FullWakes_Nobody(pcs) == pcs

FullWakes(pcs) == Woken(Readers, pcs)

(* Wakes the readers on the way to sleep(). *)
write_full(p) ==
  /\ p \in Writers
  /\ pc[p] = "loop"
  /\ i[p] < n[p]
  /\ readopen
  /\ p \notin killed
  /\ Full
  /\ pc' = [FullWakes(pc) EXCEPT ![p] = "sleep"]
  /\ UNCHANGED <<pipe, lock, i, n, killed, open>>

write_byte(p, b) ==
  /\ p \in Writers
  /\ pc[p] = "loop"
  /\ i[p] < n[p]
  /\ readopen
  /\ p \notin killed
  /\ ~Full
  /\ data' = [data EXCEPT ![nwrite % PIPESIZE] = b]
  /\ nwrite' = (nwrite + 1) % UINT
  /\ i' = [i EXCEPT ![p] = @ + 1]
  /\ UNCHANGED <<nread, readopen, writeopen, lock, pc, n, killed, open>>

(* All written, or copyin() failed. *)
write_end(p) ==
  /\ p \in Writers
  /\ pc[p] = "loop"
  /\ \/ i[p] = n[p]
     \/ readopen /\ p \notin killed /\ ~Full
  /\ Return(p, Woken(Readers, pc))
  /\ UNCHANGED <<pipe, killed, open>>

-----------------------------------------------------------------------------
(* piperead(): the pipe is empty and may still be written. *)
read_empty(p) ==
  /\ p \in Readers
  /\ pc[p] = "loop"
  /\ Empty /\ writeopen
  /\ IF p \in killed
     THEN Return(p, pc)
     ELSE Goto(p, "sleep") /\ UNCHANGED <<lock, i, n>>
  /\ UNCHANGED <<pipe, killed, open>>

read_start(p) ==
  /\ p \in Readers
  /\ pc[p] = "loop"
  /\ ~(Empty /\ writeopen)
  /\ Goto(p, "copy")
  /\ UNCHANGED <<pipe, lock, i, n, killed, open>>

(* nread advances before copyout(), which may fail and end the loop. *)
read_byte(p) ==
  /\ p \in Readers
  /\ pc[p] = "copy"
  /\ i[p] < n[p]
  /\ ~Empty
  /\ nread' = (nread + 1) % UINT
  /\ \/ i' = [i EXCEPT ![p] = @ + 1] /\ UNCHANGED n
     \/ n' = [n EXCEPT ![p] = i[p]] /\ UNCHANGED i
  /\ UNCHANGED <<data, nwrite, readopen, writeopen, lock, pc, killed, open>>

ReadWakes(pcs) == Woken(Writers, pcs)

read_end(p) ==
  /\ p \in Readers
  /\ pc[p] = "copy"
  /\ i[p] = n[p] \/ Empty
  /\ Return(p, ReadWakes(pc))
  /\ UNCHANGED <<pipe, killed, open>>

-----------------------------------------------------------------------------
CloseWakes(p) == IF p \in Writers THEN Woken(Readers, pc) ELSE Woken(Writers, pc)

(* close() or exit().  fileclose() calls pipeclose() for the last holder. *)
close(p) ==
  LET last == (IF p \in Writers THEN Writers ELSE Readers) \cap open = {p} IN
  /\ pc[p] = "user"
  /\ p \in open
  /\ last => lock = NoProc
  /\ open' = open \ {p}
  /\ writeopen' = (writeopen /\ ~(last /\ p \in Writers))
  /\ readopen' = (readopen /\ ~(last /\ p \in Readers))
  /\ pc' = [(IF last THEN CloseWakes(p) ELSE pc) EXCEPT ![p] = "done"]
  /\ UNCHANGED <<data, nread, nwrite, lock, i, n, killed>>

(* kill(): wakes the victim if it is asleep. *)
kill(p) ==
  /\ p \notin killed
  /\ pc[p] # "done"
  /\ killed' = killed \cup {p}
  /\ pc' = Woken({p}, pc)
  /\ UNCHANGED <<pipe, lock, i, n, open>>

-----------------------------------------------------------------------------
(* pipealloc(): both ends open; the page holds junk. *)
Init ==
  /\ data \in {[k \in 0..(PIPESIZE - 1) |-> b] : b \in Bytes}
  /\ nread = 0
  /\ nwrite = 0
  /\ readopen = TRUE
  /\ writeopen = TRUE
  /\ lock = NoProc
  /\ pc = [p \in Procs |-> "user"]
  /\ i = [p \in Procs |-> 0]
  /\ n = [p \in Procs |-> 0]
  /\ killed = {}
  /\ open = Procs

(* Every process has closed its end; pipeclose() has freed the pipe. *)
Freed == open = {} /\ UNCHANGED vars

Next ==
  \/ \E p \in Procs :
       \/ \E m \in 0..MAXN : call(p, m)
       \/ enter(p) \/ sleep(p) \/ close(p) \/ kill(p)
       \/ write_fail(p) \/ write_full(p) \/ write_end(p)
       \/ \E b \in Bytes : write_byte(p, b)
       \/ read_empty(p) \/ read_start(p) \/ read_byte(p) \/ read_end(p)
  \/ Freed

Spec == Init /\ [][Next]_vars

-----------------------------------------------------------------------------
Queue == [k \in 1..((nwrite - nread) % UINT) |-> data[(nread + k - 1) % PIPESIZE]]

Fifo == INSTANCE PipeFifo WITH queue <- Queue, Size <- PIPESIZE

(* The ring buffer with its wrapping counters is a bounded FIFO whose ends  *)
(* close once: pipewrite() overwrites no unread byte, piperead() reads none *)
(* twice, also where nread and nwrite overflow.                             *)
ImplementsFifo == Fifo!Spec

(* A reader sleeps only while there is nothing to read and someone may      *)
(* still write, unless a writer was killed: pipewrite()'s error return      *)
(* wakes nobody even if it has written bytes.                               *)
ReaderSleepsForReason ==
  lock = NoProc /\ Writers \cap killed = {} =>
    \A p \in Readers : pc[p] = "asleep" => Empty /\ writeopen

(* A writer sleeps only while the pipe is full and someone may still read.  *)
WriterSleepsForReason ==
  lock = NoProc => \A p \in Writers : pc[p] = "asleep" => Full /\ readopen

(* Nobody sleeps in piperead() or pipewrite() without a reason. *)
SleepersHaveReason == TypeOK /\ ReaderSleepsForReason /\ WriterSleepsForReason
-----------------------------------------------------------------------------
(* The inductive invariant behind the safety properties. *)

(* pi->lock is held exactly between acquire() and release() or sleep().  A  *)
(* call counts up to what it asked for; piperead() alone copies out; whoever *)
(* closed an end is through with the pipe.                                  *)
CallInv ==
  \A p \in Procs :
    /\ lock = p <=> pc[p] \in {"loop", "copy", "sleep"}
    /\ i[p] <= n[p]
    /\ pc[p] = "copy" => p \in Readers
    /\ p \in open <=> pc[p] # "done"

(* An end that is marked closed has no holder left. *)
EndsInv ==
  /\ readopen \/ Readers \cap open = {}
  /\ writeopen \/ Writers \cap open = {}

(* Who is about to sleep has just seen why.  Who sleeps still has a reason, *)
(* or the process in the locked section has yet to pass its wakeup().       *)
ReaderInv ==
  \A p \in Readers :
    /\ pc[p] = "sleep" => Empty /\ writeopen
    /\ pc[p] = "asleep" /\ Writers \cap killed = {} =>
         \/ Empty /\ writeopen
         \/ lock \in Writers /\ pc[lock] = "loop"

WriterInv ==
  \A p \in Writers :
    /\ pc[p] = "sleep" => Full /\ readopen
    /\ pc[p] = "asleep" =>
         \/ Full /\ readopen
         \/ lock \in Readers /\ pc[lock] = "copy"

PipeInv == TypeOK /\ CallInv /\ EndsInv /\ ReaderInv /\ WriterInv
=============================================================================
