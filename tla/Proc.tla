-------------------------------- MODULE Proc --------------------------------
(***************************************************************************)
(* kernel/proc.c: the process table, fork, exit, wait, kill, sleep and     *)
(* wakeup, and the per-CPU scheduler.                                      *)
(*                                                                         *)
(* Every p->lock, wait_lock and tickslock is modelled; a lock is owned by  *)
(* a CPU, as struct spinlock records it, so p->lock passes from a process  *)
(* to the scheduler of its CPU across swtch() and back.  Code between an   *)
(* acquire and the next release, acquire or swtch is one step.  The loops  *)
(* over the process table are taken slot by slot, since they hold one      *)
(* p->lock at a time.  A CPU runs its scheduler or one process's kernel    *)
(* thread; there is no preemption, because timerinit() arms no timer.      *)
(***************************************************************************)
EXTENDS Integers, FiniteSets

CONSTANTS
  NPROC,        \* slots of proc[]                        (param.h)
  CPUs,         \* harts that run scheduler()
  NoCpu,        \* "lock not held"
  MAXPID,       \* bound: fork() is modelled up to this pid
  Calls,        \* system calls that processes make, and faults
  KillPids      \* arguments of kill()

Slots == 1..NPROC

(* userinit() finds slot 1 unused. *)
initproc == 1

ASSUME ProcConstants ==
  /\ NPROC \in Nat \ {0}
  /\ NoCpu \notin CPUs
  /\ MAXPID \in Nat \ {0}
  /\ Calls \subseteq {"fork", "exit", "wait", "kill", "sleep", "fault"}
  /\ KillPids \subseteq Nat

VARIABLES
  state, pid, parent, chan, killed,   \* struct proc
  plock,        \* owner of each p->lock
  wait_lock,    \* owner of wait_lock
  tickslock,    \* owner of tickslock
  nextpid,
  running,      \* the process whose thread a CPU executes, 0: its scheduler
  at, sidx, found,                    \* scheduler(): place, slot, `found'
  pc,           \* place of each process's kernel thread
  idx,          \* slot its current loop has reached
  widx,         \* slot its call of wakeup() has reached
  arg,          \* fork(): np;  kill(): pid
  kids          \* wait(): havekids

table == <<state, pid, parent, chan, killed, nextpid>>
locks == <<plock, wait_lock, tickslock>>
sched_vars == <<running, at, sidx, found>>
thread == <<pc, idx, widx, arg, kids>>
vars == <<table, locks, sched_vars, thread>>

States == {"UNUSED", "USED", "SLEEPING", "RUNNABLE", "RUNNING", "ZOMBIE"}
Places == {"user", "fork", "fork_parent", "fork_runnable", "exit", "reparent",
           "wakeup_init", "wakeup_parent", "zombie", "wait", "scan", "kids",
           "wait_sleep", "kill", "sleep", "tick_check", "tick_sleep",
           "sched", "resume", "ret", "forkret"}
Ticks == NPROC + 1       \* the channel &ticks; channel p is the slot's address

TypeOK ==
  /\ state \in [Slots -> States]
  /\ pid \in [Slots -> 0..MAXPID]
  /\ parent \in [Slots -> 0..NPROC]
  /\ chan \in [Slots -> 0..Ticks]
  /\ killed \in [Slots -> BOOLEAN]
  /\ nextpid \in 1..(MAXPID + 1)
  /\ plock \in [Slots -> CPUs \cup {NoCpu}]
  /\ wait_lock \in CPUs \cup {NoCpu}
  /\ tickslock \in CPUs \cup {NoCpu}
  /\ running \in [CPUs -> 0..NPROC]
  /\ at \in [CPUs -> {"scan", "back", "wfi"}]
  /\ sidx \in [CPUs -> 1..(NPROC + 1)]
  /\ found \in [CPUs -> BOOLEAN]
  /\ pc \in [Slots -> Places]
  /\ idx \in [Slots -> 1..(NPROC + 1)]
  /\ widx \in [Slots -> 1..(NPROC + 1)]
  /\ arg \in [Slots -> Nat]
  /\ kids \in [Slots -> BOOLEAN]

-----------------------------------------------------------------------------
Free(lock) == lock = NoCpu

(* CPU c executes the thread of process p, which is at `place'. *)
On(c, p, place) == running[c] = p /\ pc[p] = place

Goto(p, place) == pc' = [pc EXCEPT ![p] = place]

(* The loop over proc[] starts over, or goes on to the next slot. *)
Restart(p, place) ==
  /\ Goto(p, place)
  /\ idx' = [idx EXCEPT ![p] = 1]

NextSlot(p) ==
  /\ idx' = [idx EXCEPT ![p] = @ + 1]
  /\ UNCHANGED pc

(* acquire(&p->lock) and a new p->state, on the way to sched(). *)
LeaveAs(c, p, s) ==
  /\ Free(plock[p])
  /\ plock' = [plock EXCEPT ![p] = c]
  /\ state' = [state EXCEPT ![p] = s]
  /\ Goto(p, "sched")


(* freeproc(): the slot's process is gone. *)
freeproc(q) ==
  /\ state' = [state EXCEPT ![q] = "UNUSED"]
  /\ pid' = [pid EXCEPT ![q] = 0]
  /\ parent' = [parent EXCEPT ![q] = 0]
  /\ chan' = [chan EXCEPT ![q] = 0]
  /\ killed' = [killed EXCEPT ![q] = FALSE]

-----------------------------------------------------------------------------
(* usertrap(). *)

(* A system call of a process that has not been killed. *)
syscall(c, p) ==
  /\ On(c, p, "user")
  /\ Free(plock[p])                    \* killed()
  /\ ~killed[p]
  /\ \/ /\ "fork" \in Calls
        /\ nextpid + Cardinality({q \in Slots : pc[q] = "fork"}) <= MAXPID
        /\ Restart(p, "fork")
        /\ UNCHANGED arg
     \/ /\ "wait" \in Calls
        /\ Goto(p, "wait")
        /\ UNCHANGED <<idx, arg>>
     \/ /\ "sleep" \in Calls
        /\ p # initproc
        /\ Goto(p, "sleep")
        /\ UNCHANGED <<idx, arg>>
     \/ /\ "kill" \in Calls
        /\ Restart(p, "kill")
        /\ \E n \in KillPids : arg' = [arg EXCEPT ![p] = n]
  /\ UNCHANGED <<table, locks, sched_vars, widx, kids>>

(* init never exits: exit() would panic("init exiting"). *)
sys_exit(c, p) ==
  /\ On(c, p, "user")
  /\ Free(plock[p])
  /\ ~killed[p]
  /\ "exit" \in Calls
  /\ p # initproc
  /\ Goto(p, "exit")
  /\ UNCHANGED <<table, locks, sched_vars, idx, widx, arg, kids>>

(* usertrap() before and after the call: exit(-1) if killed. *)
user_killed(c, p) ==
  /\ On(c, p, "user")
  /\ Free(plock[p])
  /\ killed[p]
  /\ Goto(p, "exit")
  /\ UNCHANGED <<table, locks, sched_vars, idx, widx, arg, kids>>

(* An exception in user mode: setkilled(p), then exit(-1). *)
user_fault(c, p) ==
  /\ On(c, p, "user")
  /\ "fault" \in Calls
  /\ p # initproc
  /\ Free(plock[p])
  /\ killed' = [killed EXCEPT ![p] = TRUE]
  /\ Goto(p, "exit")
  /\ UNCHANGED <<state, pid, parent, chan, nextpid, locks, sched_vars, idx, widx,
                 arg, kids>>

syscall_ret(c, p) ==
  /\ On(c, p, "ret")
  /\ Free(plock[p])
  /\ Goto(p, IF killed[p] THEN "exit" ELSE "user")
  /\ UNCHANGED <<table, locks, sched_vars, idx, widx, arg, kids>>

-----------------------------------------------------------------------------
(* fork(). *)

(* allocproc() looks at one slot; on success fork() fills it in before it   *)
(* drops p->lock.  kalloc(), proc_pagetable() or uvmcopy() may fail, and    *)
(* freeproc() then gives the slot back.                                     *)
allocproc(c, p) ==
  LET q == idx[p] IN
  /\ On(c, p, "fork")
  /\ IF q > NPROC
     THEN Goto(p, "ret") /\ UNCHANGED <<table, idx, arg>>
     ELSE /\ Free(plock[q])
          /\ \/ /\ state[q] # "UNUSED"
                /\ NextSlot(p)
                /\ UNCHANGED <<table, arg>>
             \/ /\ state[q] = "UNUSED"
                /\ nextpid' = nextpid + 1
                /\ state' = [state EXCEPT ![q] = "USED"]
                /\ pid' = [pid EXCEPT ![q] = nextpid]
                /\ arg' = [arg EXCEPT ![p] = q]
                /\ Goto(p, "fork_parent")
                /\ UNCHANGED <<parent, chan, killed, idx>>
             \/ /\ state[q] = "UNUSED"
                /\ nextpid' = nextpid + 1
                /\ freeproc(q)
                /\ Goto(p, "ret")
                /\ UNCHANGED <<idx, arg>>
  /\ UNCHANGED <<locks, sched_vars, widx, kids>>

fork_parent(c, p) ==
  /\ On(c, p, "fork_parent")
  /\ Free(wait_lock)
  /\ parent' = [parent EXCEPT ![arg[p]] = p]
  /\ Goto(p, "fork_runnable")
  /\ UNCHANGED <<state, pid, chan, killed, nextpid, locks, sched_vars, idx,
                 widx, arg, kids>>

fork_runnable(c, p) ==
  LET np == arg[p] IN
  /\ On(c, p, "fork_runnable")
  /\ Free(plock[np])
  /\ state' = [state EXCEPT ![np] = "RUNNABLE"]
  /\ pc' = [pc EXCEPT ![p] = "ret", ![np] = "forkret"]
  /\ arg' = [arg EXCEPT ![p] = 0]
  /\ UNCHANGED <<pid, parent, chan, killed, nextpid, locks, sched_vars, idx,
                 widx, kids>>

(* The child's first steps: release the lock scheduler() took. *)
forkret(c, p) ==
  /\ On(c, p, "forkret")
  /\ plock' = [plock EXCEPT ![p] = NoCpu]
  /\ Goto(p, "user")
  /\ UNCHANGED <<table, wait_lock, tickslock, sched_vars, idx, widx, arg, kids>>

-----------------------------------------------------------------------------
(* exit(). *)

exit(c, p) ==
  /\ On(c, p, "exit")
  /\ Free(wait_lock)
  /\ wait_lock' = c
  /\ Restart(p, "reparent")
  /\ UNCHANGED <<table, plock, tickslock, sched_vars, widx, arg, kids>>

IsChild_Live(q, p) == parent[q] = p /\ state[q] # "ZOMBIE"

IsChild(q, p) == parent[q] = p

(* reparent() gives one child to init and wakes init. *)
reparent(c, p) ==
  LET q == idx[p] IN
  /\ On(c, p, "reparent")
  /\ \/ /\ q > NPROC
        /\ Goto(p, "wakeup_parent")
        /\ widx' = [widx EXCEPT ![p] = 1]
        /\ UNCHANGED <<parent, idx>>
     \/ /\ q <= NPROC
        /\ IsChild(q, p)
        /\ parent' = [parent EXCEPT ![q] = initproc]
        /\ Goto(p, "wakeup_init")
        /\ widx' = [widx EXCEPT ![p] = 1]
        /\ UNCHANGED idx
     \/ /\ q <= NPROC
        /\ ~IsChild(q, p)
        /\ NextSlot(p)
        /\ UNCHANGED <<parent, widx>>
  /\ UNCHANGED <<state, pid, chan, killed, nextpid, locks, sched_vars, arg, kids>>

Woken_Never(j, ch) == state[j]

(* wakeup(ch) at slot j. *)
Woken(j, ch) == IF state[j] = "SLEEPING" /\ chan[j] = ch THEN "RUNNABLE" ELSE state[j]

(* One slot of wakeup(initproc) in reparent(), of wakeup(p->parent) in      *)
(* exit(); wakeup() passes over the caller.                                 *)
wakeup(c, p, place, ch, next) ==
  LET j == widx[p] IN
  /\ On(c, p, place)
  /\ IF j > NPROC
     THEN /\ Goto(p, next)
          /\ idx' = [idx EXCEPT ![p] = IF next = "reparent" THEN @ + 1 ELSE @]
          /\ UNCHANGED <<state, widx>>
     ELSE /\ j # p => Free(plock[j])
          /\ state' = [state EXCEPT ![j] = IF j = p THEN @ ELSE Woken(j, ch)]
          /\ widx' = [widx EXCEPT ![p] = @ + 1]
          /\ UNCHANGED <<pc, idx>>
  /\ UNCHANGED <<pid, parent, chan, killed, nextpid, locks, sched_vars, arg, kids>>

zombie_Unlocked(c, p) ==
  /\ On(c, p, "zombie")
  /\ state' = [state EXCEPT ![p] = "ZOMBIE"]
  /\ wait_lock' = NoCpu
  /\ Goto(p, "sched")
  /\ UNCHANGED <<pid, parent, chan, killed, nextpid, plock, tickslock, sched_vars,
                 idx, widx, arg, kids>>

(* The end of exit(): a zombie, about to leave the CPU for good. *)
zombie(c, p) ==
  /\ On(c, p, "zombie")
  /\ LeaveAs(c, p, "ZOMBIE")
  /\ wait_lock' = NoCpu
  /\ UNCHANGED <<pid, parent, chan, killed, nextpid, tickslock, sched_vars, idx,
                 widx, arg, kids>>

(* sched(): swtch() to this CPU's scheduler, which holds p->lock from now   *)
(* on.  sleep() resumes after it; exit() never does.                        *)
sched(c, p) ==
  /\ On(c, p, "sched")
  /\ running' = [running EXCEPT ![c] = 0]
  /\ Goto(p, "resume")
  /\ UNCHANGED <<table, locks, at, sidx, found, idx, widx, arg, kids>>

-----------------------------------------------------------------------------
(* wait(). *)

wait(c, p) ==
  /\ On(c, p, "wait")
  /\ Free(wait_lock)
  /\ wait_lock' = c
  /\ Restart(p, "scan")
  /\ kids' = [kids EXCEPT ![p] = FALSE]
  /\ UNCHANGED <<table, plock, tickslock, sched_vars, widx, arg>>

(* Looks at one slot for an exited child.  With an address to store the     *)
(* status at, copyout() may fail.                                           *)
wait_scan(c, p) ==
  LET q == idx[p] IN
  /\ On(c, p, "scan")
  /\ IF q > NPROC
     THEN Goto(p, "kids") /\ UNCHANGED <<table, wait_lock, idx, kids>>
     ELSE \/ /\ parent[q] # p
             /\ NextSlot(p)
             /\ UNCHANGED <<table, wait_lock, kids>>
          \/ /\ parent[q] = p
             /\ Free(plock[q])
             /\ state[q] # "ZOMBIE"
             /\ NextSlot(p)
             /\ kids' = [kids EXCEPT ![p] = TRUE]
             /\ UNCHANGED <<table, wait_lock>>
          \/ /\ parent[q] = p
             /\ Free(plock[q])
             /\ state[q] = "ZOMBIE"
             /\ freeproc(q)
             /\ wait_lock' = NoCpu
             /\ Goto(p, "ret")
             /\ UNCHANGED <<nextpid, idx, kids>>
          \/ /\ parent[q] = p
             /\ Free(plock[q])
             /\ state[q] = "ZOMBIE"
             /\ p # initproc           \* init waits with addr = 0
             /\ wait_lock' = NoCpu
             /\ Goto(p, "ret")
             /\ UNCHANGED <<table, idx, kids>>
  /\ UNCHANGED <<plock, tickslock, sched_vars, widx, arg>>

(* No children, or killed(p): give up; else sleep on p. *)
wait_kids(c, p) ==
  /\ On(c, p, "kids")
  /\ kids[p] => Free(plock[p])
  /\ IF ~kids[p] \/ killed[p]
     THEN wait_lock' = NoCpu /\ Goto(p, "ret")
     ELSE Goto(p, "wait_sleep") /\ UNCHANGED wait_lock
  /\ UNCHANGED <<table, plock, tickslock, sched_vars, idx, widx, arg, kids>>

wait_sleep_ReleasesFirst(c, p) ==
  /\ On(c, p, "wait_sleep")
  /\ \/ /\ wait_lock = c
        /\ wait_lock' = NoCpu
        /\ UNCHANGED <<state, chan, plock, pc>>
     \/ /\ wait_lock # c
        /\ LeaveAs(c, p, "SLEEPING")
        /\ chan' = [chan EXCEPT ![p] = p]
        /\ UNCHANGED wait_lock
  /\ UNCHANGED <<pid, parent, killed, nextpid, tickslock, sched_vars, idx, widx,
                 arg, kids>>

(* sleep(p, &wait_lock): p->lock is taken before wait_lock is released. *)
wait_sleep(c, p) ==
  /\ On(c, p, "wait_sleep")
  /\ LeaveAs(c, p, "SLEEPING")
  /\ wait_lock' = NoCpu
  /\ chan' = [chan EXCEPT ![p] = p]
  /\ UNCHANGED <<pid, parent, killed, nextpid, tickslock, sched_vars, idx, widx,
                 arg, kids>>

(* sleep() returns: with p->lock from the scheduler, tidy up and release    *)
(* it; the caller's loop then takes its own lock again.                     *)
sleep_resume(c, p) ==
  /\ On(c, p, "resume")
  /\ chan' = [chan EXCEPT ![p] = 0]
  /\ plock' = [plock EXCEPT ![p] = NoCpu]
  /\ Goto(p, IF chan[p] = Ticks THEN "sleep" ELSE "wait")
  /\ UNCHANGED <<state, pid, parent, killed, nextpid, wait_lock, tickslock,
                 sched_vars, idx, widx, arg, kids>>

-----------------------------------------------------------------------------
(* sys_sleep(): ticks never advances, so the loop goes on until killed. *)

sys_sleep(c, p) ==
  /\ On(c, p, "sleep")
  /\ Free(tickslock)
  /\ tickslock' = c
  /\ Goto(p, "tick_check")
  /\ UNCHANGED <<table, plock, wait_lock, sched_vars, idx, widx, arg, kids>>

tick_check(c, p) ==
  /\ On(c, p, "tick_check")
  /\ Free(plock[p])
  /\ IF killed[p]
     THEN tickslock' = NoCpu /\ Goto(p, "ret")
     ELSE Goto(p, "tick_sleep") /\ UNCHANGED tickslock
  /\ UNCHANGED <<table, plock, wait_lock, sched_vars, idx, widx, arg, kids>>

tick_sleep(c, p) ==
  /\ On(c, p, "tick_sleep")
  /\ LeaveAs(c, p, "SLEEPING")
  /\ tickslock' = NoCpu
  /\ chan' = [chan EXCEPT ![p] = Ticks]
  /\ UNCHANGED <<pid, parent, killed, nextpid, wait_lock, sched_vars, idx, widx,
                 arg, kids>>

-----------------------------------------------------------------------------
(* kill(arg) at one slot. *)
kill(c, p) ==
  LET q == idx[p] IN
  /\ On(c, p, "kill")
  /\ IF q > NPROC
     THEN Goto(p, "ret") /\ UNCHANGED <<state, killed, idx>>
     ELSE /\ Free(plock[q])
          /\ IF pid[q] = arg[p]
             THEN /\ killed' = [killed EXCEPT ![q] = TRUE]
                  /\ state' = [state EXCEPT ![q] = IF @ = "SLEEPING" THEN "RUNNABLE" ELSE @]
                  /\ Goto(p, "ret")
                  /\ UNCHANGED idx
             ELSE NextSlot(p) /\ UNCHANGED <<state, killed>>
  /\ UNCHANGED <<pid, parent, chan, nextpid, locks, sched_vars, widx, arg, kids>>

-----------------------------------------------------------------------------
(* scheduler(). *)

(* for(p = proc; ...) *)
FirstSlot(c) == 1

(* One slot: switch to a runnable process, keeping its lock. *)
scheduler(c) ==
  LET q == sidx[c] IN
  /\ running[c] = 0
  /\ at[c] = "scan"
  /\ \/ /\ q <= NPROC
        /\ Free(plock[q])
        /\ state[q] = "RUNNABLE"
        /\ state' = [state EXCEPT ![q] = "RUNNING"]
        /\ plock' = [plock EXCEPT ![q] = c]
        /\ running' = [running EXCEPT ![c] = q]
        /\ at' = [at EXCEPT ![c] = "back"]
        /\ UNCHANGED <<sidx, found>>
     \/ /\ q <= NPROC
        /\ Free(plock[q])
        /\ state[q] # "RUNNABLE"
        /\ sidx' = [sidx EXCEPT ![c] = @ + 1]
        /\ UNCHANGED <<state, plock, running, at, found>>
     \/ /\ q > NPROC
        /\ sidx' = [sidx EXCEPT ![c] = FirstSlot(c)]
        /\ found' = [found EXCEPT ![c] = FALSE]
        /\ at' = [at EXCEPT ![c] = IF found[c] THEN "scan" ELSE "wfi"]
        /\ UNCHANGED <<state, plock, running>>
  /\ UNCHANGED <<pid, parent, chan, killed, nextpid, wait_lock, tickslock, thread>>


(* The process has switched back: release its lock and go on. *)
scheduler_back(c) ==
  /\ running[c] = 0
  /\ at[c] = "back"
  /\ plock' = [plock EXCEPT ![sidx[c]] = NoCpu]
  /\ found' = [found EXCEPT ![c] = TRUE]
  /\ sidx' = [sidx EXCEPT ![c] = @ + 1]
  /\ at' = [at EXCEPT ![c] = "scan"]
  /\ UNCHANGED <<table, wait_lock, tickslock, running, thread>>

(* A device interrupt ends wfi. *)
interrupt(c) ==
  /\ running[c] = 0
  /\ at[c] = "wfi"
  /\ at' = [at EXCEPT ![c] = "scan"]
  /\ UNCHANGED <<table, locks, running, sidx, found, thread>>

-----------------------------------------------------------------------------
(* procinit() and userinit(): init alone, runnable for the first time. *)
Init ==
  /\ state = [p \in Slots |-> IF p = initproc THEN "RUNNABLE" ELSE "UNUSED"]
  /\ pid = [p \in Slots |-> IF p = initproc THEN 1 ELSE 0]
  /\ parent = [p \in Slots |-> 0]
  /\ chan = [p \in Slots |-> 0]
  /\ killed = [p \in Slots |-> FALSE]
  /\ nextpid = 2
  /\ plock = [p \in Slots |-> NoCpu]
  /\ wait_lock = NoCpu
  /\ tickslock = NoCpu
  /\ running = [c \in CPUs |-> 0]
  /\ at = [c \in CPUs |-> "scan"]
  /\ sidx = [c \in CPUs |-> 1]
  /\ found = [c \in CPUs |-> FALSE]
  /\ pc = [p \in Slots |-> "forkret"]
  /\ idx = [p \in Slots |-> 1]
  /\ widx = [p \in Slots |-> 1]
  /\ arg = [p \in Slots |-> 0]
  /\ kids = [p \in Slots |-> FALSE]

(* Kernel code of a process on a CPU. *)
Kernel(c, p) ==
  \/ user_killed(c, p) \/ syscall_ret(c, p)
  \/ allocproc(c, p) \/ fork_parent(c, p) \/ fork_runnable(c, p) \/ forkret(c, p)
  \/ exit(c, p) \/ reparent(c, p) \/ zombie(c, p) \/ sched(c, p)
  \/ wakeup(c, p, "wakeup_init", initproc, "reparent")
  \/ wakeup(c, p, "wakeup_parent", parent[p], "zombie")
  \/ wait(c, p) \/ wait_scan(c, p) \/ wait_kids(c, p) \/ wait_sleep(c, p)
  \/ sys_sleep(c, p) \/ tick_check(c, p) \/ tick_sleep(c, p) \/ sleep_resume(c, p)
  \/ kill(c, p)

Scheduler(c) == scheduler(c) \/ scheduler_back(c)

Next ==
  \/ \E c \in CPUs, p \in Slots : syscall(c, p) \/ sys_exit(c, p) \/ user_fault(c, p) \/ Kernel(c, p)
  \/ \E c \in CPUs : Scheduler(c) \/ interrupt(c)

Spec == Init /\ [][Next]_vars

(* A CPU goes on executing kernel code. *)
KernelRuns ==
  \A c \in CPUs : WF_vars(Scheduler(c)) /\ \A p \in Slots : WF_vars(Kernel(c, p))

(* Programs end, and init goes on calling wait().  With no timer interrupt  *)
(* and spinlocks that promise no turn this is an assumption about programs: *)
(* the kernel does not take a CPU or wait_lock away from one that polls.    *)
ProgramsEnd ==
  /\ \A p \in Slots : SF_vars(\E c \in CPUs : sys_exit(c, p))
  /\ WF_vars(\E c \in CPUs : syscall(c, initproc))

KernelSpec == Spec /\ KernelRuns
FairSpec == KernelSpec /\ ProgramsEnd

-----------------------------------------------------------------------------
(* sched() is entered with p->lock held, no other lock, and a new state:    *)
(* its panics "sched p->lock", "sched locks" and "sched running" are        *)
(* unreachable.                                                             *)
NoSchedPanic ==
  \A c \in CPUs, p \in Slots : On(c, p, "sched") =>
    /\ {q \in Slots : plock[q] = c} = {p}
    /\ wait_lock # c
    /\ tickslock # c
    /\ state[p] # "RUNNING"

(* A kernel stack is in use by at most one CPU, and wait() never frees a    *)
(* slot whose exiting process is still on its stack: "make sure the child   *)
(* isn't still in exit() or swtch()".                                       *)
StackInUse ==
  \A c \in CPUs, p \in Slots : running[c] = p =>
    /\ state[p] = "RUNNING" \/ (pc[p] = "sched" /\ plock[p] = c)
    /\ \A d \in CPUs \ {c} : running[d] # p

(* Outside of wait_lock's critical sections the parent of a process, zombie *)
(* or not, has not exited: exit() passed its children to init.              *)
ParentsAlive ==
  Free(wait_lock) =>
    \A q \in Slots : parent[q] # 0 => state[parent[q]] \notin {"UNUSED", "ZOMBIE"}

(* No exit is missed: outside of wait_lock's critical sections a process    *)
(* asleep in wait() has no zombie child.                                    *)
NoMissedExit ==
  Free(wait_lock) =>
    \A q \in Slots : state[q] = "ZOMBIE" =>
      ~(state[parent[q]] = "SLEEPING" /\ chan[parent[q]] = parent[q])



(* init reaps every zombie that is, or becomes, its child, if the other     *)
(* programs end: reparent() and exit() wake it, and wait() finds the child. *)
InitReaps ==
  \A q \in Slots :
    (state[q] = "ZOMBIE" /\ parent[q] = initproc) ~> (state[q] = "UNUSED")

(* Every switch leaves a kernel stack before somebody else takes it, and meets *)
(* what sched() asks for.                                                      *)
SwitchesSound == TypeOK /\ NoSchedPanic /\ StackInUse
=============================================================================
