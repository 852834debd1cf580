-------------------------------- MODULE Trap --------------------------------
(***************************************************************************)
(* Traps and context switches: kernel/trampoline.S (uservec, userret),     *)
(* kernel/kernelvec.S, kernel/swtch.S, usertrap and usertrapret of         *)
(* kernel/trap.c, and the parts of fork, sched and scheduler that carry a  *)
(* process from CPU to CPU.  Registers hold tokens: <<kind, owner, name,   *)
(* version>>.  The timer is never armed, so no interrupt yields.           *)
(***************************************************************************)
EXTENDS Naturals, Sequences, SequencesExt, FiniteSets

CONSTANTS
  Harts,        \* CPUs
  TProcs, FirstProc, NoTProc

VARIABLES
  hart,         \* per CPU: place, process, registers, pc and the CSRs
  frame,        \* per process: its trapframe, by byte offset
  ctx,          \* per process and per CPU: what swtch() saved
  pstate,       \* per process
  user,         \* what the user program last had: registers and pc
  wild          \* a trap went through the wrong vector

TrapVars == <<hart, frame, ctx, pstate, user, wild>>

(* x1 to x31 *)
XRegs ==
  <<"ra", "sp", "gp", "tp", "t0", "t1", "t2", "s0", "s1", "a0", "a1", "a2", "a3", "a4", "a5",
    "a6", "a7", "s2", "s3", "s4", "s5", "s6", "s7", "s8", "s9", "s10", "s11", "t3", "t4", "t5", "t6">>

XReg == ToSet(XRegs)

(* struct trapframe's fields, eight bytes each, ... *)
TrapframeFields == <<"kernel_satp", "kernel_sp", "kernel_trap", "epc", "kernel_hartid">> \o XRegs

Field ==
  [name \in ToSet(TrapframeFields) |->
     8 * ((CHOOSE i \in DOMAIN TrapframeFields : TrapframeFields[i] = name) - 1)]

(* ... and where trampoline.S has the registers: 40(a0), 48(a0) to 280(a0). *)
Slot == [x \in XReg |-> 32 + 8 * (CHOOSE i \in DOMAIN XRegs : XRegs[i] = x)]

InSlot == [o \in {Slot[x] : x \in XReg} |-> CHOOSE x \in XReg : Slot[x] = o]

(* struct context: what swtch() saves and loads. *)
SwtchSaves == {"ra", "sp", "s0", "s1", "s2", "s3", "s4", "s5", "s6", "s7", "s8", "s9", "s10", "s11"}

(* What kernelvec pushes and pops; tp it leaves alone. *)
KernelvecSaves == (XReg \ (SwtchSaves \cup {"tp"})) \cup {"ra", "sp"}

Tok(kind, owner, name, v) == <<kind, owner, name, v>>

(* Registers of the kernel at work for owner, a process or a CPU's scheduler,*)
(* on its stack, on CPU c.                                                   *)
KernelRegs(owner, c) ==
  [r \in XReg |-> CASE r = "tp" -> Tok("hart", c, "", 0)
                    [] OTHER -> Tok("kernel", owner, r, 0)]

UserRegs(p, v) == [r \in XReg |-> Tok("user", p, r, v)]

At_(c, place) == ~wild /\ hart[c].at = place

-----------------------------------------------------------------------------
(* The user program computes, with another result after every call. *)
Compute(c) ==
  LET p == hart[c].proc
      regs == UserRegs(p, hart[c].pc)
  IN
  /\ At_(c, "user")
  /\ hart' = [hart EXCEPT ![c].regs = regs]
  /\ user' = [user EXCEPT ![p].regs = regs]
  /\ UNCHANGED <<frame, ctx, pstate, wild>>

(* The CPU takes a trap: ecall and exceptions in user mode, interrupts where *)
(* they are on.                                                              *)
TrapTo(h, vector, cause) ==
  [h EXCEPT !.at = vector, !.sepc = h.pc, !.spp = h.at # "user", !.sie = FALSE, !.cause = cause]

UserTrap(c) ==
  /\ At_(c, "user")
  /\ \E cause \in {"ecall", "device"} : hart' = [hart EXCEPT ![c] = TrapTo(@, "uservec", cause)]
  /\ wild' = (hart[c].stvec # "uservec")
  /\ UNCHANGED <<frame, ctx, pstate, user>>

(* uservec: a0 goes to sscratch, the others to the trapframe that the user   *)
(* page table maps, then a0; sp, tp and satp come from there.                *)
uservec(c) ==
  LET h == hart[c]
      p == h.satp
  IN
  /\ At_(c, "uservec")
  /\ frame' = [frame EXCEPT ![p] = [o \in DOMAIN @ |->
                 IF o \in DOMAIN InSlot THEN h.regs[InSlot[o]] ELSE @[o]]]
  /\ hart' = [hart EXCEPT ![c] = [@ EXCEPT !.at = "usertrap", !.satp = frame[p][0],
                !.regs = [@ EXCEPT !["sp"] = frame[p][8], !["tp"] = frame[p][32]]]]
  /\ UNCHANGED <<ctx, pstate, user, wild>>

(* cpuid() and myproc() go by tp. *)
myproc(c) == hart[hart[c].regs["tp"][2]].proc

(* usertrap(): on from an ecall with interrupts, past devintr() without. *)
usertrap(c) ==
  LET h == hart[c]
      p == myproc(c)
      call == h.cause = "ecall"
      epc == IF call THEN (h.sepc + 4) % 8 ELSE h.sepc
  IN
  /\ At_(c, "usertrap")
  /\ frame' = [frame EXCEPT ![p][Field["epc"]] = epc]
  /\ hart' = [hart EXCEPT ![c] = [@ EXCEPT !.stvec = "kernelvec", !.sie = call, !.cause = "none",
                !.at = IF call THEN "syscall" ELSE "ret",
                !.regs = [KernelRegs(p, c) EXCEPT !["sp"] = h.regs["sp"], !["tp"] = h.regs["tp"]]]]
  /\ user' = IF call THEN [user EXCEPT ![h.proc].pc = (@ + 4) % 8] ELSE user
  /\ UNCHANGED <<ctx, pstate>>
  /\ wild' = h.spp             \* usertrap: not from user mode

(* syscall(): p->trapframe->a0 is what the call returns. *)
syscall(c) ==
  LET p == myproc(c)
      ret == Tok("ret", p, "", 0)
  IN
  /\ At_(c, "syscall")
  /\ frame' = [frame EXCEPT ![p][Field["a0"]] = ret]
  /\ user' = [user EXCEPT ![hart[c].proc].regs["a0"] = ret]
  /\ hart' = [hart EXCEPT ![c].at = "ret"]
  /\ UNCHANGED <<ctx, pstate, wild>>

(* fork(): the child has its parent's trapframe, returns 0 and starts in     *)
(* forkret() on its own stack.                                               *)
fork_frame(c) ==
  LET p == myproc(c) IN
  /\ At_(c, "syscall")
  /\ \E np \in TProcs :
       /\ pstate[np] = "unused"
       /\ pstate' = [pstate EXCEPT ![np] = "runnable"]
       /\ frame' = [frame EXCEPT ![np] = [frame[p] EXCEPT ![Field["a0"]] = Tok("zero", np, "", 0)]]
       /\ ctx' = [ctx EXCEPT ![np] = [at |-> "ret", regs |-> [r \in SwtchSaves |-> Tok("kernel", np, r, 0)]]]
       /\ user' = [user EXCEPT ![np] = [user[p] EXCEPT !.regs["a0"] = Tok("zero", np, "", 0)]]
  /\ UNCHANGED <<hart, wild>>

-----------------------------------------------------------------------------
(* usertrapret(): interrupts off, ... *)
usertrapret(c) ==
  /\ At_(c, "ret")
  /\ hart' = [hart EXCEPT ![c].at = "ret_off", ![c].sie = FALSE]
  /\ UNCHANGED <<frame, ctx, pstate, user, wild>>

(* ... what the next uservec needs, ... *)
Filled(f, c, p) ==
  [f EXCEPT ![Field["kernel_satp"]] = hart[c].satp, ![Field["kernel_sp"]] = Tok("kernel", p, "sp", 0),
            ![Field["kernel_hartid"]] = hart[c].regs["tp"]]

(* ... and what userret and sret need. *)
usertrapret_csrs(c) ==
  LET p == myproc(c) IN
  /\ At_(c, "ret_off")
  /\ frame' = [frame EXCEPT ![p] = Filled(@, c, p)]
  /\ hart' = [hart EXCEPT ![c] = [@ EXCEPT !.stvec = "uservec", !.spp = FALSE,
                !.sepc = frame[p][Field["epc"]], !.at = "userret", !.next = p]]
  /\ UNCHANGED <<ctx, pstate, user, wild>>

(* userret: the user page table, then the registers from its trapframe,      *)
(* which are of no use there any more.                                       *)
userret(c) ==
  LET h == hart[c]
      p == h.next
  IN
  /\ At_(c, "userret")
  /\ hart' = [hart EXCEPT ![c] = [@ EXCEPT !.satp = p, !.at = "user", !.sie = TRUE, !.pc = h.sepc,
                !.sepc = 0, !.next = NoTProc, !.regs = [r \in XReg |-> frame[p][Slot[r]]]]]
  /\ frame' = [frame EXCEPT ![p] = [o \in DOMAIN @ |->
                 CASE o \in DOMAIN InSlot -> Tok("old", p, "", 0)
                   [] o = Field["epc"] -> 0
                   [] OTHER -> @[o]]]
  /\ UNCHANGED <<ctx, pstate, user, wild>>

-----------------------------------------------------------------------------
(* kernelvec and kerneltrap(): an interrupt of the kernel.  The handler uses *)
(* every register, but is C code and so keeps those that swtch() saves.      *)
kernelvec(c) ==
  LET h == hart[c] IN
  /\ ~wild /\ h.sie /\ h.at \in {"syscall", "ret", "scheduler"}
  /\ hart' = [hart EXCEPT ![c] = [@ EXCEPT !.sie = FALSE, !.spp = TRUE, !.at = "kerneltrap", !.back = h.at,
                !.stack = [r \in KernelvecSaves |-> h.regs[r]],
                !.regs = [r \in XReg |-> IF r \in SwtchSaves \cup {"tp"} THEN @[r]
                                         ELSE Tok("kernel", "handler", r, 0)]]]
  /\ wild' = (h.stvec # "kernelvec")
  /\ UNCHANGED <<frame, ctx, pstate, user>>

kernelvec_ret(c) ==
  LET h == hart[c] IN
  /\ At_(c, "kerneltrap")
  /\ hart' = [hart EXCEPT ![c] = [@ EXCEPT !.sie = TRUE, !.spp = FALSE, !.at = h.back, !.back = "none",
                !.stack = <<>>,
                !.regs = [r \in XReg |-> IF r \in KernelvecSaves THEN h.stack[r] ELSE @[r]]]]
  /\ UNCHANGED <<frame, ctx, pstate, user, wild>>


(* swtch(): the registers it loads; callers expect no other to be kept. *)
swtch(to, regs) == [r \in XReg |-> IF r \in SwtchSaves THEN to[r] ELSE regs[r]]

Saved(regs) == [r \in SwtchSaves |-> regs[r]]

(* C code saves what it needs around a call. *)
Reloaded(regs, owner) ==
  [r \in XReg |-> IF r \in SwtchSaves \cup {"tp"} THEN regs[r] ELSE Tok("kernel", owner, r, 0)]

(* sleep() in a call, or yield(): sched() switches to the CPU's scheduler. *)
sched(c) ==
  LET p == myproc(c) IN
  /\ At_(c, "syscall")
  /\ ctx' = [ctx EXCEPT ![p] = [at |-> "syscall", regs |-> Saved(hart[c].regs)]]
  /\ pstate' = [pstate EXCEPT ![p] = "runnable"]
  /\ hart' = [hart EXCEPT ![c] = [@ EXCEPT !.at = "scheduler", !.proc = NoTProc, !.sie = TRUE,
                !.regs = Reloaded(swtch(ctx[c].regs, @), c)]]
  /\ UNCHANGED <<frame, user, wild>>

(* scheduler(): on any CPU, back to where the process was. *)
scheduler(c) ==
  /\ At_(c, "scheduler")
  /\ \E p \in TProcs :
       /\ pstate[p] = "runnable"
       /\ pstate' = [pstate EXCEPT ![p] = "running"]
       /\ ctx' = [ctx EXCEPT ![c] = [at |-> "scheduler", regs |-> Saved(hart[c].regs)]]
       /\ hart' = [hart EXCEPT ![c] = [@ EXCEPT !.at = ctx[p].at, !.proc = p, !.sie = TRUE,
                     !.regs = Reloaded(swtch(ctx[p].regs, @), p)]]
  /\ UNCHANGED <<frame, user, wild>>

-----------------------------------------------------------------------------
(* Every CPU is in its scheduler; the first process will return to user      *)
(* space for the first time.                                                 *)
TrapInit ==
  LET nothing == [regs |-> UserRegs(FirstProc, 0), pc |-> 0]
      context(x) == [at |-> "ret", regs |-> [r \in SwtchSaves |-> Tok("kernel", x, r, 0)]]
  IN
  /\ hart = [c \in Harts |->
       [at |-> "scheduler", proc |-> NoTProc, regs |-> KernelRegs(c, c), pc |-> 0, satp |-> "kernel",
        stvec |-> "kernelvec", sepc |-> 0, spp |-> FALSE, sie |-> TRUE, cause |-> "none",
        back |-> "none", stack |-> <<>>, next |-> NoTProc]]
  /\ frame = [p \in TProcs |-> [o \in {Field[f] : f \in ToSet(TrapframeFields)} |->
       IF o \in DOMAIN InSlot THEN UserRegs(FirstProc, 0)[InSlot[o]] ELSE 0]]
  /\ ctx = [x \in TProcs \cup Harts |-> context(x)]
  /\ pstate = [p \in TProcs |-> IF p = FirstProc THEN "runnable" ELSE "unused"]
  /\ user = [p \in TProcs |-> nothing]
  /\ wild = FALSE

TrapNext ==
  \E c \in Harts :
    \/ Compute(c) \/ UserTrap(c)
    \/ uservec(c) \/ usertrap(c) \/ syscall(c) \/ fork_frame(c)
    \/ usertrapret(c) \/ usertrapret_csrs(c) \/ userret(c)
    \/ kernelvec(c) \/ kernelvec_ret(c)
    \/ sched(c) \/ scheduler(c)

-----------------------------------------------------------------------------
(* A user program finds every register, its pc and its page table as it left *)
(* them, a0 being what its call returned, on whatever CPU it goes on and     *)
(* whoever was there in between.                                             *)
UserResumes ==
  \A c \in Harts : hart[c].at = "user" =>
    LET p == hart[c].proc IN
    hart[c].regs = user[p].regs /\ hart[c].pc = user[p].pc /\ hart[c].satp = p

(* A trap from user space goes to uservec and an interrupt of the kernel to  *)
(* kernelvec, at every moment interrupts are on.                             *)
TrapVectors ==
  /\ ~wild
  /\ \A c \in Harts : hart[c].sie => hart[c].stvec = IF hart[c].at = "user" THEN "uservec" ELSE "kernelvec"

(* The kernel runs with its own CPU's number in tp, on the stack of the      *)
(* process or scheduler it is at work for, with the registers that code      *)
(* left, also after interrupts and after moving to another CPU.              *)
KernelThreadKept ==
  \A c \in Harts : hart[c].at \in {"syscall", "ret", "ret_off", "scheduler"} =>
    hart[c].regs = KernelRegs(IF hart[c].at = "scheduler" THEN c ELSE hart[c].proc, c)

=============================================================================
