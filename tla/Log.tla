-------------------------------- MODULE Log --------------------------------
(***************************************************************************)
(* kernel/log.c: the write-ahead redo log of the file system, together     *)
(* with the part of the buffer cache (kernel/bio.c) its correctness rests  *)
(* on: buffers hold modified blocks in memory, a pinned or locked buffer   *)
(* is not recycled, and bwrite() puts one block on the disk atomically.    *)
(*                                                                         *)
(* Code that runs under log.lock is one step.  Every disk write is a step  *)
(* of its own, so the machine can crash between any two of them, during    *)
(* recovery too.  A file-system call is begin_op(), then any number of     *)
(* bread / modify / log_write / brelse rounds, then end_op(); processes    *)
(* also read buffers outside of any transaction, as readi() does.          *)
(***************************************************************************)
EXTENDS Integers, Sequences, FiniteSets

CONSTANTS
  Procs,        \* processes that make file-system calls
  Readers,      \* those that also read buffers outside of any transaction
  Blocks,       \* block numbers outside the log area
  Values,       \* contents of a block
  NoBuf,        \* "block not in the buffer cache"
  NoProc,       \* "sleep-lock not held"
  MAXOPBLOCKS,  \* blocks begin_op() reserves per call   (param.h)
  OPBLOCKS,     \* most distinct blocks one call really writes
  LOGSIZE,      \* length of logheader.block[]            (param.h)
  NLOG,         \* log.size: header block plus data blocks (sb.nlog, mkfs.c)
  MayCrash      \* whether the machine may lose power

ASSUME LogConstants ==
  /\ IsFiniteSet(Procs)
  /\ Readers \subseteq Procs
  /\ NoBuf \notin Values
  /\ NoProc \notin Procs
  /\ MAXOPBLOCKS \in Nat \ {0}
  /\ OPBLOCKS \in 0..MAXOPBLOCKS
  /\ LOGSIZE \in Nat
  /\ LOGSIZE >= MAXOPBLOCKS
  /\ NLOG \in Nat \ {0}
  /\ MayCrash \in BOOLEAN

VARIABLES
  home,         \* disk: blocks at their home location
  logblk,       \* disk: data blocks of the log area
  dhead,        \* disk: header block; block numbers of the logged blocks
  buf,          \* buffer cache: contents, or NoBuf
  pins,         \* buffer cache: the part of refcnt that bpin() adds
  holder,       \* buffer cache: owner of the buffer's sleep-lock
  lh,           \* log.lh: block numbers of the open transaction
  outstanding,  \* log.outstanding
  committing,   \* log.committing
  panicked,     \* message of the panic() that stopped the kernel, or "no"
  boot,         \* how far initlog()/recover_from_log() has come, or "up"
  btail,        \* install_trans(1): next log block to copy
  pc,           \* where each process is
  wrote,        \* the blocks the process logged in its current call
  tail          \* write_log(), install_trans(0): next log block

disk == <<home, logblk, dhead>>
cache == <<buf, pins, holder>>
log == <<lh, outstanding, committing>>
recovery == <<boot, btail>>
local == <<wrote, tail>>
vars == <<disk, cache, log, panicked, recovery, pc, local>>

Slots == 1..(NLOG - 1)

InOp == {"op", "held", "dirty", "logged"}
Committing == {"write_log", "write_head", "install_trans", "clear", "committed"}
PC == {"user", "reading", "begin", "asleep"} \cup InOp \cup Committing
Phases == {"read_head", "install_trans", "clear", "up"}
Panics == {"too big a transaction", "log_write outside of trans",
           "log.committing"}

Active == {p \in Procs : pc[p] \in InOp}

TypeOK ==
  /\ home \in [Blocks -> Values]
  /\ logblk \in [Slots -> Values]
  /\ dhead \in Seq(Blocks)
  /\ buf \in [Blocks -> Values \cup {NoBuf}]
  /\ pins \in [Blocks -> Nat]
  /\ holder \in [Blocks -> Procs \cup {NoProc}]
  /\ lh \in Seq(Blocks)
  /\ outstanding \in Nat
  /\ committing \in BOOLEAN
  /\ panicked \in Panics \cup {"no"}
  /\ boot \in Phases
  /\ btail \in Nat \ {0}
  /\ pc \in [Procs -> PC]
  /\ wrote \in [Procs -> SUBSET Blocks]
  /\ tail \in [Procs -> Nat \ {0}]

-----------------------------------------------------------------------------
(* The buffer cache as the log sees it. *)

(* What bread(b) returns: the cached contents, else the disk's. *)
Content(b) == IF buf[b] # NoBuf THEN buf[b] ELSE home[b]

Unlocked(b) == holder[b] = NoProc

Logged(b) == \E i \in 1..Len(lh) : lh[i] = b

(* A process in kernel code of a running system. *)
At(p, label) == boot = "up" /\ pc[p] = label

Goto(p, label) == pc' = [pc EXCEPT ![p] = label]

Wakeup_Lost(pcs) == pcs

(* sleep(&log, &log.lock) parks a process; wakeup(&log) sends every such     *)
(* process back to the test at the top of begin_op()'s loop.                *)
Wakeup(pcs) == [q \in Procs |-> IF pcs[q] = "asleep" THEN "begin" ELSE pcs[q]]

(* bread(): lock the buffer of block b, reading it from disk if need be.    *)
(* A call does so inside its transaction, a reader outside of one.          *)
bread(p, b) ==
  /\ \/ At(p, "op") /\ Goto(p, "held")
     \/ p \in Readers /\ At(p, "user") /\ Goto(p, "reading")
  /\ Unlocked(b)
  /\ holder' = [holder EXCEPT ![b] = p]
  /\ buf' = [buf EXCEPT ![b] = Content(b)]
  /\ UNCHANGED <<disk, pins, log, panicked, recovery, local>>

(* The caller changes b->data.  A call writes at most OPBLOCKS blocks.      *)
modify(p, b, v) ==
  /\ At(p, "held")
  /\ holder[b] = p
  /\ Cardinality(wrote[p] \cup {b}) <= OPBLOCKS
  /\ buf' = [buf EXCEPT ![b] = v]
  /\ Goto(p, "dirty")
  /\ UNCHANGED <<disk, pins, holder, log, panicked, recovery, local>>

(* brelse(): unlock the buffer. *)
brelse(p, b) ==
  /\ holder[b] = p
  /\ \/ pc[p] \in {"held", "logged"} /\ Goto(p, "op")
     \/ pc[p] = "reading" /\ Goto(p, "user")
  /\ boot = "up"
  /\ holder' = [holder EXCEPT ![b] = NoProc]
  /\ UNCHANGED <<disk, buf, pins, log, panicked, recovery, local>>

Unused_IgnoresPins(b) == Unlocked(b)

(* refcnt is 0 when nobody holds the buffer or has pinned it. *)
Unused(b) == Unlocked(b) /\ pins[b] = 0

(* bget() recycles an unused buffer for some other block. *)
recycle(b) ==
  /\ boot = "up"
  /\ buf[b] # NoBuf
  /\ Unused(b)
  /\ buf' = [buf EXCEPT ![b] = NoBuf]
  /\ UNCHANGED <<disk, pins, holder, log, panicked, recovery, pc, local>>

-----------------------------------------------------------------------------
(* Transactions.  A kernel that panicked under log.lock never releases it.  *)

LogLock == panicked = "no"

Panic(msg) ==
  /\ panicked' = msg
  /\ UNCHANGED <<disk, cache, lh, committing, recovery, pc, local>>

MustWait_IgnoresLogged == committing \/ (outstanding + 1) * MAXOPBLOCKS > LOGSIZE

MustWait_IgnoresCommit == Len(lh) + (outstanding + 1) * MAXOPBLOCKS > LOGSIZE

(* begin_op() sleeps during a commit, and while the call might not fit. *)
MustWait ==
  \/ committing
  \/ Len(lh) + (outstanding + 1) * MAXOPBLOCKS > LOGSIZE

begin_op(p) ==
  /\ At(p, "user") \/ At(p, "begin")
  /\ LogLock
  /\ IF MustWait
     THEN /\ Goto(p, "asleep")
          /\ UNCHANGED outstanding
     ELSE /\ Goto(p, "op")
          /\ outstanding' = outstanding + 1
  /\ UNCHANGED <<disk, cache, lh, committing, panicked, recovery, local>>

(* log_write() pins the buffer of a block that is new in the transaction. *)
bpin(b) == IF Logged(b) THEN pins ELSE [pins EXCEPT ![b] = @ + 1]

(* "too big a transaction", tested before absorption. *)
TooBig == Len(lh) >= LOGSIZE \/ Len(lh) >= NLOG - 1

(* log_write(): absorb the block or append it. *)
log_write(p, b) ==
  /\ At(p, "dirty")
  /\ holder[b] = p
  /\ LogLock
  /\ IF TooBig \/ outstanding < 1
     THEN /\ Panic(IF TooBig THEN "too big a transaction"
                   ELSE "log_write outside of trans")
          /\ UNCHANGED outstanding
     ELSE /\ lh' = IF Logged(b) THEN lh ELSE Append(lh, b)
          /\ pins' = bpin(b)
          /\ wrote' = [wrote EXCEPT ![p] = @ \cup {b}]
          /\ Goto(p, "logged")
          /\ UNCHANGED <<disk, buf, holder, outstanding, committing, panicked,
                         recovery, tail>>

(* end_op(): the last call out becomes the committer, which skips the whole *)
(* of commit() when nothing was logged.                                     *)
end_op(p) ==
  /\ At(p, "op")
  /\ LogLock
  /\ outstanding' = outstanding - 1
  /\ IF committing
     THEN Panic("log.committing")
     ELSE /\ IF outstanding' = 0
             THEN /\ committing' = TRUE
                  /\ Goto(p, IF Len(lh) > 0 THEN "write_log" ELSE "committed")
             ELSE /\ pc' = Wakeup([pc EXCEPT ![p] = "user"])
                  /\ UNCHANGED committing
          /\ wrote' = [wrote EXCEPT ![p] = {}]
          /\ UNCHANGED <<disk, cache, lh, panicked, recovery, tail>>

-----------------------------------------------------------------------------
(* commit(), one disk write at a time. *)

(* The loop of write_log() and of install_trans(0) goes on to `next'. *)
Advance(p, next) ==
  /\ tail' = [tail EXCEPT ![p] = IF @ = Len(lh) THEN 1 ELSE @ + 1]
  /\ pc' = [pc EXCEPT ![p] = IF tail[p] = Len(lh) THEN next ELSE @]

write_log(p) ==
  LET b == lh[tail[p]] IN
  /\ At(p, "write_log")
  /\ Unlocked(b)
  /\ buf' = [buf EXCEPT ![b] = Content(b)]
  /\ logblk' = [logblk EXCEPT ![tail[p]] = Content(b)]
  /\ Advance(p, "write_head")
  /\ UNCHANGED <<home, dhead, pins, holder, log, panicked, recovery, wrote>>

write_head_SkipsInstall(p) ==
  /\ At(p, "write_head")
  /\ dhead' = lh
  /\ Goto(p, "clear")
  /\ UNCHANGED <<home, logblk, cache, log, panicked, recovery, local>>

write_head_NotWritten(p) ==
  /\ At(p, "write_head")
  /\ Goto(p, "install_trans")
  /\ UNCHANGED <<disk, cache, log, panicked, recovery, local>>

write_head(p) ==
  /\ At(p, "write_head")
  /\ dhead' = lh
  /\ Goto(p, "install_trans")
  /\ UNCHANGED <<home, logblk, cache, log, panicked, recovery, local>>

bunpin(b, recovering) == IF recovering THEN pins ELSE [pins EXCEPT ![b] = @ - 1]

(* The body of install_trans()'s loop. *)
Install(i, recovering) ==
  LET b == lh[i] IN
  /\ Unlocked(b)
  /\ buf' = [buf EXCEPT ![b] = logblk[i]]
  /\ home' = [home EXCEPT ![b] = logblk[i]]
  /\ pins' = bunpin(b, recovering)

install_trans(p) ==
  /\ At(p, "install_trans")
  /\ Install(tail[p], FALSE)
  /\ Advance(p, "clear")
  /\ UNCHANGED <<logblk, dhead, holder, log, panicked, recovery, wrote>>

(* log.lh.n = 0; write_head(). *)
clear(p) ==
  /\ At(p, "clear")
  /\ lh' = <<>>
  /\ dhead' = <<>>
  /\ Goto(p, "committed")
  /\ UNCHANGED <<home, logblk, cache, outstanding, committing, panicked,
                 recovery, local>>

end_commit_StillCommitting(p) ==
  /\ At(p, "committed")
  /\ LogLock
  /\ pc' = Wakeup([pc EXCEPT ![p] = "user"])
  /\ UNCHANGED <<disk, cache, log, panicked, recovery, local>>

(* The end of end_op(), after commit(). *)
end_commit(p) ==
  /\ At(p, "committed")
  /\ LogLock
  /\ committing' = FALSE
  /\ pc' = Wakeup([pc EXCEPT ![p] = "user"])
  /\ UNCHANGED <<disk, cache, lh, outstanding, panicked, recovery, local>>

-----------------------------------------------------------------------------
(* Power loss, and recover_from_log() at the next boot. *)

Crash ==
  /\ MayCrash
  /\ buf' = [b \in Blocks |-> NoBuf]
  /\ pins' = [b \in Blocks |-> 0]
  /\ holder' = [b \in Blocks |-> NoProc]
  /\ lh' = <<>>
  /\ outstanding' = 0
  /\ committing' = FALSE
  /\ panicked' = "no"
  /\ boot' = "read_head"
  /\ btail' = 1
  /\ pc' = [p \in Procs |-> "user"]
  /\ wrote' = [p \in Procs |-> {}]
  /\ tail' = [p \in Procs |-> 1]
  /\ UNCHANGED disk

recover_read_head ==
  /\ boot = "read_head"
  /\ lh' = dhead
  /\ boot' = IF Len(dhead) > 0 THEN "install_trans" ELSE "clear"
  /\ UNCHANGED <<disk, cache, outstanding, committing, panicked, btail, pc, local>>

recover_install_trans ==
  /\ boot = "install_trans"
  /\ Install(btail, TRUE)
  /\ boot' = IF btail = Len(lh) THEN "clear" ELSE boot
  /\ btail' = IF btail = Len(lh) THEN 1 ELSE btail + 1
  /\ UNCHANGED <<logblk, dhead, holder, log, panicked, pc, local>>

recover_clear ==
  /\ boot = "clear"
  /\ lh' = <<>>
  /\ dhead' = <<>>
  /\ boot' = "up"
  /\ UNCHANGED <<home, logblk, cache, outstanding, committing, panicked, btail,
                 pc, local>>

-----------------------------------------------------------------------------
(* The disk as mkfs leaves it, and the kernel's zeroed memory. *)
Init ==
  /\ home \in [Blocks -> Values]
  /\ \E v \in Values : logblk = [i \in Slots |-> v]
  /\ dhead = <<>>
  /\ buf = [b \in Blocks |-> NoBuf]
  /\ pins = [b \in Blocks |-> 0]
  /\ holder = [b \in Blocks |-> NoProc]
  /\ lh = <<>>
  /\ outstanding = 0
  /\ committing = FALSE
  /\ panicked = "no"
  /\ boot = "read_head"
  /\ btail = 1
  /\ pc = [p \in Procs |-> "user"]
  /\ wrote = [p \in Procs |-> {}]
  /\ tail = [p \in Procs |-> 1]

Call(p) ==
  \/ begin_op(p)
  \/ \E b \in Blocks : bread(p, b) \/ log_write(p, b) \/ brelse(p, b)
  \/ \E b \in Blocks, v \in Values : modify(p, b, v)
  \/ end_op(p)

Commit(p) ==
  \/ write_log(p)
  \/ write_head(p)
  \/ install_trans(p)
  \/ clear(p)
  \/ end_commit(p)

Recover == recover_read_head \/ recover_install_trans \/ recover_clear

Next ==
  \/ \E p \in Procs : Call(p) \/ Commit(p)
  \/ \E b \in Blocks : recycle(b)
  \/ Recover
  \/ Crash

Spec == Init /\ [][Next]_vars

-----------------------------------------------------------------------------
(* Properties. *)

(* What recover_from_log() would leave at the home locations. *)
Recovered ==
  [b \in Blocks |->
     IF \E i \in 1..Len(dhead) : dhead[i] = b
     THEN logblk[CHOOSE i \in 1..Len(dhead) : dhead[i] = b]
     ELSE home[b]]

(* Block contents as system calls see them; during recovery nobody looks    *)
(* until install_trans(1) has copied the log.                               *)
Current == IF boot = "up" THEN [b \in Blocks |-> Content(b)] ELSE Recovered

Disk == INSTANCE TxnDisk
          WITH durable <- Recovered, current <- Current, active <- Active

(* The log implements the transactional disk: a crash at any point of the   *)
(* calls, of commit() or of recovery keeps whole system calls only, and     *)
(* recovery loses nothing that write_head() committed.                      *)
ImplementsTxnDisk == Disk!Spec

(* "The logging system only commits when there are no FS system calls       *)
(* active": while one process is in commit() no call is in progress, there  *)
(* is no second committer, and begin_op() is closed.                        *)
CommitQuiescent ==
  \A p \in Procs :
    pc[p] \in Committing =>
      /\ committing
      /\ outstanding = 0
      /\ Active = {}
      /\ \A q \in Procs : pc[q] \in Committing => q = p

(* log.outstanding counts exactly the calls between begin_op and end_op, so *)
(* the last end_op() sees 0.                                                *)
OutstandingCounts == outstanding = Cardinality(Active)

(* Block b of the open transaction still has to be installed. *)
Pending(b) ==
  \E i \in 1..Len(lh) :
    /\ lh[i] = b
    /\ boot = "up"
    /\ \A p \in Procs : /\ pc[p] # "clear"
                        /\ pc[p] = "install_trans" => i >= tail[p]

(* bpin() in log_write() and bunpin() in install_trans() pair up: a buffer  *)
(* is pinned once for as long as its block waits to be installed, and no    *)
(* pin outlives the transaction.                                            *)
PinsMatchLog == \A b \in Blocks : pins[b] = IF Pending(b) THEN 1 ELSE 0

(* No wakeup is lost in begin_op(): a process asleep on the log has a call  *)
(* in progress or a commit under way whose end_op() will wake it.           *)
SleeperHasWaker ==
  \A p \in Procs : pc[p] = "asleep" => committing \/ outstanding > 0

(* When the end_op() that commits returns, everything system calls have     *)
(* written is durable.                                                      *)
CommittedIsDurable ==
  \A p \in Procs : pc[p] = "committed" => Recovered = Current

(* The write-ahead rule: a home block changes only to the contents that the *)
(* committed header and its log block hold for it.                          *)
WriteAhead ==
  [][\A b \in Blocks :
       home'[b] # home[b] =>
         \E i \in 1..Len(dhead) : dhead[i] = b /\ home'[b] = logblk[i]]_vars

(* end_op() never runs into its own panic, nor does log_write() find itself *)
(* outside of a transaction.                                                *)
NoProtocolPanic ==
  panicked \notin {"log.committing", "log_write outside of trans"}

(* begin_op() admits a call only when the log can still hold everything the *)
(* call may write, so log_write() never finds the log too full.             *)
NoTooBigPanic == panicked # "too big a transaction"

-----------------------------------------------------------------------------
(* The inductive invariant behind the safety properties. *)

Distinct(s) == \A i, j \in 1..Len(s) : s[i] = s[j] => i = j

HoldsBuffer == {"reading", "held", "dirty", "logged"}

(* A booting kernel has no processes in the file system, and its buffers    *)
(* agree with the disk.                                                     *)
BootInv ==
  boot # "up" =>
    /\ \A p \in Procs : pc[p] = "user"
    /\ \A b \in Blocks :
         holder[b] = NoProc /\ pins[b] = 0 /\ buf[b] \in {NoBuf, home[b]}
    /\ ~committing /\ outstanding = 0 /\ panicked = "no"

(* recover_from_log() has installed the log up to btail. *)
RecoveryInv ==
  /\ boot # "install_trans" => btail = 1
  /\ boot = "read_head" => lh = <<>>
  /\ boot \in {"install_trans", "clear"} => lh = dhead
  /\ boot = "install_trans" =>
       /\ btail <= Len(lh)
       /\ \A i \in 1..(btail - 1) : home[lh[i]] = logblk[i]
  /\ boot = "clear" => \A i \in 1..Len(lh) : home[lh[i]] = logblk[i]

(* A header names a block once and fits the log area; the header on disk is *)
(* empty except from the commit point to the end of the installation.       *)
HeaderInv ==
  /\ Distinct(lh) /\ Len(lh) <= NLOG - 1
  /\ Distinct(dhead) /\ Len(dhead) <= NLOG - 1
  /\ \A p \in Procs : pc[p] \in {"install_trans", "clear"} => dhead = lh
  /\ boot = "up" /\ dhead # <<>> =>
       \E p \in Procs : pc[p] \in {"install_trans", "clear"}

(* log.committing means a committer; an open transaction belongs to calls   *)
(* in progress or to the committer, which leaves none behind.               *)
OwnerInv ==
  /\ committing => \E p \in Procs : pc[p] \in Committing
  /\ boot = "up" /\ lh # <<>> => committing \/ Active # {}
  /\ \A p \in Procs : pc[p] = "committed" => lh = <<>>

(* Sleep-locks of buffers. *)
BufferLockInv ==
  /\ \A b \in Blocks : holder[b] # NoProc =>
       pc[holder[b]] \in HoldsBuffer /\ buf[b] # NoBuf
  /\ \A b, c \in Blocks : holder[b] = holder[c] => b = c \/ holder[b] = NoProc

(* A buffer differs from its home block only while pinned, or while the     *)
(* caller that changed it has yet to reach log_write().                     *)
CacheInv ==
  \A b \in Blocks :
    /\ pins[b] # 0 => buf[b] # NoBuf
    /\ pins[b] = 0 /\ buf[b] \notin {NoBuf, home[b]} =>
         holder[b] # NoProc /\ pc[holder[b]] = "dirty"

(* How far the committer is. *)
CommitInv ==
  \A p \in Procs :
    /\ pc[p] \notin {"write_log", "install_trans"} => tail[p] = 1
    /\ pc[p] \in {"write_log", "write_head", "install_trans"} => tail[p] <= Len(lh)
    /\ pc[p] = "write_log" =>
         \A i \in 1..(tail[p] - 1) : logblk[i] = Content(lh[i])
    /\ pc[p] \in {"write_head", "install_trans", "clear"} =>
         \A i \in 1..Len(lh) : logblk[i] = Content(lh[i])
    /\ pc[p] = "install_trans" =>
         \A i \in 1..(tail[p] - 1) : home[lh[i]] = logblk[i]
    /\ pc[p] = "clear" => \A i \in 1..Len(lh) : home[lh[i]] = logblk[i]

(* All of it: what the code keeps true at every step so that a crash there  *)
(* is harmless.                                                             *)
LogInv ==
  /\ TypeOK
  /\ BootInv
  /\ RecoveryInv
  /\ HeaderInv
  /\ OutstandingCounts
  /\ CommitQuiescent
  /\ OwnerInv
  /\ SleeperHasWaker
  /\ NoProtocolPanic
  /\ BufferLockInv
  /\ PinsMatchLog
  /\ CacheInv
  /\ CommitInv

-----------------------------------------------------------------------------
(* The invariant behind NoTooBigPanic. *)

(* What the calls in progress have written so far. *)
Writes == {w \in Active \X Blocks : w[2] \in wrote[w[1]]}

(* Blocks by which a call stays below its reservation. *)
Margin == MAXOPBLOCKS - OPBLOCKS

(* A call writes at most OPBLOCKS blocks, every one of them in the log, and *)
(* has them counted when end_op() gives its reservation back.               *)
CallSpaceInv ==
  \A p \in Procs :
    /\ pc[p] \notin InOp => wrote[p] = {}
    /\ IsFiniteSet(wrote[p]) /\ Cardinality(wrote[p]) <= OPBLOCKS
    /\ \A b \in wrote[p] : Logged(b)
    /\ \A b \in Blocks :
         pc[p] = "dirty" /\ holder[b] = p => Cardinality(wrote[p] \cup {b}) <= OPBLOCKS

(* What is logged, and what the calls in progress may still add to it, fits. *)
(* One call alone either wrote all there is in the log or has outlived       *)
(* another call, which left its margin behind.                               *)
ReservationInv ==
  /\ outstanding > 0 =>
       Len(lh) + outstanding * MAXOPBLOCKS <= LOGSIZE + Cardinality(Writes)
  /\ outstanding = 1 =>
       \/ Len(lh) <= Cardinality(Writes)
       \/ Len(lh) + MAXOPBLOCKS + Margin <= LOGSIZE + Cardinality(Writes)

SpaceInv == CallSpaceInv /\ ReservationInv /\ NoTooBigPanic

(* What the code's constants give log_write(), whose test for a full log    *)
(* comes before absorption: a call never fills its reservation, and the log *)
(* area holds what the calls of one transaction may leave in it.            *)
SpaceMargin ==
  /\ OPBLOCKS < MAXOPBLOCKS
  /\ OPBLOCKS < NLOG - 1
  /\ LOGSIZE - 2 * Margin < NLOG - 1

-----------------------------------------------------------------------------
(* Liveness.  A process in the kernel keeps running, disk requests finish,  *)
(* recovery runs, and every system call ends: between two rounds a call can *)
(* always leave, so it may not ignore end_op() forever (strong fairness).   *)
Fairness ==
  /\ WF_vars(Recover)
  /\ \A p \in Procs :
       /\ WF_vars(Commit(p))
       /\ WF_vars(\E b \in Blocks : log_write(p, b))
       /\ WF_vars(\E b \in Blocks : brelse(p, b))
       /\ SF_vars(end_op(p))

FairSpec == Spec /\ Fairness

(* A process that begin_op() put to sleep is woken. *)
SleepersWake == \A p \in Procs : (pc[p] = "asleep") ~> (pc[p] # "asleep")

(* A commit, once begun, finishes and lets begin_op() go on. *)
CommitFinishes == committing ~> ~committing

(* The bookkeeping that commit() rests on: it runs alone, log.outstanding counts *)
(* the calls, the logged blocks are pinned once each, whoever sleeps has somebody *)
(* to wake it, and no panic of the protocol is reached.                        *)
LogSound ==
  /\ TypeOK /\ CommitQuiescent /\ OutstandingCounts /\ PinsMatchLog
  /\ SleeperHasWaker /\ NoProtocolPanic
=============================================================================
