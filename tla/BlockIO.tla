------------------------------ MODULE BlockIO ------------------------------
(***************************************************************************)
(* kernel/bio.c, kernel/sleeplock.c and kernel/virtio_disk.c composed: the *)
(* buffer cache with its LRU list and reference counts, the sleep-lock of  *)
(* each buffer, and the disk driver's descriptor ring with its interrupt.  *)
(* A section under bcache.lock, lk->lk or vdisk_lock is one step, the      *)
(* interrupt handler two, since the device may complete requests between   *)
(* its acknowledgement and its loop.  sleep() parks a process on a channel *)
(* in the step that finds it must wait, as Proc shows it may be taken.     *)
(* Contents are abstracted to whether a copy is the last value written.    *)
(***************************************************************************)
EXTENDS Integers, FiniteSets, Sequences, SequencesExt

CONSTANTS
  Procs,
  Blocks,       \* disk blocks
  NBUF,
  NUM,          \* descriptors of the virtio queue
  NoBlock, NoProc

Bufs == 1..NBUF
Descs == 0..(NUM - 1)
Awake == <<"awake">>
NoBuf == 0
NoDesc == [addr |-> <<>>, next |-> 0]

ASSUME BlockIOConstants ==
  /\ NBUF \in Nat \ {0}
  /\ NUM \in Nat /\ NUM >= 3
  /\ NoBlock \notin Blocks
  /\ NoProc \notin Procs

VARIABLES
  lru,          \* bcache.head: head.next first, head.prev last
  blockno, valid, refcnt, data, owner, busy,
                \* struct buf; owner is lock.pid, busy is b->disk
  free, desc, info,
                \* disk.free, disk.desc, disk.info[].b
  used,         \* the used ring from disk.used_idx to disk.used->idx
  serving, platter, irq,
                \* the device: requests it has taken, blocks, interrupt line
  handler,      \* virtio_disk_intr() is between acknowledgement and loop
  pc, want, cur, op, chan,
                \* per process: place, bread()'s blockno, its buffer, "in" or
                \* "out", sleep channel
  panicked

buffers == <<lru, blockno, valid, refcnt, data, owner>>
driver == <<free, desc, info, busy, handler>>
queue == <<used, serving, irq>>
device == <<queue, platter>>
procs == <<pc, want, cur, op, chan>>
vars == <<buffers, driver, device, procs, panicked>>

TypeOK ==
  /\ lru \in Seq(Bufs) /\ Len(lru) = NBUF
  /\ blockno \in [Bufs -> Blocks \cup {NoBlock}]
  /\ valid \in [Bufs -> BOOLEAN]
  /\ refcnt \in [Bufs -> Nat]
  /\ data \in [Bufs -> BOOLEAN]
  /\ owner \in [Bufs -> Procs \cup {NoProc}]
  /\ busy \in [Bufs -> BOOLEAN]
  /\ free \subseteq Descs
  /\ info \in [Descs -> Bufs \cup {NoBuf}]
  /\ used \in Seq(Descs) /\ Len(used) <= NUM
  /\ serving \subseteq Descs
  /\ platter \in [Blocks -> BOOLEAN]
  /\ pc \in [Procs -> {"idle", "lock", "rw", "wait", "hold", "rel"}]
  /\ op \in [Procs -> {"in", "out"}]
  /\ cur \in [Procs -> Bufs \cup {NoBuf}]
  /\ want \in [Procs -> Blocks \cup {NoBlock}]

-----------------------------------------------------------------------------
(* wakeup(c) *)
Woken(c, chans) == [p \in Procs |-> IF chans[p] = c THEN Awake ELSE chans[p]]

Runs(p, place) == ~panicked /\ chan[p] = Awake /\ pc[p] = place

Goto(p, place) == pc' = [pc EXCEPT ![p] = place]

vdisk_lock == ~handler

panic == panicked' = TRUE /\ UNCHANGED <<buffers, driver, device, procs>>


Unused(b) == refcnt[b] = 0

Cached(n) == {b \in Bufs : blockno[b] = n}

(* The buffer bget() recycles: the last in the list that nobody uses. *)
Victim == lru[CHOOSE i \in 1..NBUF : Unused(lru[i]) /\ \A j \in (i + 1)..NBUF : ~Unused(lru[j])]

Got(p, n, b, refs) ==
  /\ want' = [want EXCEPT ![p] = n]
  /\ refcnt' = [refcnt EXCEPT ![b] = refs]
  /\ cur' = [cur EXCEPT ![p] = b]
  /\ Goto(p, "lock")
  /\ UNCHANGED <<lru, data, owner, driver, device, op, chan, panicked>>

(* bget() up to the release of bcache.lock. *)
bget(p, n) ==
  /\ Runs(p, "idle")
  /\ IF Cached(n) # {}
     THEN LET b == CHOOSE b \in Cached(n) : TRUE IN
          Got(p, n, b, refcnt[b] + 1) /\ UNCHANGED <<blockno, valid>>
     ELSE IF \E b \in Bufs : Unused(b)
     THEN /\ Got(p, n, Victim, 1)
          /\ blockno' = [blockno EXCEPT ![Victim] = n]
          /\ valid' = [valid EXCEPT ![Victim] = FALSE]
     ELSE panic            \* bget: no buffers

(* acquiresleep(&b->lock), then bread()'s test of b->valid. *)
acquiresleep(p) ==
  LET b == cur[p] IN
  /\ Runs(p, "lock")
  /\ IF owner[b] # NoProc
     THEN chan' = [chan EXCEPT ![p] = <<"lk", b>>] /\ UNCHANGED <<owner, pc, op>>
     ELSE /\ owner' = [owner EXCEPT ![b] = p]
          /\ op' = [op EXCEPT ![p] = "in"]
          /\ Goto(p, IF valid[b] THEN "hold" ELSE "rw")
          /\ UNCHANGED chan
  /\ UNCHANGED <<lru, blockno, valid, refcnt, data, want, cur, driver, device, panicked>>

-----------------------------------------------------------------------------
(* alloc_desc() takes the lowest free descriptor, alloc3_desc() three. *)
LowestFree(n) == {d \in free : Cardinality({e \in free : e < d}) < n}

Nth(D, i) == CHOOSE d \in D : Cardinality({e \in D : e < d}) = i

Formatted(b, d0, d1, d2, w) ==
  [desc EXCEPT ![d0] = [addr |-> <<w, b>>, next |-> d1],
               ![d1] = [addr |-> <<"data", b>>, next |-> d2],
               ![d2] = [addr |-> <<"status", d0>>, next |-> 0]]

FailWakes(chans) == IF free = {} THEN chans ELSE Woken(<<"free">>, chans)

(* virtio_disk_rw() until it sleeps: on disk.free[0] when descriptors are    *)
(* short (alloc3_desc() has freed what it got, waking others), else on b.    *)
(* The avail ring is what QUEUE_NOTIFY tells the device: the head it takes.  *)
virtio_disk_rw(p) ==
  LET b == cur[p]
      D == LowestFree(3)
  IN
  /\ Runs(p, "rw")
  /\ vdisk_lock
  /\ IF Cardinality(D) < 3
     THEN /\ chan' = [FailWakes(chan) EXCEPT ![p] = <<"free">>]
          /\ UNCHANGED <<free, desc, info, busy, serving, pc>>
     ELSE /\ free' = free \ D
          /\ desc' = Formatted(b, Nth(D, 0), Nth(D, 1), Nth(D, 2), op[p])
          /\ busy' = [busy EXCEPT ![b] = TRUE]
          /\ info' = [info EXCEPT ![Nth(D, 0)] = b]
          /\ serving' = serving \cup {Nth(D, 0)}
          /\ chan' = [chan EXCEPT ![p] = <<"buf", b>>]
          /\ Goto(p, "wait")
  /\ UNCHANGED <<buffers, used, platter, irq, handler, want, cur, op, panicked>>

(* The descriptors of the chain that starts at d. *)
Chain(d) == {d, desc[d].next, desc[desc[d].next].next}

Freed(d) == free \cup Chain(d)

(* Awake: sleeps on b again while b->disk is set, else free_chain() and    *)
(* return; bread() sets b->valid.                                            *)
virtio_disk_rw_woken(p) ==
  LET b == cur[p]
      d == CHOOSE d \in Descs : info[d] = b
  IN
  /\ Runs(p, "wait")
  /\ vdisk_lock
  /\ IF busy[b]
     THEN /\ chan' = [chan EXCEPT ![p] = <<"buf", b>>]
          /\ UNCHANGED <<buffers, driver, device, pc, want, cur, op, panicked>>
     ELSE IF Chain(d) \cap free # {}
     THEN panic            \* free_desc 2
     ELSE /\ info' = [info EXCEPT ![d] = NoBuf]
          /\ free' = Freed(d)
          /\ desc' = [e \in Descs |-> IF e \in Chain(d) THEN NoDesc ELSE desc[e]]
          /\ chan' = Woken(<<"free">>, chan)
          /\ valid' = [valid EXCEPT ![b] = TRUE]
          /\ Goto(p, "hold")
          /\ UNCHANGED <<lru, blockno, refcnt, data, owner, busy,
                         handler, device, want, cur, op, panicked>>

-----------------------------------------------------------------------------
(* virtio_disk_intr(): acknowledges, with vdisk_lock held ... *)
virtio_disk_intr ==
  /\ ~panicked
  /\ vdisk_lock
  /\ irq
  /\ irq' = FALSE
  /\ handler' = TRUE
  /\ UNCHANGED <<buffers, free, desc, info, busy, used,
                 serving, platter, procs, panicked>>

Completed_All(b) == [c \in Bufs |-> FALSE]

Completed(b) == [busy EXCEPT ![b] = FALSE]

(* ... then one turn of its loop per completed request ... *)
virtio_disk_intr_loop ==
  LET b == info[Head(used)] IN
  /\ handler
  /\ used # <<>>
  /\ IF b = NoBuf
     THEN panic            \* a null pointer
     ELSE /\ busy' = Completed(b)
          /\ chan' = Woken(<<"buf", b>>, chan)
          /\ used' = Tail(used)
          /\ UNCHANGED <<buffers, free, desc, info, handler, serving, platter, irq, pc, want, cur, op, panicked>>

(* ... and releases vdisk_lock. *)
virtio_disk_intr_end ==
  /\ handler
  /\ used = <<>>
  /\ handler' = FALSE
  /\ UNCHANGED <<buffers, free, desc, info, busy, device, procs, panicked>>

(* The device completes the requests it was told of in any order. *)
DeviceDone(d) ==
  LET dir == desc[d].addr[1]
      b == desc[desc[d].next].addr[2]
  IN
  /\ d \in serving
  /\ serving' = serving \ {d}
  /\ IF dir = "in"
     THEN data' = [data EXCEPT ![b] = platter[blockno[b]]] /\ UNCHANGED platter
     ELSE platter' = [platter EXCEPT ![blockno[b]] = data[b]] /\ UNCHANGED data
  /\ used' = Append(used, d)
  /\ irq' = TRUE
  /\ UNCHANGED <<lru, blockno, valid, refcnt, owner, driver, procs, panicked>>

-----------------------------------------------------------------------------
(* The holder of b changes the block: every other copy is out of date. *)
Modify(b) ==
  /\ data' = [c \in Bufs |-> data[c] /\ (c = b \/ blockno[c] # blockno[b])]
  /\ platter' = [platter EXCEPT ![blockno[b]] = FALSE]

(* The holder changes the block and calls bwrite(). *)
bwrite(p) ==
  LET b == cur[p] IN
  /\ Runs(p, "hold")
  /\ op[p] = "in"
  /\ IF owner[b] # p
     THEN panic            \* bwrite
     ELSE /\ Modify(b)
          /\ op' = [op EXCEPT ![p] = "out"]
          /\ Goto(p, "rw")
          /\ UNCHANGED <<lru, blockno, valid, refcnt, owner, driver, queue, want, cur, chan, panicked>>

Wakes_Nobody(b) == chan

(* releasesleep()'s wakeup(lk) *)
Wakes(b) == Woken(<<"lk", b>>, chan)

(* brelse(): releasesleep() ... *)
brelse(p) ==
  LET b == cur[p] IN
  /\ Runs(p, "hold")
  /\ IF owner[b] # p
     THEN panic            \* brelse
     ELSE /\ owner' = [owner EXCEPT ![b] = NoProc]
          /\ chan' = Wakes(b)
          /\ Goto(p, "rel")
          /\ UNCHANGED <<lru, blockno, valid, refcnt, data, driver, device, want, cur, op, panicked>>

ToFront(b) == <<b>> \o Remove(lru, b)

Put(b) == [refcnt EXCEPT ![b] = @ - 1]

(* ... then the reference and the LRU list under bcache.lock. *)
brelse_put(p) ==
  LET b == cur[p] IN
  /\ Runs(p, "rel")
  /\ refcnt' = Put(b)
  /\ lru' = IF refcnt[b] = 1 THEN ToFront(b) ELSE lru
  /\ cur' = [cur EXCEPT ![p] = NoBuf]
  /\ want' = [want EXCEPT ![p] = NoBlock]
  /\ op' = [op EXCEPT ![p] = "in"]
  /\ Goto(p, "idle")
  /\ UNCHANGED <<blockno, valid, data, owner, driver, device, chan, panicked>>

-----------------------------------------------------------------------------
(* binit() puts each buffer before the last; virtio_disk_init() frees all. *)
Init ==
  /\ lru = [i \in Bufs |-> NBUF + 1 - i]
  /\ blockno = [b \in Bufs |-> NoBlock]
  /\ valid = [b \in Bufs |-> FALSE]
  /\ refcnt = [b \in Bufs |-> 0]
  /\ data = [b \in Bufs |-> FALSE]
  /\ owner = [b \in Bufs |-> NoProc]
  /\ busy = [b \in Bufs |-> FALSE]
  /\ free = Descs
  /\ desc = [d \in Descs |-> NoDesc]
  /\ info = [d \in Descs |-> NoBuf]
  /\ used = <<>>
  /\ serving = {}
  /\ platter = [n \in Blocks |-> TRUE]
  /\ irq = FALSE /\ handler = FALSE
  /\ pc = [p \in Procs |-> "idle"]
  /\ cur = [p \in Procs |-> NoBuf]
  /\ want = [p \in Procs |-> NoBlock]
  /\ op = [p \in Procs |-> "in"]
  /\ chan = [p \in Procs |-> Awake]
  /\ panicked = FALSE

Intr == virtio_disk_intr \/ virtio_disk_intr_loop \/ virtio_disk_intr_end

Device == \E d \in Descs : DeviceDone(d)

(* Steps of a process inside a call. *)
Kernel(p) ==
  \/ acquiresleep(p)
  \/ virtio_disk_rw(p) \/ virtio_disk_rw_woken(p)
  \/ brelse_put(p)

Holder(p) == bwrite(p) \/ brelse(p)

Next ==
  \/ \E p \in Procs, n \in Blocks : bget(p, n)
  \/ \E p \in Procs : Kernel(p) \/ Holder(p)
  \/ Intr
  \/ Device

Spec == Init /\ [][Next]_vars

-----------------------------------------------------------------------------
(* No panic of bget(), brelse(), bwrite() or free_desc() is reached, and the *)
(* interrupt handler never follows a null disk.info[].b.                     *)
NoPanic == ~panicked

(* bget() never lets two buffers cache one block: the property that makes    *)
(* the cache a synchronization point for blocks.                             *)
OneBufferPerBlock ==
  \A b, c \in Bufs : blockno[b] = blockno[c] /\ blockno[b] # NoBlock => b = c

(* Whoever holds a buffer after bread() holds the block it asked for and     *)
(* sees what the last holder left in it, through recycling and requests      *)
(* completed out of order.                                                   *)
HolderSeesLast ==
  \A p \in Procs : pc[p] = "hold" =>
    owner[cur[p]] = p /\ blockno[cur[p]] = want[p] /\ data[cur[p]]

(* The device writes to or reads from a buffer only while the process that   *)
(* asked for it waits, with the buffer locked and b->disk set.               *)
TransfersOwned ==
  \A d \in serving :
    LET b == desc[desc[d].next].addr[2] IN
    busy[b] /\ owner[b] # NoProc /\ pc[owner[b]] = "wait" /\ cur[owner[b]] = b

(* Each descriptor is free or in the chain of exactly one request.           *)
DescriptorsAccounted ==
  LET heads == {d \in Descs : info[d] # NoBuf} IN
  /\ Descs \ free = UNION {Chain(d) : d \in heads}
  /\ \A d, e \in heads : d # e => Chain(d) \cap Chain(e) = {}
  /\ \A d \in heads : Cardinality(Chain(d)) = 3

(* Nobody sleeps in acquiresleep() on a free lock, nor in virtio_disk_rw()   *)
(* for descriptors while three are free.                                     *)
SleepersHaveReason ==
  \A p \in Procs :
    /\ chan[p] = <<"free">> => Cardinality(free) < 3
    /\ \A b \in Bufs : chan[p] = <<"lk", b>> => owner[b] # NoProc


(* A request owns its descriptors and its buffer until it completes, and each  *)
(* descriptor is free or in one chain.                                         *)
RequestsSound == TransfersOwned /\ DescriptorsAccounted
=============================================================================
