------------------------------- MODULE Inodes -------------------------------
(***************************************************************************)
(* kernel/fs.c, the inode layer: the in-memory inode table (iget, idup,    *)
(* ilock, iput), inode allocation on the disk, directories and path        *)
(* lookup.  FileCalls adds the system calls of kernel/sysfile.c.           *)
(*                                                                         *)
(* The table has one entry per inode number in use, so ref, valid, mem and *)
(* lock are indexed by inode number.  A section under a sleep-lock that    *)
(* touches the shared tables once is one step; two locks are held at once  *)
(* only where the code does so.  Contents of files are FileData's.         *)
(***************************************************************************)
EXTENDS Integers, FiniteSets, Sequences

CONSTANTS
  Procs,
  Names,        \* path elements other than "." and ".."
  Inums,        \* 1 .. sb.ninodes - 1
  NINODE,       \* entries of the inode table
  Elems,        \* the path elements calls use
  NoProc

ROOTINO == 1
NoInum == 0
Dot == "."
DotDot == ".."
T_NONE == "none"
T_DIR == "dir"
T_FILE == "file"       \* or T_DEVICE
FreeDinode == [type |-> T_NONE, nlink |-> 0]

ASSUME InodesConstants ==
  /\ Inums = 1..Cardinality(Inums) /\ ROOTINO \in Inums
  /\ NINODE \in Nat
  /\ NoProc \notin Procs
  /\ Names \cap {Dot, DotDot} = {}
  /\ Elems \subseteq Names \cup {Dot, DotDot}

VARIABLES
  disk,         \* the dinodes: [type, nlink]
  mem, valid, ref, lock,
                \* the inode table: copy of the dinode, valid, ref, holder
  ents,         \* the names in a directory, and ".."
  st,           \* per process: the call it is in, with its locals
  panicked

inodes == <<disk, mem, valid, ref, lock, ents>>
vars == <<inodes, st, panicked>>

(* A process between calls: its current directory, an open file, and how     *)
(* many calls it may still make.                                            *)
Idle(cwd, open, calls) ==
  [calls |-> calls, pc |-> "idle", cwd |-> cwd, open |-> open, type |-> T_NONE,
   puts |-> <<>>, put |-> "test", cur |-> NoInum, ip |-> NoInum, name |-> Dot]

NoEnts == [n \in Names \cup {DotDot} |-> NoInum]

-----------------------------------------------------------------------------
panic == panicked' = TRUE /\ UNCHANGED <<inodes, st>>

(* The process is at place and owes no iput(). *)
Ready(p, place) == ~panicked /\ st[p].pc = place /\ st[p].puts = <<>>

(* On to place with the inodes of puts to iput() first; "idle" ends the call. *)
Leave(r, place, puts) ==
  IF place = "idle"
  THEN [Idle(r.cwd, r.open, r.calls) EXCEPT !.puts = puts]
  ELSE [r EXCEPT !.pc = place, !.puts = puts, !.cur = NoInum]

(* The second lookup of link() holds ip and takes its link back. *)
NotFound(p) == IF st[p].ip # NoInum THEN "link_bad" ELSE "idle"

TableFull(i) == ref[i] = 0 /\ Cardinality({j \in Inums : ref[j] > 0}) >= NINODE

(* iget(): a reference to the entry of i, or to a fresh one not yet read. *)
iget(i) ==
  /\ ref' = [ref EXCEPT ![i] = @ + 1]
  /\ valid' = [valid EXCEPT ![i] = @ /\ ref[i] > 0]

(* ilock(): waits for the lock; a copy that is not valid is read. *)
CanLock(i) == lock[i] = NoProc

Inode(i) == IF valid[i] THEN mem[i] ELSE disk[i]

NoType(i) == ~valid[i] /\ disk[i].type = T_NONE

Loaded(m, i) == [m EXCEPT ![i] = Inode(i)]

Validated(i) == [valid EXCEPT ![i] = TRUE]

(* ilock(i) and then iget(next). *)
Got(i, next) == [valid EXCEPT ![i] = TRUE, ![next] = (@ /\ ref[next] > 0) \/ next = i]

(* dirlookup(): "." is the directory itself. *)
dirlookup(d, n) == IF n = Dot THEN d ELSE ents[d][n]

isdirempty(d) == \A n \in Names : ents[d][n] = NoInum

(* ialloc(): the first inode that is free on the disk. *)
Allocatable == {i \in Inums : disk[i].type = T_NONE}

ialloc == CHOOSE i \in Allocatable : \A j \in Allocatable : i <= j

-----------------------------------------------------------------------------
(* namex(): "/" or the current directory first, then one element a turn.     *)
(* The call and its path are chosen as they show: skipelem() finds an        *)
(* element, the last one of a nameiparent() (parent), or none, which ends a  *)
(* namei(): the call goes on with ilock() of cur.                            *)
namex(p, i) ==
  IF TableFull(i)
  THEN panic               \* iget: no inodes
  ELSE /\ iget(i)
       /\ st' = [st EXCEPT ![p] = [@ EXCEPT !.pc = "walk", !.cur = i,
                                                !.calls = IF st[p].ip = NoInum THEN @ - 1 ELSE @]]
       /\ UNCHANGED <<disk, mem, lock, ents, panicked>>

(* skipelem() returns 0 before nameiparent() has an element. *)
walk_end(p) ==
  /\ Ready(p, "walk")
  /\ st' = [st EXCEPT ![p] = Leave(@, NotFound(p), <<st[p].cur>>)]
  /\ UNCHANGED <<inodes, panicked>>

(* One turn of namex()'s loop under the lock of ip, iput(ip) left owing. *)
walk(p, n, parent) ==
  LET i == st[p].cur
      isdir == Inode(i).type = T_DIR
      next == dirlookup(i, n)
      found == isdir /\ ~parent /\ next # NoInum
  IN
  /\ Ready(p, "walk")
  /\ CanLock(i)
  /\ IF NoType(i) \/ (found /\ TableFull(next))
     THEN panic            \* ilock: no type; iget: no inodes
     ELSE /\ mem' = Loaded(mem, i)
          /\ valid' = IF found THEN Got(i, next) ELSE Validated(i)
          /\ ref' = IF found THEN [ref EXCEPT ![next] = @ + 1] ELSE ref
          /\ st' = [st EXCEPT ![p] =
                      IF found THEN [@ EXCEPT !.cur = next, !.puts = <<i>>]
                      ELSE IF isdir /\ parent THEN [@ EXCEPT !.pc = "parent", !.name = n]
                      ELSE Leave(@, NotFound(p), <<i>>)]
          /\ UNCHANGED <<disk, lock, ents, panicked>>

-----------------------------------------------------------------------------
Putting(p) == ~panicked /\ st[p].puts # <<>>


(* ip->ref == 1 && ip->valid && ip->nlink == 0 *)
LastPut(i) == ref[i] = 1 /\ valid[i] /\ mem[i].nlink = 0

DropRef_Not(i) == UNCHANGED <<ref, valid, mem>>

(* ip->ref--; what an entry without references holds is never read again. *)
DropRef(i) ==
  /\ ref' = [ref EXCEPT ![i] = @ - 1]
  /\ valid' = [valid EXCEPT ![i] = @ /\ ref[i] > 1]
  /\ mem' = IF ref[i] > 1 THEN mem ELSE [mem EXCEPT ![i] = FreeDinode]

PutDone(p) == [st EXCEPT ![p] = [@ EXCEPT !.puts = Tail(@), !.put = "test"]]

(* iput() under itable.lock: takes the sleep-lock of an inode to free (to   *)
(* sleep there, with itable.lock held, would panic), else drops the         *)
(* reference.                                                                *)
iput(p) ==
  LET i == Head(st[p].puts) IN
  /\ Putting(p) /\ st[p].put = "test"
  /\ IF LastPut(i)
     THEN IF CanLock(i)
          THEN /\ lock' = [lock EXCEPT ![i] = p]
               /\ st' = [st EXCEPT ![p] = [@ EXCEPT !.put = "free"]]
               /\ UNCHANGED <<disk, mem, valid, ref, ents, panicked>>
          ELSE panic
     ELSE /\ DropRef(i)
          /\ st' = PutDone(p)
          /\ UNCHANGED <<disk, lock, ents, panicked>>

(* itrunc(), ip->type = 0, iupdate(): from here ialloc() may take i. *)
iput_free(p) ==
  LET i == Head(st[p].puts) IN
  /\ Putting(p) /\ st[p].put = "free"
  /\ disk' = [disk EXCEPT ![i] = FreeDinode]
  /\ mem' = [mem EXCEPT ![i] = FreeDinode]
  /\ ents' = [ents EXCEPT ![i] = NoEnts]
  /\ st' = [st EXCEPT ![p] = [@ EXCEPT !.put = "invalid"]]
  /\ UNCHANGED <<valid, ref, lock, panicked>>

Invalidated(i) == [valid EXCEPT ![i] = FALSE]

(* ip->valid = 0, releasesleep() ... *)
iput_invalid(p) ==
  LET i == Head(st[p].puts) IN
  /\ Putting(p) /\ st[p].put = "invalid"
  /\ valid' = Invalidated(i)
  /\ lock' = [lock EXCEPT ![i] = NoProc]
  /\ st' = [st EXCEPT ![p] = [@ EXCEPT !.put = "ref"]]
  /\ UNCHANGED <<disk, mem, ref, ents, panicked>>

(* ... and ip->ref-- under itable.lock. *)
iput_ref(p) ==
  LET i == Head(st[p].puts) IN
  /\ Putting(p) /\ st[p].put = "ref"
  /\ DropRef(i)
  /\ st' = PutDone(p)
  /\ UNCHANGED <<disk, lock, ents, panicked>>

Put(p) == iput(p) \/ iput_free(p) \/ iput_invalid(p) \/ iput_ref(p)

Walk(p) == walk_end(p) \/ \E n \in Elems, parent \in BOOLEAN : walk(p, n, parent)
=============================================================================
