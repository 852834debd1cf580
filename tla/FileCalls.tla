----------------------------- MODULE FileCalls ------------------------------
(***************************************************************************)
(* kernel/sysfile.c over Inodes: open, create, mkdir, mknod, link, unlink, *)
(* chdir, close and fstat.  Calls of several processes interleave between  *)
(* their locked sections; each call is one transaction of Log.  A process  *)
(* has one descriptor (FileTable shares files), and the arguments of a     *)
(* call are chosen where they are first used.                              *)
(***************************************************************************)
EXTENDS Inodes, TLC

CONSTANT MaxCalls   \* bound on the calls of a process

(* iupdate() after a change of the in-memory inodes. *)
iupdate(changes) ==
  /\ mem' = changes @@ mem
  /\ disk' = changes @@ disk

Linked(i, n) == [Inode(i) EXCEPT !.nlink = @ + n]

Locking(p, place, i) == Ready(p, place) /\ CanLock(i)

NotDir(i) == NoType(i) \/ Inode(i).type # T_DIR

(* namei() has returned i, which is free to be locked. *)
Found(p, i) == Locking(p, "walk", i) /\ st[p].ip = NoInum

To(p, r) == st' = [st EXCEPT ![p] = r]

(* The call fails or ends, with iput() of these inodes left to do. *)
Return(p, puts) == To(p, Leave(st[p], "idle", puts))

(* Every call that takes a path starts with begin_op() and namex(). *)
begin_lookup(p) ==
  Ready(p, "idle") /\ st[p].calls > 0 /\ \E i \in {ROOTINO, st[p].cwd} : namex(p, i)

-----------------------------------------------------------------------------
NoEntryFor(i) ==
  IF i # NoInum THEN TableFull(i) ELSE Allocatable # {} /\ TableFull(ialloc)

(* create() for open(O_CREATE) or mkdir(), once nameiparent() has found dp:  *)
(* up to ilock(ip).  mknod() does what an open(O_CREATE) does that gets no   *)
(* file.                                                                     *)
create(p, type) ==
  LET dp == st[p].cur
      found == dirlookup(dp, st[p].name)
      new == found = NoInum /\ Allocatable # {}
      i == IF new THEN ialloc ELSE found
  IN
  /\ Locking(p, "parent", dp) /\ st[p].ip = NoInum
  /\ IF NotDir(dp) \/ NoEntryFor(found)
     THEN panic            \* ilock: no type; dirlookup not DIR; iget: no inodes
     ELSE /\ mem' = Loaded(mem, dp)
          /\ disk' = IF new THEN [disk EXCEPT ![i] = [type |-> type, nlink |-> 0]] ELSE disk
          /\ lock' = IF new THEN [lock EXCEPT ![dp] = p] ELSE lock
          /\ IF i = NoInum
             THEN Return(p, <<dp>>) /\ valid' = Validated(dp) /\ UNCHANGED ref
             ELSE /\ ref' = [ref EXCEPT ![i] = @ + 1]
                  /\ valid' = Got(dp, i)
                  /\ To(p, IF new
                           THEN [st[p] EXCEPT !.pc = "create_new", !.ip = i, !.type = type]
                           ELSE [st[p] EXCEPT !.pc = "create_found", !.cur = i, !.type = type,
                                              !.puts = <<dp>>])
          /\ UNCHANGED <<ents, panicked>>

(* The name exists: only open() takes it, and only a file or a device. *)
create_found(p) ==
  LET i == st[p].cur
      ok == st[p].type = T_FILE /\ Inode(i).type = T_FILE
  IN
  /\ Locking(p, "create_found", i)
  /\ IF NoType(i)
     THEN panic
     ELSE /\ mem' = Loaded(mem, i)
          /\ valid' = Validated(i)
          /\ lock' = IF ok THEN [lock EXCEPT ![i] = p] ELSE lock
          /\ IF ok THEN To(p, [st[p] EXCEPT !.pc = "locked"]) ELSE Return(p, <<i>>)
          /\ UNCHANGED <<disk, ref, ents, panicked>>

(* The new inode is locked and linked; full: a dirlink() had no disk block. *)
create_new(p, full) ==
  LET i == st[p].ip
      dp == st[p].cur
      isdir == st[p].type = T_DIR
  IN
  /\ Locking(p, "create_new", i)
  /\ IF NoType(i)
     THEN panic
     ELSE /\ valid' = Validated(i)
          /\ IF full
             THEN /\ iupdate(i :> [Inode(i) EXCEPT !.nlink = 0])
                  /\ lock' = [lock EXCEPT ![dp] = NoProc]
                  /\ Return(p, <<i, dp>>)
                  /\ UNCHANGED ents
             ELSE /\ iupdate(i :> [Inode(i) EXCEPT !.nlink = 1]
                             @@ dp :> Linked(dp, IF isdir THEN 1 ELSE 0))
                  /\ ents' = [ents EXCEPT ![dp][st[p].name] = i,
                                          ![i][DotDot] = IF isdir THEN dp ELSE NoInum]
                  /\ lock' = [lock EXCEPT ![dp] = NoProc, ![i] = p]
                  /\ To(p, [st[p] EXCEPT !.pc = "locked", !.cur = i, !.ip = NoInum,
                                         !.puts = <<dp>>])
          /\ UNCHANGED <<ref, panicked>>

(* sys_open() without O_CREATE. *)
open_ilock(p, rdonly) ==
  LET i == st[p].cur
      refuse == Inode(i).type = T_DIR /\ ~rdonly
  IN
  /\ Found(p, i)
  /\ IF NoType(i)
     THEN panic
     ELSE /\ mem' = Loaded(mem, i)
          /\ valid' = Validated(i)
          /\ lock' = IF refuse THEN lock ELSE [lock EXCEPT ![i] = p]
          /\ IF refuse
             THEN Return(p, <<i>>)
             ELSE To(p, [st[p] EXCEPT !.pc = "locked", !.type = T_FILE])
          /\ UNCHANGED <<disk, ref, ents, panicked>>

(* With ip locked: open() fills a file and a descriptor, or fails for want   *)
(* of one or for a device without driver; mkdir() is done.      *)
open_file(p, fails) ==
  LET i == st[p].cur
      close == st[p].type # T_FILE \/ st[p].open # NoInum \/ fails
  IN
  /\ Ready(p, "locked")
  /\ lock' = [lock EXCEPT ![i] = NoProc]
  /\ To(p, IF close THEN Leave(st[p], "idle", <<i>>) ELSE Idle(st[p].cwd, i, st[p].calls))
  /\ UNCHANGED <<disk, mem, valid, ref, ents, panicked>>

-----------------------------------------------------------------------------
(* sys_unlink() once nameiparent() has found dp. *)
unlink_lookup(p) ==
  LET dp == st[p].cur
      i == dirlookup(dp, st[p].name)
      bad == st[p].name \in {Dot, DotDot} \/ i = NoInum
  IN
  /\ Locking(p, "parent", dp) /\ st[p].ip = NoInum
  /\ IF NotDir(dp) \/ (~bad /\ TableFull(i))
     THEN panic
     ELSE /\ mem' = Loaded(mem, dp)
          /\ IF bad
             THEN Return(p, <<dp>>) /\ valid' = Validated(dp) /\ UNCHANGED <<ref, lock>>
             ELSE /\ ref' = [ref EXCEPT ![i] = @ + 1]
                  /\ valid' = Got(dp, i)
                  /\ lock' = [lock EXCEPT ![dp] = p]
                  /\ To(p, [st[p] EXCEPT !.pc = "unlink_entry", !.ip = i])
          /\ UNCHANGED <<disk, ents, panicked>>

Removable(i) == Inode(i).type = T_DIR => isdirempty(i)

(* With dp and ip locked. *)
unlink_entry(p) ==
  LET dp == st[p].cur
      i == st[p].ip
  IN
  /\ Locking(p, "unlink_entry", i)
  /\ IF NoType(i) \/ Inode(i).nlink < 1
     THEN panic            \* ilock: no type; unlink: nlink < 1
     ELSE /\ valid' = Validated(i)
          /\ IF ~Removable(i)
             THEN /\ mem' = Loaded(mem, i)
                  /\ lock' = [lock EXCEPT ![dp] = NoProc]
                  /\ Return(p, <<i, dp>>)
                  /\ UNCHANGED <<disk, ents>>
             ELSE /\ iupdate(i :> Inode(i)
                             @@ dp :> Linked(dp, IF Inode(i).type = T_DIR THEN -1 ELSE 0))
                  /\ ents' = [ents EXCEPT ![dp][st[p].name] = NoInum]
                  /\ lock' = [lock EXCEPT ![dp] = NoProc, ![i] = p]
                  /\ To(p, [st[p] EXCEPT !.pc = "unlink_done", !.cur = NoInum, !.puts = <<dp>>])
          /\ UNCHANGED <<ref, panicked>>

unlink_done(p) ==
  LET i == st[p].ip IN
  /\ Ready(p, "unlink_done")
  /\ iupdate(i :> Linked(i, -1))
  /\ lock' = [lock EXCEPT ![i] = NoProc]
  /\ Return(p, <<i>>)
  /\ UNCHANGED <<valid, ref, ents, panicked>>

LinkAhead_Not(i) == Inode(i)

LinkAhead(i) == Linked(i, 1)

(* sys_link(): ip->nlink++ before there is a name for it ... *)
link_count(p) ==
  LET i == st[p].cur IN
  /\ Found(p, i)
  /\ IF NoType(i)
     THEN panic
     ELSE /\ valid' = Validated(i)
          /\ IF Inode(i).type = T_DIR
             THEN Return(p, <<i>>) /\ mem' = Loaded(mem, i) /\ UNCHANGED disk
             ELSE /\ iupdate(i :> LinkAhead(i))
                  /\ To(p, [st[p] EXCEPT !.pc = "link_new", !.ip = i, !.cur = NoInum])
          /\ UNCHANGED <<ref, lock, ents, panicked>>

link_new(p) ==
  Ready(p, "link_new") /\ \E i \in {ROOTINO, st[p].cwd} : namex(p, i)

(* ... then dirlink() under the lock of dp; full: no disk block for it ... *)
link_entry(p, full) ==
  LET dp == st[p].cur
      old == dirlookup(dp, st[p].name)
  IN
  /\ Locking(p, "parent", dp) /\ st[p].ip # NoInum
  /\ IF NotDir(dp) \/ (old # NoInum /\ TableFull(old))
     THEN panic
     ELSE /\ mem' = Loaded(mem, dp)
          /\ valid' = Validated(dp)
          /\ IF old # NoInum \/ full
             THEN To(p, Leave(st[p], "link_bad", <<dp>>)) /\ UNCHANGED ents
             ELSE /\ ents' = [ents EXCEPT ![dp][st[p].name] = st[p].ip]
                  /\ Return(p, <<dp, st[p].ip>>)
          /\ UNCHANGED <<disk, ref, lock, panicked>>

(* ... or the link is taken back. *)
link_bad(p) ==
  LET i == st[p].ip IN
  /\ Locking(p, "link_bad", i)
  /\ iupdate(i :> Linked(i, -1))
  /\ Return(p, <<i>>)
  /\ UNCHANGED <<valid, ref, lock, ents, panicked>>

(* sys_chdir() *)
chdir_ilock(p) ==
  LET i == st[p].cur IN
  /\ Found(p, i)
  /\ IF NoType(i)
     THEN panic
     ELSE /\ mem' = Loaded(mem, i)
          /\ valid' = Validated(i)
          /\ IF Inode(i).type = T_DIR
             THEN To(p, [st[p] EXCEPT !.pc = "chdir_done", !.puts = <<st[p].cwd>>])
             ELSE Return(p, <<i>>)
          /\ UNCHANGED <<disk, ref, lock, ents, panicked>>

chdir_done(p) ==
  /\ Ready(p, "chdir_done")
  /\ To(p, Idle(st[p].cur, st[p].open, st[p].calls))
  /\ UNCHANGED <<inodes, panicked>>

(* The last close() of a file. *)
sys_close(p) ==
  /\ Ready(p, "idle") /\ st[p].open # NoInum
  /\ To(p, [Idle(st[p].cwd, NoInum, st[p].calls) EXCEPT !.puts = <<st[p].open>>])
  /\ UNCHANGED <<inodes, panicked>>

(* filestat(), fileread() and filewrite() lock the inode of an open file. *)
filestat(p) ==
  /\ Locking(p, "idle", st[p].open)
  /\ IF ref[st[p].open] < 1 \/ NoType(st[p].open)
     THEN panic            \* ilock
     ELSE UNCHANGED vars

-----------------------------------------------------------------------------
(* A directory has been made in "/" of mkfs's image, and every process is in *)
(* one of the two.                                                           *)
Init ==
  LET dirs == {ROOTINO, ROOTINO + 1} IN
  \E n \in Names, cwd \in [Procs -> dirs] :
  /\ disk = [i \in Inums |->
              IF i \in dirs
              THEN [type |-> T_DIR, nlink |-> IF i = ROOTINO THEN 2 ELSE 1]
              ELSE FreeDinode]
  /\ ref = [i \in Inums |-> Cardinality({p \in Procs : cwd[p] = i})]
  /\ valid = [i \in Inums |-> ref[i] > 0]
  /\ mem = [i \in Inums |-> IF valid[i] THEN disk[i] ELSE FreeDinode]
  /\ lock = [i \in Inums |-> NoProc]
  /\ ents = [i \in Inums |->
              IF i = ROOTINO THEN [NoEnts EXCEPT ![DotDot] = ROOTINO, ![n] = ROOTINO + 1]
              ELSE [NoEnts EXCEPT ![DotDot] = IF i \in dirs THEN ROOTINO ELSE NoInum]]
  /\ st = [p \in Procs |-> Idle(cwd[p], NoInum, MaxCalls)]
  /\ panicked = FALSE

Step(p) ==
  \/ begin_lookup(p)
  \/ Walk(p) \/ Put(p)
  \/ \E type \in {T_FILE, T_DIR} : create(p, type)
  \/ \E b \in BOOLEAN : create_new(p, b) \/ open_ilock(p, b) \/ open_file(p, b) \/ link_entry(p, b)
  \/ create_found(p)
  \/ unlink_lookup(p) \/ unlink_entry(p) \/ unlink_done(p)
  \/ link_count(p) \/ link_new(p) \/ link_bad(p)
  \/ chdir_ilock(p) \/ chdir_done(p)
  \/ sys_close(p)
  \/ st[p].open # NoInum /\ filestat(p)

(* No call is in progress, or panic() loops. *)
Stopped == panicked \/ \A p \in Procs : Ready(p, "idle")

Next == (\E p \in Procs : Step(p)) \/ (Stopped /\ UNCHANGED vars)

Spec == Init /\ [][Next]_vars

-----------------------------------------------------------------------------
TypeOK ==
  /\ \A i \in Inums :
       /\ {disk[i].nlink, mem[i].nlink, ref[i]} \subseteq Nat
       /\ {disk[i].type, mem[i].type} \subseteq {T_NONE, T_DIR, T_FILE}
       /\ lock[i] \in Procs \cup {NoProc}
       /\ ents[i] \in [Names \cup {DotDot} -> Inums \cup {NoInum}]
  /\ \A p \in Procs : {st[p].cwd, st[p].open, st[p].cur, st[p].ip} \subseteq Inums \cup {NoInum}

(* No panic of ilock(), iget(), dirlookup() or unlink is reached, and the    *)
(* acquiresleep() of iput() under itable.lock never has to wait.             *)
NoPanic == ~panicked

(* ip->ref is the number of pointers to the entry: current directories, open *)
(* files and the locals of calls in progress.                                *)
RefsMatchPointers ==
  \A i \in Inums : ref[i] =
    Cardinality({<<p, v>> \in Procs \X {"cur", "ip", "open"} : st[p][v] = i})
    + Cardinality({p \in Procs : st[p].cwd = i /\ st[p].pc # "chdir_done"})
    + Cardinality({<<p, k>> \in Procs \X (1..2) : k <= Len(st[p].puts) /\ st[p].puts[k] = i})

(* i is being freed by an iput() that has not dropped its reference yet. *)
BeingFreed(i) == \E p \in Procs : st[p].put # "test" /\ Head(st[p].puts) = i

(* No inode is freed on the disk while somebody has a pointer to it.         *)
ReferencedStayAllocated ==
  \A i \in Inums : ref[i] > 0 /\ ~BeingFreed(i) => disk[i].type # T_NONE

Entries(i) == {e \in Inums \X Names : ents[e[1]][e[2]] = i}

Subdirs(i) == {n \in Names : ents[i][n] # NoInum /\ disk[ents[i][n]].type = T_DIR}

(* A name never leads to a free inode, and nlink never falls below the names *)
(* and subdirectories that count on it, whatever unlink(), link() and        *)
(* create() of other processes have half done.                               *)
NamesCounted ==
  \A i \in Inums :
    /\ Entries(i) # {} => disk[i].type # T_NONE
    /\ disk[i].nlink >= Cardinality(Entries(i)) + Cardinality(Subdirs(i))

(* Outside of a locked section a valid in-memory inode is what the disk has, *)
(* also when ialloc() takes an inode that an iput() has not let go of.       *)
CopiesAgree == \A i \in Inums : valid[i] /\ CanLock(i) => mem[i] = disk[i]

=============================================================================
