------------------------------ MODULE FileData ------------------------------
(***************************************************************************)
(* Where the bytes of files are: kernel/fs.c's balloc, bfree, bmap,        *)
(* itrunc, readi and writei, and kernel/file.c's fileread and filewrite,   *)
(* which write in chunks under the inode's lock and share the offset of an *)
(* open file among processes.  Blocks are as the buffer cache shows them.  *)
(***************************************************************************)
EXTENDS Naturals, FiniteSets, FiniteSetsExt, Sequences, SequencesExt

CONSTANTS
  DataProcs,    \* processes that read and write
  OpenFiles,
  InodeOf,      \* the inode of each open file
  ByteAt,       \* what each process writes at each offset
  NDIRECT,
  BSIZE,        \* bytes in a block; a block number takes one of them
  Setups,       \* numbers of data blocks, and the files each process uses
  WRITEMAX,     \* filewrite()'s max
  Lengths       \* of write() and read()

VARIABLES
  fs,           \* the bitmap, the blocks, the addrs of each inode; got is the
                \* block number that balloc() or bmap() returns
  size,         \* ip->size
  offset,       \* f->off
  io,           \* per process: its place in a call, and the call's variables
  ilocked,      \* who holds each inode's lock
  content,      \* what each file holds, as one sequence of bytes
  setup,        \* the one of Setups that this is
  fdpanic

FileDataVars == <<fs, size, offset, io, ilocked, content, setup, fdpanic>>

NBLOCKS == setup.nblocks

NINDIRECT == BSIZE

MAXFILE == NDIRECT + NINDIRECT

DataInodes == {InodeOf[f] : f \in OpenFiles}

Zeroed == [k \in 0..(BSIZE - 1) |-> 0]

(* What a free block holds: here always the same. *)
Stale == [k \in 0..(BSIZE - 1) |-> 1]

-----------------------------------------------------------------------------
(* balloc(): the first free block, zeroed; 0 if there is none. *)
balloc(s) ==
  LET free == (1..NBLOCKS) \ s.bitmap IN
  IF free = {} THEN [s EXCEPT !.got = 0]
  ELSE [s EXCEPT !.bitmap = @ \cup {Min(free)}, !.disk[Min(free)] = Zeroed, !.got = Min(free)]

(* bmap() of a block number in ip->addrs[] ... *)
bmap_addr(s, i, a) ==
  IF s.addrs[i][a] # 0 THEN [s EXCEPT !.got = s.addrs[i][a]]
  ELSE LET t == balloc(s) IN IF t.got = 0 THEN t ELSE [t EXCEPT !.addrs[i][a] = t.got]

(* ... and of one in the indirect block ind. *)
bmap_indirect(s, ind, a) ==
  IF s.disk[ind][a] # 0 THEN [s EXCEPT !.got = s.disk[ind][a]]
  ELSE LET t == balloc(s) IN IF t.got = 0 THEN t ELSE [t EXCEPT !.disk[ind][a] = t.got]

bmap(s, i, bn) ==
  IF bn < NDIRECT THEN bmap_addr(s, i, bn)
  ELSE LET t == bmap_addr(s, i, NDIRECT) IN
       IF t.got = 0 THEN t ELSE bmap_indirect(t, t.got, bn - NDIRECT)

Indirect(s, i) ==
  IF s.addrs[i][NDIRECT] = 0 THEN {}
  ELSE {s.disk[s.addrs[i][NDIRECT]][a] : a \in 0..(NINDIRECT - 1)} \ {0}

Overlaid(c, p, at, n) ==
  [k \in 1..Max({Len(c), at + n}) |-> IF k \in (at + 1)..(at + n) THEN ByteAt[p][k - 1] ELSE c[k]]

-----------------------------------------------------------------------------
IOat(p, pc) == ~fdpanic /\ io[p].pc = pc

IOdone == [pc |-> "user", f |-> CHOOSE f \in OpenFiles : TRUE, left |-> 0, n1 |-> 0, tot |-> 0]

ilock(p, i) == ilocked[i] = {} /\ ilocked' = [ilocked EXCEPT ![i] = {p}]

(* fileread(): one call of readi(), outside of any transaction, where a     *)
(* block to be allocated would be a panic in log_write().                    *)
fileread(p, f, n) ==
  LET i == InodeOf[f]
      end == Min({size[i], offset[f] + n})
      blocks == {k \div BSIZE : k \in offset[f]..(end - 1)}
  IN
  /\ IOat(p, "user") /\ ilocked[i] = {}
  /\ offset[f] < end
  /\ IF \E bn \in blocks : bmap(fs, i, bn).bitmap # fs.bitmap
     THEN fdpanic' = TRUE /\ UNCHANGED offset
     ELSE offset' = [offset EXCEPT ![f] = end] /\ UNCHANGED fdpanic
  /\ UNCHANGED <<fs, size, io, ilocked, content>>

filewrite(p, f, n) ==
  /\ IOat(p, "user")
  /\ io' = [io EXCEPT ![p] = [IOdone EXCEPT !.pc = "chunk", !.f = f, !.left = n]]
  /\ UNCHANGED <<fs, size, offset, ilocked, content, fdpanic>>

(* A turn of filewrite(): begin_op(), ilock() and writei()'s tests. *)
filewrite_chunk(p) ==
  LET f == io[p].f
      i == InodeOf[f]
      n1 == Min({io[p].left, WRITEMAX})
  IN
  /\ IOat(p, "chunk")
  /\ IF offset[f] > size[i] \/ offset[f] + n1 > MAXFILE * BSIZE
     THEN /\ ilocked[i] = {}
          /\ io' = [io EXCEPT ![p] = IOdone]
          /\ UNCHANGED ilocked
     ELSE /\ ilock(p, i)
          /\ io' = [io EXCEPT ![p].pc = "writei", ![p].n1 = n1, ![p].tot = 0]
  /\ UNCHANGED <<fs, size, offset, content, fdpanic>>

(* A turn of writei(): bmap(), then either_copyin(), which may stop halfway  *)
(* at a page that is not there and leave what it copied in the buffer.       *)
writei(p) ==
  LET f == io[p].f
      i == InodeOf[f]
      off == offset[f] + io[p].tot
      t == bmap(fs, i, off \div BSIZE)
      m == Min({io[p].n1 - io[p].tot, BSIZE - (off % BSIZE)})
      copied(k) == [t EXCEPT !.disk[t.got] =
                      [a \in 0..(BSIZE - 1) |->
                         IF a \in (off % BSIZE)..((off % BSIZE) + k - 1)
                         THEN ByteAt[p][off + a - (off % BSIZE)] ELSE @[a]]]
  IN
  /\ IOat(p, "writei") /\ io[p].tot < io[p].n1
  /\ IF off \div BSIZE >= MAXFILE
     THEN fdpanic' = TRUE /\ UNCHANGED <<fs, io, content>>
     ELSE IF t.got = 0
     THEN /\ fs' = t
          /\ io' = [io EXCEPT ![p].pc = "written"]
          /\ UNCHANGED <<content, fdpanic>>
     ELSE /\ \/ /\ fs' = [copied(m) EXCEPT !.got = 0]
                /\ content' = [content EXCEPT ![i] = Overlaid(@, p, off, m)]
                /\ io' = [io EXCEPT ![p].tot = @ + m]
             \/ \E k \in 0..(m - 1) :
                  /\ fs' = [copied(k) EXCEPT !.got = 0]
                  /\ content' = [content EXCEPT ![i] =
                                   SubSeq(Overlaid(@, p, off, k), 1, Len(@))]
                  /\ io' = [io EXCEPT ![p].pc = "written"]
          /\ UNCHANGED fdpanic
  /\ UNCHANGED <<size, offset, ilocked>>

Grown_Asked(p, i, off) == Max({size[i], off + io[p].n1})

(* ip->size after writei() of tot bytes at off. *)
Grown(p, i, off) == Max({size[i], off + io[p].tot})

(* writei() and the turn of filewrite() end. *)
filewrite_next(p) ==
  LET f == io[p].f
      i == InodeOf[f]
      tot == io[p].tot
      left == io[p].left - tot
  IN
  /\ \/ IOat(p, "written")
     \/ IOat(p, "writei") /\ tot = io[p].n1
  /\ size' = [size EXCEPT ![i] = Grown(p, i, offset[f])]
  /\ offset' = [offset EXCEPT ![f] = @ + tot]
  /\ ilocked' = [ilocked EXCEPT ![i] = {}]
  /\ io' = [io EXCEPT ![p] = IF tot # io[p].n1 \/ left = 0 THEN IOdone
                             ELSE [IOdone EXCEPT !.pc = "chunk", !.f = f, !.left = left]]
  /\ UNCHANGED <<fs, content, fdpanic>>

-----------------------------------------------------------------------------
Unmapped(s, i, as) == [s.addrs EXCEPT ![i] = [a \in 0..NDIRECT |-> IF a \in as THEN 0 ELSE @[a]]]

(* bfree() of blocks, which are then no longer in ip->addrs[]. *)
bfree(i, as, blocks) ==
  IF blocks \subseteq fs.bitmap
  THEN /\ fs' = [fs EXCEPT !.bitmap = @ \ blocks, !.addrs = Unmapped(fs, i, as),
                       !.disk = [b \in 1..NBLOCKS |-> IF b \in blocks THEN Stale ELSE @[b]]]
       /\ UNCHANGED fdpanic
  ELSE fdpanic' = TRUE /\ UNCHANGED fs

(* An open file is closed and the inode opened again. *)
reopen(p, f) ==
  /\ IOat(p, "user") /\ ilocked[InodeOf[f]] = {}
  /\ offset[f] # 0 /\ offset' = [offset EXCEPT ![f] = 0]
  /\ UNCHANGED <<fs, size, io, ilocked, content, fdpanic>>

(* open(O_TRUNC) of f's inode, f itself keeping its offset: itrunc() frees   *)
(* the direct blocks one by one, ...                                         *)
itrunc(p, f) ==
  /\ IOat(p, "user") /\ size[InodeOf[f]] > 0 /\ ilock(p, InodeOf[f])
  /\ io' = [io EXCEPT ![p] = [IOdone EXCEPT !.pc = "itrunc", !.f = f]]
  /\ UNCHANGED <<fs, size, offset, content, fdpanic>>

itrunc_direct(p) ==
  LET i == InodeOf[io[p].f]
      a == io[p].tot
  IN
  /\ IOat(p, "itrunc") /\ a < NDIRECT
  /\ bfree(i, {a}, {fs.addrs[i][a]} \ {0})
  /\ io' = [io EXCEPT ![p].tot = @ + 1]
  /\ UNCHANGED <<size, offset, ilocked, content>>

(* ... then those the indirect block names and the indirect block. *)
itrunc_indirect(p) ==
  LET i == InodeOf[io[p].f] IN
  /\ IOat(p, "itrunc") /\ io[p].tot = NDIRECT
  /\ bfree(i, {NDIRECT}, Indirect(fs, i) \cup ({fs.addrs[i][NDIRECT]} \ {0}))
  /\ size' = [size EXCEPT ![i] = 0]
  /\ content' = [content EXCEPT ![i] = <<>>]
  /\ ilocked' = [ilocked EXCEPT ![i] = {}]
  /\ io' = [io EXCEPT ![p] = IOdone]
  /\ UNCHANGED offset

-----------------------------------------------------------------------------
FileDataInit ==
  /\ setup \in Setups
  /\ fs = [bitmap |-> {}, disk |-> [b \in 1..NBLOCKS |-> Stale],
           addrs |-> [i \in DataInodes |-> [a \in 0..NDIRECT |-> 0]], got |-> 0]
  /\ size = [i \in DataInodes |-> 0]
  /\ offset = [f \in OpenFiles |-> 0]
  /\ io = [p \in DataProcs |-> IOdone]
  /\ ilocked = [i \in DataInodes |-> {}]
  /\ content = [i \in DataInodes |-> <<>>]
  /\ fdpanic = FALSE

FileDataNext ==
  /\ UNCHANGED setup
  /\ \E p \in DataProcs :
    \/ \E f \in setup.files[p] :
         reopen(p, f) \/ itrunc(p, f) \/ \E n \in Lengths : filewrite(p, f, n) \/ fileread(p, f, n)
    \/ filewrite_chunk(p) \/ writei(p) \/ filewrite_next(p)
    \/ itrunc_direct(p) \/ itrunc_indirect(p)

-----------------------------------------------------------------------------
FileDataTypeOK ==
  /\ fs.bitmap \subseteq 1..NBLOCKS /\ fs.got \in 0..NBLOCKS
  /\ \A i \in DataInodes : size[i] \in 0..(MAXFILE * BSIZE) /\ Len(content[i]) <= MAXFILE * BSIZE

(* bmap() stays in range, bfree() frees only blocks in use, and a read       *)
(* allocates nothing (blocks below ip->size are all there).                  *)
DataNoPanic == ~fdpanic

DataBlocks(i) == {fs.addrs[i][a] : a \in 0..(NDIRECT - 1)} \ {0}

(* The bitmap marks exactly the blocks that inodes lead to, each through     *)
(* one place, whatever write() failed for want of space or memory.           *)
BlocksOwnedOnce ==
  LET places(i) == {<<i, a>> : a \in {x \in 0..NDIRECT : fs.addrs[i][x] # 0}}
                   \cup {<<i, NDIRECT + 1, b>> : b \in Indirect(fs, i)}
      used(i) == DataBlocks(i) \cup Indirect(fs, i) \cup ({fs.addrs[i][NDIRECT]} \ {0})
  IN
  /\ fs.bitmap = UNION {used(i) : i \in DataInodes}
  /\ Cardinality(fs.bitmap) = Cardinality(UNION {places(i) : i \in DataInodes})

Byte(i, k) ==
  LET bn == k \div BSIZE
      b == IF bn < NDIRECT THEN fs.addrs[i][bn]
           ELSE fs.disk[fs.addrs[i][NDIRECT]][bn - NDIRECT]
  IN fs.disk[b][k % BSIZE]

(* A file nobody is at work on reads as the bytes that write() calls left in *)
(* it, through direct and indirect blocks, overwritten, extended, failed     *)
(* halfway and truncated.                                                    *)
ContentsAgree ==
  \A i \in DataInodes : ilocked[i] = {} =>
    /\ size[i] = Len(content[i])
    /\ \A k \in 0..(size[i] - 1) : Byte(i, k) = content[i][k + 1]

(* What two writers, failed copies, truncation and a full disk leave behind:  *)
(* no panic of fs.c, blocks with one owner each, and the bytes written.       *)
FilesSound == FileDataTypeOK /\ DataNoPanic /\ BlocksOwnedOnce /\ ContentsAgree
=============================================================================
