------------------------------- MODULE Mkfs -------------------------------
(***************************************************************************)
(* mkfs/mkfs.c: the image of the initial file system.  Files are appended  *)
(* a block at a time to inodes, the root directory grows by one entry for  *)
(* each, and the bitmap is written last from the one counter of used       *)
(* blocks.  A byte is tagged with its file and its offset; a directory     *)
(* entry is one unit, tagged with the inode it names.                      *)
(***************************************************************************)
EXTENDS Integers, Sequences, FiniteSets

CONSTANTS FSSIZE, NINODES, NLOGBLOCKS, IPB, BPB,        \* geometry
          BLOCK, NDIR, NINDIR,                          \* BSIZE, NDIRECT, NINDIRECT
          FileSizes, MaxFiles                           \* what is put in the image

VARIABLES img,          \* din: the inodes; disk: the blocks; freeinode, freeblock
          copying,      \* inode and bytes left of the file being copied
          mkstate       \* "copy", "done", or "died" on an assertion

MkfsVars == <<img, copying, mkstate>>
ROOT == 1
nbitmap == FSSIZE \div BPB + 1
ninodeblocks == NINODES \div IPB + 1
nmeta == 2 + NLOGBLOCKS + ninodeblocks + nbitmap
inodestart == 2 + NLOGBLOCKS
bmapstart == 2 + NLOGBLOCKS + ninodeblocks
ZeroBlock == [i \in 0 .. BLOCK - 1 |-> 0]
Blank == [size |-> 0, addrs |-> [i \in 0 .. NDIR |-> 0]]

ialloc(im) == [im EXCEPT !.freeinode = @ + 1, !.din = Append(@, Blank)]

\* freeblock++ for a null pointer.
Fresh(im, addr) == IF addr = 0 THEN <<im.freeblock, [im EXCEPT !.freeblock = @ + 1]>>
                   ELSE <<addr, im>>

\* Seeded defect: an indirect block already there is allocated again.
Locate_Again(im, inum, fbn) ==
  LET r == Fresh(im, IF fbn < NDIR THEN im.din[inum].addrs[fbn] ELSE 0)
      t == Fresh(r[2], r[2].disk[r[1]][0])
  IN  IF fbn < NDIR THEN <<r[1], [r[2] EXCEPT !.din[inum].addrs[fbn] = r[1]]>>
      ELSE <<t[1], [t[2] EXCEPT !.din[inum].addrs[NDIR] = r[1],
                                !.disk[r[1]][fbn - NDIR] = t[1]]>>

\* The block of file block fbn, allocated when missing, as <<block, image>>.
Locate(im, inum, fbn) ==
  IF fbn < NDIR
  THEN LET r == Fresh(im, im.din[inum].addrs[fbn])
       IN  <<r[1], [r[2] EXCEPT !.din[inum].addrs[fbn] = r[1]]>>
  ELSE LET r == Fresh(im, im.din[inum].addrs[NDIR])
           t == Fresh(r[2], r[2].disk[r[1]][fbn - NDIR])
       IN  <<t[1], [t[2] EXCEPT !.din[inum].addrs[NDIR] = r[1],
                                !.disk[r[1]][fbn - NDIR] = t[1]]>>

\* iappend's loop: as much as fits in the block at off, until n units are placed.
RECURSIVE iappend(_, _, _)
iappend(im, inum, units) ==
  LET off == im.din[inum].size
      fbn == off \div BLOCK
      at  == off % BLOCK
      r   == Locate(im, inum, fbn)
      end == (fbn + 1) * BLOCK - off
      n1  == IF Len(units) < end THEN Len(units) ELSE end
  IN  IF units = <<>> THEN im
      ELSE iappend([r[2] EXCEPT !.disk[r[1]] = [i \in 0 .. BLOCK - 1 |->
                                  IF i \in at .. at + n1 - 1
                                  THEN units[i - at + 1] ELSE @[i]],
                                !.din[inum].size = @ + n1],
                   inum, SubSeq(units, n1 + 1, Len(units)))

\* The assertion on fbn, and rsect of a block past the end of the image.
TooLong(im, inum, n) == n > 0 /\ (im.din[inum].size + n - 1) \div BLOCK >= NDIR + NINDIR
Overran(im) == im.freeblock > FSSIZE

\* main up to the files: zeroed blocks, the root directory with "." and "..".
MkfsInit ==
  /\ img = iappend(ialloc([din |-> <<>>, freeinode |-> 1, freeblock |-> nmeta, bitmap |-> {},
                           disk |-> [b \in 0 .. FSSIZE + 2 |-> ZeroBlock]]), ROOT, <<ROOT, ROOT>>)
  /\ copying = [inum |-> 0, left |-> 0] /\ mkstate = "copy"

\* The next file: an inode, and its entry in the root directory.
AddFile(size) ==
  LET inum == img.freeinode
      new  == iappend(ialloc(img), ROOT, <<inum>>) IN
  /\ mkstate = "copy" /\ copying.left = 0 /\ inum <= MaxFiles + 1
  /\ IF TooLong(img, ROOT, 1) \/ Overran(new)
     THEN mkstate' = "died" /\ UNCHANGED <<img, copying>>
     ELSE img' = new /\ copying' = [inum |-> inum, left |-> size] /\ UNCHANGED mkstate

\* read(fd, buf, sizeof(buf)) and iappend of what it returned.
CopyBlock ==
  LET inum == copying.inum
      cc   == IF copying.left < BLOCK THEN copying.left ELSE BLOCK
      new  == iappend(img, inum, [k \in 1 .. cc |-> 100 * inum + img.din[inum].size + k]) IN
  /\ mkstate = "copy" /\ copying.left > 0
  /\ IF TooLong(img, inum, cc) \/ Overran(new)
     THEN mkstate' = "died" /\ UNCHANGED <<img, copying>>
     ELSE img' = new /\ copying' = [copying EXCEPT !.left = @ - cc] /\ UNCHANGED mkstate

\* balloc: the first `used` bits of the bitmap.
balloc_bits(used) == 0 .. used - 1

\* The root's size rounded up past its last entry, and the bitmap.
Finish ==
  /\ mkstate = "copy" /\ copying.left = 0
  /\ img' = [img EXCEPT !.din[ROOT].size = (@ \div BLOCK + 1) * BLOCK,
                        !.bitmap = balloc_bits(img.freeblock)]
  /\ mkstate' = "done" /\ UNCHANGED copying

MkfsNext == (\E n \in FileSizes : AddFile(n)) \/ CopyBlock \/ Finish

-----------------------------------------------------------------------------
\* An inode's blocks as the kernel's bmap finds them.
MkBmap(inum, fbn) ==
  LET a == img.din[inum].addrs
  IN  IF fbn < NDIR THEN a[fbn] ELSE IF a[NDIR] = 0 THEN 0 ELSE img.disk[a[NDIR]][fbn - NDIR]
InodeBlocks(inum) == ({MkBmap(inum, f) : f \in 0 .. NDIR + NINDIR - 1} \cup {img.din[inum].addrs[NDIR]}) \ {0}
Inodes == DOMAIN img.din

\* The finished image is one the kernel can work on: the blocks of the files are
\* distinct and in the data area, exactly the blocks in use are marked in the
\* bitmap, so balloc never gives out a block of a file, and inodes and bitmap fit
\* the blocks the superblock's layout has for them.
ImageConsistent ==
  mkstate = "done" =>
    /\ \A i, j \in Inodes : i # j => InodeBlocks(i) \cap InodeBlocks(j) = {}
    /\ img.bitmap = (0 .. nmeta - 1) \cup UNION {InodeBlocks(i) : i \in Inodes}
    /\ img.freeblock <= FSSIZE
    /\ \A i \in Inodes : InodeBlocks(i) \cap (0 .. nmeta - 1) = {}
    /\ \A i \in 0 .. NINODES - 1 : inodestart + i \div IPB < bmapstart
    /\ \A b \in 0 .. FSSIZE - 1 : bmapstart + b \div BPB < nmeta

\* Reading a file of the image through bmap gives the bytes copied into it, in
\* order, and the root directory names every file once.
ImageReadsBack ==
  /\ \A i \in Inodes \ {ROOT} : \A off \in 0 .. img.din[i].size - 1 :
       img.disk[MkBmap(i, off \div BLOCK)][off % BLOCK] = 100 * i + off + 1
  /\ \A i \in Inodes \ {ROOT} :
       Cardinality({off \in 0 .. img.din[ROOT].size - 1 :
                      /\ MkBmap(ROOT, off \div BLOCK) # 0
                      /\ img.disk[MkBmap(ROOT, off \div BLOCK)][off % BLOCK] = i}) = 1

\* The image mkfs writes is consistent and holds the files.
ImageSound == ImageConsistent /\ ImageReadsBack
=============================================================================
