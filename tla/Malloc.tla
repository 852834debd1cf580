------------------------------ MODULE Malloc ------------------------------
(***************************************************************************)
(* The user-level allocator of user/umalloc.c: a circular free list of     *)
(* blocks, kept in address order and coalesced on every free, that grows   *)
(* with sbrk.  Addresses count headers (sizeof(Header) bytes each); the    *)
(* static `base`, an empty block, lies below the heap at address 0.        *)
(***************************************************************************)
EXTENDS Integers, FiniteSets

CONSTANTS HEAPEND,      \* where sbrk starts to fail
          CORE,         \* the least sbrk morecore asks for (4096 headers)
          HEADER,       \* sizeof(Header), in bytes
          Requests,     \* the byte counts malloc is called with
          Breaks        \* the headers the program itself may take with sbrk

VARIABLES heap,         \* ptr, size: the headers; freep (-1 when null); brk
          given,        \* the blocks the program holds
          taken         \* the units morecore has put into the arena

MallocVars == <<heap, given, taken>>
base == 0
Units == 0 .. HEAPEND

MallocInit ==
  /\ heap = [ptr |-> [a \in Units |-> base], size |-> [a \in Units |-> 0],
             freep |-> -1, brk |-> 1]
  /\ given = {} /\ taken = {}

Span(h, a) == a .. (a + h.size[a] - 1)

\* The walk of free: the list block after which bp belongs.
RECURSIVE FreeSlot(_, _, _)
FreeSlot(h, p, bp) ==
  IF \/ bp > p /\ bp < h.ptr[p]
     \/ p >= h.ptr[p] /\ (bp > p \/ bp < h.ptr[p])
  THEN p ELSE FreeSlot(h, h.ptr[p], bp)

\* A header that is absorbed, or handed out, is the program's memory from then
\* on: the model clears the words no code reads again.
JoinUpper(h, p, bp) ==
  LET nx == h.ptr[p] IN
  IF bp + h.size[bp] = nx
  THEN [h EXCEPT !.size = [@ EXCEPT ![bp] = @ + h.size[nx], ![nx] = 0],
                 !.ptr = [@ EXCEPT ![bp] = h.ptr[nx], ![nx] = base]]
  ELSE [h EXCEPT !.ptr[bp] = nx]

\* Seeded defect: the block below is never merged with the one freed.
JoinLower_Never(h, p, bp) == [h EXCEPT !.ptr[p] = bp]

JoinLower(h, p, bp) ==
  IF p + h.size[p] = bp
  THEN [h EXCEPT !.size = [@ EXCEPT ![p] = @ + h.size[bp], ![bp] = 0],
                 !.ptr = [@ EXCEPT ![p] = h.ptr[bp], ![bp] = base]]
  ELSE [h EXCEPT !.ptr[p] = bp]

free(h, bp) ==
  LET p == FreeSlot(h, h.freep, bp)
  IN  [JoinLower(JoinUpper(h, p, bp), p, bp) EXCEPT !.freep = p]

Ask(nu) == IF nu < CORE THEN CORE ELSE nu

\* sbrk as morecore uses it: the old break, or failure.
SbrkFails(h, nu) == h.brk + nu > HEAPEND

morecore(h, nu) ==
  LET hp == h.brk
  IN  free([h EXCEPT !.brk = @ + Ask(nu), !.size[hp] = Ask(nu)], hp)


\* Taking n units of block p: the whole of it, or its tail.
Carve(h, prevp, p, n) ==
  IF h.size[p] = n
  THEN [heap |-> [h EXCEPT !.ptr = [@ EXCEPT ![prevp] = h.ptr[p],
                                         ![p] = base], !.freep = prevp], got |-> p]
  ELSE LET t == p + h.size[p] - n
       IN  [heap |-> [h EXCEPT !.size = [@ EXCEPT ![p] = @ - n, ![t] = n],
                               !.freep = prevp],
            got |-> t]

RECURSIVE Search(_, _, _, _)
Search(h, prevp, p, n) ==
  IF h.size[p] >= n THEN Carve(h, prevp, p, n)
  ELSE IF p # h.freep THEN Search(h, p, h.ptr[p], n)
  ELSE IF SbrkFails(h, Ask(n)) THEN [heap |-> h, got |-> -1]
  ELSE LET g == morecore(h, n) IN Search(g, g.freep, g.ptr[g.freep], n)

nunits(nbytes) == (nbytes + HEADER - 1) \div HEADER + 1

Linked(h) ==
  IF h.freep # -1 THEN h
  ELSE [h EXCEPT !.freep = base, !.ptr[base] = base, !.size[base] = 0]

\* malloc: the first fit after freep, or memory from morecore.
malloc(nbytes) ==
  LET h == Linked(heap)
      r == Search(h, h.freep, h.ptr[h.freep], nunits(nbytes))
  IN  /\ heap' = r.heap
      /\ taken' = IF r.heap.brk = h.brk THEN taken
                  ELSE taken \cup h.brk .. (r.heap.brk - 1)
      /\ given' = IF r.got = -1 THEN given
                  ELSE given \cup {[at |-> r.got, bytes |-> nbytes]}

Free(b) ==
  /\ heap' = free(heap, b.at)
  /\ given' = given \ {b}
  /\ UNCHANGED taken

\* The program's own sbrk leaves a gap between two pieces of the arena.
Sbrk(n) ==
  /\ ~SbrkFails(heap, n)
  /\ heap' = [heap EXCEPT !.brk = @ + n]
  /\ UNCHANGED <<given, taken>>

MallocNext ==
  \/ \E n \in Requests : malloc(n)
  \/ \E b \in given : Free(b)
  \/ \E n \in Breaks : Sbrk(n)

-----------------------------------------------------------------------------
\* The blocks reached from base along the list, base included.
RECURSIVE Ring(_, _, _)
Ring(h, p, seen) == IF p \in seen THEN seen ELSE Ring(h, h.ptr[p], seen \cup {p})

FreeBlocks == IF heap.freep = -1 THEN {base} ELSE Ring(heap, base, {})
HeldBlocks == {b.at : b \in given}

\* The memory sbrk gave to the allocator is cut exactly into the blocks on the
\* free list and the blocks the program holds: nothing is in two blocks, and
\* nothing is lost (umalloc.c free, malloc).
ArenaPartitioned ==
  LET blocks == FreeBlocks \cup HeldBlocks
  IN  /\ FreeBlocks \cap HeldBlocks = {}
      /\ Cardinality(HeldBlocks) = Cardinality(given)
      /\ UNION {Span(heap, a) : a \in blocks} = taken
      /\ \A a, b \in blocks : a # b => Span(heap, a) \cap Span(heap, b) = {}

\* Every block handed out has room for the bytes asked for behind its header
\* (the rounding of malloc).
RoomForRequest ==
  \A b \in given : b.bytes <= (heap.size[b.at] - 1) * HEADER

\* The free list is one ring through base in address order, freep is on it, and
\* no two free blocks touch: free merges with both neighbours, so that memory
\* given back can be handed out again in larger pieces.
FreeListCoalesced ==
  heap.freep # -1 =>
    /\ heap.freep \in FreeBlocks
    /\ Cardinality({p \in FreeBlocks : heap.ptr[p] <= p}) = 1
    /\ \A p \in FreeBlocks \ {base} : p + heap.size[p] \notin FreeBlocks

\* After any calls of malloc() and free() the arena is cut into blocks without loss
\* or overlap, each large enough, the free ones merged.
HeapSound == ArenaPartitioned /\ RoomForRequest /\ FreeListCoalesced
=============================================================================
