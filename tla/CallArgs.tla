----------------------------- MODULE CallArgs -----------------------------
(***************************************************************************)
(* What the kernel makes of two kinds of arguments: an address given by a  *)
(* program (fetchaddr of kernel/syscall.c), at the machine's word width,   *)
(* and a path (skipelem of kernel/fs.c), taken apart element by element as *)
(* namex does.                                                             *)
(***************************************************************************)
EXTENDS Integers, Sequences, SequencesExt, FiniteSetsExt

CONSTANTS WORDBITS, WORD,       \* width of an address; sizeof(uint64)
          MaxSize,              \* the largest p->sz
          PathChars, MaxPath,   \* paths
          DIRSIZ

VARIABLES path, fetched

CallArgsVars == <<path, fetched>>
NotFetched == [ok |-> FALSE, addr |-> 0, sz |-> 0]
CallArgsInit == path = <<>> /\ fetched = NotFetched

\* Seeded defect: the end tested alone, although it may wrap around.
fetchaddr_OneTest(addr, sz) == ~((addr + WORD) % 2^WORDBITS > sz)

fetchaddr(addr, sz) == ~(addr >= sz \/ (addr + WORD) % 2^WORDBITS > sz)

Fetch ==
  /\ fetched = NotFetched /\ path = <<>>
  /\ \E addr \in 0 .. 2^WORDBITS - 1, sz \in 0 .. MaxSize :
       fetched' = [ok |-> fetchaddr(addr, sz), addr |-> addr, sz |-> sz]
  /\ UNCHANGED path

AddPathChar(c) ==
  /\ fetched = NotFetched /\ Len(path) < MaxPath
  /\ path' = Append(path, c) /\ UNCHANGED fetched

CallArgsNext == Fetch \/ \E c \in PathChars : AddPathChar(c)

-----------------------------------------------------------------------------
PathAt(i) == IF i <= Len(path) THEN path[i] ELSE "nul"
PastSlashes(i) == Min({k \in i .. Len(path) + 1 : PathAt(k) # "/"})
PastElem(i) == Min({k \in i .. Len(path) + 1 : PathAt(k) \in {"/", "nul"}})

\* skipelem: the position behind the element at i and its slashes, or 0 for none,
\* and the name, cut at DIRSIZ.
skipelem(i) ==
  LET s == PastSlashes(i)
      e == PastElem(s)
  IN  IF PathAt(s) = "nul" THEN [next |-> 0, name |-> <<>>]
      ELSE [next |-> PastSlashes(e), name |-> SubSeq(path, s, Min({e - 1, s + DIRSIZ - 1}))]

\* The names namex goes through, each with whether it is the last (*path == 0).
RECURSIVE Elements(_)
Elements(i) ==
  LET r == skipelem(i)
  IN  IF r.next = 0 THEN <<>>
      ELSE <<[name |-> r.name, last |-> PathAt(r.next) = "nul"]>> \o Elements(r.next)

\* An address fetchaddr accepts has its whole word inside the process, also when
\* addr + 8 wraps around ("both tests needed, in case of overflow").
FetchInside == fetched.ok => fetched.addr + WORD <= fetched.sz

\* namex goes through exactly the maximal runs without a slash, in order, cut at
\* DIRSIZ, and takes the final one, and no other, for the last name: nameiparent
\* stops at the parent of that name, however many slashes follow.
ElementsOfPath ==
  LET first == {i \in DOMAIN path : PathAt(i) # "/" /\ (i = 1 \/ PathAt(i - 1) = "/")}
      q == SetToSortSeq(first, <)
  IN  Elements(1) = [k \in DOMAIN q |->
        [name |-> LET run == {j \in q[k] .. Len(path) : \A x \in q[k] .. j : PathAt(x) # "/"}
                  IN  SubSeq(path, q[k], Min({Max(run), q[k] + DIRSIZ - 1})),
         last |-> k = Len(q)]]

\* What the kernel takes from a program's arguments: fetchaddr() lets through words
\* inside the process only, and namex() sees the elements of the path.
ArgumentsSound == FetchInside /\ ElementsOfPath
=============================================================================
