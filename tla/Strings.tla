----------------------------- MODULE Strings -----------------------------
(***************************************************************************)
(* The memory and string functions of kernel/string.c and user/ulib.c, one *)
(* call on a small memory, byte by byte as their loops go.                 *)
(***************************************************************************)
EXTENDS Integers, Sequences, FiniteSetsExt

CONSTANTS MemSize, ByteValues      \* 0 is NUL

VARIABLES mem, called       \* memory; the call made, with memory as it was before

StringsVars == <<mem, called>>
Addr == 1 .. MemSize
NoCall == [f |-> "none"]
Put(m, d, v) == [m EXCEPT ![d] = v]

StringsInit == mem \in [Addr -> ByteValues] /\ called = NoCall

RECURSIVE CopyUp(_, _, _, _), CopyDown(_, _, _, _), Fill(_, _, _, _)
CopyUp(m, d, s, n) ==
  IF n = 0 THEN m ELSE CopyUp(Put(m, d, m[s]), d + 1, s + 1, n - 1)
CopyDown(m, d, s, n) ==
  IF n = 0 THEN m ELSE CopyDown(Put(m, d - 1, m[s - 1]), d - 1, s - 1, n - 1)
Fill(m, d, c, n) ==
  IF n <= 0 THEN m ELSE Fill(Put(m, d, c), d + 1, c, n - 1)

\* Seeded defect: the overlap test off by one.
memmove_Overlap(m, d, s, n) ==
  IF n = 0 THEN m
  ELSE IF s < d /\ s + n > d + 1 THEN CopyDown(m, d + n, s + n, n)
  ELSE CopyUp(m, d, s, n)

memmove(m, d, s, n) ==
  IF n = 0 THEN m
  ELSE IF s < d /\ s + n > d THEN CopyDown(m, d + n, s + n, n)
  ELSE CopyUp(m, d, s, n)

\* user/ulib.c has its own.
user_memmove(m, d, s, n) ==
  IF s > d THEN CopyUp(m, d, s, n) ELSE CopyDown(m, d + n, s + n, n)

memset(m, d, c, n) == Fill(m, d, c, n)

RECURSIVE strncpy(_, _, _, _), SafeCopy(_, _, _, _)
strncpy(m, s, t, n) ==
  IF n <= 0 THEN m
  ELSE IF m[t] = 0 THEN Fill(m, s, 0, n)
  ELSE strncpy(Put(m, s, m[t]), s + 1, t + 1, n - 1)

\* The loop of safestrcpy, with n already decremented, and the final *s = 0.
SafeCopy(m, s, t, n) ==
  IF n <= 0 THEN Put(m, s, 0)
  ELSE IF m[t] = 0 THEN Put(Put(m, s, 0), s + 1, 0)
  ELSE SafeCopy(Put(m, s, m[t]), s + 1, t + 1, n - 1)

safestrcpy(m, s, t, n) == IF n <= 0 THEN m ELSE SafeCopy(m, s, t, n - 1)

RECURSIVE memcmp(_, _, _, _), strncmp(_, _, _, _)
memcmp(m, p, q, n) ==
  IF n = 0 THEN 0
  ELSE IF m[p] # m[q] THEN m[p] - m[q] ELSE memcmp(m, p + 1, q + 1, n - 1)

strncmp(m, p, q, n) ==
  IF n = 0 THEN 0
  ELSE IF m[p] # 0 /\ m[p] = m[q] THEN strncmp(m, p + 1, q + 1, n - 1)
  ELSE m[p] - m[q]

\* Calls stay in memory: n bytes from each pointer, and apart for the copies of
\* strings (no caller overlaps them).
InMemory(p, n) == p + n - 1 <= MemSize
Apart(p, q, n) == p + n <= q \/ q + n <= p

Call(f, p, q, n, after, ret) ==
  /\ called = NoCall /\ InMemory(p, n) /\ InMemory(q, n)
  /\ mem' = after
  /\ called' = [f |-> f, p |-> p, q |-> q, n |-> n, was |-> mem, ret |-> ret]

StringsNext ==
  \E p, q \in Addr, n \in 0 .. MemSize :
    \/ Call("memmove", p, q, n, memmove(mem, p, q, n), 0)
    \/ Call("user_memmove", p, q, n, user_memmove(mem, p, q, n), 0)
    \/ q = 1 /\ \E c \in ByteValues : Call("memset", p, q, n, memset(mem, p, c, n), c)
    \/ Apart(p, q, n) /\ Call("strncpy", p, q, n, strncpy(mem, p, q, n), 0)
    \/ Apart(p, q, n) /\ Call("safestrcpy", p, q, n, safestrcpy(mem, p, q, n), 0)
    \/ Call("memcmp", p, q, n, mem, memcmp(mem, p, q, n))
    \/ Call("strncmp", p, q, n, mem, strncmp(mem, p, q, n))

-----------------------------------------------------------------------------
\* The k-th of the n bytes at p before the call, and the bytes before the NUL.
Was(p, k) == called.was[p + k]
Length(p, n) == Min({k \in 0 .. n : k = n \/ Was(p, k) = 0})
Untouched == \A a \in Addr : a \notin called.p .. (called.p + called.n - 1) => mem[a] = called.was[a]

\* memmove, in the kernel and in the library, leaves at dst the n bytes src had,
\* however the two overlap, and touches nothing else; memset fills as many.
MovesExact ==
  called.f \in {"memmove", "user_memmove", "memset"} =>
    /\ Untouched
    /\ \A k \in 0 .. called.n - 1 :
         mem[called.p + k] = IF called.f = "memset" THEN called.ret ELSE Was(called.q, k)

\* strncpy and safestrcpy write nothing outside the n bytes; the copy is the
\* string, cut at n (at n - 1 with a NUL, for safestrcpy), and strncpy clears the
\* rest, so that two directory entries of one name are equal bytes.
CopiesBounded ==
  LET len == Length(called.q, called.n)
      cut == IF called.f = "safestrcpy" /\ len = called.n THEN len - 1 ELSE len IN
  called.f \in {"strncpy", "safestrcpy"} /\ called.n > 0 =>
    /\ Untouched
    /\ \A k \in 0 .. cut - 1 : mem[called.p + k] = Was(called.q, k)
    /\ called.f = "safestrcpy" => mem[called.p + cut] = 0
    /\ called.f = "strncpy" => \A k \in cut .. called.n - 1 : mem[called.p + k] = 0

\* strncmp is 0 exactly for strings that agree up to n or their common end, and
\* otherwise has the sign of the first difference; memcmp the same for bytes.
ComparesFirstDifference ==
  called.f \in {"strncmp", "memcmp"} =>
    LET last == IF called.f = "memcmp" THEN called.n
                ELSE Min({called.n, Length(called.p, called.n) + 1})
        diff == {k \in 0 .. last - 1 : Was(called.p, k) # Was(called.q, k)}
    IN  called.ret = IF diff = {} THEN 0
                     ELSE Was(called.p, Min(diff)) - Was(called.q, Min(diff))

\* The functions of string.c and ulib.c do to memory what their names say.
StringsExact == MovesExact /\ CopiesBounded /\ ComparesFirstDifference
=============================================================================
