----------------------------- MODULE PipeProofs -----------------------------
(***************************************************************************)
(* Proofs about Pipe: PipeInv is an inductive invariant, so nobody sleeps  *)
(* without a reason, and the ring buffer implements PipeFifo, for every    *)
(* number of processes, PIPESIZE and width of the counters.                *)
(***************************************************************************)
EXTENDS Pipe, TLAPS

-----------------------------------------------------------------------------
(* Arithmetic modulo the counters' range and modulo the ring's size. *)

(* Quotient and remainder. *)
LEMMA DivMod ==
  ASSUME NEW a \in Int, NEW m \in Nat \ {0}
  PROVE  /\ a % m \in 0..(m - 1)
         /\ a \div m \in Int
         /\ a = (a \div m) * m + (a % m)
OBVIOUS

(* The remainder is the only number below m at its distance from a multiple. *)
LEMMA ModUnique ==
  ASSUME NEW m \in Nat \ {0}, NEW q \in Int, NEW s \in Int,
         NEW r \in 0..(m - 1), NEW t \in 0..(m - 1),
         q * m + r = s * m + t
  PROVE  r = t
<1>1. CASE q = s
  BY <1>1
<1>2. CASE q > s
  <2>1. (q - s) * m >= m
    BY <1>2
  <2> QED BY <2>1
<1>3. CASE q < s
  <2>1. (s - q) * m >= m
    BY <1>3
  <2> QED BY <2>1
<1> QED BY <1>1, <1>2, <1>3

LEMMA ModIs ==
  ASSUME NEW m \in Nat \ {0}, NEW q \in Int, NEW r \in 0..(m - 1),
         NEW a \in Int, a = q * m + r
  PROVE  a % m = r
<1>1. /\ a % m \in 0..(m - 1)
      /\ a \div m \in Int
      /\ a = (a \div m) * m + (a % m)
  BY DivMod
<1>2. \A x \in Int : \A u \in 0..(m - 1) : q * m + r = x * m + u => r = u
  BY ModUnique
<1> QED BY <1>1, <1>2

(* A difference or sum of two counters wraps at most once. *)
LEMMA Wraps ==
  ASSUME NEW m \in Nat \ {0}, NEW a \in (0 - m)..(2 * m - 1)
  PROVE  a % m = IF a < 0 THEN a + m ELSE IF a < m THEN a ELSE a - m
<1>1. CASE a < 0
  <2>1. a + m \in 0..(m - 1) /\ a = (0 - 1) * m + (a + m)
    BY <1>1
  <2>2. \A q \in Int : \A r \in 0..(m - 1) : a = q * m + r => a % m = r
    BY ModIs
  <2> QED BY <1>1, <2>1, <2>2
<1>2. CASE a >= 0 /\ a < m
  <2>1. a \in 0..(m - 1) /\ a = 0 * m + a
    BY <1>2
  <2>2. \A q \in Int : \A r \in 0..(m - 1) : a = q * m + r => a % m = r
    BY ModIs
  <2> QED BY <1>2, <2>1, <2>2
<1>3. CASE a >= m
  <2>1. a - m \in 0..(m - 1) /\ a = 1 * m + (a - m)
    BY <1>3
  <2>2. \A q \in Int : \A r \in 0..(m - 1) : a = q * m + r => a % m = r
    BY ModIs
  <2> QED BY <1>3, <2>1, <2>2
<1> QED BY <1>1, <1>2, <1>3

(* nread and nwrite, one step or one difference of them at a time. *)
LEMMA CounterWraps ==
  \A a \in Int :
    0 - UINT <= a /\ a < 2 * UINT =>
      a % UINT = IF a < 0 THEN a + UINT ELSE IF a < UINT THEN a ELSE a - UINT
<1>1. UINT \in Nat \ {0}
  BY PipeConstants
<1>2. \A m \in Nat \ {0} : \A a \in (0 - m)..(2 * m - 1) :
        a % m = IF a < 0 THEN a + m ELSE IF a < m THEN a ELSE a - m
  BY Wraps
<1>3. \A a \in (0 - UINT)..(2 * UINT - 1) :
        a % UINT = IF a < 0 THEN a + UINT ELSE IF a < UINT THEN a ELSE a - UINT
  BY <1>1, <1>2
<1>4. \A a \in Int : 0 - UINT <= a /\ a < 2 * UINT => a \in (0 - UINT)..(2 * UINT - 1)
  BY <1>1
<1> QED BY <1>3, <1>4

(* Counting modulo UINT and then modulo PIPESIZE is counting modulo PIPESIZE: *)
(* the counters may overflow since PIPESIZE divides their range.              *)
LEMMA SlotOfWrapped ==
  ASSUME NEW a \in Nat
  PROVE  (a % UINT) % PIPESIZE = a % PIPESIZE
<1> DEFINE r == a % UINT
           q == a \div UINT
           w == UINT \div PIPESIZE
<1>0. PIPESIZE \in Nat \ {0} /\ UINT \in Nat \ {0} /\ UINT % PIPESIZE = 0
  BY PipeConstants
<1>1. r \in Nat /\ q \in Int /\ a = q * UINT + r
  BY <1>0, DivMod
<1>2. w \in Int /\ UINT = w * PIPESIZE
  BY <1>0, DivMod
<1> DEFINE k == r \div PIPESIZE
           s == r % PIPESIZE
<1>3. s \in 0..(PIPESIZE - 1) /\ k \in Int /\ r = k * PIPESIZE + s
  BY <1>0, <1>1, DivMod
<1> HIDE DEF r, q, w, k, s
<1>4. q * UINT = (q * w) * PIPESIZE
  BY <1>0, <1>1, <1>2
<1>5. a = (q * w + k) * PIPESIZE + s /\ q * w + k \in Int
  BY <1>0, <1>1, <1>2, <1>3, <1>4
<1>6. \A x \in Int : a = x * PIPESIZE + s => a % PIPESIZE = s
  BY <1>0, <1>3, ModIs
<1>7. a % PIPESIZE = s
  BY <1>5, <1>6
<1> QED BY <1>7 DEF r, s

(* Fewer than PIPESIZE steps apart, two positions have different slots. *)
LEMMA SlotsDiffer ==
  ASSUME NEW a \in Nat, NEW d \in 1..(PIPESIZE - 1)
  PROVE  (a + d) % PIPESIZE # a % PIPESIZE
<1>0. PIPESIZE \in Nat \ {0}
  BY PipeConstants
<1> DEFINE r == a % PIPESIZE
           q == a \div PIPESIZE
<1>1. r \in 0..(PIPESIZE - 1) /\ q \in Int /\ a = q * PIPESIZE + r
  BY <1>0, DivMod
<1> HIDE DEF r, q
<1>2. CASE r + d < PIPESIZE
  <2>1. r + d \in 0..(PIPESIZE - 1) /\ a + d = q * PIPESIZE + (r + d)
    BY <1>0, <1>1, <1>2
  <2>2. (a + d) % PIPESIZE = r + d
    BY <1>0, <1>1, <2>1, ModIs
  <2> QED BY <1>0, <1>1, <2>2 DEF r
<1>3. CASE r + d >= PIPESIZE
  <2> DEFINE x == q + 1
             y == a + d
             u == r + d - PIPESIZE
  <2>1. u \in 0..(PIPESIZE - 1) /\ x \in Int /\ y \in Int
    BY <1>0, <1>1, <1>3
  <2>2. y = x * PIPESIZE + u
    BY <1>0, <1>1
  <2> HIDE DEF x, y, u
  <2>3. y % PIPESIZE = u
    BY <1>0, <2>1, <2>2, ModIs
  <2> QED BY <1>0, <1>1, <2>3 DEF r, y, u
<1> QED BY <1>0, <1>1, <1>2, <1>3

-----------------------------------------------------------------------------
(* The bytes between the two counters. *)
Count == (nwrite - nread) % UINT

LEMMA CountIs ==
  ASSUME nread \in 0..(UINT - 1), nwrite \in 0..(UINT - 1)
  PROVE  /\ Count = IF nwrite >= nread THEN nwrite - nread ELSE nwrite - nread + UINT
         /\ Count \in 0..(UINT - 1)
         /\ Full <=> Count = PIPESIZE
         /\ Empty <=> Count = 0
<1>0. UINT \in Nat \ {0} /\ PIPESIZE \in Nat \ {0} /\ UINT > PIPESIZE
  BY PipeConstants
<1>1. nwrite - nread \in Int /\ 0 - UINT <= nwrite - nread /\ nwrite - nread < 2 * UINT
  BY <1>0
<1>2. Count = IF nwrite >= nread THEN nwrite - nread ELSE nwrite - nread + UINT
  BY <1>0, <1>1, CounterWraps DEF Count
<1>3. nread + PIPESIZE \in Int /\ 0 - UINT <= nread + PIPESIZE /\ nread + PIPESIZE < 2 * UINT
  BY <1>0
<1>4. (nread + PIPESIZE) % UINT =
        IF nread + PIPESIZE < UINT THEN nread + PIPESIZE ELSE nread + PIPESIZE - UINT
  BY <1>0, <1>3, CounterWraps
<1> QED BY <1>0, <1>2, <1>4 DEF Full, Empty

(* A byte goes in: the count grows by one. *)
LEMMA CountAfterWrite ==
  ASSUME TypeOK, ~Full, nwrite' = (nwrite + 1) % UINT, nread' = nread
  PROVE  /\ Count < PIPESIZE
         /\ nwrite' \in 0..(UINT - 1)
         /\ Count' = Count + 1
<1>0. UINT \in Nat \ {0} /\ PIPESIZE \in Nat \ {0} /\ UINT > PIPESIZE
  BY PipeConstants
<1>1. nread \in 0..(UINT - 1) /\ nwrite \in 0..(UINT - 1) /\ Count <= PIPESIZE
  BY DEF TypeOK, Count
<1>2. nwrite + 1 \in Int /\ 0 - UINT <= nwrite + 1 /\ nwrite + 1 < 2 * UINT
  BY <1>0, <1>1
<1>3. nwrite' = IF nwrite + 1 < UINT THEN nwrite + 1 ELSE nwrite + 1 - UINT
  BY <1>0, <1>1, <1>2, CounterWraps
<1>4. nwrite' \in 0..(UINT - 1)
  BY <1>0, <1>1, <1>3
<1>5. Count = IF nwrite >= nread THEN nwrite - nread ELSE nwrite - nread + UINT
  BY <1>1, CountIs
<1>6. nwrite' - nread' \in Int /\ 0 - UINT <= nwrite' - nread' /\ nwrite' - nread' < 2 * UINT
  BY <1>0, <1>1, <1>4
<1>7. Count' = IF nwrite' >= nread' THEN nwrite' - nread' ELSE nwrite' - nread' + UINT
  BY <1>0, <1>6, CounterWraps, <1>4, <1>1 DEF Count
<1>8. Count < PIPESIZE
  BY <1>0, <1>1, <1>5, CountIs
<1> QED BY <1>0, <1>1, <1>3, <1>4, <1>5, <1>7, <1>8

(* A byte comes out: the count shrinks by one. *)
LEMMA CountAfterRead ==
  ASSUME TypeOK, ~Empty, nread' = (nread + 1) % UINT, nwrite' = nwrite
  PROVE  /\ Count > 0
         /\ nread' = IF nread + 1 < UINT THEN nread + 1 ELSE nread + 1 - UINT
         /\ nread' \in 0..(UINT - 1)
         /\ Count' = Count - 1
<1>0. UINT \in Nat \ {0} /\ PIPESIZE \in Nat \ {0} /\ UINT > PIPESIZE
  BY PipeConstants
<1>1. nread \in 0..(UINT - 1) /\ nwrite \in 0..(UINT - 1)
  BY DEF TypeOK
<1>2. nread + 1 \in Int /\ 0 - UINT <= nread + 1 /\ nread + 1 < 2 * UINT
  BY <1>0, <1>1
<1>3. nread' = IF nread + 1 < UINT THEN nread + 1 ELSE nread + 1 - UINT
  BY <1>0, <1>1, <1>2, CounterWraps
<1>4. nread' \in 0..(UINT - 1)
  BY <1>0, <1>1, <1>3
<1>5. Count = IF nwrite >= nread THEN nwrite - nread ELSE nwrite - nread + UINT
  BY <1>1, CountIs
<1>6. nwrite' - nread' \in Int /\ 0 - UINT <= nwrite' - nread' /\ nwrite' - nread' < 2 * UINT
  BY <1>0, <1>1, <1>4
<1>7. Count' = IF nwrite' >= nread' THEN nwrite' - nread' ELSE nwrite' - nread' + UINT
  BY <1>0, <1>6, CounterWraps, <1>4, <1>1 DEF Count
<1> QED BY <1>0, <1>1, <1>3, <1>4, <1>5, <1>7 DEF Empty
-----------------------------------------------------------------------------
(* PipeInv is inductive: one lemma per conjunct, one step per action. *)

PCs == {"user", "enter", "loop", "copy", "sleep", "asleep", "done"}

(* wakeup() sends sleepers back to acquire() and moves nobody else. *)
LEMMA WokenIs ==
  ASSUME NEW S, pc \in [Procs -> PCs]
  PROVE  /\ Woken(S, pc) \in [Procs -> PCs]
         /\ \A q \in Procs : Woken(S, pc)[q] =
              IF q \in S /\ pc[q] = "asleep" THEN "enter" ELSE pc[q]
BY DEF Woken, PCs

LEMMA TypeStep ==
  ASSUME PipeInv, Next
  PROVE  TypeOK'
<1>0. /\ pc \in [Procs -> PCs] /\ \A S : Woken(S, pc) \in [Procs -> PCs]
      /\ TypeOK /\ CallInv /\ Count \in Nat /\ Count <= PIPESIZE
      /\ PIPESIZE \in Nat \ {0} /\ UINT \in Nat \ {0} /\ UINT > PIPESIZE /\ MAXN \in Nat
  BY WokenIs, PipeConstants, CountIs DEF PipeInv, TypeOK, PCs, Count
<1> USE <1>0
<1>1. ASSUME NEW p \in Procs, NEW m \in 0..MAXN, call(p, m) PROVE TypeOK'
  BY <1>1 DEF call, Goto, pipe, TypeOK
<1>2. ASSUME NEW p \in Procs, enter(p) PROVE TypeOK'
  BY <1>2 DEF enter, Goto, pipe, TypeOK
<1>3. ASSUME NEW p \in Procs, sleep(p) PROVE TypeOK'
  BY <1>3 DEF sleep, Goto, pipe, TypeOK
<1>4. ASSUME NEW p \in Procs, close(p) PROVE TypeOK'
  <2>1. pc' \in [Procs -> PCs]
    BY <1>4 DEF close, CloseWakes, PCs
  <2>2. readopen' \in BOOLEAN /\ writeopen' \in BOOLEAN
    BY <1>4 DEF close
  <2> QED BY <1>4, <2>1, <2>2 DEF close, TypeOK, PCs
<1>5. ASSUME NEW p \in Procs, kill(p) PROVE TypeOK'
  BY <1>5 DEF kill, pipe, TypeOK, PCs
<1>6. ASSUME NEW p \in Procs, write_fail(p) PROVE TypeOK'
  BY <1>6 DEF write_fail, Return, pipe, TypeOK
<1>7. ASSUME NEW p \in Procs, write_full(p) PROVE TypeOK'
  BY <1>7 DEF write_full, FullWakes, pipe, TypeOK, PCs
<1>8. ASSUME NEW p \in Procs, write_end(p) PROVE TypeOK'
  BY <1>8 DEF write_end, Return, pipe, TypeOK, PCs
<1>9. ASSUME NEW p \in Procs, NEW b \in Bytes, write_byte(p, b) PROVE TypeOK'
  <2>1. nwrite' \in 0..(UINT - 1) /\ Count' <= PIPESIZE
    BY <1>9, CountAfterWrite DEF write_byte
  <2>2. data' \in [0..(PIPESIZE - 1) -> Bytes]
    BY <1>9 DEF write_byte, TypeOK
  <2>3. i' \in [Procs -> 0..MAXN]
    BY <1>9 DEF write_byte, TypeOK
  <2> QED BY <1>9, <2>1, <2>2, <2>3 DEF write_byte, TypeOK, Count
<1>10. ASSUME NEW p \in Procs, read_empty(p) PROVE TypeOK'
  <2>1. CASE p \in killed
    <3>1. Return(p, pc) /\ UNCHANGED <<pipe, killed, open>>
      BY <1>10, <2>1 DEF read_empty
    <3> QED BY <3>1 DEF Return, pipe, TypeOK
  <2>2. CASE p \notin killed
    BY <1>10, <2>2 DEF read_empty, Goto, pipe, TypeOK
  <2> QED BY <2>1, <2>2
<1>11. ASSUME NEW p \in Procs, read_start(p) PROVE TypeOK'
  BY <1>11 DEF read_start, Goto, pipe, TypeOK
<1>12. ASSUME NEW p \in Procs, read_byte(p) PROVE TypeOK'
  <2>1. nread' \in 0..(UINT - 1) /\ Count' <= PIPESIZE
    BY <1>12, CountAfterRead DEF read_byte
  <2>2. i' \in [Procs -> 0..MAXN] /\ n' \in [Procs -> 0..MAXN]
    <3>1. CASE i' = [i EXCEPT ![p] = @ + 1] /\ UNCHANGED n
      BY <1>12, <3>1 DEF read_byte, TypeOK
    <3>2. CASE n' = [n EXCEPT ![p] = i[p]] /\ UNCHANGED i
      BY <1>12, <3>2 DEF read_byte, TypeOK
    <3> QED BY <1>12, <3>1, <3>2 DEF read_byte
  <2> QED BY <1>12, <2>1, <2>2 DEF read_byte, TypeOK, Count
<1>13. ASSUME NEW p \in Procs, read_end(p) PROVE TypeOK'
  BY <1>13 DEF read_end, ReadWakes, Return, pipe, TypeOK, PCs
<1>14. CASE Freed
  BY <1>14 DEF Freed, vars, pipe, TypeOK
<1> QED
  BY <1>1, <1>2, <1>3, <1>4, <1>5, <1>6, <1>7, <1>8, <1>9, <1>10, <1>11, <1>12, <1>13,
     <1>14 DEF Next

LEMMA CallStep ==
  ASSUME PipeInv, Next
  PROVE  CallInv'
<1>0. /\ pc \in [Procs -> PCs]
      /\ \A S : /\ Woken(S, pc) \in [Procs -> PCs]
                /\ \A q \in Procs : Woken(S, pc)[q] =
                     IF q \in S /\ pc[q] = "asleep" THEN "enter" ELSE pc[q]
      /\ i \in [Procs -> 0..MAXN] /\ n \in [Procs -> 0..MAXN]
      /\ CallInv /\ NoProc \notin Procs /\ MAXN \in Nat
      /\ Writers \cap Readers = {}
  BY WokenIs, PipeConstants DEF PipeInv, TypeOK, PCs
<1> USE <1>0 DEF CallInv
<1>1. ASSUME NEW p \in Procs, NEW m \in 0..MAXN, call(p, m) PROVE CallInv'
  BY <1>1 DEF call, Goto
<1>2. ASSUME NEW p \in Procs, enter(p) PROVE CallInv'
  BY <1>2 DEF enter, Goto
<1>3. ASSUME NEW p \in Procs, sleep(p) PROVE CallInv'
  BY <1>3 DEF sleep, Goto
<1>4. ASSUME NEW p \in Procs, close(p) PROVE CallInv'
  BY <1>4 DEF close, CloseWakes
<1>5. ASSUME NEW p \in Procs, kill(p) PROVE CallInv'
  BY <1>5 DEF kill
<1>6. ASSUME NEW p \in Procs, write_fail(p) PROVE CallInv'
  BY <1>6 DEF write_fail, Return
<1>7. ASSUME NEW p \in Procs, write_full(p) PROVE CallInv'
  BY <1>7 DEF write_full, FullWakes
<1>8. ASSUME NEW p \in Procs, write_end(p) PROVE CallInv'
  BY <1>8 DEF write_end, Return
<1>9. ASSUME NEW p \in Procs, NEW b \in Bytes, write_byte(p, b) PROVE CallInv'
  BY <1>9 DEF write_byte
<1>10. ASSUME NEW p \in Procs, read_empty(p) PROVE CallInv'
  BY <1>10 DEF read_empty, Return, Goto
<1>11. ASSUME NEW p \in Procs, read_start(p) PROVE CallInv'
  BY <1>11 DEF read_start, Goto
<1>12. ASSUME NEW p \in Procs, read_byte(p) PROVE CallInv'
  BY <1>12 DEF read_byte
<1>13. ASSUME NEW p \in Procs, read_end(p) PROVE CallInv'
  BY <1>13 DEF read_end, ReadWakes, Return
<1>14. CASE Freed
  BY <1>14 DEF Freed, vars
<1> QED
  BY <1>1, <1>2, <1>3, <1>4, <1>5, <1>6, <1>7, <1>8, <1>9, <1>10, <1>11, <1>12, <1>13,
     <1>14 DEF Next

LEMMA EndsStep ==
  ASSUME PipeInv, Next
  PROVE  EndsInv'
<1>0. EndsInv /\ Writers \cap Readers = {} /\ open \subseteq Procs
  BY PipeConstants DEF PipeInv, TypeOK
<1>1. ASSUME NEW p \in Procs, close(p) PROVE EndsInv'
  BY <1>0, <1>1 DEF close, EndsInv, Procs
<1>2. CASE readopen' = readopen /\ writeopen' = writeopen /\ open' = open
  BY <1>0, <1>2 DEF EndsInv
<1> QED
  BY <1>1, <1>2 DEF Next, call, enter, sleep, kill, write_fail, write_full, write_end,
     write_byte, read_empty, read_start, read_byte, read_end, Freed, pipe, vars

(* What both sleepers' invariants need to know of a step. *)
LEMMA SleeperFacts ==
  ASSUME PipeInv
  PROVE  /\ pc \in [Procs -> PCs]
         /\ \A S : /\ Woken(S, pc) \in [Procs -> PCs]
                   /\ \A q \in Procs : Woken(S, pc)[q] =
                        IF q \in S /\ pc[q] = "asleep" THEN "enter" ELSE pc[q]
         /\ NoProc \notin Procs /\ Writers \cap Readers = {}
         /\ lock \in Procs \cup {NoProc}
         /\ readopen \in BOOLEAN /\ writeopen \in BOOLEAN
         /\ \A p \in Procs : /\ lock = p <=> pc[p] \in {"loop", "copy", "sleep"}
                             /\ p \in open <=> pc[p] # "done"
         /\ EndsInv /\ ReaderInv /\ WriterInv
         /\ Procs = Writers \cup Readers
BY WokenIs, PipeConstants DEF PipeInv, TypeOK, PCs, CallInv, Procs

LEMMA ReaderStep ==
  ASSUME PipeInv, Next
  PROVE  ReaderInv'
<1> USE SleeperFacts DEF ReaderInv, Empty
<1>1. ASSUME NEW p \in Procs, NEW m \in 0..MAXN, call(p, m) PROVE ReaderInv'
  BY <1>1 DEF call, Goto, pipe
<1>2. ASSUME NEW p \in Procs, enter(p) PROVE ReaderInv'
  BY <1>2 DEF enter, Goto, pipe
<1>3. ASSUME NEW p \in Procs, sleep(p) PROVE ReaderInv'
  BY <1>3 DEF sleep, Goto, pipe
<1>4. ASSUME NEW p \in Procs, close(p) PROVE ReaderInv'
  BY <1>4 DEF close, CloseWakes
<1>5. ASSUME NEW p \in Procs, kill(p) PROVE ReaderInv'
  BY <1>5 DEF kill, pipe
<1>6. ASSUME NEW p \in Procs, write_fail(p) PROVE ReaderInv'
  BY <1>6 DEF write_fail, Return, pipe, EndsInv
<1>7. ASSUME NEW p \in Procs, write_full(p) PROVE ReaderInv'
  BY <1>7 DEF write_full, FullWakes, pipe
<1>8. ASSUME NEW p \in Procs, write_end(p) PROVE ReaderInv'
  BY <1>8 DEF write_end, Return, pipe
<1>9. ASSUME NEW p \in Procs, NEW b \in Bytes, write_byte(p, b) PROVE ReaderInv'
  BY <1>9 DEF write_byte
<1>10. ASSUME NEW p \in Procs, read_empty(p) PROVE ReaderInv'
  BY <1>10 DEF read_empty, Return, Goto, pipe
<1>11. ASSUME NEW p \in Procs, read_start(p) PROVE ReaderInv'
  BY <1>11 DEF read_start, Goto, pipe
<1>12. ASSUME NEW p \in Procs, read_byte(p) PROVE ReaderInv'
  BY <1>12 DEF read_byte
<1>13. ASSUME NEW p \in Procs, read_end(p) PROVE ReaderInv'
  BY <1>13 DEF read_end, ReadWakes, Return, pipe
<1>14. CASE Freed
  BY <1>14 DEF Freed, vars, pipe
<1> QED
  BY <1>1, <1>2, <1>3, <1>4, <1>5, <1>6, <1>7, <1>8, <1>9, <1>10, <1>11, <1>12, <1>13,
     <1>14 DEF Next

LEMMA WriterStep ==
  ASSUME PipeInv, Next
  PROVE  WriterInv'
<1> USE SleeperFacts DEF WriterInv, Full
<1>1. ASSUME NEW p \in Procs, NEW m \in 0..MAXN, call(p, m) PROVE WriterInv'
  BY <1>1 DEF call, Goto, pipe
<1>2. ASSUME NEW p \in Procs, enter(p) PROVE WriterInv'
  BY <1>2 DEF enter, Goto, pipe
<1>3. ASSUME NEW p \in Procs, sleep(p) PROVE WriterInv'
  BY <1>3 DEF sleep, Goto, pipe
<1>4. ASSUME NEW p \in Procs, close(p) PROVE WriterInv'
  <2>1. CASE p \in Readers /\ Readers \cap open = {p}
    <3>1. /\ lock = NoProc /\ p \notin Writers
          /\ pc' = [Woken(Writers, pc) EXCEPT ![p] = "done"]
      BY <1>4, <2>1 DEF close, CloseWakes
    <3>2. \A q \in Writers : pc'[q] \notin {"sleep", "asleep"}
      BY <3>1
    <3> QED BY <3>2
  <2>2. CASE ~(p \in Readers /\ Readers \cap open = {p})
    <3>1. /\ UNCHANGED <<readopen, nread, nwrite, lock>> /\ pc[p] = "user"
          /\ \E S \in {{}, Readers} : pc' = [Woken(S, pc) EXCEPT ![p] = "done"]
      <4>1. readopen' = readopen
        BY <1>4, <2>2 DEF close
      <4>2. Woken({}, pc) = pc
        BY DEF Woken
      <4> QED BY <1>4, <2>2, <4>1, <4>2 DEF close, CloseWakes
    <3> QED BY <3>1
  <2> QED BY <2>1, <2>2
<1>5. ASSUME NEW p \in Procs, kill(p) PROVE WriterInv'
  BY <1>5 DEF kill, pipe
<1>6. ASSUME NEW p \in Procs, write_fail(p) PROVE WriterInv'
  BY <1>6 DEF write_fail, Return, pipe
<1>7. ASSUME NEW p \in Procs, write_full(p) PROVE WriterInv'
  BY <1>7 DEF write_full, FullWakes, pipe
<1>8. ASSUME NEW p \in Procs, write_end(p) PROVE WriterInv'
  BY <1>8 DEF write_end, Return, pipe
<1>9. ASSUME NEW p \in Procs, NEW b \in Bytes, write_byte(p, b) PROVE WriterInv'
  BY <1>9 DEF write_byte
<1>10. ASSUME NEW p \in Procs, read_empty(p) PROVE WriterInv'
  BY <1>10 DEF read_empty, Return, Goto, pipe
<1>11. ASSUME NEW p \in Procs, read_start(p) PROVE WriterInv'
  BY <1>11 DEF read_start, Goto, pipe
<1>12. ASSUME NEW p \in Procs, read_byte(p) PROVE WriterInv'
  BY <1>12 DEF read_byte
<1>13. ASSUME NEW p \in Procs, read_end(p) PROVE WriterInv'
  BY <1>13 DEF read_end, ReadWakes, Return, pipe
<1>14. CASE Freed
  BY <1>14 DEF Freed, vars, pipe
<1> QED
  BY <1>1, <1>2, <1>3, <1>4, <1>5, <1>6, <1>7, <1>8, <1>9, <1>10, <1>11, <1>12, <1>13,
     <1>14 DEF Next

LEMMA InitInv ==
  ASSUME Init
  PROVE  PipeInv
<1>0. UINT \in Nat \ {0} /\ PIPESIZE \in Nat \ {0} /\ MAXN \in Nat /\ NoProc \notin Procs
  BY PipeConstants
<1>1. (nwrite - nread) % UINT = 0
  BY <1>0, CounterWraps DEF Init
<1>2. TypeOK
  BY <1>0, <1>1 DEF Init, TypeOK
<1>3. CallInv /\ EndsInv /\ ReaderInv /\ WriterInv
  BY <1>0 DEF Init, CallInv, EndsInv, ReaderInv, WriterInv, Procs
<1> QED BY <1>2, <1>3 DEF PipeInv

(* PipeInv holds at every step of every call, kill and close. *)
THEOREM PipeInvariant == Spec => []PipeInv
<1>1. PipeInv /\ [Next]_vars => PipeInv'
  <2> SUFFICES ASSUME PipeInv, [Next]_vars PROVE PipeInv'
    OBVIOUS
  <2>1. CASE Next
    BY <2>1, TypeStep, CallStep, EndsStep, ReaderStep, WriterStep DEF PipeInv
  <2>2. CASE UNCHANGED vars
    BY <2>2 DEF vars, pipe, PipeInv, TypeOK, CallInv, EndsInv, ReaderInv, WriterInv, Full, Empty
  <2> QED BY <2>1, <2>2
<1> QED BY <1>1, InitInv, PTL DEF Spec

(* Nobody sleeps in piperead() or pipewrite() without a reason.             *)
THEOREM PipeSleepersHaveReason == Spec => []SleepersHaveReason
<1>1. PipeInv => SleepersHaveReason
  BY PipeConstants DEF PipeInv, SleepersHaveReason, ReaderSleepsForReason,
     WriterSleepsForReason, ReaderInv, WriterInv, Procs
<1> QED BY <1>1, PipeInvariant, PTL

-----------------------------------------------------------------------------
(* Refinement: the ring buffer is the queue of PipeFifo. *)

(* The bytes from nread to nwrite, as a sequence. *)
QueueFacts ==
  /\ Queue \in Seq(Bytes)
  /\ Len(Queue) = Count
  /\ Count \in 0..PIPESIZE
  /\ \A k \in 1..Count : Queue[k] = data[(nread + k - 1) % PIPESIZE]

LEMMA QueueIs == TypeOK => QueueFacts
<1> SUFFICES ASSUME TypeOK PROVE QueueFacts
  OBVIOUS
<1>0. UINT \in Nat \ {0} /\ PIPESIZE \in Nat \ {0} /\ UINT > PIPESIZE
  BY PipeConstants
<1>1. /\ nread \in 0..(UINT - 1) /\ nwrite \in 0..(UINT - 1) /\ Count <= PIPESIZE
      /\ data \in [0..(PIPESIZE - 1) -> Bytes]
  BY DEF TypeOK, Count
<1>2. Count \in 0..PIPESIZE
  BY <1>0, <1>1, CountIs
<1>3. Queue = [k \in 1..Count |-> data[(nread + k - 1) % PIPESIZE]]
  BY DEF Queue, Count
<1>4. \A k \in 1..Count : data[(nread + k - 1) % PIPESIZE] \in Bytes
  <2> TAKE k \in 1..Count
  <2>1. nread + k - 1 \in Int
    BY <1>1, <1>2
  <2>2. (nread + k - 1) % PIPESIZE \in 0..(PIPESIZE - 1)
    BY <1>0, <2>1, DivMod
  <2> QED BY <1>1, <2>2
<1> QED BY <1>2, <1>3, <1>4 DEF QueueFacts

(* The slot that pipewrite() fills is the one behind the last byte. *)
LEMMA WriteSlot ==
  ASSUME TypeOK
  PROVE  nwrite % PIPESIZE = (nread + Count) % PIPESIZE
<1>0. UINT \in Nat \ {0} /\ PIPESIZE \in Nat \ {0} /\ UINT > PIPESIZE
  BY PipeConstants
<1>1. nread \in 0..(UINT - 1) /\ nwrite \in 0..(UINT - 1)
  BY DEF TypeOK
<1>2. /\ Count = IF nwrite >= nread THEN nwrite - nread ELSE nwrite - nread + UINT
      /\ Count \in 0..(UINT - 1)
  BY <1>1, CountIs
<1>3. nread + Count \in Nat /\ 0 - UINT <= nread + Count /\ nread + Count < 2 * UINT
  BY <1>0, <1>1, <1>2
<1>4. (nread + Count) % UINT = nwrite
  BY <1>0, <1>1, <1>2, <1>3, CounterWraps
<1> QED BY <1>3, <1>4, SlotOfWrapped

(* pipewrite() appends a byte, and overwrites none. *)
LEMMA WriteAppends ==
  ASSUME TypeOK, TypeOK', NEW p \in Procs, NEW b \in Bytes, write_byte(p, b)
  PROVE  /\ Len(Queue) < PIPESIZE
         /\ Queue' = Append(Queue, b)
<1>0. UINT \in Nat \ {0} /\ PIPESIZE \in Nat \ {0} /\ UINT > PIPESIZE
  BY PipeConstants
<1>1. /\ Count < PIPESIZE /\ Count' = Count + 1 /\ nread' = nread
      /\ data' = [data EXCEPT ![nwrite % PIPESIZE] = b]
  BY CountAfterWrite DEF write_byte
<1>2. /\ Queue \in Seq(Bytes) /\ Len(Queue) = Count /\ Count \in 0..PIPESIZE
      /\ \A k \in 1..Count : Queue[k] = data[(nread + k - 1) % PIPESIZE]
  BY QueueIs DEF QueueFacts
<1>3. /\ Queue' \in Seq(Bytes) /\ Len(Queue') = Count'
      /\ \A k \in 1..Count' : Queue'[k] = data'[(nread' + k - 1) % PIPESIZE]
  <2>1. QueueFacts'
    BY QueueIs, PTL
  <2> QED BY <2>1 DEF QueueFacts
<1>4. nread \in Nat /\ data \in [0..(PIPESIZE - 1) -> Bytes]
  BY <1>0 DEF TypeOK
<1>5. ASSUME NEW k \in 1..Count
      PROVE  Queue'[k] = Queue[k]
  <2>1. Count + 1 - k \in 1..(PIPESIZE - 1) \/ Count + 1 - k = PIPESIZE
    BY <1>0, <1>1, <1>2
  <2>2. Count + 1 - k \in 1..(PIPESIZE - 1)
    BY <1>0, <1>1, <1>2
  <2>3. nread + k - 1 \in Nat /\ nread + k - 1 + (Count + 1 - k) = nread + Count
    BY <1>2, <1>4
  <2>4. (nread + Count) % PIPESIZE # (nread + k - 1) % PIPESIZE
    BY <2>2, <2>3, SlotsDiffer
  <2>5. (nread + k - 1) % PIPESIZE \in 0..(PIPESIZE - 1)
    <3>1. nread + k - 1 \in Int
      BY <2>3
    <3> QED BY <1>0, <3>1, DivMod
  <2>6. data'[(nread + k - 1) % PIPESIZE] = data[(nread + k - 1) % PIPESIZE]
    BY <1>1, <1>4, <2>4, <2>5, WriteSlot
  <2> QED BY <1>1, <1>2, <1>3, <2>6
<1>6. Queue'[Count + 1] = b
  <2>1. Count + 1 \in 1..Count' /\ nread + (Count + 1) - 1 = nread + Count
    BY <1>1, <1>2, <1>4
  <2>2. Queue'[Count + 1] = data'[(nread + Count) % PIPESIZE]
    BY <1>1, <1>3, <2>1
  <2>3. nwrite % PIPESIZE \in 0..(PIPESIZE - 1)
    <3>1. nwrite \in Int
      BY <1>0 DEF TypeOK
    <3> QED BY <1>0, <3>1, DivMod
  <2> QED BY <1>1, <1>4, <2>2, <2>3, WriteSlot
<1> QED BY <1>1, <1>2, <1>3, <1>5, <1>6

(* piperead() takes the oldest byte. *)
LEMMA ReadTakesFirst ==
  ASSUME TypeOK, TypeOK', NEW p \in Procs, read_byte(p)
  PROVE  /\ Queue # <<>>
         /\ Queue' = Tail(Queue)
<1>0. UINT \in Nat \ {0} /\ PIPESIZE \in Nat \ {0} /\ UINT > PIPESIZE
  BY PipeConstants
<1>1. /\ Count > 0 /\ Count' = Count - 1 /\ nread' = (nread + 1) % UINT /\ data' = data
  BY CountAfterRead DEF read_byte
<1>2. /\ Queue \in Seq(Bytes) /\ Len(Queue) = Count /\ Count \in 0..PIPESIZE
      /\ \A k \in 1..Count : Queue[k] = data[(nread + k - 1) % PIPESIZE]
  BY QueueIs DEF QueueFacts
<1>3. /\ Queue' \in Seq(Bytes) /\ Len(Queue') = Count'
      /\ \A k \in 1..Count' : Queue'[k] = data'[(nread' + k - 1) % PIPESIZE]
  <2>1. QueueFacts'
    BY QueueIs, PTL
  <2> QED BY <2>1 DEF QueueFacts
<1>4. nread \in Nat /\ nread' \in Nat
  BY <1>0 DEF TypeOK
<1>5. ASSUME NEW k \in 1..Count'
      PROVE  Queue'[k] = Queue[k + 1]
  <2>1. k + 1 \in 1..Count /\ nread + (k + 1) - 1 = nread + k /\ nread + k \in Nat
    BY <1>1, <1>2, <1>4
  <2>2. nread' + k - 1 \in Nat
    BY <1>1, <1>2, <1>4
  <2>3. (nread' + k - 1) % PIPESIZE = (nread + k) % PIPESIZE
    <3>1. nread' = IF nread + 1 < UINT THEN nread + 1 ELSE nread + 1 - UINT
      BY CountAfterRead DEF read_byte
    <3>2. nread' + k - 1 \in {nread + k, nread + k - UINT}
      BY <1>0, <1>1, <1>2, <1>4, <3>1
    <3>3. CASE nread' + k - 1 = nread + k
      BY <3>3
    <3>4. CASE nread' + k - 1 = nread + k - UINT
      <4>1. /\ nread + k - UINT < UINT /\ 0 <= nread + k - UINT
            /\ 0 - UINT <= nread + k /\ nread + k < 2 * UINT
        BY <1>0, <1>1, <1>2, <1>4, <2>2, <3>4 DEF TypeOK
      <4>2. (nread + k) % UINT = nread + k - UINT
        BY <1>0, <1>4, <2>1, <4>1, CounterWraps
      <4> QED BY <2>1, <3>4, <4>2, SlotOfWrapped
    <3> QED BY <3>2, <3>3, <3>4
  <2>4. Queue'[k] = data[(nread + k) % PIPESIZE]
    BY <1>1, <1>3, <2>3
  <2>5. Queue[k + 1] = data[(nread + k) % PIPESIZE]
    BY <1>2, <2>1
  <2> QED BY <2>4, <2>5
<1>6. Queue # <<>>
  BY <1>1, <1>2
<1>7. /\ Tail(Queue) \in Seq(Bytes) /\ Len(Tail(Queue)) = Count - 1
      /\ \A k \in 1..(Count - 1) : Tail(Queue)[k] = Queue[k + 1]
  BY <1>1, <1>2, <1>6
<1> DEFINE old == Tail(Queue)
           new == Queue'
<1>8. /\ old \in Seq(Bytes) /\ new \in Seq(Bytes) /\ Len(old) = Len(new)
      /\ \A k \in 1..Len(new) : new[k] = old[k]
  BY <1>1, <1>2, <1>3, <1>5, <1>7
<1> HIDE DEF old, new
<1>9. new = old
  BY <1>8
<1> QED BY <1>6, <1>9 DEF old, new

(* What is not a byte written, a byte read or an end closed leaves the queue. *)
LEMMA QueueKept ==
  ASSUME UNCHANGED <<data, nread, nwrite>>
  PROVE  Queue' = Queue
BY DEF Queue

LEMMA FifoStep ==
  ASSUME PipeInv, PipeInv', [Next]_vars
  PROVE  [Fifo!Next]_<<Queue, readopen, writeopen>>
<1>0. /\ TypeOK /\ TypeOK' /\ CallInv /\ EndsInv /\ Writers \cap Readers = {}
      /\ readopen \in BOOLEAN /\ writeopen \in BOOLEAN
  BY PipeConstants DEF PipeInv, TypeOK
<1>1. ASSUME NEW p \in Procs, NEW b \in Bytes, write_byte(p, b) PROVE Fifo!Put(b)
  <2>1. readopen /\ writeopen
    BY <1>0, <1>1 DEF write_byte, CallInv, EndsInv
  <2> QED BY <1>0, <1>1, <2>1, WriteAppends DEF write_byte, Fifo!Put
<1>2. ASSUME NEW p \in Procs, read_byte(p) PROVE Fifo!Get
  <2>1. readopen
    BY <1>0, <1>2 DEF read_byte, CallInv, EndsInv
  <2> QED BY <1>0, <1>2, <2>1, ReadTakesFirst DEF read_byte, Fifo!Get
<1>3. ASSUME NEW p \in Procs, close(p)
      PROVE  Fifo!CloseRead \/ Fifo!CloseWrite \/ UNCHANGED <<Queue, readopen, writeopen>>
  <2>1. Queue' = Queue
    BY <1>3, QueueKept DEF close
  <2>2. CASE p \in Readers /\ Readers \cap open = {p}
    <3>1. readopen
      BY <1>0, <2>2 DEF EndsInv
    <3>2. readopen' = FALSE /\ writeopen' = writeopen
      BY <1>0, <1>3, <2>2 DEF close
    <3> QED BY <2>1, <3>1, <3>2 DEF Fifo!CloseRead
  <2>3. CASE p \in Writers /\ Writers \cap open = {p}
    <3>1. writeopen
      BY <1>0, <2>3 DEF EndsInv
    <3>2. writeopen' = FALSE /\ readopen' = readopen
      BY <1>0, <1>3, <2>3 DEF close
    <3> QED BY <2>1, <3>1, <3>2 DEF Fifo!CloseWrite
  <2>4. CASE /\ ~(p \in Readers /\ Readers \cap open = {p})
             /\ ~(p \in Writers /\ Writers \cap open = {p})
    BY <1>0, <1>3, <2>1, <2>4 DEF close, Procs
  <2> QED BY <2>2, <2>3, <2>4
<1>4. CASE UNCHANGED pipe
  BY <1>4, QueueKept DEF pipe
<1> QED
  BY <1>1, <1>2, <1>3, <1>4 DEF Next, call, enter, sleep, kill, write_fail, write_full,
     write_end, read_empty, read_start, read_end, Freed, vars, Fifo!Next

(* The ring buffer with its wrapping counters implements the bounded queue   *)
(* of PipeFifo: bytes come out of piperead() in the order pipewrite() put    *)
(* them in, none is lost, repeated or overwritten.                           *)
THEOREM PipeImplementsFifo == Spec => ImplementsFifo
<1>1. Init => Fifo!Init
  <2> SUFFICES ASSUME Init PROVE Fifo!Init
    OBVIOUS
  <2>1. TypeOK
    BY InitInv DEF PipeInv
  <2>2. Count = 0
    BY <2>1, CountIs DEF Init, TypeOK, Empty
  <2>3. Queue = <<>>
    BY <2>1, <2>2, QueueIs DEF QueueFacts
  <2> QED BY <2>3 DEF Init, Fifo!Init
<1>2. PipeInv /\ PipeInv' /\ [Next]_vars => [Fifo!Next]_<<Queue, readopen, writeopen>>
  BY FifoStep
<1> QED BY <1>1, <1>2, PipeInvariant, PTL DEF Spec, ImplementsFifo, Fifo!Spec
=============================================================================
