--------------------------- MODULE LogSpaceProofs ---------------------------
(***************************************************************************)
(* Proofs about Log: the space that begin_op() reserves is enough, so that *)
(* log_write() never finds the log too full, for every number of processes *)
(* and blocks and every log geometry that leaves SpaceMargin.              *)
(***************************************************************************)
EXTENDS LogProofs

-----------------------------------------------------------------------------
(* Counting what the calls in progress have written. *)

(* A set of at most n elements can be numbered from 1..n. *)
LEMMA Numbered ==
  ASSUME NEW S, IsFiniteSet(S), NEW n \in Nat, Cardinality(S) <= n
  PROVE  \E f \in [S -> 1..n] : \A x, y \in S : f[x] = f[y] => x = y
<1> DEFINE c == Cardinality(S)
<1>1. c \in Nat /\ ExistsBijection(1..c, S)
  BY FS_CardinalityType
<1>2. PICK g \in [1..c -> S] : \A x \in S : \E k \in 1..c : g[k] = x
  BY <1>1 DEF ExistsBijection, Bijection, Surjection
<1> DEFINE f == [x \in S |-> CHOOSE k \in 1..c : g[k] = x]
<1>3. \A x \in S : f[x] \in 1..c /\ g[f[x]] = x
  BY <1>2
<1>4. 1..c \subseteq 1..n
  BY <1>1
<1>5. f \in [S -> 1..n]
  BY <1>3, <1>4
<1>6. \A x, y \in S : f[x] = f[y] => x = y
  BY <1>3
<1> QED BY <1>5, <1>6

(* Calls write at most OPBLOCKS blocks each. *)
WritesFacts ==
  /\ IsFiniteSet(Active) /\ outstanding = Cardinality(Active)
  /\ IsFiniteSet(Writes) /\ Cardinality(Writes) \in Nat
  /\ Cardinality(Writes) <= outstanding * OPBLOCKS

LEMMA WritesBounded == LogInv /\ CallSpaceInv => WritesFacts
<1> SUFFICES ASSUME LogInv, CallSpaceInv PROVE WritesFacts
  OBVIOUS
<1>0. OPBLOCKS \in Nat /\ IsFiniteSet(Procs)
  BY LogConstants
<1>1. Active \subseteq Procs /\ IsFiniteSet(Active) /\ outstanding = Cardinality(Active)
  BY <1>0, FS_Subset DEF Active, LogInv, OutstandingCounts
<1> DEFINE Numbering(p) ==
             {f \in [wrote[p] -> 1..OPBLOCKS] : \A x, y \in wrote[p] : f[x] = f[y] => x = y}
           num == [p \in Procs |-> CHOOSE f \in Numbering(p) : TRUE]
           T == Active \X (1..OPBLOCKS)
           h == [w \in Writes |-> <<w[1], num[w[1]][w[2]]>>]
<1>2. \A p \in Procs : Numbering(p) # {}
  BY <1>0, Numbered DEF CallSpaceInv
<1>3. \A p \in Procs : num[p] \in Numbering(p)
  BY <1>2
<1>4. \A p \in Procs : /\ num[p] \in [wrote[p] -> 1..OPBLOCKS]
                       /\ \A x, y \in wrote[p] : num[p][x] = num[p][y] => x = y
  BY <1>3
<1> HIDE DEF num
<1>5. h \in [Writes -> T]
  BY <1>1, <1>4 DEF Writes
<1>6. ASSUME NEW u \in Writes, NEW w \in Writes, h[u] = h[w] PROVE u = w
  <2>1. /\ u \in Active \X Blocks /\ u[2] \in wrote[u[1]]
        /\ w \in Active \X Blocks /\ w[2] \in wrote[w[1]]
    BY DEF Writes
  <2>2. u[1] = w[1] /\ num[u[1]][u[2]] = num[w[1]][w[2]]
    BY <1>6
  <2>3. u[2] = w[2]
    BY <1>1, <1>4, <2>1, <2>2
  <2> QED BY <2>1, <2>2, <2>3
<1> HIDE DEF h
<1>7. h \in Injection(Writes, T)
  BY <1>5, <1>6, Zenon DEF Injection, IsInjective
<1>8. IsFiniteSet(1..OPBLOCKS) /\ Cardinality(1..OPBLOCKS) = OPBLOCKS
  BY <1>0, FS_Interval
<1>9. IsFiniteSet(T) /\ Cardinality(T) = Cardinality(Active) * OPBLOCKS
  BY <1>1, <1>8, FS_Product
<1>10. IsFiniteSet(Writes) /\ Cardinality(Writes) <= Cardinality(T)
  BY <1>7, <1>9, FS_Injection
<1> QED BY <1>1, <1>9, <1>10, FS_CardinalityType DEF WritesFacts

(* Between transactions nothing is counted. *)
LEMMA NoCalls ==
  ASSUME LogInv, CallSpaceInv, Active = {}
  PROVE  \A p \in Procs : wrote[p] = {} /\ pc[p] \notin InOp
BY DEF CallSpaceInv, Active

(* A block that is logged stays logged while the transaction is open. *)
LEMMA LoggedGrows ==
  ASSUME lh \in Seq(Blocks), NEW b \in Blocks, lh' = lh \/ lh' = Append(lh, b)
  PROVE  /\ \A c : Logged(c) => Logged(c)'
         /\ lh' = Append(lh, b) => Logged(b)'
         /\ Len(lh') <= Len(lh) + 1
         /\ Len(lh) \in Nat /\ Len(lh') \in Nat
BY DEF Logged

-----------------------------------------------------------------------------
(* The reservation covers what log_write() is asked to add. *)
LEMMA RoomToLog ==
  ASSUME LogInv, SpaceInv, SpaceMargin, Active # {}
  PROVE  ~TooBig
<1>0. /\ MAXOPBLOCKS \in Nat \ {0} /\ OPBLOCKS \in Nat /\ LOGSIZE \in Nat /\ NLOG \in Nat
      /\ LOGSIZE >= MAXOPBLOCKS /\ OPBLOCKS < MAXOPBLOCKS /\ OPBLOCKS < NLOG - 1
      /\ LOGSIZE - 2 * (MAXOPBLOCKS - OPBLOCKS) < NLOG - 1
  BY LogConstants DEF SpaceMargin, Margin
<1> DEFINE k == outstanding
           w == Cardinality(Writes)
           len == Len(lh)
<1>1. w \in Nat /\ w <= k * OPBLOCKS /\ k = Cardinality(Active) /\ IsFiniteSet(Active)
  BY WritesBounded DEF SpaceInv, WritesFacts
<1>2. k \in Nat \ {0}
  BY <1>1, FS_EmptySet, FS_CardinalityType
<1>3. len \in Nat
  BY DEF LogInv, TypeOK
<1>4. /\ len + k * MAXOPBLOCKS <= LOGSIZE + w
      /\ k = 1 => len <= w \/ len + MAXOPBLOCKS + (MAXOPBLOCKS - OPBLOCKS) <= LOGSIZE + w
  BY <1>2 DEF SpaceInv, ReservationInv, Margin
<1> HIDE DEF k, w, len
<1>5. len < LOGSIZE /\ len < NLOG - 1
  <2>1. CASE k = 1
    BY <1>0, <1>1, <1>3, <1>4, <2>1
  <2>2. CASE k >= 2
    <3> DEFINE a == k * MAXOPBLOCKS
               b == k * OPBLOCKS
               m == k * (MAXOPBLOCKS - OPBLOCKS)
    <3>1. a \in Nat /\ b \in Nat /\ m \in Nat /\ a - b = m
      BY <1>0, <1>2
    <3>2. m >= 2 * (MAXOPBLOCKS - OPBLOCKS)
      BY <1>0, <1>2, <2>2
    <3>3. len + a <= LOGSIZE + w /\ w <= b
      BY <1>1, <1>4
    <3> HIDE DEF a, b, m
    <3> QED BY <1>0, <1>1, <1>3, <3>1, <3>2, <3>3
  <2> QED BY <1>2, <2>1, <2>2
<1> QED BY <1>0, <1>3, <1>5 DEF TooBig, len

-----------------------------------------------------------------------------
(* CallSpaceInv is inductive. *)

(* A step that logs nothing new leaves the accounts of the calls alone. *)
LEMMA CallSpaceKept ==
  ASSUME CallSpaceInv, wrote' = wrote, lh' = lh,
         \A q \in Procs : pc'[q] \notin InOp => pc[q] \notin InOp,
         \A q \in Procs, c \in Blocks :
            pc'[q] = "dirty" /\ holder'[c] = q => pc[q] = "dirty" /\ holder[c] = q
  PROVE  CallSpaceInv'
BY DEF CallSpaceInv, Logged

(* So does one that finds, or leaves, no call in progress. *)
LEMMA CallSpaceEmpty ==
  ASSUME \A q \in Procs : wrote'[q] = {} /\ pc'[q] \notin InOp
  PROVE  CallSpaceInv'
<1>1. IsFiniteSet({}) /\ Cardinality({}) = 0
  BY FS_EmptySet
<1> QED BY <1>1, LogConstants DEF CallSpaceInv, InOp

LEMMA CallSpaceStep ==
  ASSUME LogInv, SpaceInv, SpaceMargin, Next
  PROVE  CallSpaceInv'
<1>0. TypeOK /\ CallSpaceInv /\ BufferLockInv
  BY DEF LogInv, SpaceInv
<1>1. ASSUME NEW p \in Procs, begin_op(p) PROVE CallSpaceInv'
  <2>1. wrote' = wrote /\ lh' = lh /\ holder' = holder
    BY <1>1 DEF begin_op, local, cache
  <2>2. Move(p, {"user", "begin"}, {"asleep", "op"})
    BY <1>0, <1>1, Moves
  <2> QED BY <1>0, <2>1, <2>2, CallSpaceKept DEF Move, InOp
<1>2. CASE RoundNext
  <2>1. ASSUME NEW p \in Procs, NEW b \in Blocks, bread(p, b) PROVE CallSpaceInv'
    <3>1. wrote' = wrote /\ lh' = lh /\ holder' = [holder EXCEPT ![b] = p]
      BY <2>1 DEF bread, local, log
    <3>2. Move(p, {"op"}, {"held"}) \/ Move(p, {"user"}, {"reading"})
      BY <1>0, <2>1, Moves
    <3>3. \A q \in Procs, c \in Blocks :
             pc'[q] = "dirty" /\ holder'[c] = q => pc[q] = "dirty" /\ holder[c] = q
      BY <1>0, <3>1, <3>2 DEF Move, TypeOK
    <3>4. \A q \in Procs : pc'[q] \notin InOp => pc[q] \notin InOp
      BY <3>2 DEF Move, InOp
    <3> QED BY <1>0, <3>1, <3>3, <3>4, CallSpaceKept
  <2>2. ASSUME NEW p \in Procs, NEW b \in Blocks, brelse(p, b) PROVE CallSpaceInv'
    <3>1. wrote' = wrote /\ lh' = lh /\ holder' = [holder EXCEPT ![b] = NoProc]
      BY <2>2 DEF brelse, local, log
    <3>2. Move(p, {"held", "logged"}, {"op"}) \/ Move(p, {"reading"}, {"user"})
      BY <1>0, <2>2, Moves
    <3>3. \A q \in Procs, c \in Blocks :
             pc'[q] = "dirty" /\ holder'[c] = q => pc[q] = "dirty" /\ holder[c] = q
      BY <1>0, <3>1, <3>2, LogConstants DEF Move, TypeOK
    <3>4. \A q \in Procs : pc'[q] \notin InOp => pc[q] \notin InOp
      BY <3>2 DEF Move, InOp
    <3> QED BY <1>0, <3>1, <3>3, <3>4, CallSpaceKept
  <2>3. ASSUME NEW p \in Procs, NEW b \in Blocks, NEW v \in Values, modify(p, b, v)
        PROVE  CallSpaceInv'
    <3>1. /\ wrote' = wrote /\ lh' = lh /\ holder' = holder /\ holder[b] = p
          /\ Cardinality(wrote[p] \cup {b}) <= OPBLOCKS
      BY <2>3 DEF modify, local, log
    <3>2. Move(p, {"held"}, {"dirty"})
      BY <1>0, <2>3, Moves
    <3>3. \A c \in Blocks : holder[c] = p => c = b
      BY <1>0, <3>1, LogConstants DEF BufferLockInv
    <3>4. \A q \in Procs : /\ pc'[q] \notin InOp => pc[q] \notin InOp
                           /\ q # p /\ pc'[q] = "dirty" => pc[q] = "dirty"
      BY <3>2 DEF Move, InOp
    <3> QED BY <1>0, <3>1, <3>3, <3>4 DEF CallSpaceInv, Logged
  <2>4. ASSUME NEW p \in Procs, NEW b \in Blocks, log_write(p, b) PROVE CallSpaceInv'
    <3>1. p \in Active /\ pc[p] = "dirty" /\ holder[b] = p /\ holder' = holder
      BY <2>4, LogWrite
    <3>2. ~TooBig
      BY <3>1, RoomToLog
    <3>3. outstanding >= 1
      <4>1. Cardinality(Active) # 0 /\ Cardinality(Active) \in Nat
        BY <3>1, FS_EmptySet, FS_CardinalityType, WritesBounded DEF WritesFacts, SpaceInv
      <4> QED BY <4>1 DEF LogInv, OutstandingCounts
    <3>4. /\ lh' = IF Logged(b) THEN lh ELSE Append(lh, b)
          /\ wrote' = [wrote EXCEPT ![p] = @ \cup {b}]
          /\ Goto(p, "logged")
      <4>1. ~(TooBig \/ outstanding < 1)
        BY <1>0, <3>2, <3>3 DEF TypeOK
      <4> QED BY <2>4, <4>1 DEF log_write
    <3>5. Move(p, {"dirty"}, {"logged"})
      BY <1>0, <3>1, <3>4, GotoMoves DEF Move
    <3>6. /\ \A c : Logged(c) => Logged(c)'
          /\ Logged(b)'
      BY <1>0, <3>4, LoggedGrows DEF TypeOK, Logged
    <3>7. IsFiniteSet(wrote[p] \cup {b}) /\ Cardinality(wrote[p] \cup {b}) <= OPBLOCKS
      BY <1>0, <3>1, FS_AddElement DEF CallSpaceInv
    <3>8. /\ wrote'[p] = wrote[p] \cup {b} /\ pc'[p] = "logged"
          /\ \A q \in Procs \ {p} : /\ wrote'[q] = wrote[q]
                                    /\ pc'[q] \in InOp <=> pc[q] \in InOp
                                    /\ pc'[q] = "dirty" => pc[q] = "dirty"
      BY <1>0, <3>4, <3>5 DEF TypeOK, Move, InOp
    <3> QED BY <1>0, <3>1, <3>6, <3>7, <3>8 DEF CallSpaceInv, InOp
  <2>5. ASSUME NEW b \in Blocks, recycle(b) PROVE CallSpaceInv'
    BY <1>0, <2>5, CallSpaceKept DEF recycle, local, log
  <2> QED BY <1>2, <2>1, <2>2, <2>3, <2>4, <2>5 DEF RoundNext
<1>3. ASSUME NEW p \in Procs, end_op(p) PROVE CallSpaceInv'
  <2>1. /\ lh' = lh /\ holder' = holder
        /\ Move(p, {"op"}, {"write_log", "committed", "user"})
    BY <1>3, EndOp DEF cache
  <2>2. ~committing
    BY <1>3, EndOp
  <2>3. wrote' = [wrote EXCEPT ![p] = {}]
    BY <1>3, <2>2 DEF end_op
  <2>4. IsFiniteSet({}) /\ Cardinality({}) = 0
    BY FS_EmptySet
  <2>5. wrote'[p] = {} /\ pc'[p] # "dirty"
    BY <1>0, <2>1, <2>3 DEF TypeOK, Move
  <2>6. \A q \in Procs \ {p} : /\ wrote'[q] = wrote[q]
                               /\ pc'[q] \in InOp <=> pc[q] \in InOp
                               /\ pc'[q] = "dirty" => pc[q] = "dirty"
    BY <1>0, <2>1, <2>3 DEF TypeOK, Move, InOp
  <2>7. \A c : Logged(c)' <=> Logged(c)
    BY <2>1 DEF Logged
  <2>8. 0 <= OPBLOCKS
    BY LogConstants
  <2> QED BY <1>0, <2>1, <2>4, <2>5, <2>6, <2>7, <2>8 DEF CallSpaceInv
<1>4. ASSUME NEW p \in Procs, write_log(p) \/ write_head(p) \/ install_trans(p) \/ clear(p)
      PROVE  CallSpaceInv'
  <2>1. pc[p] \in Committing /\ Active' = Active
    BY <1>4, CommitSteps DEF CommitStep
  <2>2. Active = {}
    BY <2>1, OneCommitter
  <2>3. wrote' = wrote
    BY <1>4 DEF write_log, write_head, install_trans, clear, local
  <2> QED BY <1>0, <2>1, <2>2, <2>3, NoCalls, CallSpaceEmpty DEF Active
<1>5. ASSUME NEW p \in Procs, end_commit(p) PROVE CallSpaceInv'
  <2>1. wrote' = wrote
    BY <1>5 DEF end_commit, local
  <2> QED BY <1>0, <1>5, <2>1, EndCommit, NoCalls, CallSpaceEmpty DEF Active
<1>6. CASE Recover
  <2>1. wrote' = wrote
    BY <1>6 DEF Recover, recover_read_head, recover_install_trans, recover_clear, local
  <2>2. pc' = pc /\ Active = {}
    BY <1>6, RecoverSteps DEF Active, InOp
  <2> QED BY <1>0, <2>1, <2>2, NoCalls, CallSpaceEmpty
<1>7. CASE Crash
  BY <1>7, CrashStep, CallSpaceEmpty DEF Crash, InOp
<1> QED BY <1>1, <1>2, <1>3, <1>4, <1>5, <1>6, <1>7, NextCases

-----------------------------------------------------------------------------
(* ReservationInv is inductive. *)

LEMMA ReservationStep ==
  ASSUME LogInv, SpaceInv, SpaceMargin, Next, WritesFacts'
  PROVE  ReservationInv'
<1>0. TypeOK /\ CallSpaceInv /\ ReservationInv
  BY DEF LogInv, SpaceInv
<1> DEFINE w == Cardinality(Writes)
<1>a. WritesFacts /\ w \in Nat /\ w' \in Nat /\ outstanding \in Nat
  BY <1>0, WritesBounded DEF WritesFacts, TypeOK
<1>b. /\ MAXOPBLOCKS \in Nat \ {0} /\ OPBLOCKS \in Nat /\ LOGSIZE \in Nat
      /\ OPBLOCKS < MAXOPBLOCKS
  BY LogConstants DEF SpaceMargin
<1>c. Len(lh) \in Nat
  BY <1>0 DEF TypeOK
<1>1. ASSUME NEW p \in Procs, begin_op(p) PROVE ReservationInv'
  <2>1. lh' = lh /\ p \notin Active /\ wrote' = wrote
    BY <1>1, BeginOp DEF begin_op, local
  <2>2. CASE Active' = Active /\ outstanding' = outstanding
    <3>1. Writes' = Writes
      BY <2>1, <2>2 DEF Writes
    <3> QED BY <1>0, <2>1, <2>2, <3>1 DEF ReservationInv
  <2>3. CASE ~MustWait /\ outstanding' = outstanding + 1
    <3>1. ~committing /\ Len(lh) + outstanding' * MAXOPBLOCKS <= LOGSIZE
      BY <1>a, <1>b, <1>c, <2>3 DEF MustWait
    <3>2. Len(lh') + outstanding' * MAXOPBLOCKS <= LOGSIZE + w'
      BY <1>a, <1>b, <1>c, <2>1, <2>3, <3>1
    <3>3. ASSUME outstanding' = 1 PROVE Len(lh') <= w'
      <4>1. Active = {}
        BY <1>a, <2>3, <3>3, FS_EmptySet DEF WritesFacts
      <4>2. boot = "up"
        BY <1>1 DEF begin_op, At
      <4>3. lh = <<>>
        BY <3>1, <4>1, <4>2 DEF LogInv, OwnerInv
      <4> QED BY <1>a, <2>1, <4>3
    <3> QED BY <3>2, <3>3 DEF ReservationInv
  <2>4. MustWait => outstanding' = outstanding
    BY <1>1 DEF begin_op
  <2>5. ~MustWait => outstanding' = outstanding + 1
    BY <1>1 DEF begin_op
  <2>6. outstanding' = outstanding => Active' = Active
    BY <1>1, <1>a, BeginOp
  <2> QED BY <2>2, <2>3, <2>4, <2>5, <2>6
<1>2. CASE RoundNext
  <2>1. Active' = Active /\ outstanding' = outstanding
    BY <1>2, RoundsAre DEF RoundStep
  <2>2. CASE lh' = lh /\ wrote' = wrote
    <3>1. Writes' = Writes
      BY <2>1, <2>2 DEF Writes
    <3> QED BY <1>0, <2>1, <2>2, <3>1 DEF ReservationInv
  <2>3. ASSUME NEW p \in Procs, NEW b \in Blocks, log_write(p, b) PROVE ReservationInv'
    <3>1. p \in Active
      BY <2>3, LogWrite
    <3>2. ~(TooBig \/ outstanding < 1)
      <4>1. ~TooBig
        BY <3>1, RoomToLog
      <4>2. outstanding # 0
        BY <1>a, <3>1, FS_EmptySet DEF WritesFacts
      <4> QED BY <1>a, <4>1, <4>2
    <3>3. /\ lh' = IF Logged(b) THEN lh ELSE Append(lh, b)
          /\ wrote' = [wrote EXCEPT ![p] = @ \cup {b}]
      BY <2>3, <3>2 DEF log_write
    <3>4. CASE b \in wrote[p]
      <4>1. Logged(b)
        BY <1>0, <3>4 DEF CallSpaceInv
      <4>2. wrote' = wrote
        BY <1>0, <3>3, <3>4 DEF TypeOK
      <4> QED BY <2>2, <3>3, <4>1, <4>2
    <3>5. CASE b \notin wrote[p]
      <4>1. Writes' = Writes \cup {<<p, b>>} /\ <<p, b>> \notin Writes
        <5>1. \A q \in Procs : wrote'[q] = IF q = p THEN wrote[p] \cup {b} ELSE wrote[q]
          BY <1>0, <3>3 DEF TypeOK
        <5>2. Active \subseteq Procs
          BY DEF Active
        <5> QED BY <2>1, <3>1, <3>5, <5>1, <5>2 DEF Writes
      <4>2. w' = w + 1
        BY <1>a, <4>1, FS_AddElement DEF WritesFacts
      <4>3. Len(lh') \in Nat /\ Len(lh') <= Len(lh) + 1
        BY <1>0, <3>3, LoggedGrows DEF TypeOK
      <4> DEFINE a == outstanding * MAXOPBLOCKS
      <4>4. a \in Nat
        BY <1>a, <1>b
      <4>5. /\ outstanding > 0 => Len(lh) + a <= LOGSIZE + w
            /\ outstanding = 1 => Len(lh) <= w \/ Len(lh) + MAXOPBLOCKS + Margin <= LOGSIZE + w
        BY <1>0 DEF ReservationInv
      <4>6. Margin \in Nat
        BY <1>b DEF Margin
      <4> HIDE DEF a, w
      <4>7. /\ outstanding > 0 => Len(lh') + a <= LOGSIZE + w'
            /\ outstanding = 1 => Len(lh') <= w' \/ Len(lh') + MAXOPBLOCKS + Margin <= LOGSIZE + w'
        BY <1>a, <1>b, <1>c, <4>2, <4>3, <4>4, <4>5, <4>6
      <4> QED BY <2>1, <4>7 DEF ReservationInv, a, w
    <3> QED BY <3>4, <3>5
  <2> QED BY <1>2, <2>2, <2>3 DEF RoundNext, bread, brelse, modify, recycle, log, local
<1>3. ASSUME NEW p \in Procs, end_op(p) PROVE ReservationInv'
  <2>1. /\ lh' = lh /\ p \in Active /\ Active' = Active \ {p} /\ ~committing
        /\ outstanding' = outstanding - 1
    BY <1>3, EndOp
  <2>2. wrote' = [wrote EXCEPT ![p] = {}]
    BY <1>3, <2>1 DEF end_op
  <2> DEFINE mine == {p} \X wrote[p]
  <2>3. Writes \subseteq Writes' \cup mine
    <3>1. \A q \in Procs \ {p} : wrote'[q] = wrote[q]
      BY <1>0, <2>2 DEF TypeOK
    <3>2. Active \subseteq Procs
      BY DEF Active
    <3> QED BY <2>1, <3>1, <3>2 DEF Writes
  <2>4. IsFiniteSet(mine) /\ Cardinality(mine) <= OPBLOCKS /\ Cardinality(mine) \in Nat
    <3>1. IsFiniteSet(wrote[p]) /\ Cardinality(wrote[p]) <= OPBLOCKS
      BY <1>0 DEF CallSpaceInv
    <3>2. IsFiniteSet({p}) /\ Cardinality({p}) = 1
      BY FS_Singleton
    <3>3. IsFiniteSet(mine) /\ Cardinality(mine) = 1 * Cardinality(wrote[p])
      BY <3>1, <3>2, FS_Product
    <3> QED BY <3>1, <3>3, FS_CardinalityType
  <2> HIDE DEF mine
  <2>5. w <= w' + OPBLOCKS
    <3> DEFINE W2 == Writes'
               u == Cardinality(W2 \cup mine)
               i == Cardinality(W2 \cap mine)
    <3>1. IsFiniteSet(W2) /\ Cardinality(W2) = w' /\ W2 = Writes'
      BY DEF WritesFacts
    <3> HIDE DEF W2
    <3>2. /\ IsFiniteSet(W2 \cup mine)
          /\ u = Cardinality(W2) + Cardinality(mine) - i
      BY <2>4, <3>1, FS_Union
    <3>3. i \in Nat
      BY <2>4, <3>1, FS_Intersection, FS_CardinalityType
    <3>4. w <= u /\ u \in Nat
      BY <2>3, <3>1, <3>2, FS_Subset, FS_CardinalityType
    <3> QED BY <1>a, <1>b, <2>4, <3>1, <3>2, <3>3, <3>4
  <2>6. CASE outstanding' > 0
    <3> DEFINE a == outstanding * MAXOPBLOCKS
               a2 == outstanding' * MAXOPBLOCKS
    <3>1. a \in Nat /\ a2 \in Nat /\ a2 = a - MAXOPBLOCKS
      BY <1>a, <1>b, <2>1, <2>6
    <3>2. Len(lh) + a <= LOGSIZE + w
      BY <1>0, <1>a, <2>1, <2>6 DEF ReservationInv
    <3>3. outstanding' = 1 => a2 = MAXOPBLOCKS
      BY <1>b
    <3> HIDE DEF a, a2, w
    <3>4. /\ Len(lh') + a2 <= LOGSIZE + w'
          /\ outstanding' = 1 => Len(lh') + MAXOPBLOCKS + Margin <= LOGSIZE + w'
      <4> DEFINE l == Len(lh)
                 w2 == w'
      <4>1. l \in Nat /\ Len(lh') = l /\ w2 \in Nat /\ w \in Nat /\ w <= w2 + OPBLOCKS
        BY <1>a, <1>c, <2>1, <2>5
      <4>2. l + a <= LOGSIZE + w
        BY <3>2
      <4> HIDE DEF l, w2
      <4>3. l + a2 + (MAXOPBLOCKS - OPBLOCKS) <= LOGSIZE + w2
        BY <1>b, <3>1, <4>1, <4>2
      <4>4. l + a2 <= LOGSIZE + w2
        BY <1>b, <3>1, <4>1, <4>3
      <4> QED BY <3>3, <4>1, <4>3, <4>4 DEF Margin, w2
    <3> QED BY <3>4 DEF ReservationInv, a2, w
  <2>7. CASE ~(outstanding' > 0)
    BY <1>a, <2>1, <2>7 DEF ReservationInv
  <2> QED BY <2>6, <2>7
<1>4. CASE outstanding' = 0
  BY <1>4 DEF ReservationInv
<1>5. ASSUME NEW p \in Procs, write_log(p) \/ write_head(p) \/ install_trans(p) \/ clear(p)
      PROVE  outstanding' = 0
  <2>1. pc[p] \in Committing /\ outstanding' = outstanding
    BY <1>5, CommitSteps DEF CommitStep
  <2> QED BY <2>1, OneCommitter
<1> QED BY <1>1, <1>2, <1>3, <1>4, <1>5, NextCases, EndCommit, RecoverSteps, CrashStep

-----------------------------------------------------------------------------
(* The panic. *)

LEMMA NoTooBigStep ==
  ASSUME LogInv, SpaceInv, SpaceMargin, Next
  PROVE  NoTooBigPanic'
<1>0. NoTooBigPanic
  BY DEF SpaceInv
<1> USE DEF NoTooBigPanic
<1>1. ASSUME NEW p \in Procs, begin_op(p) PROVE NoTooBigPanic'
  BY <1>0, <1>1, BeginOp
<1>2. CASE RoundNext
  <2>1. ASSUME NEW p \in Procs, NEW b \in Blocks, log_write(p, b) PROVE NoTooBigPanic'
    <3>1. ~TooBig
      BY <2>1, LogWrite, RoomToLog
    <3> QED BY <1>0, <2>1, <3>1 DEF log_write, Panic
  <2>2. CASE panicked' = panicked
    BY <1>0, <2>2
  <2> QED BY <1>2, <2>1, <2>2 DEF RoundNext, bread, brelse, modify, recycle
<1>3. ASSUME NEW p \in Procs, end_op(p) PROVE NoTooBigPanic'
  BY <1>0, <1>3, EndOp
<1>4. ASSUME NEW p \in Procs, write_log(p) \/ write_head(p) \/ install_trans(p) \/ clear(p)
      PROVE  NoTooBigPanic'
  BY <1>0, <1>4, CommitSteps DEF CommitStep
<1>5. ASSUME NEW p \in Procs, end_commit(p) PROVE NoTooBigPanic'
  BY <1>0, <1>5, EndCommit
<1>6. CASE Recover
  BY <1>0, <1>6, RecoverSteps
<1>7. CASE Crash
  BY <1>7, CrashStep
<1> QED BY <1>1, <1>2, <1>3, <1>4, <1>5, <1>6, <1>7, NextCases

-----------------------------------------------------------------------------

LEMMA SpaceInit ==
  ASSUME Init
  PROVE  SpaceInv
<1>1. IsFiniteSet({}) /\ Cardinality({}) = 0
  BY FS_EmptySet
<1>2. \A p \in Procs : wrote[p] = {} /\ pc[p] = "user"
  BY DEF Init
<1>3. CallSpaceInv
  BY <1>1, <1>2, LogConstants DEF CallSpaceInv, InOp
<1>4. ReservationInv /\ NoTooBigPanic
  BY DEF Init, ReservationInv, NoTooBigPanic
<1> QED BY <1>3, <1>4 DEF SpaceInv

(* begin_op()'s test of the space, which counts MAXOPBLOCKS for every call  *)
(* and nothing for what log_write() tests before it absorbs a block, is     *)
(* enough: no call that writes fewer blocks than it reserves ever makes     *)
(* log_write() panic, in a log area of NLOG blocks that leaves the margin.  *)
THEOREM LogNeverTooBig == ASSUME SpaceMargin PROVE Spec => []NoTooBigPanic
<1>1. Init => SpaceInv
  BY SpaceInit
<1>2. LogInv /\ LogInv' /\ SpaceInv /\ [Next]_vars => SpaceInv'
  <2>1. ASSUME LogInv, LogInv', SpaceInv, Next PROVE SpaceInv'
    <3>1. CallSpaceInv' /\ NoTooBigPanic'
      BY <2>1, CallSpaceStep, NoTooBigStep
    <3>2. WritesFacts'
      BY <2>1, <3>1, WritesBounded, PTL
    <3> QED BY <2>1, <3>1, <3>2, ReservationStep DEF SpaceInv
  <2>2. ASSUME SpaceInv, UNCHANGED vars PROVE SpaceInv'
    BY <2>2 DEF SpaceInv, CallSpaceInv, ReservationInv, NoTooBigPanic, Writes, Active,
                Logged, vars, disk, cache, log, recovery, local
  <2> QED BY <2>1, <2>2
<1>3. SpaceInv => NoTooBigPanic
  BY DEF SpaceInv
<1> QED BY <1>1, <1>2, <1>3, LogInvariant, PTL DEF Spec
=============================================================================
