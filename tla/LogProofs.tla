----------------------------- MODULE LogProofs -----------------------------
(***************************************************************************)
(* Proofs about Log: the committer; LogInv is an inductive invariant, and  *)
(* what follows.                                                           *)
(***************************************************************************)
EXTENDS LogBufferProofs

(* The committer's progress. *)

(* CommitInv for one process, so that it can be shown for each in turn. *)
ProgressOf(p) ==
  /\ pc[p] \notin {"write_log", "install_trans"} => tail[p] = 1
  /\ pc[p] \in {"write_log", "write_head", "install_trans"} => tail[p] <= Len(lh)
  /\ pc[p] = "write_log" =>
       \A i \in 1..(tail[p] - 1) : logblk[i] = Content(lh[i])
  /\ pc[p] \in {"write_head", "install_trans", "clear"} =>
       \A i \in 1..Len(lh) : logblk[i] = Content(lh[i])
  /\ pc[p] = "install_trans" =>
       \A i \in 1..(tail[p] - 1) : home[lh[i]] = logblk[i]
  /\ pc[p] = "clear" => \A i \in 1..Len(lh) : home[lh[i]] = logblk[i]

LEMMA CommitInvIs ==
  /\ CommitInv <=> \A p \in Procs : ProgressOf(p)
  /\ CommitInv' <=> \A p \in Procs : ProgressOf(p)'
BY DEF CommitInv, ProgressOf

(* A process that is not committing has made no progress. *)
LEMMA IdleProgress ==
  ASSUME NEW p \in Procs, pc'[p] \notin Committing, tail'[p] = 1
  PROVE  ProgressOf(p)'
BY DEF ProgressOf, Committing

LEMMA IdleTail ==
  ASSUME LogInv, NEW p \in Procs, pc[p] \notin Committing
  PROVE  tail[p] = 1
BY DEF LogInv, CommitInv, Committing

(* What callers and readers do while a commit is under way. *)
LEMMA CallersKeepProgress ==
  ASSUME LogInv, CallerStep, lh' = lh, \A b \in Blocks : Content(b)' = Content(b)
  PROVE  CommitInv'
<1>1. \A i \in 1..Len(lh) : Content(lh[i])' = Content(lh[i])
  <2>1. \A i \in 1..Len(lh) : lh[i] \in Blocks
    BY DEF LogInv, TypeOK
  <2> QED BY <2>1 DEF Content
<1>2. ASSUME NEW p \in Procs PROVE ProgressOf(p)'
  <2>1. CASE pc[p] \notin Committing
    <3>1. pc'[p] \notin Committing /\ tail'[p] = 1
      BY <2>1, IdleTail DEF CallerStep
    <3> QED BY <3>1, IdleProgress
  <2>2. CASE pc[p] \in Committing
    <3>1. pc'[p] = pc[p] /\ tail' = tail /\ home' = home /\ logblk' = logblk /\ lh' = lh
      BY <2>2 DEF CallerStep
    <3>2. ProgressOf(p)
      BY CommitInvIs DEF LogInv
    <3>3. tail[p] \in Nat /\ Len(lh) \in Nat
      BY DEF LogInv, TypeOK
    <3>4. pc[p] \in {"write_log", "install_trans"} =>
             \A i \in 1..(tail[p] - 1) : i \in 1..Len(lh)
      BY <3>2, <3>3 DEF ProgressOf
    <3>5. \A i \in 1..Len(lh) : Content(lh[i])' = Content(lh[i])
      BY <1>1
    <3> QED BY <3>1, <3>2, <3>4, <3>5 DEF ProgressOf
  <2> QED BY <2>1, <2>2
<1> QED BY <1>2, CommitInvIs

LEMMA RoundKeepsContent ==
  ASSUME LogInv, RoundNext, NEW c \in Blocks
  PROVE  \/ Content(c)' = Content(c)
         \/ \E q \in Procs : pc[q] \in InOp
<1>0. TypeOK /\ CacheInv
  BY DEF LogInv
<1>1. ASSUME NEW p \in Procs, NEW b \in Blocks, bread(p, b) PROVE Content(c)' = Content(c)
  BY <1>0, <1>1, LogConstants DEF bread, Content, TypeOK, disk
<1>2. ASSUME NEW p \in Procs, NEW b \in Blocks, brelse(p, b) PROVE Content(c)' = Content(c)
  BY <1>2 DEF brelse, Content, disk
<1>3. ASSUME NEW b \in Blocks, recycle(b) PROVE Content(c)' = Content(c)
  <2>1. /\ buf' = [buf EXCEPT ![b] = NoBuf] /\ home' = home
        /\ pins[b] = 0 /\ holder[b] = NoProc /\ buf[b] # NoBuf
    BY <1>3 DEF recycle, Unused, Unlocked, disk
  <2>2. buf[b] = home[b]
    BY <1>0, <2>1 DEF CacheInv
  <2> QED BY <1>0, <2>1, <2>2 DEF Content, TypeOK
<1>4. ASSUME NEW p \in Procs, NEW b \in Blocks, log_write(p, b) PROVE pc[p] \in InOp
  BY <1>4 DEF log_write, At, InOp
<1>5. ASSUME NEW p \in Procs, NEW b \in Blocks, NEW v \in Values, modify(p, b, v)
      PROVE  pc[p] \in InOp
  BY <1>5 DEF modify, At, InOp
<1> QED BY <1>1, <1>2, <1>3, <1>4, <1>5 DEF RoundNext

(* When nobody commits before or after, there is no progress to speak of. *)
LEMMA NobodyCommits ==
  ASSUME LogInv, tail' = tail,
         \A q \in Procs : pc[q] \notin Committing /\ pc'[q] \notin Committing
  PROVE  CommitInv'
<1>1. \A q \in Procs : pc'[q] \notin Committing /\ tail'[q] = 1
  BY IdleTail
<1>2. \A q \in Procs : ProgressOf(q)'
  BY <1>1, IdleProgress
<1> QED BY <1>2, CommitInvIs

LEMMA ProgressStep ==
  ASSUME LogInv, Next
  PROVE  CommitInv'
<1>0. TypeOK
  BY DEF LogInv
(* It is enough to look at the committer. *)
<1>a. ASSUME NEW p \in Procs, pc[p] \in Committing, ProgressOf(p)',
             \A q \in Procs \ {p} : tail'[q] = tail[q],
             \A q \in Procs \ {p} : pc'[q] = pc[q] \/ (pc[q] = "asleep" /\ pc'[q] = "begin")
      PROVE  CommitInv'
  <2>1. ASSUME NEW q \in Procs \ {p} PROVE ProgressOf(q)'
    <3>1. pc[q] \notin Committing
      BY <1>a, OneCommitter
    <3>2. pc'[q] \notin Committing
      BY <1>a, <3>1 DEF Committing
    <3>3. tail'[q] = 1
      BY <1>a, <3>1, IdleTail
    <3> QED BY <3>2, <3>3, IdleProgress
  <2> QED BY <1>a, <2>1, CommitInvIs
<1>1. ASSUME NEW p \in Procs, begin_op(p) PROVE CommitInv'
  BY <1>1, BeginOp, CallersKeepProgress DEF cache, CallerStep, Content
<1>2. CASE RoundNext
  <2>1. CallerStep
    BY <1>2, RoundsAre DEF RoundStep
  <2>2. CASE \E q \in Procs : pc[q] \in InOp
    <3>1. \A q \in Procs : pc[q] \notin Committing
      BY <2>2, ActiveMeansNoCommit DEF Active
    <3>2. \A q \in Procs : pc'[q] \notin Committing
      BY <2>1, <3>1 DEF CallerStep
    <3> QED BY <2>1, <3>1, <3>2, NobodyCommits DEF CallerStep
  <2>3. CASE ~\E q \in Procs : pc[q] \in InOp
    <3>1. \A c \in Blocks : Content(c)' = Content(c)
      BY <1>2, <2>3, RoundKeepsContent
    <3>2. lh' = lh
      BY <1>2, <2>3, RoundKeepsLog DEF log_write, At, InOp
    <3> QED BY <2>1, <3>1, <3>2, CallersKeepProgress
  <2> QED BY <2>2, <2>3
<1>3. ASSUME NEW p \in Procs, end_op(p) PROVE CommitInv'
  <2>1. \A q \in Procs : tail'[q] = 1
    <3>1. tail' = tail /\ \A q \in Procs : pc[q] \notin Committing
      BY <1>3, EndOp
    <3>2. \A q \in Procs : tail[q] = 1
      BY <3>1, IdleTail
    <3> QED BY <3>1, <3>2
  <2>2. \A q \in Procs \ {p} : pc'[q] \notin Committing
    BY <1>3, EndOp, CommitterMoves
  <2>3. \A q \in Procs \ {p} : ProgressOf(q)'
    BY <2>1, <2>2, IdleProgress
  <2>4. Len(lh) \in Nat /\ lh' = lh
    <3>1. lh' = lh
      BY <1>3, EndOp
    <3> QED BY <1>0, <3>1 DEF TypeOK
  <2>5. pc'[p] \in {"user", "committed"} \/ (pc'[p] = "write_log" /\ Len(lh) > 0)
    BY <1>3, EndOp
  <2>6. ProgressOf(p)'
    BY <2>1, <2>4, <2>5 DEF ProgressOf
  <2> QED BY <2>3, <2>6, CommitInvIs
<1>4. ASSUME NEW p \in Procs, write_log(p) PROVE CommitInv'
  <2> DEFINE t == tail[p]
  <2>1. pc[p] = "write_log" /\ lh' = lh /\ Move(p, {"write_log"}, {"write_log", "write_head"})
    BY <1>0, <1>4, Moves DEF write_log, At, log
  <2>2. t \in 1..Len(lh) /\ Len(lh) \in Nat /\ \A i \in 1..Len(lh) : lh[i] \in Blocks /\ i \in Slots
    BY <1>0, <2>1, LogFits DEF LogInv, CommitInv, TypeOK
  <2>3. \A i \in 1..(t - 1) : logblk[i] = Content(lh[i])
    BY <2>1 DEF LogInv, CommitInv
  <2>4. /\ buf' = [buf EXCEPT ![lh[t]] = Content(lh[t])]
        /\ logblk' = [logblk EXCEPT ![t] = Content(lh[t])]
        /\ home' = home
        /\ Advance(p, "write_head")
    BY <1>4 DEF write_log
  <2>5. \A c \in Blocks : Content(c)' = Content(c)
    BY <1>0, <2>2, <2>4, LogConstants DEF Content, TypeOK
  <2>6. \A i \in 1..Len(lh) : Content(lh[i])' = Content(lh[i])
    BY <2>1, <2>2, <2>5 DEF Content
  <2>7. \A i \in 1..t : logblk'[i] = Content(lh[i])
    <3>1. \A i \in Slots : logblk'[i] = IF i = t THEN Content(lh[t]) ELSE logblk[i]
      BY <1>0, <2>2, <2>4 DEF TypeOK
    <3>2. \A i \in 1..t : i \in Slots /\ (i = t \/ i \in 1..(t - 1))
      BY <2>2
    <3> HIDE DEF t
    <3> QED BY <2>3, <3>1, <3>2
  <2>8. \/ t = Len(lh) /\ tail'[p] = 1 /\ pc'[p] = "write_head"
        \/ t < Len(lh) /\ tail'[p] = t + 1 /\ pc'[p] = "write_log"
    BY <1>0, <2>1, <2>2, <2>4 DEF Advance, TypeOK
  <2>9. ProgressOf(p)'
    <3>1. CASE t = Len(lh) /\ tail'[p] = 1 /\ pc'[p] = "write_head"
      <4> HIDE DEF t
      <4>1. \A i \in 1..Len(lh') : logblk'[i] = Content(lh[i])'
        BY <2>1, <2>6, <2>7, <3>1
      <4>2. 1 <= Len(lh')
        BY <2>1, <2>2, <3>1
      <4> QED BY <2>1, <3>1, <4>1, <4>2 DEF ProgressOf
    <3>2. CASE t < Len(lh) /\ tail'[p] = t + 1 /\ pc'[p] = "write_log"
      <4>1. \A i \in 1..t : i \in 1..Len(lh)
        BY <2>2
      <4>2. (t + 1) - 1 = t /\ t + 1 <= Len(lh)
        BY <2>2, <3>2
      <4> HIDE DEF t
      <4>3. \A i \in 1..(tail'[p] - 1) : i \in 1..t
        BY <3>2, <4>2
      <4>4. \A i \in 1..(tail'[p] - 1) : logblk'[i] = Content(lh[i])'
        BY <2>6, <2>7, <4>1, <4>3
      <4> QED BY <2>1, <3>2, <4>2, <4>4 DEF ProgressOf
    <3> QED BY <2>8, <3>1, <3>2
  <2>10. \A q \in Procs \ {p} : tail'[q] = tail[q]
    BY <1>0, <2>4 DEF Advance, TypeOK
  <2> QED BY <1>a, <2>1, <2>9, <2>10 DEF Move, Committing
<1>5. ASSUME NEW p \in Procs, write_head(p) PROVE CommitInv'
  <2>1. Move(p, {"write_head"}, {"install_trans"})
    BY <1>0, <1>5, Moves
  <2>2. UNCHANGED <<home, logblk, buf, lh, tail>>
    BY <1>5 DEF write_head, cache, log, local
  <2>3. ProgressOf(p) /\ pc[p] = "write_head" /\ pc'[p] = "install_trans"
    BY <2>1, CommitInvIs DEF LogInv, Move
  <2>4. 1 <= Len(lh) /\ Len(lh) \in Nat
    BY <1>0, <2>3 DEF ProgressOf, TypeOK
  <2>5. ProgressOf(p)'
    BY <2>2, <2>3, <2>4 DEF ProgressOf, Content
  <2> QED BY <1>a, <2>1, <2>2, <2>3, <2>5 DEF Move, Committing
<1>6. ASSUME NEW p \in Procs, install_trans(p) PROVE CommitInv'
  <2> DEFINE t == tail[p]
  <2>1. Move(p, {"install_trans"}, {"install_trans", "clear"}) /\ pc[p] = "install_trans" /\ lh' = lh
    BY <1>0, <1>6, Moves DEF install_trans, At, log
  <2>2. t \in 1..Len(lh) /\ Len(lh) \in Nat /\ \A i \in 1..Len(lh) : lh[i] \in Blocks /\ i \in Slots
    BY <1>0, <2>1, LogFits DEF LogInv, CommitInv, TypeOK
  <2>3. /\ \A i \in 1..(t - 1) : home[lh[i]] = logblk[i]
        /\ \A i \in 1..Len(lh) : logblk[i] = Content(lh[i])
    BY <2>1 DEF LogInv, CommitInv
  <2>4. /\ buf' = [buf EXCEPT ![lh[t]] = logblk[t]]
        /\ home' = [home EXCEPT ![lh[t]] = logblk[t]]
        /\ logblk' = logblk
        /\ Advance(p, "clear")
    BY <1>6 DEF install_trans, Install
  <2>5. \A i \in 1..Len(lh) : lh[i] = lh[t] => i = t
    BY <2>2 DEF LogInv, HeaderInv, Distinct
  <2>6. logblk[t] # NoBuf
    BY <1>0, <2>2, LogConstants DEF TypeOK
  <2>7. home'[lh[t]] = logblk[t] /\ buf'[lh[t]] = logblk[t]
    BY <1>0, <2>2, <2>4 DEF TypeOK
  <2>8. \A i \in 1..Len(lh) : i # t => home'[lh[i]] = home[lh[i]] /\ buf'[lh[i]] = buf[lh[i]]
    BY <1>0, <2>2, <2>4, <2>5 DEF TypeOK
  <2>9. \A i \in 1..Len(lh) : Content(lh[i])' = logblk[i]
    BY <2>1, <2>3, <2>6, <2>7, <2>8 DEF Content
  <2>10. \A i \in 1..t : home'[lh[i]] = logblk[i]
    BY <2>2, <2>3, <2>7, <2>8
  <2>11. \/ t = Len(lh) /\ tail'[p] = 1 /\ pc'[p] = "clear"
         \/ t < Len(lh) /\ tail'[p] = t + 1 /\ pc'[p] = "install_trans"
    BY <1>0, <2>1, <2>2, <2>4 DEF Advance, TypeOK
  <2>12. ProgressOf(p)'
    <3>1. CASE t = Len(lh) /\ tail'[p] = 1 /\ pc'[p] = "clear"
      BY <2>1, <2>4, <2>9, <2>10, <3>1 DEF ProgressOf
    <3>2. CASE t < Len(lh) /\ tail'[p] = t + 1 /\ pc'[p] = "install_trans"
      <4>1. (t + 1) - 1 = t /\ t + 1 <= Len(lh)
        BY <2>2, <3>2
      <4> HIDE DEF t
      <4> QED BY <2>1, <2>4, <2>9, <2>10, <3>2, <4>1 DEF ProgressOf
    <3> QED BY <2>11, <3>1, <3>2
  <2>13. \A q \in Procs \ {p} : tail'[q] = tail[q]
    BY <1>0, <2>4 DEF Advance, TypeOK
  <2> QED BY <1>a, <2>1, <2>12, <2>13 DEF Move, Committing
<1>7. ASSUME NEW p \in Procs, clear(p) PROVE CommitInv'
  <2>1. Move(p, {"clear"}, {"committed"}) /\ tail' = tail
    BY <1>0, <1>7, Moves DEF clear, local
  <2>2. tail[p] = 1
    BY <2>1 DEF Move, LogInv, CommitInv
  <2>3. ProgressOf(p)'
    BY <2>1, <2>2 DEF Move, ProgressOf
  <2> QED BY <1>a, <2>1, <2>3 DEF Move, Committing
<1>8. ASSUME NEW p \in Procs, end_commit(p) PROVE CommitInv'
  <2>1. Move(p, {"committed"}, {"user"}) /\ tail' = tail
    BY <1>8, EndCommit DEF end_commit, local
  <2>2. tail[p] = 1
    BY <2>1 DEF Move, LogInv, CommitInv
  <2>3. ProgressOf(p)'
    BY <2>1, <2>2 DEF Move, ProgressOf
  <2> QED BY <1>a, <2>1, <2>3 DEF Move, Committing
<1>9. CASE Recover
  BY <1>9, RecoverSteps, NobodyCommits DEF Committing
<1>10. CASE Crash
  <2>1. \A q \in Procs : pc'[q] \notin Committing /\ tail'[q] = 1
    BY <1>10 DEF Crash, Committing
  <2>2. \A q \in Procs : ProgressOf(q)'
    BY <2>1, IdleProgress
  <2> QED BY <2>2, CommitInvIs
<1> QED BY <1>1, <1>2, <1>3, <1>4, <1>5, <1>6, <1>7, <1>8, <1>9, <1>10, NextCases

-----------------------------------------------------------------------------
(* The theorems. *)

LEMMA InitInv ==
  ASSUME Init
  PROVE  LogInv
<1> USE LogConstants DEF Init
<1>0. TypeOK
  <2>1. pc \in [Procs -> PC] /\ boot \in Phases /\ panicked \in Panics \cup {"no"}
    BY Labels
  <2>2. /\ home \in [Blocks -> Values]
        /\ logblk \in [Slots -> Values]
        /\ buf \in [Blocks -> Values \cup {NoBuf}]
        /\ pins \in [Blocks -> Nat]
        /\ holder \in [Blocks -> Procs \cup {NoProc}]
    OBVIOUS
  <2>3. dhead \in Seq(Blocks) /\ lh \in Seq(Blocks)
    BY EmptyLog
  <2>4. outstanding \in Nat /\ btail \in Nat \ {0}
    OBVIOUS
  <2>5. wrote \in [Procs -> SUBSET Blocks] /\ tail \in [Procs -> Nat \ {0}]
    OBVIOUS
  <2>6. committing \in BOOLEAN
    OBVIOUS
  <2> QED BY <2>1, <2>2, <2>3, <2>4, <2>5, <2>6 DEF TypeOK
<1>1. Active = {}
  BY DEF Active, InOp
<1>2. OutstandingCounts
  BY <1>1, FS_EmptySet DEF OutstandingCounts
<1>3. BootInv /\ RecoveryInv /\ SleeperHasWaker /\ NoProtocolPanic /\ CacheInv
  BY DEF BootInv, RecoveryInv, SleeperHasWaker, NoProtocolPanic, CacheInv
<1>4. HeaderInv
  BY DistinctEmpty DEF HeaderInv
<1>5. CommitQuiescent /\ OwnerInv /\ BufferLockInv
  BY DEF CommitQuiescent, OwnerInv, BufferLockInv, Committing
<1>6. PinsMatchLog
  BY DEF PinsMatchLog, Pending
<1>7. CommitInv
  BY DEF CommitInv
<1> QED BY <1>0, <1>2, <1>3, <1>4, <1>5, <1>6, <1>7 DEF LogInv

LEMMA StutterInv ==
  ASSUME LogInv, UNCHANGED vars
  PROVE  LogInv'
<1> USE DEF vars, disk, cache, log, recovery, local
<1>0. TypeOK'
  BY DEF LogInv, TypeOK
<1>1. Active' = Active
  BY DEF Active
<1>2. OutstandingCounts' /\ CommitQuiescent' /\ OwnerInv' /\ SleeperHasWaker' /\ NoProtocolPanic'
  BY <1>1 DEF LogInv, OutstandingCounts, CommitQuiescent, OwnerInv, SleeperHasWaker,
              NoProtocolPanic
<1>3. BootInv' /\ RecoveryInv' /\ HeaderInv'
  BY DEF LogInv, BootInv, RecoveryInv, HeaderInv
<1>4. BufferLockInv' /\ CacheInv'
  BY DEF LogInv, BufferLockInv, CacheInv
<1>5. PinsMatchLog'
  BY DEF LogInv, PinsMatchLog, Pending
<1>6. CommitInv'
  BY DEF LogInv, CommitInv, Content
<1> QED BY <1>0, <1>2, <1>3, <1>4, <1>5, <1>6 DEF LogInv

(* LogInv holds at every step of every call, commit, crash and recovery.    *)
THEOREM LogInvariant == Spec => []LogInv
<1>1. Init => LogInv
  BY InitInv
<1>2. LogInv /\ [Next]_vars => LogInv'
  <2> SUFFICES ASSUME LogInv, [Next]_vars PROVE LogInv'
    OBVIOUS
  <2>1. CASE Next
    BY <2>1, TypeStep, BootStep, HeaderStep, CountStep, QuiescentStep, OwnerStep, WakerStep,
       PanicStep, LockStep, PinsStep, CacheStep, ProgressStep DEF LogInv
  <2>2. CASE UNCHANGED vars
    BY <2>2, StutterInv
  <2> QED BY <2>1, <2>2
<1> QED BY <1>1, <1>2, PTL DEF Spec

(* The variables of the log keep their types; in particular neither         *)
(* log.outstanding nor the reference count of a buffer goes below zero.     *)
THEOREM LogTypes == Spec => []TypeOK
<1>1. LogInv => TypeOK
  BY DEF LogInv
<1> QED BY <1>1, LogInvariant, PTL

(* commit() runs alone: no call is between begin_op() and end_op() then.    *)
THEOREM LogCommitsQuiescent == Spec => []CommitQuiescent
<1>1. LogInv => CommitQuiescent
  BY DEF LogInv
<1> QED BY <1>1, LogInvariant, PTL

(* log.outstanding counts the calls in progress.                            *)
THEOREM LogCountsCalls == Spec => []OutstandingCounts
<1>1. LogInv => OutstandingCounts
  BY DEF LogInv
<1> QED BY <1>1, LogInvariant, PTL

(* bpin() and bunpin() pair up.                                             *)
THEOREM LogPinsMatch == Spec => []PinsMatchLog
<1>1. LogInv => PinsMatchLog
  BY DEF LogInv
<1> QED BY <1>1, LogInvariant, PTL

(* No wakeup of begin_op() is lost.                                         *)
THEOREM LogSleepersHaveWaker == Spec => []SleeperHasWaker
<1>1. LogInv => SleeperHasWaker
  BY DEF LogInv
<1> QED BY <1>1, LogInvariant, PTL

(* The protocol panics of end_op() and log_write() are unreachable.         *)
THEOREM LogNoProtocolPanic == Spec => []NoProtocolPanic
<1>1. LogInv => NoProtocolPanic
  BY DEF LogInv
<1> QED BY <1>1, LogInvariant, PTL

(* The bookkeeping of begin_op(), log_write(), end_op() and commit(), together. *)
THEOREM LogIsSound == Spec => []LogSound
<1>1. LogInv => LogSound
  BY DEF LogInv, LogSound
<1> QED BY <1>1, LogInvariant, PTL
=============================================================================
