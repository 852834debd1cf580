-------------------------- MODULE LogBufferProofs --------------------------
(***************************************************************************)
(* Proofs about Log: headers, boot and recovery, and the buffers.          *)
(***************************************************************************)
EXTENDS LogProtocolProofs

(* Headers, boot and recovery. *)

LEMMA DistinctAppend ==
  ASSUME NEW s \in Seq(Blocks), NEW b \in Blocks, Distinct(s),
         ~\E i \in 1..Len(s) : s[i] = b
  PROVE  Distinct(Append(s, b))
BY DEF Distinct

LEMMA AppendAdds ==
  ASSUME NEW s \in Seq(Blocks), NEW b \in Blocks, NEW c
  PROVE  (\E i \in 1..Len(Append(s, b)) : Append(s, b)[i] = c)
           <=> (\E i \in 1..Len(s) : s[i] = c) \/ c = b
<1>1. Len(Append(s, b)) = Len(s) + 1 /\ Len(s) \in Nat
  OBVIOUS
<1>2. Append(s, b)[Len(s) + 1] = b
  OBVIOUS
<1>3. \A i \in 1..Len(s) : Append(s, b)[i] = s[i]
  OBVIOUS
<1>4. \A i \in 1..(Len(s) + 1) : i \in 1..Len(s) \/ i = Len(s) + 1
  BY <1>1
<1>5. (\A i \in 1..Len(s) : i \in 1..(Len(s) + 1)) /\ Len(s) + 1 \in 1..(Len(s) + 1)
  BY <1>1
<1> QED BY <1>1, <1>2, <1>3, <1>4, <1>5

LEMMA DistinctEmpty == Distinct(<<>>)
BY DEF Distinct

LEMMA HeaderStep ==
  ASSUME LogInv, Next
  PROVE  HeaderInv'
<1> DEFINE Installing == {"install_trans", "clear"}
<1>0. HeaderInv /\ TypeOK
  BY DEF LogInv
<1>a. ASSUME lh' = lh, dhead' = dhead, UpStep,
             \A q \in Procs : pc'[q] \in Installing <=> pc[q] \in Installing
      PROVE  HeaderInv'
  BY <1>0, <1>a DEF HeaderInv, UpStep
<1>b. ASSUME UpStep, lh' = lh, dhead' = lh, NEW p \in Procs, pc'[p] \in Installing
      PROVE  HeaderInv'
  BY <1>0, <1>b DEF HeaderInv
<1>c. 0 <= NLOG - 1
  BY LogConstants
<1>1. ASSUME NEW p \in Procs, begin_op(p) PROVE HeaderInv'
  BY <1>1, <1>a, BeginOp DEF CallerStep, Committing
<1>2. CASE RoundNext
  <2>1. CallerStep
    BY <1>2, RoundsAre DEF RoundStep
  <2>2. CASE lh' = lh
    BY <1>a, <2>1, <2>2 DEF CallerStep, Committing
  <2>3. ASSUME NEW p \in Procs, NEW b \in Blocks, log_write(p, b) PROVE HeaderInv'
    <3>1. CASE lh' = lh
      BY <2>2, <3>1
    <3>2. CASE ~Logged(b) /\ ~TooBig /\ lh' = Append(lh, b)
      <4>1. Distinct(lh')
        BY <1>0, <3>2, DistinctAppend DEF HeaderInv, Logged, TypeOK
      <4>2. Len(lh') <= NLOG - 1
        BY <1>0, <3>2, LogConstants DEF TooBig, TypeOK
      <4>3. \A q \in Procs : pc'[q] \notin Installing
        BY <2>1, <2>3, LogWrite DEF CallerStep, Committing
      <4>4. dhead' = dhead /\ boot = "up" /\ \A q \in Procs : pc[q] \notin Installing
        BY <2>3, LogWrite DEF disk, Committing
      <4>5. dhead = <<>>
        BY <1>0, <4>4 DEF HeaderInv
      <4> QED BY <1>0, <4>1, <4>2, <4>3, <4>4, <4>5 DEF HeaderInv
    <3> QED BY <2>3, <3>1, <3>2, LogWrite
  <2> QED BY <1>2, <2>2, <2>3, RoundKeepsLog
<1>3. ASSUME NEW p \in Procs, end_op(p) PROVE HeaderInv'
  <2>1. \A q \in Procs : pc[q] \notin Installing
    BY <1>3, EndOp DEF Committing
  <2>2. \A q \in Procs : pc'[q] \notin Installing
    BY <1>3, <2>1, EndOp DEF Move
  <2>3. lh' = lh /\ dhead' = dhead /\ UpStep
    BY <1>3, EndOp, UpSteps DEF disk
  <2> QED BY <1>a, <2>1, <2>2, <2>3
<1>4. ASSUME NEW p \in Procs, write_log(p) PROVE HeaderInv'
  <2>1. Move(p, {"write_log"}, {"write_log", "write_head"})
    BY <1>0, <1>4, Moves
  <2>2. \A q \in Procs : pc'[q] \in Installing <=> pc[q] \in Installing
    BY <2>1 DEF Move
  <2>3. lh' = lh /\ dhead' = dhead /\ UpStep
    BY <1>4, UpSteps DEF Commit, write_log, log
  <2> QED BY <1>a, <2>2, <2>3
<1>5. ASSUME NEW p \in Procs, write_head(p) PROVE HeaderInv'
  <2>1. pc'[p] \in Installing
    BY <1>0, <1>5, Moves DEF Move
  <2> QED BY <1>5, <1>b, <2>1, UpSteps DEF Commit, write_head, log
<1>6. ASSUME NEW p \in Procs, install_trans(p) PROVE HeaderInv'
  <2>1. pc[p] = "install_trans" /\ pc'[p] \in Installing
    BY <1>0, <1>6, Moves DEF Move
  <2>2. dhead = lh
    BY <1>0, <2>1 DEF HeaderInv
  <2> QED BY <1>6, <1>b, <2>1, <2>2, UpSteps DEF Commit, install_trans, log
<1>7. ASSUME NEW p \in Procs, clear(p) PROVE HeaderInv'
  BY <1>7, <1>c, DistinctEmpty DEF clear, HeaderInv
<1>8. ASSUME NEW p \in Procs, end_commit(p) PROVE HeaderInv'
  <2>1. \A q \in Procs : pc'[q] \in Installing <=> pc[q] \in Installing
    BY <1>8, EndCommit DEF Move
  <2>2. lh' = lh /\ dhead' = dhead /\ UpStep
    BY <1>8, EndCommit DEF end_commit, disk
  <2> QED BY <1>a, <2>1, <2>2
<1>9. CASE Recover
  <2>1. \A q \in Procs : pc'[q] = "user"
    BY <1>9, RecoverSteps
  <2>2. \/ lh' = dhead /\ dhead' = dhead /\ boot' # "up"
        \/ lh' = lh /\ dhead' = dhead /\ boot' # "up"
        \/ lh' = <<>> /\ dhead' = <<>>
    BY <1>9 DEF Recover, recover_read_head, recover_install_trans, recover_clear, disk, log
  <2> QED BY <1>0, <1>c, <2>1, <2>2, DistinctEmpty DEF HeaderInv
<1>10. CASE Crash
  BY <1>0, <1>10, <1>c, CrashStep, DistinctEmpty DEF HeaderInv
<1> QED BY <1>1, <1>2, <1>3, <1>4, <1>5, <1>6, <1>7, <1>8, <1>9, <1>10, NextCases

(* Only a crash or recovery itself can disturb what is said of a boot. *)
LEMMA BootStep ==
  ASSUME LogInv, Next
  PROVE  BootInv' /\ RecoveryInv'
<1>0. TypeOK /\ HeaderInv /\ BootInv /\ RecoveryInv
  BY DEF LogInv
<1>1. CASE UpStep
  BY <1>0, <1>1, UpKeepsBoot
<1>2. CASE Crash
  BY <1>2 DEF Crash, BootInv, RecoveryInv
<1>3. CASE recover_read_head
  BY <1>0, <1>3 DEF recover_read_head, BootInv, RecoveryInv, TypeOK, disk, cache, local
<1>4. CASE recover_install_trans
  <2>1. btail \in 1..Len(lh) /\ lh = dhead /\ lh[btail] \in Blocks
    BY <1>0, <1>4 DEF recover_install_trans, RecoveryInv, TypeOK
  <2>2. /\ home' = [home EXCEPT ![lh[btail]] = logblk[btail]]
        /\ buf' = [buf EXCEPT ![lh[btail]] = logblk[btail]]
        /\ UNCHANGED <<pins, holder, pc, lh, dhead, logblk, committing, outstanding, panicked>>
    BY <1>4 DEF recover_install_trans, Install, bunpin, log
  <2>3. \A i \in 1..Len(lh) : i # btail => home'[lh[i]] = home[lh[i]]
    BY <1>0, <2>1, <2>2 DEF TypeOK, HeaderInv, Distinct
  <2>4. home'[lh[btail]] = logblk[btail]
    BY <1>0, <2>1, <2>2 DEF TypeOK
  <2>5. \A i \in 1..btail : home'[lh[i]] = logblk[i]
    <3>1. \A i \in 1..(btail - 1) : home[lh[i]] = logblk[i]
      BY <1>0, <1>4 DEF RecoveryInv, recover_install_trans
    <3>2. Len(lh) \in Nat /\ btail \in Nat
      BY <1>0 DEF TypeOK
    <3> QED BY <2>1, <2>3, <2>4, <3>1, <3>2
  <2>6. RecoveryInv'
    BY <1>0, <1>4, <2>1, <2>2, <2>5 DEF RecoveryInv, TypeOK, recover_install_trans
  <2>7. BootInv'
    BY <1>0, <1>4, <2>1, <2>2 DEF BootInv, TypeOK, recover_install_trans
  <2> QED BY <2>6, <2>7
<1>5. CASE recover_clear
  BY <1>0, <1>5 DEF recover_clear, BootInv, RecoveryInv
<1> QED
  <2>1. UpStep \/ Recover \/ Crash
    BY NextCases, BeginOp, RoundsAre, UpSteps DEF CallerStep, RoundStep, Commit
  <2> QED BY <1>1, <1>2, <1>3, <1>4, <1>5, <2>1 DEF Recover

-----------------------------------------------------------------------------
(* Buffers: sleep-locks, pins and contents. *)

LEMMA LockStep ==
  ASSUME LogInv, Next
  PROVE  BufferLockInv'
<1>0. TypeOK /\ BufferLockInv
  BY DEF LogInv
<1> USE LogConstants
<1>a. ASSUME holder' = holder,
             \A q \in Procs : pc[q] \in HoldsBuffer => pc'[q] \in HoldsBuffer,
             \A b \in Blocks : holder[b] # NoProc /\ buf[b] # NoBuf => buf'[b] # NoBuf
      PROVE  BufferLockInv'
  BY <1>0, <1>a DEF BufferLockInv, TypeOK
<1>b. ASSUME NEW p \in Procs, NEW from, NEW to, Move(p, from, to), from \cap HoldsBuffer = {}
      PROVE  \A q \in Procs : pc[q] \in HoldsBuffer => pc'[q] \in HoldsBuffer
  BY <1>b DEF Move, HoldsBuffer
<1>c. ASSUME NEW p \in Procs, NEW from, NEW to, Move(p, from, to), to \subseteq HoldsBuffer
      PROVE  \A q \in Procs : pc[q] \in HoldsBuffer => pc'[q] \in HoldsBuffer
  BY <1>c DEF Move, HoldsBuffer
<1>1. ASSUME NEW p \in Procs, begin_op(p) PROVE BufferLockInv'
  <2>1. \A q \in Procs : pc[q] \in HoldsBuffer => pc'[q] \in HoldsBuffer
    BY <1>1, <1>b, BeginOp DEF HoldsBuffer
  <2> QED BY <1>1, <1>a, <2>1, BeginOp DEF cache
<1>2. ASSUME NEW p \in Procs, NEW b \in Blocks, bread(p, b) PROVE BufferLockInv'
  <2>1. pc[p] \notin HoldsBuffer /\ pc'[p] \in HoldsBuffer
    BY <1>0, <1>2, Moves DEF Move, HoldsBuffer
  <2>2. \A q \in Procs : pc[q] \in HoldsBuffer => pc'[q] \in HoldsBuffer
    BY <1>0, <1>2, Moves DEF Move, HoldsBuffer
  <2>3. \A c \in Blocks : holder[c] # p
    BY <1>0, <2>1 DEF BufferLockInv, TypeOK
  <2>4. /\ holder' = [holder EXCEPT ![b] = p]
        /\ buf' = [buf EXCEPT ![b] = Content(b)]
    BY <1>2 DEF bread
  <2>5. Content(b) # NoBuf
    BY <1>0 DEF Content, TypeOK
  <2>6. \A c \in Blocks : c # b => holder'[c] = holder[c] /\ buf'[c] = buf[c]
    BY <1>0, <2>4 DEF TypeOK
  <2>7. holder'[b] = p /\ buf'[b] # NoBuf
    BY <1>0, <2>4, <2>5 DEF TypeOK
  <2>8. \A c \in Blocks : holder[c] \in Procs \cup {NoProc}
    BY <1>0 DEF TypeOK
  <2> QED BY <1>0, <2>1, <2>2, <2>3, <2>6, <2>7, <2>8 DEF BufferLockInv
<1>3. ASSUME NEW p \in Procs, NEW b \in Blocks, NEW v \in Values, modify(p, b, v)
      PROVE  BufferLockInv'
  <2>1. \A q \in Procs : pc[q] \in HoldsBuffer => pc'[q] \in HoldsBuffer
    BY <1>0, <1>3, <1>c, Moves DEF HoldsBuffer
  <2>2. buf' = [buf EXCEPT ![b] = v] /\ holder' = holder
    BY <1>3 DEF modify
  <2>3. \A c \in Blocks : buf[c] # NoBuf => buf'[c] # NoBuf
    BY <1>0, <2>2 DEF TypeOK
  <2> QED BY <1>a, <2>1, <2>2, <2>3
<1>4. ASSUME NEW p \in Procs, NEW b \in Blocks, brelse(p, b) PROVE BufferLockInv'
  <2>1. holder[b] = p /\ holder' = [holder EXCEPT ![b] = NoProc] /\ buf' = buf
    BY <1>4 DEF brelse
  <2>2. \A c \in Blocks \ {b} : holder[c] # p /\ holder'[c] = holder[c]
    BY <1>0, <2>1 DEF BufferLockInv, TypeOK
  <2>3. holder'[b] = NoProc
    BY <1>0, <2>1 DEF TypeOK
  <2>4. \A q \in Procs \ {p} : pc[q] \in HoldsBuffer => pc'[q] \in HoldsBuffer
    BY <1>0, <1>4, Moves DEF Move, HoldsBuffer
  <2>5. \A c \in Blocks : holder[c] \in Procs \cup {NoProc}
    BY <1>0 DEF TypeOK
  <2> QED BY <1>0, <2>1, <2>2, <2>3, <2>4, <2>5 DEF BufferLockInv
<1>5. ASSUME NEW p \in Procs, NEW b \in Blocks, log_write(p, b) PROVE BufferLockInv'
  <2>1. \A q \in Procs : pc[q] \in HoldsBuffer => pc'[q] \in HoldsBuffer
    BY <1>5, <1>c, LogWrite DEF HoldsBuffer
  <2> QED BY <1>5, <1>a, <2>1, LogWrite
<1>6. ASSUME NEW b \in Blocks, recycle(b) PROVE BufferLockInv'
  <2>1. holder[b] = NoProc /\ buf' = [buf EXCEPT ![b] = NoBuf] /\ holder' = holder /\ pc' = pc
    BY <1>6 DEF recycle, Unused, Unlocked
  <2>2. \A c \in Blocks : holder[c] # NoProc /\ buf[c] # NoBuf => buf'[c] # NoBuf
    BY <1>0, <2>1 DEF TypeOK
  <2> QED BY <1>a, <2>1, <2>2
<1>7. ASSUME NEW p \in Procs, end_op(p) PROVE BufferLockInv'
  <2>1. \A q \in Procs : pc[q] \in HoldsBuffer => pc'[q] \in HoldsBuffer
    BY <1>7, <1>b, EndOp DEF HoldsBuffer
  <2> QED BY <1>7, <1>a, <2>1, EndOp DEF cache
<1>8. ASSUME NEW p \in Procs, Commit(p) PROVE BufferLockInv'
  <2>1. \A q \in Procs : pc[q] \in HoldsBuffer => pc'[q] \in HoldsBuffer
    BY <1>0, <1>8, Moves DEF Commit, Move, HoldsBuffer
  <2>2. holder' = holder
    BY <1>8 DEF Commit, write_log, write_head, install_trans, clear, end_commit, cache
  <2>3. \A b \in Blocks : holder[b] # NoProc => buf'[b] = buf[b]
    <3>1. CASE buf' = buf
      BY <3>1
    <3>2. CASE write_log(p)
      BY <1>0, <3>2 DEF write_log, Unlocked, TypeOK
    <3>3. CASE install_trans(p)
      BY <1>0, <3>3 DEF install_trans, Install, Unlocked, TypeOK
    <3> QED BY <1>8, <3>1, <3>2, <3>3 DEF Commit, write_head, clear, end_commit, cache
  <2> QED BY <1>a, <2>1, <2>2, <2>3
<1>9. CASE Recover
  BY <1>9, RecoverSteps DEF LogInv, BootInv, BufferLockInv
<1>10. CASE Crash
  BY <1>10 DEF Crash, BufferLockInv
<1> QED
  BY <1>1, <1>2, <1>3, <1>4, <1>5, <1>6, <1>7, <1>8, <1>9, <1>10
  DEF Next, Call

(* While nothing is being installed, a block is pending iff it is logged. *)
LEMMA PendingIsLogged ==
  /\ boot = "up" /\ (\A q \in Procs : pc[q] \notin {"install_trans", "clear"}) =>
       \A b : Pending(b) <=> Logged(b)
  /\ boot' = "up" /\ (\A q \in Procs : pc'[q] \notin {"install_trans", "clear"}) =>
       \A b : Pending(b)' <=> Logged(b)'
BY DEF Pending, Logged

LEMMA PinsStep ==
  ASSUME LogInv, Next
  PROVE  PinsMatchLog'
<1> DEFINE Installing == {"install_trans", "clear"}
<1>0. TypeOK /\ PinsMatchLog
  BY DEF LogInv
<1>a. ASSUME pins' = pins, lh' = lh, tail' = tail, UpStep,
             \A q \in Procs : pc'[q] \in Installing \/ pc[q] \in Installing => pc'[q] = pc[q]
      PROVE  PinsMatchLog'
  <2>1. \A b : Pending(b)' <=> Pending(b)
    BY <1>a DEF Pending, UpStep
  <2> QED BY <1>0, <1>a, <2>1 DEF PinsMatchLog
<1>b. ASSUME lh' = lh, pins' = pins, UpStep,
             \A q \in Procs : pc[q] \notin Installing /\ pc'[q] \notin Installing
      PROVE  PinsMatchLog'
  <2>1. \A b : Pending(b)' <=> Pending(b)
    BY <1>b, PendingIsLogged DEF Logged, UpStep
  <2> QED BY <1>0, <1>b, <2>1 DEF PinsMatchLog
<1>c. ASSUME \A b \in Blocks : ~Pending(b), lh' = <<>>, pins' = pins
      PROVE  PinsMatchLog'
  <2>1. \A b : ~Pending(b)'
    BY <1>c DEF Pending
  <2> QED BY <1>0, <1>c, <2>1 DEF PinsMatchLog
<1>1. ASSUME NEW p \in Procs, begin_op(p) PROVE PinsMatchLog'
  BY <1>1, <1>a, BeginOp DEF CallerStep, Committing, cache
<1>2. CASE RoundNext
  <2>1. CallerStep
    BY <1>2, RoundsAre DEF RoundStep
  <2>2. CASE lh' = lh /\ pins' = pins
    BY <1>a, <2>1, <2>2 DEF CallerStep, Committing
  <2>3. ASSUME NEW p \in Procs, NEW b \in Blocks, log_write(p, b) PROVE PinsMatchLog'
    <3>1. CASE ~Logged(b) /\ lh' = Append(lh, b) /\ pins' = [pins EXCEPT ![b] = @ + 1]
      <4>1. \A q \in Procs : pc[q] \notin Installing /\ pc'[q] \notin Installing
        BY <2>1, <2>3, LogWrite DEF CallerStep, Committing
      <4>2. \A c : Pending(c) <=> Logged(c)
        BY <2>1, <4>1, PendingIsLogged DEF CallerStep, UpStep
      <4>3. \A c : Pending(c)' <=> Logged(c)'
        BY <2>1, <4>1, PendingIsLogged DEF CallerStep, UpStep
      <4>4. \A c \in Blocks : Logged(c)' <=> Logged(c) \/ c = b
        <5>1. lh \in Seq(Blocks) /\ lh' = Append(lh, b)
          BY <1>0, <3>1 DEF TypeOK
        <5>2. \A c : (\E i \in 1..Len(Append(lh, b)) : Append(lh, b)[i] = c)
                       <=> (\E i \in 1..Len(lh) : lh[i] = c) \/ c = b
          BY <5>1, AppendAdds
        <5> QED BY <5>1, <5>2, Zenon DEF Logged
      <4>5. pins[b] = 0 /\ pins'[b] = 1
        BY <1>0, <3>1, <4>2 DEF PinsMatchLog, TypeOK
      <4>6. \A c \in Blocks \ {b} : pins'[c] = pins[c]
        BY <1>0, <3>1 DEF TypeOK
      <4> QED BY <1>0, <4>2, <4>3, <4>4, <4>5, <4>6 DEF PinsMatchLog
    <3> QED BY <2>2, <2>3, <3>1, LogWrite
  <2> QED BY <1>2, <2>2, <2>3, RoundKeepsLog
<1>3. ASSUME NEW p \in Procs, end_op(p) PROVE PinsMatchLog'
  <2>1. \A q \in Procs : pc[q] \notin Installing
    BY <1>3, EndOp DEF Committing
  <2>2. \A q \in Procs : pc'[q] \notin Installing
    BY <1>3, <2>1, EndOp DEF Move
  <2> QED BY <1>3, <1>b, <2>1, <2>2, EndOp, UpSteps DEF cache
<1>4. ASSUME NEW p \in Procs, write_log(p) PROVE PinsMatchLog'
  <2>1. Move(p, {"write_log"}, {"write_log", "write_head"})
    BY <1>0, <1>4, Moves
  <2>2. \A q \in Procs \ {p} : pc[q] \notin Committing
    BY <2>1, OneCommitter DEF Move, Committing
  <2>3. \A q \in Procs : pc[q] \notin Installing /\ pc'[q] \notin Installing
    BY <2>1, <2>2 DEF Move, Committing
  <2> QED BY <1>4, <1>b, <2>3, UpSteps DEF Commit, write_log, log
<1>5. ASSUME NEW p \in Procs, write_head(p) PROVE PinsMatchLog'
  <2>1. Move(p, {"write_head"}, {"install_trans"})
    BY <1>0, <1>5, Moves
  <2>2. \A q \in Procs \ {p} : pc[q] \notin Committing
    BY <2>1, OneCommitter DEF Move, Committing
  <2>3. tail'[p] = 1 /\ lh' = lh /\ pins' = pins /\ UpStep
    BY <1>5, <2>1, UpSteps DEF Commit, write_head, log, local, cache, Move, LogInv, CommitInv
  <2>4. \A q \in Procs : pc[q] \notin Installing
    BY <2>1, <2>2 DEF Move, Committing
  <2>5. \A c : Pending(c) <=> Logged(c)
    BY <2>3, <2>4, PendingIsLogged DEF UpStep
  <2>6. \A q \in Procs : pc'[q] # "clear" /\ (pc'[q] = "install_trans" => q = p)
    BY <2>1, <2>4 DEF Move
  <2>7. \A c : Pending(c)' <=> Logged(c)
    BY <2>3, <2>6 DEF Pending, Logged, UpStep
  <2> QED BY <1>0, <2>3, <2>5, <2>7 DEF PinsMatchLog
<1>6. ASSUME NEW p \in Procs, install_trans(p) PROVE PinsMatchLog'
  <2>1. Move(p, {"install_trans"}, {"install_trans", "clear"})
    BY <1>0, <1>6, Moves
  <2>2. \A q \in Procs \ {p} : pc[q] \notin Committing
    BY <2>1, OneCommitter DEF Move, Committing
  <2>3. \A q \in Procs \ {p} : pc[q] \notin Installing /\ pc'[q] \notin Installing
    BY <2>1, <2>2 DEF Move, Committing
  <2>4. tail[p] \in 1..Len(lh) /\ lh[tail[p]] \in Blocks /\ Len(lh) \in Nat
    BY <1>0, <2>1 DEF Move, LogInv, CommitInv, TypeOK
  <2>5. /\ lh' = lh /\ boot = "up" /\ boot' = "up"
        /\ pins' = [pins EXCEPT ![lh[tail[p]]] = @ - 1]
        /\ Advance(p, "clear")
    BY <1>6 DEF install_trans, Install, bunpin, At, log, recovery
  <2>6. \/ tail[p] = Len(lh) /\ pc'[p] = "clear"
        \/ tail[p] < Len(lh) /\ pc'[p] = "install_trans" /\ tail'[p] = tail[p] + 1
    BY <1>0, <2>1, <2>4, <2>5 DEF Advance, Move, TypeOK
  <2>7. \A c : Pending(c) <=> \E i \in 1..Len(lh) : lh[i] = c /\ i >= tail[p]
    BY <2>1, <2>3, <2>5 DEF Pending, Move
  <2>8. \A c : Pending(c)' <=> \E i \in 1..Len(lh) : lh[i] = c /\ i > tail[p]
    <3>1. CASE tail[p] = Len(lh) /\ pc'[p] = "clear"
      BY <2>4, <2>5, <3>1 DEF Pending
    <3>2. CASE tail[p] < Len(lh) /\ pc'[p] = "install_trans" /\ tail'[p] = tail[p] + 1
      BY <2>3, <2>4, <2>5, <3>2 DEF Pending
    <3> QED BY <2>6, <3>1, <3>2
  <2>9. \A i \in 1..Len(lh) : lh[i] = lh[tail[p]] => i = tail[p]
    BY <2>4 DEF LogInv, HeaderInv, Distinct
  <2>10. \A c : Pending(c)' <=> Pending(c) /\ c # lh[tail[p]]
    BY <2>4, <2>7, <2>8, <2>9
  <2>11. Pending(lh[tail[p]])
    BY <2>4, <2>7
  <2>12. pins'[lh[tail[p]]] = 0
    BY <1>0, <2>4, <2>5, <2>11 DEF PinsMatchLog, TypeOK
  <2>13. \A c \in Blocks : c # lh[tail[p]] => pins'[c] = pins[c]
    BY <1>0, <2>4, <2>5 DEF TypeOK
  <2> QED BY <1>0, <2>10, <2>12, <2>13 DEF PinsMatchLog
<1>7. ASSUME NEW p \in Procs, clear(p) PROVE PinsMatchLog'
  <2>1. \A b \in Blocks : ~Pending(b)
    BY <1>7 DEF clear, At, Pending
  <2> QED BY <1>7, <1>c, <2>1 DEF clear, cache
<1>8. ASSUME NEW p \in Procs, end_commit(p) PROVE PinsMatchLog'
  <2>1. lh = <<>> /\ lh' = <<>> /\ pins' = pins
    BY <1>8, EndCommit DEF end_commit, cache
  <2>2. \A b \in Blocks : ~Pending(b)
    BY <2>1 DEF Pending
  <2> QED BY <1>c, <2>1, <2>2
<1>9. CASE Recover
  <2>1. boot # "up" /\ pins' = pins
    BY <1>9, RecoverSteps
  <2>2. \A b \in Blocks : pins'[b] = 0
    BY <2>1 DEF LogInv, BootInv
  <2>3. boot' # "up" \/ lh' = <<>>
    BY <1>9 DEF Recover, recover_read_head, recover_install_trans, recover_clear
  <2>4. \A b : ~Pending(b)'
    BY <2>3 DEF Pending
  <2> QED BY <2>2, <2>4 DEF PinsMatchLog
<1>10. CASE Crash
  <2>1. lh' = <<>> /\ \A b \in Blocks : pins'[b] = 0
    BY <1>10 DEF Crash
  <2>2. \A b : ~Pending(b)'
    BY <2>1 DEF Pending
  <2> QED BY <2>1, <2>2 DEF PinsMatchLog
<1> QED BY <1>1, <1>2, <1>3, <1>4, <1>5, <1>6, <1>7, <1>8, <1>9, <1>10, NextCases

(* A modified buffer stays in memory until it is installed. *)
LEMMA CacheStep ==
  ASSUME LogInv, Next
  PROVE  CacheInv'
<1>0. TypeOK /\ CacheInv /\ BufferLockInv
  BY DEF LogInv
<1> USE LogConstants
<1>a. ASSUME UNCHANGED <<home, buf, pins, holder>>,
             \A q \in Procs : pc[q] = "dirty" => pc'[q] = "dirty"
      PROVE  CacheInv'
  BY <1>0, <1>a DEF CacheInv, TypeOK
<1>b. ASSUME NEW p \in Procs, NEW from, NEW to, Move(p, from, to), "dirty" \notin from
      PROVE  \A q \in Procs : pc[q] = "dirty" => pc'[q] = "dirty"
  BY <1>b DEF Move
<1>1. ASSUME NEW p \in Procs, begin_op(p) PROVE CacheInv'
  <2>1. \A q \in Procs : pc[q] = "dirty" => pc'[q] = "dirty"
    BY <1>1, <1>b, BeginOp
  <2> QED BY <1>1, <1>a, <2>1, BeginOp DEF cache, CallerStep
<1>2. ASSUME NEW p \in Procs, NEW b \in Blocks, bread(p, b) PROVE CacheInv'
  <2>1. \A q \in Procs : pc[q] = "dirty" => pc'[q] = "dirty"
    BY <1>0, <1>2, <1>b, Moves
  <2>2. /\ holder' = [holder EXCEPT ![b] = p]
        /\ buf' = [buf EXCEPT ![b] = Content(b)]
        /\ holder[b] = NoProc /\ home' = home /\ pins' = pins
    BY <1>2 DEF bread, Unlocked, disk
  <2>3. \A c \in Blocks : c # b => holder'[c] = holder[c] /\ buf'[c] = buf[c]
    BY <1>0, <2>2 DEF TypeOK
  <2>4. buf'[b] = Content(b) /\ Content(b) # NoBuf
    BY <1>0, <2>2 DEF TypeOK, Content
  <2>5. pins[b] = 0 => Content(b) = home[b]
    BY <1>0, <2>2 DEF CacheInv, Content
  <2>6. \A c \in Blocks : holder[c] \in Procs \cup {NoProc}
    BY <1>0 DEF TypeOK
  <2> QED BY <1>0, <2>1, <2>2, <2>3, <2>4, <2>5, <2>6 DEF CacheInv
<1>3. ASSUME NEW p \in Procs, NEW b \in Blocks, NEW v \in Values, modify(p, b, v)
      PROVE  CacheInv'
  <2>1. pc'[p] = "dirty" /\ \A q \in Procs : pc[q] = "dirty" => pc'[q] = "dirty"
    BY <1>0, <1>3, Moves DEF Move
  <2>2. /\ buf' = [buf EXCEPT ![b] = v] /\ holder[b] = p
        /\ holder' = holder /\ home' = home /\ pins' = pins
    BY <1>3 DEF modify, disk
  <2>3. \A c \in Blocks : c # b => buf'[c] = buf[c]
    BY <1>0, <2>2 DEF TypeOK
  <2>4. buf'[b] # NoBuf
    BY <1>0, <2>2 DEF TypeOK
  <2>5. \A c \in Blocks : holder[c] \in Procs \cup {NoProc}
    BY <1>0 DEF TypeOK
  <2> QED BY <1>0, <2>1, <2>2, <2>3, <2>4, <2>5 DEF CacheInv
<1>4. ASSUME NEW p \in Procs, NEW b \in Blocks, brelse(p, b) PROVE CacheInv'
  <2>1. pc[p] # "dirty" /\ \A q \in Procs : pc[q] = "dirty" => pc'[q] = "dirty"
    BY <1>0, <1>4, Moves DEF Move
  <2>2. /\ holder[b] = p /\ holder' = [holder EXCEPT ![b] = NoProc]
        /\ buf' = buf /\ home' = home /\ pins' = pins
    BY <1>4 DEF brelse, disk
  <2>3. \A c \in Blocks : c # b => holder'[c] = holder[c]
    BY <1>0, <2>2 DEF TypeOK
  <2>4. \A c \in Blocks : holder[c] \in Procs \cup {NoProc}
    BY <1>0 DEF TypeOK
  <2> QED BY <1>0, <2>1, <2>2, <2>3, <2>4 DEF CacheInv
<1>5. ASSUME NEW p \in Procs, NEW b \in Blocks, log_write(p, b) PROVE CacheInv'
  <2>1. UNCHANGED <<home, buf, holder>> /\ holder[b] = p
    BY <1>5, LogWrite DEF disk
  <2>2. CASE pc' = pc /\ pins' = pins
    BY <1>a, <2>1, <2>2
  <2>3. CASE Move(p, {"dirty"}, {"logged"})
    <3>1. buf[b] # NoBuf
      BY <1>0, <2>1 DEF BufferLockInv
    <3>2. pins'[b] # 0 /\ \A c \in Blocks : c # b => pins'[c] = pins[c]
      <4>1. CASE ~Logged(b) /\ pins' = [pins EXCEPT ![b] = @ + 1]
        BY <1>0, <4>1 DEF TypeOK
      <4>2. CASE Logged(b) /\ pins' = pins
        <5>1. \A q \in Procs : pc[q] \notin {"install_trans", "clear"}
          BY <1>5, LogWrite DEF Committing
        <5>2. Pending(b)
          BY <1>5, <4>2, <5>1, LogWrite, PendingIsLogged
        <5>3. pins[b] = 1
          BY <5>2 DEF LogInv, PinsMatchLog
        <5> QED BY <4>2, <5>3
      <4>3. pc' # pc
        BY <2>3 DEF Move
      <4> QED BY <1>5, <4>1, <4>2, <4>3, LogWrite
    <3>3. \A c \in Blocks : c # b => holder[c] # p
      BY <1>0, <2>1 DEF BufferLockInv
    <3>4. \A q \in Procs : q # p => (pc[q] = "dirty" => pc'[q] = "dirty")
      BY <2>3 DEF Move
    <3>5. \A c \in Blocks : holder[c] \in Procs \cup {NoProc}
      BY <1>0 DEF TypeOK
    <3> QED BY <1>0, <2>1, <3>1, <3>2, <3>3, <3>4, <3>5 DEF CacheInv
  <2> QED BY <1>5, <2>2, <2>3, LogWrite
<1>6. ASSUME NEW b \in Blocks, recycle(b) PROVE CacheInv'
  <2>1. /\ buf' = [buf EXCEPT ![b] = NoBuf] /\ pins[b] = 0
        /\ holder' = holder /\ pc' = pc /\ home' = home /\ pins' = pins
    BY <1>6 DEF recycle, Unused, disk
  <2>2. buf'[b] = NoBuf /\ \A c \in Blocks : c # b => buf'[c] = buf[c]
    BY <1>0, <2>1 DEF TypeOK
  <2> QED BY <1>0, <2>1, <2>2 DEF CacheInv
<1>7. ASSUME NEW p \in Procs, end_op(p) PROVE CacheInv'
  <2>1. \A q \in Procs : pc[q] = "dirty" => pc'[q] = "dirty"
    BY <1>7, <1>b, EndOp
  <2> QED BY <1>7, <1>a, <2>1, EndOp DEF cache, disk
<1>8. ASSUME NEW p \in Procs, Commit(p) PROVE CacheInv'
  <2>1. \A q \in Procs : pc[q] = "dirty" => pc'[q] = "dirty"
    BY <1>0, <1>8, Moves DEF Commit, Move
  <2>2. CASE UNCHANGED <<home, buf, pins, holder>>
    BY <1>a, <2>1, <2>2
  <2>3. CASE write_log(p)
    <3>1. tail[p] \in Slots /\ lh[tail[p]] \in Blocks
      BY <1>0, <2>3, LogFits DEF LogInv, CommitInv, write_log, At, TypeOK
    <3>2. /\ buf' = [buf EXCEPT ![lh[tail[p]]] = Content(lh[tail[p]])]
          /\ UNCHANGED <<home, pins, holder>> /\ holder[lh[tail[p]]] = NoProc
      BY <2>3 DEF write_log, Unlocked
    <3>3. /\ \A c \in Blocks : c # lh[tail[p]] => buf'[c] = buf[c]
          /\ buf'[lh[tail[p]]] = Content(lh[tail[p]])
          /\ Content(lh[tail[p]]) # NoBuf
      BY <1>0, <3>1, <3>2 DEF TypeOK, Content
    <3>4. pins[lh[tail[p]]] = 0 => Content(lh[tail[p]]) = home[lh[tail[p]]]
      BY <1>0, <3>1, <3>2 DEF CacheInv, Content
    <3>5. \A c \in Blocks : holder[c] \in Procs \cup {NoProc}
      BY <1>0 DEF TypeOK
    <3> QED BY <1>0, <2>1, <3>1, <3>2, <3>3, <3>4, <3>5 DEF CacheInv
  <2>4. CASE install_trans(p)
    <3>1. tail[p] \in Slots /\ lh[tail[p]] \in Blocks
      BY <1>0, <2>4, LogFits DEF LogInv, CommitInv, install_trans, At, TypeOK
    <3>2. /\ buf' = [buf EXCEPT ![lh[tail[p]]] = logblk[tail[p]]]
          /\ home' = [home EXCEPT ![lh[tail[p]]] = logblk[tail[p]]]
          /\ pins' = [pins EXCEPT ![lh[tail[p]]] = @ - 1]
          /\ holder' = holder
      BY <2>4 DEF install_trans, Install, bunpin
    <3>3. /\ \A c \in Blocks : c # lh[tail[p]] =>
               buf'[c] = buf[c] /\ home'[c] = home[c] /\ pins'[c] = pins[c]
          /\ buf'[lh[tail[p]]] = logblk[tail[p]]
          /\ home'[lh[tail[p]]] = logblk[tail[p]]
          /\ logblk[tail[p]] # NoBuf
      BY <1>0, <3>1, <3>2 DEF TypeOK
    <3>4. \A c \in Blocks : holder[c] \in Procs \cup {NoProc}
      BY <1>0 DEF TypeOK
    <3> QED BY <1>0, <2>1, <3>2, <3>3, <3>4 DEF CacheInv
  <2> QED BY <1>8, <2>2, <2>3, <2>4 DEF Commit, write_head, clear, end_commit, cache, disk
<1>9. CASE Recover
  <2>1. \A b \in Blocks : pins'[b] = 0
    BY <1>9, RecoverSteps DEF LogInv, BootInv
  <2>2. \A b \in Blocks : buf[b] \in {NoBuf, home[b]}
    BY <1>9, RecoverSteps DEF LogInv, BootInv
  <2>3. CASE UNCHANGED <<buf, home>>
    BY <2>1, <2>2, <2>3 DEF CacheInv
  <2>4. CASE recover_install_trans
    <3>1. lh[btail] \in Blocks
      BY <1>0, <2>4, LogFits DEF LogInv, RecoveryInv, recover_install_trans, TypeOK
    <3>2. \A b \in Blocks : buf'[b] \in {NoBuf, home'[b]}
      BY <1>0, <2>2, <2>4, <3>1 DEF recover_install_trans, Install, TypeOK
    <3> QED BY <2>1, <3>2 DEF CacheInv
  <2> QED BY <1>9, <2>3, <2>4 DEF Recover, recover_read_head, recover_clear, disk, cache
<1>10. CASE Crash
  BY <1>10 DEF Crash, CacheInv
<1> QED
  BY <1>1, <1>2, <1>3, <1>4, <1>5, <1>6, <1>7, <1>8, <1>9, <1>10
  DEF Next, Call
=============================================================================
