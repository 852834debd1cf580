--------------------------- MODULE LogRefinement ---------------------------
(***************************************************************************)
(* Proofs that the log implements the transactional disk of TxnDisk, and   *)
(* of the crash-safety properties that relate the disk to the cache.       *)
(***************************************************************************)
EXTENDS LogProofs

(* A header without duplicates reads as a function from blocks to slots. *)
LEMMA RecoveredIs ==
  ASSUME Distinct(dhead), dhead \in Seq(Blocks), NEW b \in Blocks
  PROVE  /\ \A i \in 1..Len(dhead) : dhead[i] = b => Recovered[b] = logblk[i]
         /\ (\A i \in 1..Len(dhead) : dhead[i] # b) => Recovered[b] = home[b]
<1>1. ASSUME NEW i \in 1..Len(dhead), dhead[i] = b PROVE Recovered[b] = logblk[i]
  <2> DEFINE k == CHOOSE j \in 1..Len(dhead) : dhead[j] = b
  <2>1. k \in 1..Len(dhead) /\ dhead[k] = b
    BY <1>1
  <2>2. k = i
    BY <1>1, <2>1 DEF Distinct
  <2>3. Recovered[b] = logblk[k]
    BY <1>1 DEF Recovered
  <2> QED BY <2>2, <2>3
<1>2. ASSUME \A i \in 1..Len(dhead) : dhead[i] # b PROVE Recovered[b] = home[b]
  BY <1>2 DEF Recovered
<1> QED BY <1>1, <1>2

(* The same after a step. *)
LEMMA RecoveredNextIs ==
  ASSUME Distinct(dhead'), dhead' \in Seq(Blocks), NEW b \in Blocks
  PROVE  /\ \A i \in 1..Len(dhead') : dhead'[i] = b => Recovered'[b] = logblk'[i]
         /\ (\A i \in 1..Len(dhead') : dhead'[i] # b) => Recovered'[b] = home'[b]
<1>1. ASSUME NEW i \in 1..Len(dhead'), dhead'[i] = b PROVE Recovered'[b] = logblk'[i]
  <2> DEFINE k == CHOOSE j \in 1..Len(dhead') : dhead'[j] = b
  <2>1. k \in 1..Len(dhead') /\ dhead'[k] = b
    BY <1>1
  <2>2. k = i
    BY <1>1, <2>1 DEF Distinct
  <2>3. Recovered'[b] = logblk'[k]
    BY <1>1 DEF Recovered
  <2> QED BY <2>2, <2>3
<1>2. ASSUME \A i \in 1..Len(dhead') : dhead'[i] # b PROVE Recovered'[b] = home'[b]
  BY <1>2 DEF Recovered
<1> QED BY <1>1, <1>2

(* Both readings of the disk are functions on Blocks. *)
LEMMA Readings ==
  /\ Recovered = [b \in Blocks |-> Recovered[b]]
  /\ Recovered' = [b \in Blocks |-> Recovered'[b]]
  /\ Current = [b \in Blocks |-> Current[b]]
  /\ Current' = [b \in Blocks |-> Current'[b]]
BY DEF Recovered, Current

LEMMA SameRecovered ==
  ASSUME \A b \in Blocks : Recovered'[b] = Recovered[b]
  PROVE  Recovered' = Recovered
<1>1. [b \in Blocks |-> Recovered'[b]] = [b \in Blocks |-> Recovered[b]]
  OBVIOUS
<1> QED BY <1>1, Readings, Zenon

LEMMA SameCurrent ==
  ASSUME \A b \in Blocks : Current'[b] = Current[b]
  PROVE  Current' = Current
<1>1. [b \in Blocks |-> Current'[b]] = [b \in Blocks |-> Current[b]]
  OBVIOUS
<1> QED BY <1>1, Readings, Zenon

LEMMA SameContent ==
  ASSUME boot = "up", boot' = "up", \A b \in Blocks : Content(b)' = Content(b)
  PROVE  Current' = Current
BY DEF Current

(* Between the end of one installation and the next commit point the header *)
(* on disk is empty, so recovery would keep the home blocks.                *)
LEMMA EmptyHeader ==
  ASSUME LogInv, boot = "up", \A q \in Procs : pc[q] \notin {"install_trans", "clear"}
  PROVE  dhead = <<>>
BY DEF LogInv, HeaderInv

(* A block that is neither logged nor being changed has its home contents.  *)
LEMMA CleanBlock ==
  ASSUME LogInv, NEW b \in Blocks, ~Pending(b), Active = {}
  PROVE  Content(b) = home[b]
<1>1. pins[b] = 0
  BY DEF LogInv, PinsMatchLog
<1>2. \A q \in Procs : pc[q] # "dirty"
  BY DEF Active, InOp
<1>3. holder[b] \in Procs \cup {NoProc}
  BY DEF LogInv, TypeOK
<1>4. buf[b] \in {NoBuf, home[b]}
  BY <1>1, <1>2, <1>3 DEF LogInv, CacheInv
<1> QED BY <1>4 DEF Content

-----------------------------------------------------------------------------
(* Steps of install_trans(), for a committer or for recovery: copying slot  *)
(* t of the committed header to its home changes nothing that a reboot      *)
(* would find.                                                              *)
LEMMA InstallKeepsRecovered ==
  ASSUME LogInv, lh = dhead, dhead' = dhead, logblk' = logblk,
         NEW t \in 1..Len(lh),
         home' = [home EXCEPT ![lh[t]] = logblk[t]]
  PROVE  Recovered' = Recovered
<1>0. TypeOK /\ Distinct(dhead) /\ dhead \in Seq(Blocks) /\ lh[t] \in Blocks
  BY DEF LogInv, HeaderInv, TypeOK
<1>1. ASSUME NEW b \in Blocks PROVE Recovered'[b] = Recovered[b]
  <2>1. CASE \E i \in 1..Len(dhead) : dhead[i] = b
    <3>1. PICK i \in 1..Len(dhead) : dhead[i] = b
      BY <2>1
    <3>2. Recovered[b] = logblk[i]
      BY <1>0, <3>1, RecoveredIs
    <3>3. Recovered'[b] = logblk'[i]
      BY <1>0, <3>1, RecoveredNextIs
    <3> QED BY <3>2, <3>3
  <2>2. CASE \A i \in 1..Len(dhead) : dhead[i] # b
    <3>1. Recovered[b] = home[b]
      BY <1>0, <2>2, RecoveredIs
    <3>2. Recovered'[b] = home'[b]
      BY <1>0, <2>2, RecoveredNextIs
    <3>3. b # lh[t]
      BY <2>2
    <3>4. home'[b] = home[b]
      BY <1>0, <3>3 DEF TypeOK
    <3> QED BY <3>1, <3>2, <3>4
  <2> QED BY <2>1, <2>2
<1> QED BY <1>1, SameRecovered

(* Clearing the header after everything is installed changes nothing that a *)
(* reboot would find.                                                       *)
LEMMA ClearKeepsRecovered ==
  ASSUME LogInv, lh = dhead, dhead' = <<>>, home' = home,
         \A i \in 1..Len(lh) : home[lh[i]] = logblk[i]
  PROVE  Recovered' = Recovered /\ \A b \in Blocks : Recovered[b] = home[b]
<1>0. Distinct(dhead) /\ dhead \in Seq(Blocks)
  BY DEF LogInv, HeaderInv, TypeOK
<1>1. ASSUME NEW b \in Blocks PROVE Recovered[b] = home[b]
  <2>1. CASE \E i \in 1..Len(dhead) : dhead[i] = b
    <3>1. PICK i \in 1..Len(dhead) : dhead[i] = b
      BY <2>1
    <3> QED BY <1>0, <3>1, RecoveredIs
  <2>2. CASE \A i \in 1..Len(dhead) : dhead[i] # b
    BY <1>0, <2>2, RecoveredIs
  <2> QED BY <2>1, <2>2
<1>2. ASSUME NEW b \in Blocks PROVE Recovered'[b] = home[b]
  BY DEF Recovered
<1> QED BY <1>1, <1>2, SameRecovered

(* write_head() is the commit point. *)
LEMMA WriteHeadCommits ==
  ASSUME LogInv, NEW p \in Procs, write_head(p)
  PROVE  Active = {} /\ Active' = Active /\ Current' = Current /\ Recovered' = Current
<1>1. pc[p] = "write_head" /\ boot = "up" /\ boot' = "up" /\ dhead' = lh
  BY DEF write_head, At, recovery
<1>2. UNCHANGED <<home, logblk, buf, lh>>
  BY DEF write_head, cache, log
<1>3. Active = {} /\ \A q \in Procs \ {p} : pc[q] \notin Committing
  BY <1>1, OneCommitter DEF Committing
<1>4. Active' = Active
  BY CommitSteps DEF CommitStep
<1>5. Current' = Current
  BY <1>1, <1>2, SameContent DEF Content
<1>6. Distinct(dhead') /\ dhead' \in Seq(Blocks)
  BY <1>1 DEF LogInv, HeaderInv, TypeOK
<1>7. \A i \in 1..Len(lh) : logblk[i] = Content(lh[i])
  BY <1>1 DEF LogInv, CommitInv
<1>8. ASSUME NEW b \in Blocks PROVE Recovered'[b] = Content(b)
  <2>1. CASE \E i \in 1..Len(lh) : lh[i] = b
    <3>1. PICK i \in 1..Len(lh) : lh[i] = b
      BY <2>1
    <3>2. Recovered'[b] = logblk'[i]
      BY <1>1, <1>6, <3>1, RecoveredNextIs
    <3> QED BY <1>2, <1>7, <3>1, <3>2
  <2>2. CASE \A i \in 1..Len(lh) : lh[i] # b
    <3>1. ~Pending(b)
      BY <2>2 DEF Pending
    <3>2. Content(b) = home[b]
      BY <1>3, <3>1, CleanBlock
    <3>3. Recovered'[b] = home'[b]
      BY <1>1, <1>6, <2>2, RecoveredNextIs
    <3> QED BY <1>2, <3>2, <3>3
  <2> QED BY <2>1, <2>2
<1>9. Recovered' = Current
  <2>1. [b \in Blocks |-> Recovered'[b]] = [b \in Blocks |-> Content(b)]
    BY <1>8
  <2>2. Current = [b \in Blocks |-> Content(b)]
    BY <1>1 DEF Current
  <2> QED BY <2>1, <2>2, Readings, Zenon
<1> QED BY <1>3, <1>4, <1>5, <1>9

-----------------------------------------------------------------------------
(* Every step of the log is a step of the transactional disk. *)
LEMMA StepRefines ==
  ASSUME LogInv, Next
  PROVE  [Disk!Next]_(Disk!vars)
<1> DEFINE Same == UNCHANGED <<Recovered, Current, Active>>
<1>0. TypeOK
  BY DEF LogInv
<1>s. Same => [Disk!Next]_(Disk!vars)
  BY DEF Disk!vars
<1>a. CallerStep => Recovered' = Recovered /\ boot = "up" /\ boot' = "up"
  BY DEF CallerStep, UpStep, Recovered
<1>1. ASSUME NEW p \in Procs, begin_op(p) PROVE [Disk!Next]_(Disk!vars)
  <2>1. CallerStep /\ buf' = buf /\ home' = home /\ p \notin Active
    BY <1>1, BeginOp DEF cache, CallerStep
  <2>2. Current' = Current /\ Recovered' = Recovered
    BY <1>a, <2>1, SameContent DEF Content
  <2>3. Active' = Active \/ Active' = Active \cup {p}
    BY <1>1, BeginOp
  <2>4. CASE Active' = Active
    BY <1>s, <2>2, <2>4
  <2>5. CASE Active' = Active \cup {p}
    <3>1. Disk!Begin(p)
      BY <2>1, <2>2, <2>5 DEF Disk!Begin
    <3> QED BY <3>1 DEF Disk!Next
  <2> QED BY <2>3, <2>4, <2>5
<1>2. ASSUME NEW p \in Procs, NEW b \in Blocks, NEW v \in Values, modify(p, b, v)
      PROVE  [Disk!Next]_(Disk!vars)
  <2>1. CallerStep /\ Active' = Active
    BY <1>2, Rounds DEF RoundStep
  <2>2. p \in Active /\ buf' = [buf EXCEPT ![b] = v] /\ home' = home
    BY <1>2 DEF modify, At, Active, InOp, disk
  <2>3. \A c \in Blocks : Content(c)' = IF c = b THEN v ELSE Content(c)
    BY <1>0, <2>2, LogConstants DEF Content, TypeOK
  <2>4. /\ Current = [c \in Blocks |-> Content(c)]
        /\ Current' = [c \in Blocks |-> Content(c)']
    BY <1>a, <2>1 DEF Current
  <2>5. Current' = [Current EXCEPT ![b] = v]
    BY <2>3, <2>4
  <2>6. Disk!Write(p, b, v)
    BY <1>a, <2>1, <2>2, <2>5 DEF Disk!Write
  <2> QED BY <2>6 DEF Disk!Next
<1>3. ASSUME RoundNext, ~\E p \in Procs, b \in Blocks, v \in Values : modify(p, b, v)
      PROVE  [Disk!Next]_(Disk!vars)
  <2>1. CallerStep /\ Active' = Active
    BY <1>3, RoundsAre DEF RoundStep
  <2>2. \A c \in Blocks : Content(c)' = Content(c)
    <3>1. ASSUME NEW p \in Procs, NEW b \in Blocks, log_write(p, b), NEW c \in Blocks
          PROVE  Content(c)' = Content(c)
      BY <3>1, LogWrite DEF Content, disk
    <3>2. ASSUME NEW p \in Procs, NEW b \in Blocks, bread(p, b), NEW c \in Blocks
          PROVE  Content(c)' = Content(c)
      BY <1>0, <3>2, LogConstants DEF bread, Content, TypeOK, disk
    <3>3. ASSUME NEW p \in Procs, NEW b \in Blocks, brelse(p, b), NEW c \in Blocks
          PROVE  Content(c)' = Content(c)
      BY <3>3 DEF brelse, Content, disk
    <3>4. ASSUME NEW b \in Blocks, recycle(b), NEW c \in Blocks
          PROVE  Content(c)' = Content(c)
      <4>1. /\ buf' = [buf EXCEPT ![b] = NoBuf] /\ home' = home
            /\ pins[b] = 0 /\ holder[b] = NoProc /\ buf[b] # NoBuf
        BY <3>4 DEF recycle, Unused, Unlocked, disk
      <4>2. buf[b] = home[b]
        BY <4>1 DEF LogInv, CacheInv
      <4> QED BY <1>0, <4>1, <4>2 DEF Content, TypeOK
    <3> QED BY <1>3, <3>1, <3>2, <3>3, <3>4 DEF RoundNext
  <2> QED BY <1>s, <1>a, <2>1, <2>2, SameContent
<1>4. ASSUME NEW p \in Procs, end_op(p) PROVE [Disk!Next]_(Disk!vars)
  <2>1. p \in Active /\ Active' = Active \ {p} /\ UNCHANGED <<home, logblk, dhead, buf>>
    BY <1>4, EndOp DEF disk, cache
  <2>2. boot = "up" /\ boot' = "up"
    BY <1>4, UpSteps DEF UpStep
  <2>3. Recovered' = Recovered /\ Current' = Current
    BY <2>1, <2>2, SameContent DEF Recovered, Content
  <2>4. Disk!End(p)
    BY <2>1, <2>3 DEF Disk!End
  <2> QED BY <2>4 DEF Disk!Next
<1>5. ASSUME NEW p \in Procs, write_log(p) PROVE [Disk!Next]_(Disk!vars)
  <2>1. pc[p] = "write_log" /\ boot = "up" /\ boot' = "up"
    BY <1>5 DEF write_log, At, recovery
  <2>2. \A q \in Procs : pc[q] \notin {"install_trans", "clear"}
    BY <2>1, OneCommitter DEF Committing
  <2>3. dhead = <<>> /\ dhead' = dhead /\ home' = home
    BY <1>5, <2>1, <2>2, EmptyHeader DEF write_log
  <2>4. \A b \in Blocks : Recovered'[b] = Recovered[b]
    BY <2>3 DEF Recovered
  <2>5. lh[tail[p]] \in Blocks
    BY <1>0, <2>1, LogFits DEF LogInv, CommitInv, TypeOK
  <2>6. \A c \in Blocks : Content(c)' = Content(c)
    BY <1>0, <1>5, <2>3, <2>5, LogConstants DEF write_log, Content, TypeOK
  <2>7. Active' = Active
    BY <1>5, CommitSteps DEF CommitStep
  <2> QED BY <1>s, <2>1, <2>4, <2>6, <2>7, SameRecovered, SameContent
<1>6. ASSUME NEW p \in Procs, write_head(p) PROVE [Disk!Next]_(Disk!vars)
  <2>1. Disk!Commit
    BY <1>6, WriteHeadCommits DEF Disk!Commit
  <2> QED BY <2>1 DEF Disk!Next
<1>7. ASSUME NEW p \in Procs, install_trans(p) PROVE [Disk!Next]_(Disk!vars)
  <2>1. pc[p] = "install_trans" /\ boot = "up" /\ boot' = "up"
    BY <1>7 DEF install_trans, At, recovery
  <2>2. tail[p] \in 1..Len(lh) /\ lh[tail[p]] \in Blocks /\ tail[p] \in Slots
    BY <1>0, <2>1, LogFits DEF LogInv, CommitInv, TypeOK
  <2>3. dhead = lh
    BY <2>1 DEF LogInv, HeaderInv
  <2>4. /\ buf' = [buf EXCEPT ![lh[tail[p]]] = logblk[tail[p]]]
        /\ home' = [home EXCEPT ![lh[tail[p]]] = logblk[tail[p]]]
        /\ logblk' = logblk /\ dhead' = dhead
    BY <1>7 DEF install_trans, Install
  <2>5. Recovered' = Recovered
    BY <2>2, <2>3, <2>4, InstallKeepsRecovered
  <2>6. logblk[tail[p]] = Content(lh[tail[p]]) /\ logblk[tail[p]] # NoBuf
    BY <1>0, <2>1, <2>2, LogConstants DEF LogInv, CommitInv, TypeOK
  <2>7. \A c \in Blocks : Content(c)' = Content(c)
    BY <1>0, <2>2, <2>4, <2>6 DEF Content, TypeOK
  <2>8. Active' = Active
    BY <1>7, CommitSteps DEF CommitStep
  <2> QED BY <1>s, <2>1, <2>5, <2>7, <2>8, SameContent
<1>8. ASSUME NEW p \in Procs, clear(p) PROVE [Disk!Next]_(Disk!vars)
  <2>1. pc[p] = "clear" /\ boot = "up" /\ boot' = "up"
    BY <1>8 DEF clear, At, recovery
  <2>2. dhead = lh /\ \A i \in 1..Len(lh) : home[lh[i]] = logblk[i]
    BY <2>1 DEF LogInv, HeaderInv, CommitInv
  <2>3. dhead' = <<>> /\ home' = home /\ buf' = buf
    BY <1>8 DEF clear, cache
  <2>4. Recovered' = Recovered
    BY <2>2, <2>3, ClearKeepsRecovered
  <2>5. Active' = Active
    BY <1>8, CommitSteps DEF CommitStep
  <2> QED BY <1>s, <2>1, <2>3, <2>4, <2>5, SameContent DEF Content
<1>9. ASSUME NEW p \in Procs, end_commit(p) PROVE [Disk!Next]_(Disk!vars)
  <2>1. UpStep /\ Active' = Active
    BY <1>9, EndCommit
  <2>2. UNCHANGED <<home, logblk, dhead, buf>>
    BY <1>9 DEF end_commit, disk, cache
  <2>3. Recovered' = Recovered /\ Current' = Current
    BY <2>1, <2>2, SameContent DEF Recovered, Content, UpStep
  <2> QED BY <1>s, <2>1, <2>3
<1>10. ASSUME Recover PROVE [Disk!Next]_(Disk!vars)
  <2>1. boot # "up" /\ Active' = Active
    BY <1>10, RecoverSteps
  <2>2. CASE recover_read_head
    <3>1. boot' # "up" /\ UNCHANGED <<home, logblk, dhead>>
      BY <2>2 DEF recover_read_head, disk
    <3> QED BY <1>s, <2>1, <3>1 DEF Recovered, Current
  <2>3. CASE recover_install_trans
    <3>1. boot' # "up" /\ lh = dhead /\ btail \in 1..Len(lh)
      BY <1>0, <2>3 DEF recover_install_trans, LogInv, RecoveryInv, TypeOK
    <3>2. /\ home' = [home EXCEPT ![lh[btail]] = logblk[btail]]
          /\ logblk' = logblk /\ dhead' = dhead
      BY <2>3 DEF recover_install_trans, Install
    <3>3. Recovered' = Recovered
      BY <3>1, <3>2, InstallKeepsRecovered
    <3> QED BY <1>s, <2>1, <3>1, <3>3 DEF Current
  <2>4. CASE recover_clear
    <3>1. lh = dhead /\ \A i \in 1..Len(lh) : home[lh[i]] = logblk[i]
      BY <2>4 DEF recover_clear, LogInv, RecoveryInv
    <3>2. dhead' = <<>> /\ home' = home /\ buf' = buf /\ boot' = "up"
      BY <2>4 DEF recover_clear, cache
    <3>3. Recovered' = Recovered /\ \A b \in Blocks : Recovered[b] = home[b]
      BY <3>1, <3>2, ClearKeepsRecovered
    <3>4. \A b \in Blocks : Content(b)' = home[b]
      BY <2>1, <3>2 DEF LogInv, BootInv, Content
    <3>5. \A b \in Blocks : Current'[b] = Current[b]
      BY <2>1, <3>2, <3>3, <3>4 DEF Current
    <3> QED BY <1>s, <2>1, <3>3, <3>5, SameCurrent
  <2> QED BY <1>10, <2>2, <2>3, <2>4 DEF Recover
<1>11. ASSUME Crash PROVE [Disk!Next]_(Disk!vars)
  <2>1. Active' = {} /\ boot' = "read_head" /\ UNCHANGED <<home, logblk, dhead>>
    BY <1>11, CrashStep
  <2>2. Recovered' = Recovered /\ Current' = Recovered
    BY <2>1 DEF Recovered, Current
  <2>3. Disk!Crash
    BY <2>1, <2>2 DEF Disk!Crash
  <2> QED BY <2>3 DEF Disk!Next
<1> QED
  <2>1. CASE RoundNext
    BY <1>2, <1>3, <2>1
  <2> QED
    BY <1>1, <1>4, <1>5, <1>6, <1>7, <1>8, <1>9, <1>10, <1>11, <2>1, NextCases

LEMMA InitRefines ==
  ASSUME Init
  PROVE  Disk!Init
<1>1. \A b \in Blocks : Recovered[b] = home[b]
  BY DEF Init, Recovered
<1>2. Recovered \in [Blocks -> Values]
  <2>1. home \in [Blocks -> Values]
    BY DEF Init
  <2>2. [b \in Blocks |-> Recovered[b]] \in [Blocks -> Values]
    BY <1>1, <2>1
  <2> QED BY <2>2, Readings
<1>3. Current = Recovered
  BY DEF Init, Current
<1>4. Active = {}
  BY DEF Init, Active, InOp
<1> QED BY <1>2, <1>3, <1>4 DEF Disk!Init

(* The log implements the transactional disk, whatever the number of        *)
(* processes and blocks, the geometry of the log and the place of a crash.  *)
THEOREM LogImplementsTxnDisk == Spec => ImplementsTxnDisk
<1>1. Init => Disk!Init
  BY InitRefines
<1>2. LogInv /\ [Next]_vars => [Disk!Next]_(Disk!vars)
  <2> SUFFICES ASSUME LogInv, [Next]_vars PROVE [Disk!Next]_(Disk!vars)
    OBVIOUS
  <2>1. CASE Next
    BY <2>1, StepRefines
  <2>2. CASE UNCHANGED vars
    BY <2>2 DEF vars, disk, cache, log, recovery, local, Disk!vars, Recovered, Current, Content,
                Active
  <2> QED BY <2>1, <2>2
<1> QED BY <1>1, <1>2, LogInvariant, PTL DEF Spec, ImplementsTxnDisk, Disk!Spec

(* When the committing end_op() returns, a reboot finds what calls wrote.   *)
THEOREM LogCommittedIsDurable == Spec => []CommittedIsDurable
<1>1. LogInv => CommittedIsDurable
  <2> SUFFICES ASSUME LogInv, NEW p \in Procs, pc[p] = "committed" PROVE Recovered = Current
    BY DEF CommittedIsDurable
  <2>1. Active = {} /\ \A q \in Procs \ {p} : pc[q] \notin Committing
    BY OneCommitter DEF Committing
  <2>2. boot = "up" /\ lh = <<>>
    BY DEF LogInv, BootInv, OwnerInv
  <2>3. dhead = <<>>
    BY <2>1, <2>2, EmptyHeader DEF Committing
  <2>4. \A b \in Blocks : Content(b) = home[b]
    BY <2>1, <2>2, CleanBlock DEF Pending
  <2>5. \A b \in Blocks : Recovered[b] = Content(b)
    BY <2>3, <2>4 DEF Recovered
  <2>6. [b \in Blocks |-> Recovered[b]] = [b \in Blocks |-> Content(b)]
    BY <2>5
  <2>7. Current = [b \in Blocks |-> Content(b)]
    BY <2>2 DEF Current
  <2> QED BY <2>6, <2>7, Readings, Zenon
<1> QED BY <1>1, LogInvariant, PTL

(* A home block is overwritten only with what the committed log holds.      *)
THEOREM LogWritesAhead == Spec => WriteAhead
<1> DEFINE Ahead == \A b \in Blocks :
       home'[b] # home[b] =>
         \E i \in 1..Len(dhead) : dhead[i] = b /\ home'[b] = logblk[i]
<1>1. LogInv /\ [Next]_vars => [Ahead]_vars
  <2> SUFFICES ASSUME LogInv, Next PROVE Ahead
    OBVIOUS
  <2>0. TypeOK
    BY DEF LogInv
  <2>1. CASE home' = home
    BY <2>1
  <2>2. ASSUME NEW t \in 1..Len(lh), lh = dhead, home' = [home EXCEPT ![lh[t]] = logblk[t]]
        PROVE  Ahead
    BY <2>0, <2>2 DEF TypeOK
  <2>3. ASSUME NEW p \in Procs, install_trans(p) PROVE Ahead
    <3>1. pc[p] = "install_trans"
      BY <2>3 DEF install_trans, At
    <3>2. tail[p] \in 1..Len(lh) /\ lh = dhead
      BY <2>0, <3>1 DEF LogInv, CommitInv, HeaderInv, TypeOK
    <3>3. home' = [home EXCEPT ![lh[tail[p]]] = logblk[tail[p]]]
      BY <2>3 DEF install_trans, Install
    <3> HIDE DEF Ahead
    <3> QED BY <2>2, <3>2, <3>3
  <2>4. CASE recover_install_trans
    <3>1. btail \in 1..Len(lh) /\ lh = dhead
      BY <2>0, <2>4 DEF recover_install_trans, LogInv, RecoveryInv, TypeOK
    <3>2. home' = [home EXCEPT ![lh[btail]] = logblk[btail]]
      BY <2>4 DEF recover_install_trans, Install
    <3> HIDE DEF Ahead
    <3> QED BY <2>2, <3>1, <3>2
  <2>5. \/ home' = home
        \/ \E p \in Procs : install_trans(p)
        \/ recover_install_trans
    <3>1. (\E p \in Procs : begin_op(p)) => home' = home
      BY BeginOp DEF CallerStep
    <3>2. RoundNext => home' = home
      BY RoundsAre DEF RoundStep, CallerStep
    <3>3. (\E p \in Procs : end_op(p)) => home' = home
      BY EndOp DEF disk
    <3>4. (\E p \in Procs : write_log(p) \/ write_head(p) \/ clear(p) \/ end_commit(p)) => home' = home
      BY DEF write_log, write_head, clear, end_commit, disk
    <3>5. recover_read_head \/ recover_clear \/ Crash => home' = home
      BY DEF recover_read_head, recover_clear, Crash, disk
    <3> QED BY <3>1, <3>2, <3>3, <3>4, <3>5, NextCases DEF Recover
  <2> HIDE DEF Ahead
  <2> QED BY <2>1, <2>3, <2>4, <2>5
<1> QED BY <1>1, LogInvariant, PTL DEF Spec, WriteAhead
=============================================================================
