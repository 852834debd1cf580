------------------------- MODULE LogProtocolProofs -------------------------
(***************************************************************************)
(* Proofs about Log: types, and the protocol around log.outstanding and    *)
(* log.committing.                                                         *)
(***************************************************************************)
EXTENDS Log, FiniteSetTheorems, TLAPS

(* The program labels the actions go to are labels. *)
LEMMA Labels ==
  /\ {"user", "reading", "begin", "asleep", "op", "held", "dirty", "logged",
      "write_log", "write_head", "install_trans", "clear", "committed"} \subseteq PC
  /\ {"read_head", "install_trans", "clear", "up"} \subseteq Phases
  /\ {"too big a transaction", "log_write outside of trans", "log.committing",
      "no"} \subseteq Panics \cup {"no"}
BY DEF PC, InOp, Committing, Phases, Panics

(* wakeup(&log) changes the label of sleepers only. *)
LEMMA WakeupType ==
  ASSUME NEW pcs \in [Procs -> PC]
  PROVE  /\ Wakeup(pcs) \in [Procs -> PC]
         /\ \A q \in Procs : Wakeup(pcs)[q] = IF pcs[q] = "asleep" THEN "begin"
                                              ELSE pcs[q]
BY Labels DEF Wakeup

-----------------------------------------------------------------------------
(* What each kind of step leaves alone. *)

UpStep == boot = "up" /\ boot' = "up" /\ btail' = btail

(* Steps of calls and readers do not move the committer. *)
CallerStep ==
  /\ UpStep
  /\ \A q \in Procs : pc[q] \in Committing \/ pc'[q] \in Committing => pc'[q] = pc[q]
  /\ tail' = tail /\ committing' = committing
  /\ home' = home /\ logblk' = logblk /\ dhead' = dhead

LEMMA CallersAre ==
  ASSUME TypeOK, NEW p \in Procs
  PROVE  /\ begin_op(p) => CallerStep
         /\ \A b \in Blocks : bread(p, b) => CallerStep
         /\ \A b \in Blocks, v \in Values : modify(p, b, v) => CallerStep
         /\ \A b \in Blocks : brelse(p, b) => CallerStep
         /\ \A b \in Blocks : log_write(p, b) => CallerStep
<1> USE DEF CallerStep, UpStep, TypeOK, Committing, At, Goto, disk, cache, log, recovery, local
<1>1. begin_op(p) => CallerStep
  BY DEF begin_op
<1>2. ASSUME NEW b \in Blocks, bread(p, b) PROVE CallerStep
  BY <1>2 DEF bread
<1>3. ASSUME NEW b \in Blocks, NEW v \in Values, modify(p, b, v) PROVE CallerStep
  BY <1>3 DEF modify
<1>4. ASSUME NEW b \in Blocks, brelse(p, b) PROVE CallerStep
  BY <1>4 DEF brelse
<1>5. ASSUME NEW b \in Blocks, log_write(p, b) PROVE CallerStep
  BY <1>5 DEF log_write, Panic
<1> QED BY <1>1, <1>2, <1>3, <1>4, <1>5

(* A running system stays clear of what BootInv and RecoveryInv say. *)
LEMMA UpKeepsBoot ==
  ASSUME UpStep, RecoveryInv
  PROVE  BootInv' /\ RecoveryInv'
BY DEF UpStep, BootInv, RecoveryInv

LEMMA UpSteps ==
  ASSUME NEW p \in Procs
  PROVE  /\ end_op(p) \/ Commit(p) => UpStep
BY DEF UpStep, end_op, Panic, Commit, write_log, write_head, install_trans, clear, end_commit, At, recovery

-----------------------------------------------------------------------------
(* Type correctness. *)

LEMMA EmptyLog == <<>> \in Seq(Blocks)
OBVIOUS

(* Block i of an open transaction has a place in the log area. *)
LEMMA LogFits ==
  ASSUME lh \in Seq(Blocks), HeaderInv, NEW i \in Nat \ {0}, i <= Len(lh)
  PROVE  i \in Slots /\ lh[i] \in Blocks
<1>1. Len(lh) <= NLOG - 1
  BY DEF HeaderInv
<1> QED BY <1>1, LogConstants DEF Slots

(* Every step keeps the types; end_op() and install_trans() decrement       *)
(* counters that the rest of LogInv keeps above zero.                       *)
LEMMA TypeStep ==
  ASSUME LogInv, Next
  PROVE  TypeOK'
<1> USE LogConstants DEF disk, cache, log, recovery, local
<1>0. TypeOK
  BY DEF LogInv
<1>a. \A b \in Blocks : Content(b) \in Values
  BY <1>0 DEF Content, TypeOK
<1>1. ASSUME NEW p \in Procs, begin_op(p) PROVE TypeOK'
  <2>1. (pc \in [Procs -> PC])'
    BY <1>0, <1>1, Labels DEF begin_op, Goto, TypeOK
  <2>2. (outstanding \in Nat)'
    BY <1>0, <1>1 DEF begin_op, TypeOK
  <2> QED BY <1>0, <1>1, <2>1, <2>2 DEF begin_op, TypeOK
<1>2. ASSUME NEW p \in Procs, NEW b \in Blocks, bread(p, b) PROVE TypeOK'
  <2>1. (pc \in [Procs -> PC])'
    BY <1>0, <1>2, Labels DEF bread, Goto, TypeOK
  <2>2. (buf \in [Blocks -> Values \cup {NoBuf}])'
    BY <1>0, <1>2, <1>a DEF bread, TypeOK
  <2>3. (holder \in [Blocks -> Procs \cup {NoProc}])'
    BY <1>0, <1>2 DEF bread, TypeOK
  <2> QED BY <1>0, <1>2, <2>1, <2>2, <2>3 DEF bread, TypeOK
<1>3. ASSUME NEW p \in Procs, NEW b \in Blocks, NEW v \in Values, modify(p, b, v)
      PROVE TypeOK'
  <2>1. (pc \in [Procs -> PC])' /\ (buf \in [Blocks -> Values \cup {NoBuf}])'
    BY <1>0, <1>3, Labels DEF modify, Goto, TypeOK
  <2> QED BY <1>0, <1>3, <2>1 DEF modify, TypeOK
<1>4. ASSUME NEW p \in Procs, NEW b \in Blocks, brelse(p, b) PROVE TypeOK'
  <2>1. (pc \in [Procs -> PC])'
    BY <1>0, <1>4, Labels DEF brelse, Goto, TypeOK
  <2>2. (holder \in [Blocks -> Procs \cup {NoProc}])'
    BY <1>0, <1>4 DEF brelse, TypeOK
  <2> QED BY <1>0, <1>4, <2>1, <2>2 DEF brelse, TypeOK
<1>5. ASSUME NEW p \in Procs, NEW b \in Blocks, log_write(p, b) PROVE TypeOK'
  <2>0. \/ UNCHANGED <<pc, lh, pins, wrote>>
        \/ /\ Goto(p, "logged")
           /\ lh' = lh \/ lh' = Append(lh, b)
           /\ pins' = bpin(b)
           /\ wrote' = [wrote EXCEPT ![p] = @ \cup {b}]
    BY <1>5 DEF log_write, Panic
  <2>1. (pc \in [Procs -> PC])'
    BY <1>0, <2>0, Labels DEF Goto, TypeOK
  <2>5. (panicked \in Panics \cup {"no"})'
    BY <1>0, <1>5, Labels DEF log_write, Panic, TypeOK
  <2>6. (wrote \in [Procs -> SUBSET Blocks])'
    <3>1. wrote[p] \cup {b} \in SUBSET Blocks
      BY <1>0 DEF TypeOK
    <3>2. wrote' = wrote \/ wrote' = [wrote EXCEPT ![p] = wrote[p] \cup {b}]
      BY <2>0
    <3>3. wrote \in [Procs -> SUBSET Blocks]
      BY <1>0 DEF TypeOK
    <3> QED BY <3>1, <3>2, <3>3
  <2>2. (lh \in Seq(Blocks))'
    <3>1. lh \in Seq(Blocks)
      BY <1>0 DEF TypeOK
    <3>2. lh' = lh \/ lh' = Append(lh, b)
      BY <2>0
    <3> QED BY <3>1, <3>2
  <2>3. (pins \in [Blocks -> Nat])'
    BY <1>0, <2>0 DEF bpin, TypeOK
  <2>4. UNCHANGED <<disk, buf, holder, outstanding, committing, recovery, tail>>
    BY <1>5 DEF log_write, Panic
  <2> QED BY <1>0, <2>1, <2>2, <2>3, <2>4, <2>5, <2>6 DEF TypeOK
<1>6. ASSUME NEW b \in Blocks, recycle(b) PROVE TypeOK'
  <2>1. (buf \in [Blocks -> Values \cup {NoBuf}])'
    BY <1>0, <1>6 DEF recycle, TypeOK
  <2> QED BY <1>0, <1>6, <2>1 DEF recycle, TypeOK
<1>7. ASSUME NEW p \in Procs, end_op(p) PROVE TypeOK'
  <2>1. (outstanding \in Nat)'
    <3>1. p \in Active /\ Active \subseteq Procs
      BY <1>7 DEF end_op, At, Active, InOp
    <3>2. Cardinality(Active) # 0 /\ Cardinality(Active) \in Nat
      BY <3>1, FS_Subset, FS_EmptySet, FS_CardinalityType
    <3>3. outstanding = Cardinality(Active)
      BY DEF LogInv, OutstandingCounts
    <3> QED BY <1>7, <3>2, <3>3 DEF end_op
  <2>2. (pc \in [Procs -> PC])'
    <3>1. /\ [pc EXCEPT ![p] = "user"] \in [Procs -> PC]
          /\ [pc EXCEPT ![p] = "write_log"] \in [Procs -> PC]
          /\ [pc EXCEPT ![p] = "committed"] \in [Procs -> PC]
      BY <1>0, Labels DEF TypeOK
    <3>2. \/ pc' = pc
          \/ pc' = [pc EXCEPT ![p] = "write_log"]
          \/ pc' = [pc EXCEPT ![p] = "committed"]
          \/ pc' = Wakeup([pc EXCEPT ![p] = "user"])
      BY <1>7 DEF end_op, Panic, Goto
    <3>3. Wakeup([pc EXCEPT ![p] = "user"]) \in [Procs -> PC]
      BY <3>1, WakeupType
    <3> QED BY <1>0, <3>1, <3>2, <3>3 DEF TypeOK
  <2>5. (panicked \in Panics \cup {"no"})'
    BY <1>0, <1>7, Labels DEF end_op, Panic, TypeOK
  <2>6. (wrote \in [Procs -> SUBSET Blocks])'
    BY <1>0, <1>7 DEF end_op, Panic, TypeOK
  <2>3. committing' \in BOOLEAN
    BY <1>0, <1>7 DEF end_op, Panic, TypeOK
  <2>4. UNCHANGED <<disk, cache, lh, recovery, tail>>
    BY <1>7 DEF end_op, Panic
  <2> QED BY <1>0, <2>1, <2>2, <2>3, <2>4, <2>5, <2>6 DEF TypeOK
<1>8. ASSUME NEW p \in Procs, Advance(p, "write_head") \/ Advance(p, "clear")
      PROVE  (pc \in [Procs -> PC])' /\ (tail \in [Procs -> Nat \ {0}])'
  <2>1. (pc \in [Procs -> PC])'
    BY <1>0, <1>8, Labels DEF Advance, TypeOK
  <2>2. (tail \in [Procs -> Nat \ {0}])'
    BY <1>0, <1>8 DEF Advance, TypeOK
  <2> QED BY <2>1, <2>2
<1>9. ASSUME NEW p \in Procs, write_log(p) PROVE TypeOK'
  <2>1. tail[p] \in Slots /\ lh[tail[p]] \in Blocks
    BY <1>0, <1>9, LogFits DEF LogInv, CommitInv, write_log, At, TypeOK
  <2>2. /\ (buf \in [Blocks -> Values \cup {NoBuf}])'
        /\ (logblk \in [Slots -> Values])'
    BY <1>0, <1>9, <1>a, <2>1 DEF write_log, TypeOK
  <2> QED BY <1>0, <1>8, <1>9, <2>2 DEF write_log, TypeOK
<1>10. ASSUME NEW p \in Procs, write_head(p) PROVE TypeOK'
  <2>1. (pc \in [Procs -> PC])' /\ (dhead \in Seq(Blocks))'
    BY <1>0, <1>10, Labels DEF write_head, Goto, TypeOK
  <2> QED BY <1>0, <1>10, <2>1 DEF write_head, TypeOK
<1>11. ASSUME NEW p \in Procs, install_trans(p) PROVE TypeOK'
  <2>1. tail[p] \in Slots /\ lh[tail[p]] \in Blocks
    BY <1>0, <1>11, LogFits DEF LogInv, CommitInv, install_trans, At, TypeOK
  <2>2. pins[lh[tail[p]]] = 1
    <3>1. tail[p] \in 1..Len(lh) /\ boot = "up" /\ pc[p] = "install_trans"
      BY <1>0, <1>11 DEF install_trans, At, LogInv, CommitInv, TypeOK
    <3>2. \A q \in Procs : pc[q] \in {"install_trans", "clear"} => q = p
      BY <3>1 DEF LogInv, CommitQuiescent, Committing
    <3>3. Pending(lh[tail[p]])
      <4>1. tail[p] \in Nat
        BY <1>0 DEF TypeOK
      <4>2. \A q \in Procs : /\ pc[q] # "clear"
                             /\ pc[q] = "install_trans" => tail[p] >= tail[q]
        BY <3>1, <3>2, <4>1
      <4> QED BY <3>1, <4>2 DEF Pending
    <3> QED BY <2>1, <3>3 DEF LogInv, PinsMatchLog
  <2>3. /\ (buf \in [Blocks -> Values \cup {NoBuf}])'
        /\ (home \in [Blocks -> Values])'
        /\ (pins \in [Blocks -> Nat])'
    BY <1>0, <1>11, <2>1, <2>2 DEF install_trans, Install, bunpin, TypeOK
  <2> QED BY <1>0, <1>8, <1>11, <2>3 DEF install_trans, TypeOK
<1>12. ASSUME NEW p \in Procs, clear(p) PROVE TypeOK'
  <2>1. (pc \in [Procs -> PC])'
    BY <1>0, <1>12, Labels DEF clear, Goto, TypeOK
  <2> QED BY <1>0, <1>12, <2>1, EmptyLog DEF clear, TypeOK
<1>13. ASSUME NEW p \in Procs, end_commit(p) PROVE TypeOK'
  <2>1. [pc EXCEPT ![p] = "user"] \in [Procs -> PC]
    BY <1>0, Labels DEF TypeOK
  <2> QED BY <1>0, <1>13, <2>1, WakeupType DEF end_commit, TypeOK
<1>14. ASSUME Crash PROVE TypeOK'
  <2>1. /\ (buf \in [Blocks -> Values \cup {NoBuf}])'
        /\ (pins \in [Blocks -> Nat])'
        /\ (holder \in [Blocks -> Procs \cup {NoProc}])'
        /\ (lh \in Seq(Blocks))'
    BY <1>14, EmptyLog DEF Crash
  <2>2. /\ (outstanding \in Nat)'
        /\ (btail \in Nat \ {0})'
        /\ (tail \in [Procs -> Nat \ {0}])'
        /\ (wrote \in [Procs -> SUBSET Blocks])'
    BY <1>14 DEF Crash
  <2>3. (pc \in [Procs -> PC])' /\ (boot \in Phases)'
    BY <1>14, Labels DEF Crash
  <2>4. (panicked \in Panics \cup {"no"})' /\ (committing \in BOOLEAN)'
    BY <1>14 DEF Crash
  <2>5. UNCHANGED disk
    BY <1>14 DEF Crash
  <2> QED BY <1>0, <2>1, <2>2, <2>3, <2>4, <2>5 DEF TypeOK
<1>15. ASSUME recover_read_head PROVE TypeOK'
  BY <1>0, <1>15, Labels DEF recover_read_head, TypeOK
<1>16. ASSUME recover_install_trans PROVE TypeOK'
  <2>1. btail \in Slots /\ lh[btail] \in Blocks
    BY <1>0, <1>16, LogFits DEF LogInv, RecoveryInv, recover_install_trans, TypeOK
  <2>2. /\ (buf \in [Blocks -> Values \cup {NoBuf}])'
        /\ (home \in [Blocks -> Values])'
        /\ (pins \in [Blocks -> Nat])'
    BY <1>0, <1>16, <2>1 DEF recover_install_trans, Install, bunpin, TypeOK
  <2>3. (btail \in Nat \ {0})'
    BY <1>0, <1>16 DEF recover_install_trans, TypeOK
  <2>4. (boot \in Phases)'
    BY <1>0, <1>16, Labels DEF recover_install_trans, TypeOK
  <2> QED BY <1>0, <1>16, <2>2, <2>3, <2>4 DEF recover_install_trans, TypeOK
<1>17. ASSUME recover_clear PROVE TypeOK'
  BY <1>0, <1>17, EmptyLog, Labels DEF recover_clear, TypeOK
<1> QED
  BY <1>1, <1>2, <1>3, <1>4, <1>5, <1>6, <1>7, <1>9, <1>10, <1>11, <1>12, <1>13,
     <1>14, <1>15, <1>16, <1>17 DEF Next, Call, Commit, Recover

-----------------------------------------------------------------------------
(* Who moves where. *)

(* Process p goes from a label in `from' to one in `to'; of the others only *)
(* sleepers move, when they are woken.                                      *)
Move(p, from, to) ==
  /\ pc[p] \in from
  /\ pc'[p] \in to
  /\ \A q \in Procs \ {p} : pc'[q] = pc[q] \/ (pc[q] = "asleep" /\ pc'[q] = "begin")

LEMMA GotoMoves ==
  ASSUME TypeOK, NEW p \in Procs, NEW l, Goto(p, l)
  PROVE  Move(p, {pc[p]}, {l})
BY DEF TypeOK, Goto, Move

LEMMA WakeupMoves ==
  ASSUME TypeOK, NEW p \in Procs, pc' = Wakeup([pc EXCEPT ![p] = "user"])
  PROVE  Move(p, {pc[p]}, {"user"})
<1>1. [pc EXCEPT ![p] = "user"] \in [Procs -> PC]
  BY Labels DEF TypeOK
<1>2. \A q \in Procs : pc'[q] = IF [pc EXCEPT ![p] = "user"][q] = "asleep"
                               THEN "begin" ELSE [pc EXCEPT ![p] = "user"][q]
  BY <1>1, WakeupType
<1> QED BY <1>2 DEF TypeOK, Move

LEMMA AdvanceMoves ==
  ASSUME TypeOK, NEW p \in Procs, NEW l, Advance(p, l)
  PROVE  Move(p, {pc[p]}, {pc[p], l})
BY DEF TypeOK, Advance, Move

LEMMA Moves ==
  ASSUME TypeOK, NEW p \in Procs
  PROVE  /\ begin_op(p) => Move(p, {"user", "begin"}, {"asleep", "op"})
         /\ \A b \in Blocks : bread(p, b) => \/ Move(p, {"op"}, {"held"})
                                             \/ Move(p, {"user"}, {"reading"})
         /\ \A b \in Blocks, v \in Values :
              modify(p, b, v) => Move(p, {"held"}, {"dirty"})
         /\ \A b \in Blocks : brelse(p, b) => \/ Move(p, {"held", "logged"}, {"op"})
                                              \/ Move(p, {"reading"}, {"user"})
         /\ \A b \in Blocks : log_write(p, b) => \/ pc' = pc
                                                 \/ Move(p, {"dirty"}, {"logged"})
         /\ end_op(p) => \/ pc' = pc
                         \/ Move(p, {"op"}, {"write_log", "committed", "user"})
         /\ write_log(p) => Move(p, {"write_log"}, {"write_log", "write_head"})
         /\ write_head(p) => Move(p, {"write_head"}, {"install_trans"})
         /\ install_trans(p) => Move(p, {"install_trans"}, {"install_trans", "clear"})
         /\ clear(p) => Move(p, {"clear"}, {"committed"})
         /\ end_commit(p) => Move(p, {"committed"}, {"user"})
<1>1. begin_op(p) => Move(p, {"user", "begin"}, {"asleep", "op"})
  BY GotoMoves DEF begin_op, At, Move
<1>2. ASSUME NEW b \in Blocks, bread(p, b)
      PROVE  Move(p, {"op"}, {"held"}) \/ Move(p, {"user"}, {"reading"})
  BY <1>2, GotoMoves DEF bread, At, Move
<1>3. ASSUME NEW b \in Blocks, NEW v \in Values, modify(p, b, v)
      PROVE  Move(p, {"held"}, {"dirty"})
  BY <1>3, GotoMoves DEF modify, At, Move
<1>4. ASSUME NEW b \in Blocks, brelse(p, b)
      PROVE  Move(p, {"held", "logged"}, {"op"}) \/ Move(p, {"reading"}, {"user"})
  BY <1>4, GotoMoves DEF brelse, Move
<1>5. ASSUME NEW b \in Blocks, log_write(p, b)
      PROVE  pc' = pc \/ Move(p, {"dirty"}, {"logged"})
  BY <1>5, GotoMoves DEF log_write, Panic, At, Move
<1>6. ASSUME end_op(p)
      PROVE  pc' = pc \/ Move(p, {"op"}, {"write_log", "committed", "user"})
  <2>1. \/ pc' = pc
        \/ Goto(p, "write_log")
        \/ Goto(p, "committed")
        \/ pc' = Wakeup([pc EXCEPT ![p] = "user"])
    BY <1>6 DEF end_op, Panic, Goto
  <2>2. pc[p] = "op"
    BY <1>6 DEF end_op, At
  <2> QED BY <2>1, <2>2, GotoMoves, WakeupMoves DEF Move
<1>7. write_log(p) => Move(p, {"write_log"}, {"write_log", "write_head"})
  BY AdvanceMoves DEF write_log, At, Move
<1>8. write_head(p) => Move(p, {"write_head"}, {"install_trans"})
  BY GotoMoves DEF write_head, At, Move
<1>9. install_trans(p) => Move(p, {"install_trans"}, {"install_trans", "clear"})
  BY AdvanceMoves DEF install_trans, At, Move
<1>10. clear(p) => Move(p, {"clear"}, {"committed"})
  BY GotoMoves DEF clear, At, Move
<1>11. end_commit(p) => Move(p, {"committed"}, {"user"})
  BY WakeupMoves DEF end_commit, At, Move
<1> QED BY <1>1, <1>2, <1>3, <1>4, <1>5, <1>6, <1>7, <1>8, <1>9, <1>10, <1>11

(* What a move does to the set of calls in progress and to the committers. *)
LEMMA ActiveMoves ==
  ASSUME NEW p \in Procs, NEW from, NEW to, Move(p, from, to)
  PROVE  /\ from \cap InOp = {} /\ to \cap InOp = {} => Active' = Active
         /\ from \subseteq InOp /\ to \subseteq InOp => Active' = Active
         /\ from \subseteq InOp /\ to \cap InOp = {} =>
              p \in Active /\ Active' = Active \ {p}
         /\ pc[p] \notin InOp => p \notin Active
         /\ pc[p] \notin InOp /\ pc'[p] \in InOp => Active' = Active \cup {p}
         /\ pc[p] \notin InOp /\ pc'[p] \notin InOp => Active' = Active
BY DEF Move, Active, InOp

LEMMA CommitterMoves ==
  ASSUME NEW p \in Procs, NEW from, NEW to, Move(p, from, to)
  PROVE  /\ \A q \in Procs \ {p} : pc'[q] \in Committing <=> pc[q] \in Committing
         /\ \A q \in Procs \ {p} : pc'[q] \in Committing \/ pc[q] \in Committing => pc'[q] = pc[q]
         /\ to \cap Committing = {} => pc'[p] \notin Committing
BY DEF Move, Committing

-----------------------------------------------------------------------------
(* The protocol around log.outstanding and log.committing. *)

(* While a call is in progress nobody commits. *)
LEMMA ActiveMeansNoCommit ==
  ASSUME LogInv, NEW p \in Active
  PROVE  ~committing /\ \A q \in Procs : pc[q] \notin Committing
<1>1. \A q \in Procs : pc[q] \notin Committing
  BY DEF LogInv, CommitQuiescent
<1> QED BY <1>1 DEF LogInv, OwnerInv

(* The committer is alone. *)
LEMMA OneCommitter ==
  ASSUME LogInv, NEW p \in Procs, pc[p] \in Committing
  PROVE  /\ committing /\ outstanding = 0 /\ Active = {}
         /\ \A q \in Procs \ {p} : pc[q] \notin Committing
BY DEF LogInv, CommitQuiescent

(* What end_op() does when it does not panic, which it never does. *)
LEMMA EndOp ==
  ASSUME LogInv, NEW p \in Procs, end_op(p)
  PROVE  /\ p \in Active /\ ~committing
         /\ \A q \in Procs : pc[q] \notin Committing
         /\ Active' = Active \ {p}
         /\ outstanding' = outstanding - 1
         /\ outstanding' = Cardinality(Active')
         /\ UNCHANGED <<disk, cache, lh, panicked, recovery, tail>>
         /\ Move(p, {"op"}, {"write_log", "committed", "user"})
         /\ \/ /\ outstanding' = 0 /\ committing' = TRUE /\ Active' = {}
               /\ pc'[p] = IF Len(lh) > 0 THEN "write_log" ELSE "committed"
            \/ /\ outstanding' # 0 /\ ~committing'
               /\ pc'[p] = "user"
               /\ \A q \in Procs : pc'[q] # "asleep"
<1>0. TypeOK /\ pc[p] = "op"
  BY DEF LogInv, end_op, At
<1>1. p \in Active /\ Active \subseteq Procs
  BY <1>0 DEF Active, InOp
<1>2. ~committing /\ \A q \in Procs : pc[q] \notin Committing
  BY <1>1, ActiveMeansNoCommit
<1>3. /\ outstanding' = outstanding - 1
      /\ UNCHANGED <<disk, cache, lh, panicked, recovery, tail>>
  BY <1>2 DEF end_op
<1>4. \/ /\ outstanding' = 0 /\ committing' = TRUE
         /\ Goto(p, IF Len(lh) > 0 THEN "write_log" ELSE "committed")
      \/ /\ outstanding' # 0 /\ committing' = committing
         /\ pc' = Wakeup([pc EXCEPT ![p] = "user"])
  BY <1>2 DEF end_op
<1>5. Move(p, {"op"}, {"write_log", "committed", "user"})
  BY <1>0, <1>4, GotoMoves, WakeupMoves DEF Move
<1>6. Active' = Active \ {p}
  BY <1>5, ActiveMoves DEF InOp
<1>7. IsFiniteSet(Active) /\ outstanding = Cardinality(Active)
  BY <1>1, FS_Subset, LogConstants DEF LogInv, OutstandingCounts
<1>8. outstanding' = Cardinality(Active')
  BY <1>1, <1>3, <1>6, <1>7, FS_RemoveElement
<1>9. IsFiniteSet(Active')
  BY <1>6, <1>7, FS_RemoveElement
<1>10. outstanding' = 0 => Active' = {}
  BY <1>8, <1>9, FS_EmptySet
<1>11. CASE outstanding' = 0
  <2>1. pc'[p] = IF Len(lh) > 0 THEN "write_log" ELSE "committed"
    BY <1>0, <1>4, <1>11 DEF Goto, TypeOK
  <2> QED BY <1>1, <1>2, <1>3, <1>4, <1>5, <1>6, <1>8, <1>10, <1>11, <2>1
<1>12. CASE outstanding' # 0
  <2>1. [pc EXCEPT ![p] = "user"] \in [Procs -> PC]
    BY <1>0, Labels DEF TypeOK
  <2>2. \A q \in Procs : pc'[q] # "asleep"
    BY <1>4, <1>12, <2>1, WakeupType
  <2>3. pc'[p] = "user"
    BY <1>0, <1>4, <1>12, WakeupMoves DEF Move
  <2> QED BY <1>1, <1>2, <1>3, <1>4, <1>5, <1>6, <1>8, <1>12, <2>2, <2>3
<1> QED BY <1>11, <1>12

(* begin_op(), as its two outcomes. *)
LEMMA BeginOp ==
  ASSUME LogInv, NEW p \in Procs, begin_op(p)
  PROVE  /\ CallerStep /\ lh' = lh /\ panicked' = panicked /\ UNCHANGED cache
         /\ p \notin Active
         /\ Move(p, {"user", "begin"}, {"asleep", "op"})
         /\ \/ /\ ~committing /\ Active' = Active \cup {p}
               /\ outstanding' = outstanding + 1
               /\ pc'[p] = "op"
            \/ /\ MustWait /\ Active' = Active
               /\ outstanding' = outstanding
               /\ pc'[p] = "asleep"
<1>0. TypeOK
  BY DEF LogInv
<1>1. Move(p, {"user", "begin"}, {"asleep", "op"})
  BY <1>0, Moves
<1>2. pc[p] \in {"user", "begin"}
  BY <1>1 DEF Move
<1>3. p \notin Active
  BY <1>2 DEF Active, InOp
<1>4. CallerStep /\ lh' = lh /\ panicked' = panicked /\ UNCHANGED cache
  BY <1>0, CallersAre DEF begin_op
<1>5. \/ ~committing /\ Goto(p, "op") /\ outstanding' = outstanding + 1
      \/ MustWait /\ Goto(p, "asleep") /\ outstanding' = outstanding
  BY DEF begin_op, MustWait
<1>6. \/ ~committing /\ pc'[p] = "op" /\ outstanding' = outstanding + 1
      \/ MustWait /\ pc'[p] = "asleep" /\ outstanding' = outstanding
  BY <1>0, <1>5 DEF Goto, TypeOK
<1>7. /\ pc'[p] = "op" => Active' = Active \cup {p}
      /\ pc'[p] = "asleep" => Active' = Active
  BY <1>1, <1>2, ActiveMoves DEF InOp
<1> QED BY <1>1, <1>3, <1>4, <1>6, <1>7

(* A round of a call, a read or the recycling of a buffer leaves the        *)
(* protocol variables alone.                                                *)
RoundStep ==
  /\ CallerStep
  /\ Active' = Active
  /\ outstanding' = outstanding
  /\ \A q \in Procs : pc'[q] = "asleep" => pc[q] = "asleep"

LEMMA Rounds ==
  ASSUME LogInv, NEW b \in Blocks
  PROVE  /\ \A p \in Procs : bread(p, b) => RoundStep
         /\ \A p \in Procs : brelse(p, b) => RoundStep
         /\ \A p \in Procs : log_write(p, b) => RoundStep
         /\ \A p \in Procs, v \in Values : modify(p, b, v) => RoundStep
         /\ recycle(b) => RoundStep
<1>0. TypeOK
  BY DEF LogInv
<1> USE DEF log
<1>1. ASSUME NEW p \in Procs, bread(p, b) PROVE RoundStep
  <2>1. Active' = Active
    BY <1>0, <1>1, Moves, ActiveMoves DEF InOp
  <2>2. \A q \in Procs : pc'[q] = "asleep" => pc[q] = "asleep"
    BY <1>0, <1>1, Moves DEF Move
  <2> QED BY <1>0, <1>1, <2>1, <2>2, CallersAre DEF bread, RoundStep
<1>2. ASSUME NEW p \in Procs, brelse(p, b) PROVE RoundStep
  <2>1. Active' = Active
    BY <1>0, <1>2, Moves, ActiveMoves DEF InOp
  <2>2. \A q \in Procs : pc'[q] = "asleep" => pc[q] = "asleep"
    BY <1>0, <1>2, Moves DEF Move
  <2> QED BY <1>0, <1>2, <2>1, <2>2, CallersAre DEF brelse, RoundStep
<1>3. ASSUME NEW p \in Procs, log_write(p, b) PROVE RoundStep
  <2>1. Active' = Active
    <3>1. CASE pc' = pc
      BY <3>1 DEF Active
    <3>2. CASE Move(p, {"dirty"}, {"logged"})
      BY <3>2, ActiveMoves DEF InOp
    <3> QED BY <1>0, <1>3, <3>1, <3>2, Moves
  <2>2. \A q \in Procs : pc'[q] = "asleep" => pc[q] = "asleep"
    BY <1>0, <1>3, Moves DEF Move
  <2>3. outstanding' = outstanding
    BY <1>3 DEF log_write
  <2> QED BY <1>0, <1>3, <2>1, <2>2, <2>3, CallersAre DEF RoundStep
<1>4. ASSUME NEW p \in Procs, NEW v \in Values, modify(p, b, v) PROVE RoundStep
  <2>1. Active' = Active
    BY <1>0, <1>4, Moves, ActiveMoves DEF InOp
  <2>2. \A q \in Procs : pc'[q] = "asleep" => pc[q] = "asleep"
    BY <1>0, <1>4, Moves DEF Move
  <2> QED BY <1>0, <1>4, <2>1, <2>2, CallersAre DEF modify, RoundStep
<1>5. ASSUME recycle(b) PROVE RoundStep
  <2>1. Active' = Active
    BY <1>5 DEF recycle, Active
  <2> QED BY <1>5, <2>1 DEF recycle, RoundStep, CallerStep, UpStep, disk, recovery, local
<1> QED BY <1>1, <1>2, <1>3, <1>4, <1>5

(* Rounds of calls, readers and recycling, as one case. *)
RoundNext ==
  \/ \E p \in Procs, b \in Blocks : bread(p, b) \/ log_write(p, b) \/ brelse(p, b)
  \/ \E p \in Procs, b \in Blocks, v \in Values : modify(p, b, v)
  \/ \E b \in Blocks : recycle(b)

LEMMA RoundsAre ==
  ASSUME LogInv, RoundNext
  PROVE  RoundStep
BY Rounds DEF RoundNext

(* The steps of commit() itself keep the committer a committer. *)
CommitStep(p) ==
  /\ UpStep
  /\ pc[p] \in Committing /\ pc'[p] \in Committing
  /\ Active' = Active
  /\ outstanding' = outstanding /\ committing' = committing /\ panicked' = panicked
  /\ \A q \in Procs \ {p} : pc'[q] = pc[q] \/ (pc[q] = "asleep" /\ pc'[q] = "begin")

LEMMA CommitSteps ==
  ASSUME LogInv, NEW p \in Procs
  PROVE  /\ write_log(p) => CommitStep(p) /\ lh' = lh /\ pc'[p] # "committed"
         /\ write_head(p) => CommitStep(p) /\ lh' = lh /\ pc'[p] # "committed"
         /\ install_trans(p) => CommitStep(p) /\ lh' = lh /\ pc'[p] # "committed"
         /\ clear(p) => CommitStep(p) /\ lh' = <<>>
<1>0. TypeOK
  BY DEF LogInv
<1>1. \A from, to \in SUBSET Committing :
         Move(p, from, to) =>
            /\ Active' = Active
            /\ pc[p] \in Committing /\ pc'[p] \in Committing
            /\ \A q \in Procs \ {p} : pc'[q] = pc[q] \/ (pc[q] = "asleep" /\ pc'[q] = "begin")
  BY ActiveMoves DEF Move, Committing, InOp
<1>2. ASSUME write_log(p) PROVE CommitStep(p) /\ lh' = lh /\ pc'[p] # "committed"
  <2>1. UpStep /\ UNCHANGED <<log, panicked>>
    BY <1>2, UpSteps DEF Commit, write_log
  <2>2. Move(p, {"write_log"}, {"write_log", "write_head"})
    BY <1>0, <1>2, Moves
  <2>3. {"write_log"} \in SUBSET Committing /\ {"write_log", "write_head"} \in SUBSET Committing
    BY DEF Committing
  <2> QED BY <1>1, <2>1, <2>2, <2>3 DEF CommitStep, log, Move
<1>3. ASSUME write_head(p) PROVE CommitStep(p) /\ lh' = lh /\ pc'[p] # "committed"
  <2>1. UpStep /\ UNCHANGED <<log, panicked>>
    BY <1>3, UpSteps DEF Commit, write_head
  <2>2. Move(p, {"write_head"}, {"install_trans"})
    BY <1>0, <1>3, Moves
  <2>3. {"write_head"} \in SUBSET Committing /\ {"install_trans"} \in SUBSET Committing
    BY DEF Committing
  <2> QED BY <1>1, <2>1, <2>2, <2>3 DEF CommitStep, log, Move
<1>4. ASSUME install_trans(p) PROVE CommitStep(p) /\ lh' = lh /\ pc'[p] # "committed"
  <2>1. UpStep /\ UNCHANGED <<log, panicked>>
    BY <1>4, UpSteps DEF Commit, install_trans
  <2>2. Move(p, {"install_trans"}, {"install_trans", "clear"})
    BY <1>0, <1>4, Moves
  <2>3. {"install_trans"} \in SUBSET Committing /\ {"install_trans", "clear"} \in SUBSET Committing
    BY DEF Committing
  <2> QED BY <1>1, <2>1, <2>2, <2>3 DEF CommitStep, log, Move
<1>5. ASSUME clear(p) PROVE CommitStep(p) /\ lh' = <<>>
  <2>1. UpStep /\ UNCHANGED <<outstanding, committing, panicked>> /\ lh' = <<>>
    BY <1>5, UpSteps DEF Commit, clear
  <2>2. Move(p, {"clear"}, {"committed"})
    BY <1>0, <1>5, Moves
  <2>3. {"clear"} \in SUBSET Committing /\ {"committed"} \in SUBSET Committing
    BY DEF Committing
  <2> QED BY <1>1, <2>1, <2>2, <2>3 DEF CommitStep
<1> QED BY <1>2, <1>3, <1>4, <1>5

(* The end of the commit opens begin_op() again and wakes everyone. *)
LEMMA EndCommit ==
  ASSUME LogInv, NEW p \in Procs, end_commit(p)
  PROVE  /\ UpStep /\ lh' = lh /\ lh = <<>> /\ panicked' = panicked
         /\ outstanding = 0 /\ outstanding' = 0 /\ Active' = {} /\ Active = {}
         /\ ~committing'
         /\ \A q \in Procs : pc'[q] \notin Committing /\ pc'[q] # "asleep"
         /\ Move(p, {"committed"}, {"user"})
<1>0. TypeOK /\ pc[p] = "committed"
  BY DEF LogInv, end_commit, At
<1>1. outstanding = 0 /\ Active = {} /\ \A q \in Procs \ {p} : pc[q] \notin Committing
  BY <1>0, OneCommitter DEF Committing
<1>2. Move(p, {"committed"}, {"user"})
  BY <1>0, Moves
<1>3. Active' = Active
  BY <1>2, ActiveMoves DEF InOp
<1>4. \A q \in Procs : pc'[q] \notin Committing
  BY <1>1, <1>2, CommitterMoves DEF Committing
<1>5. [pc EXCEPT ![p] = "user"] \in [Procs -> PC]
  BY <1>0, Labels DEF TypeOK
<1>6. \A q \in Procs : pc'[q] # "asleep"
  BY <1>5, WakeupType DEF end_commit
<1>7. UpStep /\ lh' = lh /\ panicked' = panicked /\ outstanding' = outstanding /\ ~committing'
  BY UpSteps DEF Commit, end_commit
<1>8. lh = <<>>
  BY <1>0 DEF LogInv, OwnerInv
<1> QED BY <1>1, <1>2, <1>3, <1>4, <1>6, <1>7, <1>8

(* Next, regrouped. *)
LEMMA NextCases ==
  ASSUME Next
  PROVE  \/ \E p \in Procs : begin_op(p)
         \/ RoundNext
         \/ \E p \in Procs : end_op(p)
         \/ \E p \in Procs : write_log(p) \/ write_head(p) \/ install_trans(p) \/ clear(p)
         \/ \E p \in Procs : end_commit(p)
         \/ Recover
         \/ Crash
BY DEF Next, Call, Commit, RoundNext

(* recover_from_log() runs before any process. *)
LEMMA RecoverSteps ==
  ASSUME LogInv, Recover
  PROVE  /\ boot # "up"
         /\ UNCHANGED <<pc, outstanding, committing, panicked, holder, pins, tail>>
         /\ Active' = Active
         /\ \A p \in Procs : pc[p] = "user"
         /\ ~committing /\ outstanding = 0
<1>1. boot # "up" /\ UNCHANGED <<pc, outstanding, committing, panicked, holder, tail>>
  BY DEF Recover, recover_read_head, recover_install_trans, recover_clear, cache, log, local
<1>2. pins' = pins
  BY DEF Recover, recover_read_head, recover_install_trans, recover_clear, Install, bunpin, cache
<1>3. Active' = Active
  BY <1>1 DEF Active
<1> QED BY <1>1, <1>2, <1>3 DEF LogInv, BootInv

LEMMA CrashStep ==
  ASSUME Crash
  PROVE  /\ \A p \in Procs : pc'[p] = "user"
         /\ Active' = {}
         /\ outstanding' = 0 /\ ~committing' /\ panicked' = "no" /\ lh' = <<>>
         /\ boot' = "read_head"
         /\ UNCHANGED <<home, logblk, dhead>>
<1>1. \A p \in Procs : pc'[p] = "user"
  BY DEF Crash
<1>2. Active' = {}
  BY <1>1 DEF Active, InOp
<1> QED BY <1>1, <1>2 DEF Crash, disk

LEMMA CountStep ==
  ASSUME LogInv, Next
  PROVE  OutstandingCounts'
<1>0. outstanding = Cardinality(Active) /\ IsFiniteSet(Active)
  BY FS_Subset, LogConstants DEF LogInv, OutstandingCounts, Active
<1> USE DEF OutstandingCounts
<1>1. ASSUME NEW p \in Procs, begin_op(p) PROVE OutstandingCounts'
  <2>1. Cardinality(Active \cup {p}) = outstanding + 1
    BY <1>0, <1>1, BeginOp, FS_AddElement
  <2> QED BY <1>0, <1>1, <2>1, BeginOp
<1>2. CASE RoundNext
  BY <1>0, <1>2, RoundsAre DEF RoundStep
<1>3. ASSUME NEW p \in Procs, end_op(p) PROVE OutstandingCounts'
  BY <1>3, EndOp
<1>4. ASSUME NEW p \in Procs, write_log(p) \/ write_head(p) \/ install_trans(p) \/ clear(p)
      PROVE  OutstandingCounts'
  BY <1>0, <1>4, CommitSteps DEF CommitStep
<1>5. ASSUME NEW p \in Procs, end_commit(p) PROVE OutstandingCounts'
  BY <1>5, EndCommit, FS_EmptySet
<1>6. CASE Recover
  BY <1>0, <1>6, RecoverSteps
<1>7. CASE Crash
  BY <1>7, CrashStep, FS_EmptySet
<1> QED BY <1>1, <1>2, <1>3, <1>4, <1>5, <1>6, <1>7, NextCases

LEMMA QuiescentStep ==
  ASSUME LogInv, Next
  PROVE  CommitQuiescent'
<1>1. ASSUME NEW p \in Procs, begin_op(p) PROVE CommitQuiescent'
  <2>1. \A q \in Procs : pc'[q] \in Committing => pc[q] \in Committing
    BY <1>1, BeginOp DEF CallerStep
  <2>2. CommitQuiescent /\ committing' = committing
    BY <1>1, BeginOp DEF LogInv, CallerStep
  <2>3. committing \/ \A q \in Procs : pc[q] \notin Committing
    BY <2>2 DEF CommitQuiescent
  <2>4. \/ ~committing
        \/ Active' = Active /\ outstanding' = outstanding
    BY <1>1, BeginOp
  <2> QED BY <2>1, <2>2, <2>3, <2>4 DEF CommitQuiescent
<1>2. CASE RoundNext
  <2>1. RoundStep /\ CommitQuiescent
    BY <1>2, RoundsAre DEF LogInv
  <2>2. \A q \in Procs : pc'[q] \in Committing => pc[q] \in Committing
    BY <2>1 DEF RoundStep, CallerStep
  <2> QED BY <2>1, <2>2 DEF RoundStep, CallerStep, CommitQuiescent
<1>3. ASSUME NEW p \in Procs, end_op(p) PROVE CommitQuiescent'
  <2>1. \A q \in Procs : pc'[q] \in Committing => q = p
    BY <1>3, EndOp, CommitterMoves
  <2>2. pc'[p] \in Committing => committing' /\ outstanding' = 0 /\ Active' = {}
    BY <1>3, EndOp DEF Committing
  <2> QED BY <2>1, <2>2 DEF CommitQuiescent
<1>4. ASSUME NEW p \in Procs, write_log(p) \/ write_head(p) \/ install_trans(p) \/ clear(p)
      PROVE  CommitQuiescent'
  <2>1. CommitStep(p)
    BY <1>4, CommitSteps
  <2>2. committing /\ outstanding = 0 /\ Active = {} /\ \A q \in Procs \ {p} : pc[q] \notin Committing
    BY <2>1, OneCommitter DEF CommitStep
  <2>3. \A q \in Procs \ {p} : pc'[q] \notin Committing
    BY <2>1, <2>2 DEF CommitStep, Committing
  <2> QED BY <2>1, <2>2, <2>3 DEF CommitStep, CommitQuiescent
<1>5. ASSUME NEW p \in Procs, end_commit(p) PROVE CommitQuiescent'
  BY <1>5, EndCommit DEF CommitQuiescent
<1>6. CASE Recover
  BY <1>6, RecoverSteps DEF CommitQuiescent, Committing
<1>7. CASE Crash
  BY <1>7, CrashStep DEF CommitQuiescent, Committing
<1> QED BY <1>1, <1>2, <1>3, <1>4, <1>5, <1>6, <1>7, NextCases

LEMMA WakerStep ==
  ASSUME LogInv, Next
  PROVE  SleeperHasWaker'
<1>0. SleeperHasWaker /\ outstanding \in Nat
  BY DEF LogInv, TypeOK
<1>1. ASSUME NEW p \in Procs, begin_op(p) PROVE SleeperHasWaker'
  <2>1. committing' = committing
    BY <1>1, BeginOp DEF CallerStep
  <2>2. CASE outstanding' = outstanding + 1
    BY <1>0, <2>2 DEF SleeperHasWaker
  <2>3. CASE MustWait /\ outstanding' = outstanding
    <3>1. committing \/ outstanding > 0
      <4> SUFFICES ASSUME ~committing, outstanding = 0 PROVE FALSE
        BY <1>0
      <4>1. Active = {}
        <5>1. IsFiniteSet(Active) /\ outstanding = Cardinality(Active)
          BY FS_Subset, LogConstants DEF LogInv, OutstandingCounts, Active
        <5> QED BY <5>1, FS_EmptySet
      <4>2. lh = <<>>
        BY <1>1, <4>1 DEF LogInv, OwnerInv, begin_op, At
      <4>3. Len(lh) + (outstanding + 1) * MAXOPBLOCKS = MAXOPBLOCKS
        BY <4>2, LogConstants
      <4>4. ~(MAXOPBLOCKS > LOGSIZE)
        BY LogConstants
      <4> QED BY <2>3, <4>3, <4>4 DEF MustWait
    <3> QED BY <2>1, <2>3, <3>1 DEF SleeperHasWaker
  <2> QED BY <1>1, <2>2, <2>3, BeginOp
<1>2. CASE RoundNext
  BY <1>0, <1>2, RoundsAre DEF RoundStep, CallerStep, SleeperHasWaker
<1>3. ASSUME NEW p \in Procs, end_op(p) PROVE SleeperHasWaker'
  BY <1>3, EndOp DEF SleeperHasWaker
<1>4. ASSUME NEW p \in Procs, write_log(p) \/ write_head(p) \/ install_trans(p) \/ clear(p)
      PROVE  SleeperHasWaker'
  <2>1. CommitStep(p)
    BY <1>4, CommitSteps
  <2>2. committing'
    BY <2>1, OneCommitter DEF CommitStep
  <2> QED BY <2>2 DEF SleeperHasWaker
<1>5. ASSUME NEW p \in Procs, end_commit(p) PROVE SleeperHasWaker'
  BY <1>5, EndCommit DEF SleeperHasWaker
<1>6. CASE Recover
  BY <1>6, RecoverSteps DEF SleeperHasWaker
<1>7. CASE Crash
  BY <1>7, CrashStep DEF SleeperHasWaker
<1> QED BY <1>1, <1>2, <1>3, <1>4, <1>5, <1>6, <1>7, NextCases

(* log_write(): panic for want of space, absorb, or append. *)
LEMMA LogWrite ==
  ASSUME LogInv, NEW p \in Procs, NEW b \in Blocks, log_write(p, b)
  PROVE  /\ p \in Active /\ pc[p] = "dirty" /\ holder[b] = p /\ boot = "up"
         /\ ~committing /\ \A q \in Procs : pc[q] \notin Committing
         /\ UNCHANGED <<disk, buf, holder, committing, recovery, tail>>
         /\ \/ /\ panicked' = "too big a transaction"
               /\ UNCHANGED <<lh, pins, pc>>
            \/ /\ panicked' = panicked /\ ~TooBig
               /\ Move(p, {"dirty"}, {"logged"})
               /\ Logged(b) /\ lh' = lh /\ pins' = pins
            \/ /\ panicked' = panicked /\ ~TooBig
               /\ Move(p, {"dirty"}, {"logged"})
               /\ ~Logged(b) /\ lh' = Append(lh, b)
               /\ pins' = [pins EXCEPT ![b] = @ + 1]
<1>0. TypeOK /\ pc[p] = "dirty" /\ holder[b] = p /\ boot = "up"
  BY DEF LogInv, log_write, At
<1>1. p \in Active /\ Active \subseteq Procs
  BY <1>0 DEF Active, InOp
<1>2. ~committing /\ \A q \in Procs : pc[q] \notin Committing
  BY <1>1, ActiveMeansNoCommit
<1>3. ~(outstanding < 1)
  <2>1. Cardinality(Active) # 0 /\ Cardinality(Active) \in Nat
    BY <1>1, FS_Subset, FS_EmptySet, FS_CardinalityType, LogConstants
  <2> QED BY <2>1 DEF LogInv, OutstandingCounts
<1>4. \/ /\ TooBig
         /\ panicked' = "too big a transaction"
         /\ UNCHANGED <<disk, cache, lh, committing, recovery, pc, local>>
      \/ /\ ~TooBig
         /\ lh' = IF Logged(b) THEN lh ELSE Append(lh, b)
         /\ pins' = bpin(b)
         /\ Goto(p, "logged")
         /\ UNCHANGED <<disk, buf, holder, committing, panicked, recovery, tail>>
  BY <1>3 DEF log_write, Panic
<1>5. UNCHANGED <<disk, buf, holder, committing, recovery, tail>>
  BY <1>4 DEF cache, local
<1>6. CASE TooBig
  BY <1>0, <1>1, <1>2, <1>4, <1>5, <1>6 DEF cache
<1>7. CASE ~TooBig
  <2>1. Move(p, {"dirty"}, {"logged"})
    BY <1>0, <1>4, <1>7, GotoMoves DEF Move
  <2> QED BY <1>0, <1>1, <1>2, <1>4, <1>5, <1>7, <2>1 DEF bpin
<1> QED BY <1>6, <1>7

LEMMA PanicStep ==
  ASSUME LogInv, Next
  PROVE  NoProtocolPanic'
<1>0. NoProtocolPanic
  BY DEF LogInv
<1> USE DEF NoProtocolPanic
<1>1. ASSUME NEW p \in Procs, begin_op(p) PROVE NoProtocolPanic'
  BY <1>0, <1>1, BeginOp
<1>2. CASE RoundNext
  <2>1. ASSUME NEW p \in Procs, NEW b \in Blocks, log_write(p, b) PROVE NoProtocolPanic'
    BY <1>0, <2>1, LogWrite
  <2>2. CASE panicked' = panicked
    BY <1>0, <2>2
  <2> QED BY <1>2, <2>1, <2>2 DEF RoundNext, bread, brelse, modify, recycle
<1>3. ASSUME NEW p \in Procs, end_op(p) PROVE NoProtocolPanic'
  BY <1>0, <1>3, EndOp
<1>4. ASSUME NEW p \in Procs, write_log(p) \/ write_head(p) \/ install_trans(p) \/ clear(p)
      PROVE  NoProtocolPanic'
  BY <1>0, <1>4, CommitSteps DEF CommitStep
<1>5. ASSUME NEW p \in Procs, end_commit(p) PROVE NoProtocolPanic'
  BY <1>0, <1>5, EndCommit
<1>6. CASE Recover
  BY <1>0, <1>6, RecoverSteps
<1>7. CASE Crash
  BY <1>7, CrashStep
<1> QED BY <1>1, <1>2, <1>3, <1>4, <1>5, <1>6, <1>7, NextCases

(* Except in log_write() a round leaves the transaction as it is. *)
LEMMA RoundKeepsLog ==
  ASSUME RoundNext
  PROVE  \/ lh' = lh /\ pins' = pins /\ panicked' = panicked
         \/ \E p \in Procs, b \in Blocks : log_write(p, b)
BY DEF RoundNext, bread, brelse, modify, recycle, log

LEMMA OwnerStep ==
  ASSUME LogInv, Next
  PROVE  OwnerInv'
<1>0. OwnerInv
  BY DEF LogInv
<1>1. ASSUME NEW p \in Procs, begin_op(p) PROVE OwnerInv'
  <2>1. CallerStep /\ lh' = lh /\ Active \subseteq Active'
    BY <1>1, BeginOp
  <2> QED BY <1>0, <2>1 DEF OwnerInv, CallerStep, UpStep, Committing
<1>2. CASE RoundNext
  <2>1. CallerStep /\ Active' = Active
    BY <1>2, RoundsAre DEF RoundStep
  <2>2. CASE lh' = lh
    BY <1>0, <2>1, <2>2 DEF OwnerInv, CallerStep, UpStep, Committing
  <2>3. ASSUME NEW p \in Procs, NEW b \in Blocks, log_write(p, b) PROVE OwnerInv'
    <3>1. p \in Active' /\ ~committing' /\ \A q \in Procs : pc[q] \notin Committing
      BY <2>1, <2>3, LogWrite
    <3>2. \A q \in Procs : pc'[q] # "committed"
      BY <2>1, <3>1 DEF CallerStep, Committing
    <3> QED BY <3>1, <3>2 DEF OwnerInv
  <2> QED BY <1>2, <2>2, <2>3, RoundKeepsLog
<1>3. ASSUME NEW p \in Procs, end_op(p) PROVE OwnerInv'
  <2>1. \A q \in Procs \ {p} : pc'[q] \notin Committing
    BY <1>3, EndOp, CommitterMoves
  <2>2. committing' => pc'[p] \in Committing
    BY <1>3, EndOp DEF Committing
  <2>3. pc'[p] = "committed" => lh' = <<>>
    <3>1. Len(lh) \in Nat /\ (Len(lh) = 0 => lh = <<>>)
      BY DEF LogInv, TypeOK
    <3>2. pc'[p] = "committed" => ~(Len(lh) > 0)
      BY <1>3, EndOp
    <3>3. lh' = lh
      BY <1>3, EndOp
    <3> QED BY <3>1, <3>2, <3>3
  <2>4. committing' \/ Active' # {}
    <3>1. IsFiniteSet(Active')
      BY FS_Subset, LogConstants DEF Active
    <3> QED BY <1>3, <3>1, EndOp, FS_EmptySet
  <2> QED BY <2>1, <2>2, <2>3, <2>4 DEF OwnerInv, Committing
<1>4. ASSUME NEW p \in Procs, write_log(p) \/ write_head(p) \/ install_trans(p) \/ clear(p)
      PROVE  OwnerInv'
  <2>1. CommitStep(p) /\ (lh' = <<>> \/ pc'[p] # "committed")
    BY <1>4, CommitSteps
  <2>2. committing /\ \A q \in Procs \ {p} : pc[q] \notin Committing
    BY <2>1, OneCommitter DEF CommitStep
  <2> QED BY <2>1, <2>2 DEF CommitStep, OwnerInv, Committing
<1>5. ASSUME NEW p \in Procs, end_commit(p) PROVE OwnerInv'
  BY <1>5, EndCommit DEF OwnerInv, Committing
<1>6. CASE Recover
  <2>1. boot' = "up" => lh' = <<>>
    BY <1>6 DEF Recover, recover_read_head, recover_install_trans, recover_clear
  <2> QED BY <1>6, <2>1, RecoverSteps DEF OwnerInv
<1>7. CASE Crash
  BY <1>7, CrashStep DEF OwnerInv
<1> QED BY <1>1, <1>2, <1>3, <1>4, <1>5, <1>6, <1>7, NextCases
=============================================================================
