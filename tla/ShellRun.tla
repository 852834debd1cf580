----------------------------- MODULE ShellRun -----------------------------
(***************************************************************************)
(* main and runcmd of user/sh.c: the processes that lines become.  fds is  *)
(* what descriptors 0 and 1 of a process refer to, p the pipe ends it      *)
(* holds as p[0] and p[1]; a pipe is named after the process that made it  *)
(* (one at most).  A program run by exec ends when it likes, but one that  *)
(* reads a pipe only at end of file.  fork, wait, exit, exec, pipe, open   *)
(* and dup are used as the kernel provides them.                           *)
(***************************************************************************)
EXTENDS Integers, Sequences, FiniteSetsExt, TLC

CONSTANTS Commands,     \* the parsed lines (trees as in ShellParse)
          MaxLines,     \* how many lines are entered
          Pids          \* 1 .. n: 1 is the shell

VARIABLES job,          \* the processes, zombies included
          lines,        \* lines entered so far
          refused       \* some fork or pipe failed

ShellRunVars == <<job, lines, refused>>
shell == 1
init == 0
tty == <<0, "console">>
file == <<0, "file">>
Idle == [type |-> "none"]
Process(parent, cmd, pc, fds, fg) ==
  [parent |-> parent, cmd |-> cmd, pc |-> pc, fds |-> fds, p |-> {}, fg |-> fg]
Zombie(pid) == job[pid].pc = "zombie"
Live == {pid \in DOMAIN job : ~Zombie(pid)}
Children(pid) == {k \in DOMAIN job : job[k].parent = pid}
HeldEnds(pid) == job[pid].p \cup {job[pid].fds[i] : i \in DOMAIN job[pid].fds}
At(pid, pc, type) == job[pid].pc = pc /\ job[pid].cmd.type = type

ShellRunInit ==
  /\ job = (shell :> Process(init, Idle, "prompt", <<tty, tty>>, FALSE))
  /\ lines = 0 /\ refused = FALSE

\* A pid neither in use nor naming a pipe that is.
FreePids == {k \in Pids : k \notin DOMAIN job /\ \A q \in Live, e \in {"r", "w"} : <<k, e>> \notin HeldEnds(q)}

Exited(pid) ==
  [q \in DOMAIN job |->
     IF q = pid THEN Process(job[q].parent, Idle, "zombie", <<>>, job[q].fg)
     ELSE IF job[q].parent = pid THEN [job[q] EXCEPT !.parent = init] ELSE job[q]]

\* panic: fork1 and pipe end the process when the kernel refuses.
panic(pid) == job' = Exited(pid) /\ refused' = TRUE

\* fork1: a child runs cmd with these descriptors, and pid goes on at pc.
fork1(pid, cmd, fds, fg, pc) ==
  \/ /\ FreePids # {}
     /\ job' = (Min(FreePids) :> Process(pid, cmd, "run", fds, fg)) @@ [job EXCEPT ![pid].pc = pc]
     /\ UNCHANGED refused
  \/ panic(pid)

\* wait(0): reaps one child that has exited; without children it returns at once.
wait(pid, next) ==
  IF Children(pid) = {} THEN job' = [job EXCEPT ![pid] = next]
  ELSE \E k \in Children(pid) :
         /\ Zombie(k)
         /\ job' = [q \in DOMAIN job \ {k} |-> IF q = pid THEN next ELSE job[q]]

\* main: a child for the line, whose end is waited for.
Main ==
  /\ \/ /\ job[shell].pc = "prompt" /\ lines < MaxLines
        /\ \E c \in Commands : fork1(shell, c, job[shell].fds, TRUE, "wait")
        /\ lines' = lines + 1
     \/ /\ job[shell].pc = "wait" /\ wait(shell, [job[shell] EXCEPT !.pc = "prompt"])
        /\ UNCHANGED <<lines, refused>>

RunExec(pid) ==
  /\ At(pid, "run", "EXEC")
  /\ \/ job[pid].cmd.argv # <<>> /\ job' = [job EXCEPT ![pid].pc = "program"]
     \/ job' = Exited(pid)
  /\ UNCHANGED refused

\* close(rcmd->fd), then open takes the descriptor just closed, or fails.
RunRedir(pid) ==
  LET c == job[pid].cmd IN
  /\ At(pid, "run", "REDIR")
  /\ \/ job' = [job EXCEPT ![pid].cmd = c.cmd,
                           ![pid].fds[IF c.tok = "<" THEN 1 ELSE 2] = file]
     \/ job' = Exited(pid)
  /\ UNCHANGED refused

RunList(pid) ==
  LET me == job[pid] IN
  \/ At(pid, "run", "LIST") /\ fork1(pid, me.cmd.left, me.fds, me.fg, "wait")
  \/ /\ At(pid, "wait", "LIST") /\ wait(pid, [me EXCEPT !.cmd = me.cmd.right, !.pc = "run"])
     /\ UNCHANGED refused

\* Seeded defects: the parent keeps the pipe while it waits; it waits for one
\* child only.
PipeParent_KeepsEnds(pid) ==
  LET To(pc) == [job[pid] EXCEPT !.pc = pc] IN
  /\ \/ At(pid, "close", "PIPE") /\ job' = [job EXCEPT ![pid] = To("wait")]
     \/ At(pid, "wait", "PIPE") /\ wait(pid, To("wait2"))
     \/ At(pid, "wait2", "PIPE") /\ wait(pid, To("exit"))
  /\ UNCHANGED refused

\* The parent's closes of p[0] and p[1], and its two waits.
PipeParent(pid) ==
  LET To(pc) == [job[pid] EXCEPT !.pc = pc] IN
  /\ \/ At(pid, "close", "PIPE") /\ job' = [job EXCEPT ![pid] = [To("wait") EXCEPT !.p = {}]]
     \/ At(pid, "wait", "PIPE") /\ wait(pid, To("wait2"))
     \/ At(pid, "wait2", "PIPE") /\ wait(pid, To("exit"))
  /\ UNCHANGED refused

\* A child's close, dup, close, close leave it one end of the pipe, as its
\* descriptor 1 (left) or 0 (right).
RunPipe(pid) ==
  LET me == job[pid] IN
  \/ /\ At(pid, "run", "PIPE")
     /\ \/ /\ job' = [job EXCEPT ![pid].p = {<<pid, "r">>, <<pid, "w">>}, ![pid].pc = "left"]
           /\ UNCHANGED refused
        \/ panic(pid)
  \/ At(pid, "left", "PIPE") /\ fork1(pid, me.cmd.left, <<me.fds[1], <<pid, "w">>>>, me.fg, "right")
  \/ At(pid, "right", "PIPE") /\ fork1(pid, me.cmd.right, <<<<pid, "r">>, me.fds[2]>>, me.fg, "close")
  \/ PipeParent(pid)

RunBack(pid) ==
  /\ At(pid, "run", "BACK")
  /\ fork1(pid, job[pid].cmd.cmd, job[pid].fds, FALSE, "exit")

\* A program reading a pipe sees end of file once nobody holds the write end.
Blocked(pid) ==
  LET in == job[pid].fds[1] IN
  in \notin {tty, file} /\ \E q \in Live : <<in[1], "w">> \in HeldEnds(q)

\* exit at the end of runcmd, and that of a program.
Exit(pid) ==
  /\ \/ job[pid].pc = "exit"
     \/ job[pid].pc = "program" /\ ~Blocked(pid)
  /\ job' = Exited(pid) /\ UNCHANGED refused

\* init reaps what was left behind.
InitReaps ==
  \E k \in Children(init) \ {shell} :
    Zombie(k) /\ job' = [q \in DOMAIN job \ {k} |-> job[q]] /\ UNCHANGED <<lines, refused>>

runcmd(pid) ==
  /\ RunExec(pid) \/ RunRedir(pid) \/ RunList(pid) \/ RunPipe(pid) \/ RunBack(pid) \/ Exit(pid)
  /\ UNCHANGED lines

ShellRunNext == Main \/ InitReaps \/ \E pid \in Live \ {shell} : runcmd(pid)

-----------------------------------------------------------------------------
Waiting(pid) == job[pid].pc \in {"wait", "wait2"}
CanMove(pid) ==
  IF Waiting(pid) THEN Children(pid) = {} \/ \E k \in Children(pid) : Zombie(k)
  ELSE job[pid].pc = "program" => ~Blocked(pid)

\* The shell is back at its prompt only when every process of the line, apart
\* from those behind an '&', has exited: the waits of main, LIST and PIPE reap
\* the children they are meant for.  A fork or a pipe that fails ends the waiting
\* process early and is excused.
PromptAfterForeground ==
  ~Zombie(shell) /\ job[shell].pc = "prompt" /\ ~refused
    => \A pid \in Live : ~job[pid].fg

\* While the shell waits, some process of the line can take a step: readers of a
\* pipe see end of file, because every process that does not write to it has
\* closed its write end, and no wait is for a child that cannot end.
LineNeverStuck ==
  ~Zombie(shell) /\ job[shell].pc = "wait" => \E pid \in Live : CanMove(pid)

\* runcmd()'s processes end in the right order, and they do end: no prompt before
\* the foreground is through, no line that waits for itself.
LineRuns == PromptAfterForeground /\ LineNeverStuck
=============================================================================
