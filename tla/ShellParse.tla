---------------------------- MODULE ShellParse ----------------------------
(***************************************************************************)
(* The recursive-descent parser of user/sh.c, on a line typed character by *)
(* character, against a grammar.  "w" stands for every character of a word *)
(* and " " for every whitespace character.  A parse result is the position *)
(* reached and the command built; a panic ends the child that parses.      *)
(* Words are the <<q, eq>> pairs the code keeps: their first position and  *)
(* the one after the last.                                                 *)
(***************************************************************************)
EXTENDS Integers, Sequences, SequencesExt, FiniteSetsExt

CONSTANTS MAXARGS,      \* one more than the arguments a command may have
          MaxLine,      \* nbuf - 1: the characters gets keeps
          Keys          \* the characters typed

VARIABLES line, parsed

ShellParseVars == <<line, parsed>>
-----------------------------------------------------------------------------
NUL == "nul"
symbols == {"<", "|", ">", "&", ";", "(", ")"}
es == Len(line) + 1
Char(s) == IF s < es THEN line[s] ELSE NUL
SkipBlanks(s) == Min({t \in s .. es : Char(t) # " "})
WordEnd(s) == Min({t \in s .. es : Char(t) \in symbols \cup {NUL, " "}})

\* gettoken: the token at s, where it starts and ends, and where the next is.
gettoken(at) ==
  LET q   == SkipBlanks(at)
      c   == Char(q)
      two == c = ">" /\ Char(q + 1) = ">"
      eq  == CASE c = NUL -> q
               [] two -> q + 2
               [] c \in symbols -> q + 1
               [] OTHER -> WordEnd(q)
  IN  [tok |-> IF two THEN "+" ELSE c, word |-> <<q, eq>>, at |-> SkipBlanks(eq)]

peek(at, toks) == Char(SkipBlanks(at)) \in toks

Panic == [type |-> "PANIC"]
Failed(r) == r.cmd = Panic
Result(at, cmd) == [at |-> at, cmd |-> cmd]

execcmd(argv) == [type |-> "EXEC", argv |-> argv]
redircmd(cmd, tok, file) == [type |-> "REDIR", cmd |-> cmd, tok |-> tok, file |-> file]
pipecmd(l, r) == [type |-> "PIPE", left |-> l, right |-> r]
listcmd(l, r) == [type |-> "LIST", left |-> l, right |-> r]
backcmd(cmd) == [type |-> "BACK", cmd |-> cmd]

\* parseredirs: the redirections at `at`, wrapped around cmd one by one.
RECURSIVE parseredirs(_, _)
parseredirs(cmd, at) ==
  IF ~peek(at, {"<", ">"}) THEN Result(SkipBlanks(at), cmd)
  ELSE LET op == gettoken(at)
           f  == gettoken(op.at)
       IN  IF f.tok # "w" THEN Result(f.at, Panic)
           ELSE parseredirs(redircmd(cmd, op.tok, f.word), f.at)

\* cmd->argv[argc] = q on the EXEC node below the redirections of ret.
RECURSIVE AddArg(_, _)
AddArg(ret, w) ==
  IF ret.type = "REDIR" THEN [ret EXCEPT !.cmd = AddArg(@, w)]
  ELSE [ret EXCEPT !.argv = Append(@, w)]

RECURSIVE ArgLoop(_, _, _)
ArgLoop(ret, argc, at) ==
  IF peek(at, {"|", ")", "&", ";"}) THEN Result(SkipBlanks(at), ret)
  ELSE LET t == gettoken(at)
           r == parseredirs(AddArg(ret, t.word), t.at)
       IN  CASE t.tok = NUL -> Result(t.at, ret)
             [] t.tok # "w" -> Result(t.at, Panic)
             [] argc + 1 >= MAXARGS -> Result(t.at, Panic)
             [] OTHER -> IF Failed(r) THEN r ELSE ArgLoop(r.cmd, argc + 1, r.at)

\* The parse functions call each other through P, the parser itself.
parseblock(P, at) ==
  LET r == P["line", gettoken(at).at]
  IN  IF Failed(r) THEN r
      ELSE IF ~peek(r.at, {")"}) THEN Result(r.at, Panic)
      ELSE parseredirs(r.cmd, gettoken(r.at).at)

parseexec(P, at) ==
  IF peek(at, {"("}) THEN P["block", SkipBlanks(at)]
  ELSE LET r == parseredirs(execcmd(<<>>), at)
       IN  IF Failed(r) THEN r ELSE ArgLoop(r.cmd, 0, r.at)

\* Seeded defect: a pipe's right side parsed as a whole line.
parsepipe_Line(P, at) ==
  LET l == P["exec", at]
      r == P["line", gettoken(l.at).at]
  IN  IF Failed(l) \/ ~peek(l.at, {"|"}) THEN l
      ELSE IF Failed(r) THEN r ELSE Result(r.at, pipecmd(l.cmd, r.cmd))

parsepipe(P, at) ==
  LET l == P["exec", at]
      r == P["pipe", gettoken(l.at).at]
  IN  IF Failed(l) \/ ~peek(l.at, {"|"}) THEN l
      ELSE IF Failed(r) THEN r ELSE Result(r.at, pipecmd(l.cmd, r.cmd))

RECURSIVE Backs(_)
Backs(r) == IF ~peek(r.at, {"&"}) THEN r
            ELSE Backs(Result(gettoken(r.at).at, backcmd(r.cmd)))

parseline(P, at) ==
  LET p == P["pipe", at]
      l == Backs(p)
      r == P["line", gettoken(l.at).at]
  IN  IF Failed(p) THEN p
      ELSE IF ~peek(l.at, {";"}) THEN l
      ELSE IF Failed(r) THEN r ELSE Result(r.at, listcmd(l.cmd, r.cmd))

Parser[f \in {"line", "pipe", "exec", "block"}, at \in Nat] ==
  CASE f = "line" -> parseline(Parser, at)
    [] f = "pipe" -> parsepipe(Parser, at)
    [] f = "exec" -> parseexec(Parser, at)
    [] OTHER -> parseblock(Parser, at)

parsecmd ==
  LET r == Parser["line", 1]
  IN  IF SkipBlanks(r.at) # es THEN Panic ELSE r.cmd

\* The prompt: gets stores one more character, until the line is parsed.
NotYet == [type |-> "none"]
ShellParseInit == line = <<>> /\ parsed = NotYet
gets(c) ==
  /\ parsed = NotYet /\ Len(line) < MaxLine
  /\ line' = Append(line, c) /\ UNCHANGED parsed
Enter == parsed = NotYet /\ parsed' = parsecmd /\ UNCHANGED line
ShellParseNext == Enter \/ \E c \in Keys : gets(c)

\* The words a node keeps pointers to, and its subcommands.
Own(cmd) == CASE cmd.type = "EXEC" -> Range(cmd.argv)
              [] cmd.type = "REDIR" -> {cmd.file}
              [] OTHER -> {}
Below(cmd) == CASE cmd.type \in {"PIPE", "LIST"} -> {cmd.left, cmd.right}
                [] cmd.type \in {"REDIR", "BACK"} -> {cmd.cmd}
                [] OTHER -> {}

RECURSIVE Words(_)
Words(cmd) == Own(cmd) \cup UNION {Words(c) : c \in Below(cmd)}

\* nulterminate: the positions it overwrites with a NUL, one after each word.
RECURSIVE nulterminate(_)
nulterminate(cmd) == {w[2] : w \in Own(cmd)} \cup UNION {nulterminate(c) : c \in Below(cmd)}

-----------------------------------------------------------------------------
(* The reference: the tokens of a line by what surrounds each position, and   *)
(* every tree the grammar gives tokens i .. j - 1.                            *)

Run(i) == CHOOSE n \in 0 .. i - 1 : /\ \A k \in i - n .. i - 1 : Char(k) = ">"
                                   /\ n < i - 1 => Char(i - n - 1) # ">"

Starts(i) == CASE Char(i) = " " -> FALSE
               [] Char(i) = "w" -> i = 1 \/ Char(i - 1) # "w"
               [] Char(i) = ">" -> Run(i) % 2 = 0
               [] OTHER -> TRUE

TokenAt(i) ==
  LET last == IF Char(i) = "w" THEN Max({k \in i .. es - 1 : \A j \in i .. k : Char(j) = "w"})
              ELSE i
  IN  [tok |-> IF Char(i) = ">" /\ Char(i + 1) = ">" THEN "+" ELSE Char(i),
       word |-> <<i, last + 1>>]

Tokens == LET at == SetToSortSeq({i \in 1 .. es - 1 : Starts(i)}, <)
          IN  [k \in DOMAIN at |-> TokenAt(at[k])]

\* A redirection is an operator and a word.
Redirect(t, k) == t[k].tok \in {"<", ">", "+"} /\ t[k + 1].tok = "w"

\* Where the symbol c splits tokens i .. j - 1.
Splits(t, i, j, c) == {k \in i .. j - 1 : t[k].tok = c}

Arguments(t, i, j) ==
  {k \in i .. j - 1 : t[k].tok = "w" /\ ~(k > i /\ Redirect(t, k - 1))}

Redirected(t, j, cmds) == {redircmd(c, t[j - 2].tok, t[j - 1].word) : c \in cmds}

Derived(t) ==
  LET G[n \in {"list", "amp", "pipe", "block", "simple"}, i \in Nat, j \in Nat] ==
    CASE n = "list" ->
           G["amp", i, j] \cup UNION {{listcmd(l, r) : l \in G["amp", i, k], r \in G["list", k + 1, j]} :
                                        k \in Splits(t, i, j, ";")}
      [] n = "amp" ->
           G["pipe", i, j] \cup IF i < j /\ t[j - 1].tok = "&"
                                THEN {backcmd(c) : c \in G["amp", i, j - 1]} ELSE {}
      [] n = "pipe" ->
           LET cmd(a, b) == G["block", a, b]
                  \cup IF Cardinality(Arguments(t, a, b)) < MAXARGS THEN G["simple", a, b] ELSE {}
           IN  cmd(i, j) \cup UNION {{pipecmd(l, r) : l \in cmd(i, k), r \in G["pipe", k + 1, j]} :
                                     k \in Splits(t, i, j, "|")}
      [] j - i >= 2 /\ n \in {"block", "simple"} /\ Redirect(t, j - 2) ->
           Redirected(t, j, G[n, i, j - 2])
      [] n = "block" -> IF j - i >= 2 /\ t[i].tok = "(" /\ t[j - 1].tok = ")"
                        THEN G["list", i + 1, j - 1] ELSE {}
      [] i = j -> {execcmd(<<>>)}
      [] t[j - 1].tok = "w" -> {AddArg(c, t[j - 1].word) : c \in G["simple", i, j - 1]}
      [] OTHER -> {}
  IN  G["list", 1, Len(t) + 1]

\* A line outside the grammar panics, and one in it has exactly one tree, the one
\* parsecmd builds: ';' binds least, then '&', then '|', and parentheses group
\* (parseline, parsepipe, parseexec, parseblock, parseredirs, gettoken).
ParsesTheGrammar ==
  parsed # NotYet => Derived(Tokens) = IF parsed = Panic THEN {} ELSE {parsed}

\* The words are cut out of the line itself: with the NULs of nulterminate in
\* place every argument and every file name reads back as the word that was
\* typed, whatever character stood behind it.
WordsReadBack ==
  LET Ends(q) == Min({k \in q .. es : k \in nulterminate(parsed) \/ k = es})
  IN  /\ nulterminate(parsed) \subseteq 1 .. es
      /\ \A w \in Words(parsed) : w[1] < w[2] /\ Ends(w[1]) = w[2]

\* parsecmd() builds the one tree the grammar has for the line, with words that
\* read back.
LineUnderstood == ParsesTheGrammar /\ WordsReadBack
=============================================================================
