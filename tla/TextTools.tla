---------------------------- MODULE TextTools ----------------------------
(***************************************************************************)
(* user/grep.c and user/wc.c: programs that go through a text in whatever  *)
(* pieces read returns, and grep's matcher.  "nl" is the newline, " " the  *)
(* other whitespace.                                                       *)
(***************************************************************************)
EXTENDS Integers, Sequences, SequencesExt, FiniteSetsExt

CONSTANTS Texts, Patterns,          \* inputs of grep and wc
          BUF,                      \* sizeof(buf) of grep
          MatchChars, MaxRe, Subjects   \* patterns, and texts, match alone is tried on

VARIABLES tool, text, re, at,       \* what runs, on what; how much was read
          buf, out, count, tried

TextVars == <<tool, text, re, at, buf, out, count, tried>>

TextInit ==
  /\ text \in Texts /\ re \in Patterns /\ tool \in {"grep", "wc", "match"}
  /\ tool = "match" => text = <<>> /\ re = <<>>
  /\ tool = "wc" => re = <<>>
  /\ at = 0 /\ buf = <<>> /\ out = <<>>
  /\ count = [l |-> 0, w |-> 0, c |-> 0, inword |-> FALSE]
  /\ tried = <<>>

From(s, i) == SubSeq(s, i, Len(s))

RECURSIVE matchhere(_, _), matchstar(_, _, _)
matchhere(r, t) ==
  IF r = <<>> THEN TRUE
  ELSE IF Len(r) >= 2 /\ r[2] = "*" THEN matchstar(r[1], From(r, 3), t)
  ELSE IF r = <<"$">> THEN t = <<>>
  ELSE t # <<>> /\ r[1] \in {".", t[1]} /\ matchhere(Tail(r), Tail(t))

matchstar(c, r, t) ==
  matchhere(r, t) \/ (t # <<>> /\ c \in {".", t[1]} /\ matchstar(c, r, Tail(t)))

match(r, t) ==
  IF r # <<>> /\ r[1] = "^" THEN matchhere(Tail(r), t)
  ELSE \E i \in 1 .. Len(t) + 1 : matchhere(r, From(t, i))

\* Where the lines of s end.
Newlines(s) == {i \in DOMAIN s : s[i] = "nl"}
LineEnding(s, i) == SubSeq(s, Max({j \in Newlines(s) \cup {0} : j < i}) + 1, i)
LinesOf(s) == LET q == SetToSortSeq(Newlines(s), <) IN [k \in DOMAIN q |-> LineEnding(s, q[k])]
Matching(r, lines) == SelectSeq(lines, LAMBDA l : match(r, Front(l)))


\* What memmove leaves in buf: the text behind the last newline.
Rest(s) == From(s, Max(Newlines(s) \cup {0}) + 1)

\* One round of grep: a read of up to n bytes, and the lines it completes.
grep(n) ==
  LET b == buf \o SubSeq(text, at + 1, at + n) IN
  /\ tool = "grep" /\ at + n <= Len(text) /\ Len(b) <= BUF - 1
  /\ at' = at + n
  /\ out' = out \o FlattenSeq(Matching(re, LinesOf(b)))
  /\ buf' = Rest(b)
  /\ UNCHANGED <<tool, text, re, count, tried>>

\* The inner loop of wc over the bytes just read.
Counted(c0, s) ==
  FoldLeft(LAMBDA c, x : [l |-> c.l + (IF x = "nl" THEN 1 ELSE 0), c |-> c.c + 1,
                          w |-> c.w + (IF x \notin {" ", "nl"} /\ ~c.inword THEN 1 ELSE 0),
                          inword |-> x \notin {" ", "nl"}], c0, s)

wc(n) ==
  /\ tool = "wc" /\ at + n <= Len(text)
  /\ at' = at + n
  /\ count' = Counted(count, SubSeq(text, at + 1, at + n))
  /\ UNCHANGED <<tool, text, re, buf, out, tried>>

\* match alone, on a longer and longer pattern.
Try(c) ==
  /\ tool = "match" /\ Len(tried) < MaxRe /\ tried' = Append(tried, c)
  /\ UNCHANGED <<tool, text, re, at, buf, out, count>>

TextNext ==
  \/ \E n \in 1 .. BUF : grep(n) \/ wc(n)
  \/ \E c \in MatchChars : Try(c)

-----------------------------------------------------------------------------
\* A pattern as the list of its atoms: a character with or without a star, and the
\* end of the text for a last '$'.  A text matches when it can be cut into pieces,
\* one for each atom.
Starred(r, i) == i < Len(r) /\ r[i + 1] = "*"
AtomStarts(r) == {i \in DOMAIN r : \E s \in SUBSET DOMAIN r :
    /\ 1 \in s /\ i \in s
    /\ \A j \in s : j = 1 \/ (Starred(r, j - 2) /\ j - 2 \in s) \/ (j - 1 \in s /\ ~Starred(r, j - 1))}
Fits(r, i, piece) ==
  IF Starred(r, i) THEN \A k \in DOMAIN piece : r[i] \in {".", piece[k]}
  ELSE Len(piece) = 1 /\ r[i] \in {".", piece[1]}

Anchored(r, t) ==
  LET q == SetToSortSeq(AtomStarts(r), <)
      end == q # <<>> /\ q[Len(q)] = Len(r) /\ r[Len(r)] = "$"
      n == IF end THEN Len(q) - 1 ELSE Len(q)
  IN  \E cut \in [0 .. n -> 0 .. Len(t)] :
        /\ cut[0] = 0 /\ (end => cut[n] = Len(t))
        /\ \A k \in 1 .. n : cut[k - 1] <= cut[k] /\ Fits(r, q[k], SubSeq(t, cut[k - 1] + 1, cut[k]))

Matches(r, t) ==
  IF r # <<>> /\ r[1] = "^" THEN Anchored(Tail(r), t)
  ELSE \E i \in 1 .. Len(t) + 1 : Anchored(r, From(t, i))

\* grep's recursive matcher accepts a line exactly when some part of it can be cut
\* into pieces for the pattern's atoms (match, matchhere, matchstar).
MatchIsRegex == tool = "match" => \A t \in Subjects : match(tried, t) = Matches(tried, t)

\* However read cuts the text, what grep has printed is the matching lines of what
\* it has read, in order, and the unfinished line is kept for the next read.
GrepPrintsMatches ==
  tool = "grep" =>
    LET seen == SubSeq(text, 1, at)
    IN  out = FlattenSeq(Matching(re, LinesOf(seen))) /\ buf = Rest(seen)

\* However read cuts the text, wc's counts are those of the text so far: a word
\* that spans two reads counts once.
WcCounts ==
  tool = "wc" =>
    LET s == SubSeq(text, 1, at)
        word == {i \in DOMAIN s : s[i] \notin {" ", "nl"}}
    IN  /\ count.c = at /\ count.l = Cardinality(Newlines(s))
        /\ count.w = Cardinality({i \in word : i - 1 \notin word})

=============================================================================
