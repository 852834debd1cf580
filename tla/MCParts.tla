---- MODULE MCParts ----
(* Components that share no state with one another, most of them in user space
   or pure functions, checked in one run: `part` says which of them a behaviour
   is about, and only that one takes steps. A component whose Init allows several
   states starts in one of them when the behaviour is about another. All but
   FileData may come to an end. *)
EXTENDS FileData, CallArgs, Malloc, ShellParse,
        ShellRun, Sha256, Strings, Printf, TextTools, Mkfs

VARIABLE part

MCInodeOf == [f1 |-> "i1", f2 |-> "i2"]

MCByteAt == [w1 |-> [j \in 0..5 |-> 10 + j], w2 |-> [j \in 0..5 |-> 20 + j]]

(* Two writers of one file on a disk with room for it, and two files on a disk
   that is too small for both *)
MCSetups == {[nblocks |-> 4, files |-> [w1 |-> {"f1"}, w2 |-> {"f1"}]],
             [nblocks |-> 3, files |-> [w1 |-> {"f1"}, w2 |-> {"f1", "f2"}]]}

Exec(args) == [type |-> "EXEC", argv |-> args]

Redir(cmd, tok) == [type |-> "REDIR", cmd |-> cmd, tok |-> tok, file |-> "f"]

Two(type, left, right) == [type |-> type, left |-> left, right |-> right]

(* x > f | | x < f, with an empty command in the middle, and x & x | x *)
MCCommands ==
  LET x == Exec(<<"w">>)
  IN  {Two("PIPE", Redir(x, ">"), Two("PIPE", Exec(<<>>), Redir(x, "<"))),
       Two("LIST", [type |-> "BACK", cmd |-> x], Two("PIPE", x, x))}

(* n times the letter a *)
As(n) == [i \in 1 .. n |-> 97]

abc == <<97, 98, 99>>

MCInputs == {[file |-> FALSE, bytes |-> As(n)] : n \in {0, 55, 56, 63, 64, 119}}
            \cup {[file |-> FALSE, bytes |-> abc], [file |-> TRUE, bytes |-> As(57)]}

MCStack == [i \in 1 .. 60 |-> 33]

(* The digests another implementation computes, in words of 16 bits *)
MCDigest(s) ==
  CASE s = abc -> <<\hba78, \h16bf, \h8f01, \hcfea, \h4141, \h40de, \h5dae, \h2223, \hb003, \h61a3, \h9617, \h7a9c, \hb410, \hff61, \hf200, \h15ad>>
    [] s = As(0) -> <<\he3b0, \hc442, \h98fc, \h1c14, \h9afb, \hf4c8, \h996f, \hb924, \h27ae, \h41e4, \h649b, \h934c, \ha495, \h991b, \h7852, \hb855>>
    [] s = As(55) -> <<\h9f43, \h90f8, \hd30c, \h2dd9, \h2ec9, \hf095, \hb65e, \h2b9a, \he9b0, \ha925, \ha525, \h8e24, \h1c9f, \h1e91, \h0f73, \h4318>>
    [] s = As(56) -> <<\hb354, \h39a4, \hac6f, \h0948, \hb6d6, \hf9e3, \hc6af, \h0f5f, \h590c, \he20f, \h1bde, \h7090, \hef79, \h7068, \h6ec6, \h738a>>
    [] s = As(63) -> <<\h7d3e, \h74a0, \h5d7d, \hb15b, \hce4a, \hd9ec, \h0658, \hea98, \he3f0, \h6eee, \hcf16, \hb4c6, \hfff2, \hda45, \h7ddc, \h2f34>>
    [] s = As(64) -> <<\hffe0, \h54fe, \h7ae0, \hcb6d, \hc65c, \h3af9, \hb61d, \h5209, \hf439, \h851d, \hb43d, \h0ba5, \h9973, \h37df, \h1546, \h68eb>>
    [] s = As(119) -> <<\h31eb, \ha51c, \h313a, \h5c08, \h226a, \hdf18, \hd4a3, \h59cf, \hdfd8, \hd2e8, \h16b1, \h3f4a, \hf952, \hf7ea, \h6584, \hdcfb>>

MCTexts == UNION {[1 .. n -> {"a", " ", "nl"}] : n \in 0 .. 5}

MCPatterns == {<<>>, <<"a", "$">>, <<"^", "a">>}

MCSubjects == UNION {[1 .. n -> {"a", "b"}] : n \in 0 .. 3} \cup {<<"*">>, <<"a", "$">>, <<"^">>}

PartVars == <<part, FileDataVars, CallArgsVars, MallocVars, ShellParseVars, ShellRunVars,
              Sha256Vars, StringsVars, PrintfVars, TextVars, MkfsVars>>

PartsInit ==
  /\ part \in {"data", "args", "malloc", "parse", "shell", "sha256", "strings", "printf", "text", "mkfs"}
  /\ FileDataInit
  /\ part = "data" \/ setup = CHOOSE s \in Setups : s.nblocks = 3
  /\ CallArgsInit
  /\ MallocInit
  /\ ShellParseInit
  /\ ShellRunInit
  /\ Sha256Init
  /\ part = "sha256" \/ input = CHOOSE i \in Inputs : i.bytes = <<>>
  /\ StringsInit
  /\ part = "strings" \/ mem = [a \in DOMAIN mem |-> 0]
  /\ PrintfInit
  /\ TextInit
  /\ part = "text" \/ (tool = "grep" /\ text = <<>> /\ re = <<>>)
  /\ MkfsInit

PartsNext ==
  \/ /\ part = "data" /\ FileDataNext
     /\ UNCHANGED <<part, CallArgsVars, MallocVars, ShellParseVars, ShellRunVars,
                     Sha256Vars, StringsVars, PrintfVars, TextVars, MkfsVars>>
  \/ /\ part = "args" /\ CallArgsNext
     /\ UNCHANGED <<part, FileDataVars, MallocVars, ShellParseVars, ShellRunVars,
                     Sha256Vars, StringsVars, PrintfVars, TextVars, MkfsVars>>
  \/ /\ part = "malloc" /\ MallocNext
     /\ UNCHANGED <<part, FileDataVars, CallArgsVars, ShellParseVars, ShellRunVars,
                     Sha256Vars, StringsVars, PrintfVars, TextVars, MkfsVars>>
  \/ /\ part = "parse" /\ ShellParseNext
     /\ UNCHANGED <<part, FileDataVars, CallArgsVars, MallocVars, ShellRunVars, Sha256Vars,
                     StringsVars, PrintfVars, TextVars, MkfsVars>>
  \/ /\ part = "shell" /\ ShellRunNext
     /\ UNCHANGED <<part, FileDataVars, CallArgsVars, MallocVars, ShellParseVars,
                     Sha256Vars, StringsVars, PrintfVars, TextVars, MkfsVars>>
  \/ /\ part = "sha256" /\ Sha256Next
     /\ UNCHANGED <<part, FileDataVars, CallArgsVars, MallocVars, ShellParseVars,
                     ShellRunVars, StringsVars, PrintfVars, TextVars, MkfsVars>>
  \/ /\ part = "strings" /\ StringsNext
     /\ UNCHANGED <<part, FileDataVars, CallArgsVars, MallocVars, ShellParseVars,
                     ShellRunVars, Sha256Vars, PrintfVars, TextVars, MkfsVars>>
  \/ /\ part = "printf" /\ PrintfNext
     /\ UNCHANGED <<part, FileDataVars, CallArgsVars, MallocVars, ShellParseVars,
                     ShellRunVars, Sha256Vars, StringsVars, TextVars, MkfsVars>>
  \/ /\ part = "text" /\ TextNext
     /\ UNCHANGED <<part, FileDataVars, CallArgsVars, MallocVars, ShellParseVars,
                     ShellRunVars, Sha256Vars, StringsVars, PrintfVars, MkfsVars>>
  \/ /\ part = "mkfs" /\ MkfsNext
     /\ UNCHANGED <<part, FileDataVars, CallArgsVars, MallocVars, ShellParseVars,
                     ShellRunVars, Sha256Vars, StringsVars, PrintfVars, TextVars>>
  \/ part # "data" /\ UNCHANGED PartVars

PartsSpec == PartsInit /\ [][PartsNext]_PartVars
====
