------------------------------ MODULE Printf ------------------------------
(***************************************************************************)
(* printf of the kernel (kernel/printf.c) and of user programs             *)
(* (user/printf.c): the scan of the format, and the digits of a number.    *)
(* A scan gives what is printed in order: a character of the format, or an *)
(* argument taken with va_arg and its conversion.                          *)
(***************************************************************************)
EXTENDS Integers, Sequences

CONSTANTS FmtChars, MaxFmt,     \* the formats: their characters, and how many
          INTBITS, LONGBITS,    \* widths of int and of long long
          BUFLEN                \* sizeof buf in printint: LONGBITS / 4

VARIABLES fmt,          \* the format so far
          num           \* the last number printed

PrintfVars == <<fmt, num>>
NoNum == [by |-> "none"]
PrintfInit == fmt = <<>> /\ num = NoNum

FmtAt(i) == IF i <= Len(fmt) THEN fmt[i] ELSE "nul"
Lit(c) == [lit |-> c]
Arg(conv, wide) == [conv |-> conv, wide |-> wide]
Numeric == {"d", "u", "x"}

\* The chain of else-ifs after a '%', as [what is printed, characters skipped].
Conversion(c0, c1, c2) ==
  CASE c0 \in Numeric -> <<<<Arg(c0, FALSE)>>, 0>>
    [] c0 = "l" /\ c1 \in Numeric -> <<<<Arg(c1, TRUE)>>, 1>>
    [] c0 = "l" /\ c1 = "l" /\ c2 \in Numeric -> <<<<Arg(c2, TRUE)>>, 2>>
    [] c0 \in {"p", "s"} -> <<<<Arg(c0, TRUE)>>, 0>>
    [] c0 = "%" -> <<<<Lit("%")>>, 0>>
    [] OTHER -> <<<<Lit("%"), Lit(c0)>>, 0>>

\* The kernel's loop looks at the character behind a '%' in the same iteration
\* (and stops there when the format ends).
RECURSIVE printf(_)
printf(i) ==
  IF FmtAt(i) = "nul" \/ (FmtAt(i) = "%" /\ FmtAt(i + 1) = "nul") THEN <<>>
  ELSE LET c == Conversion(FmtAt(i + 1), FmtAt(i + 2), FmtAt(i + 3))
           pc == FmtAt(i) = "%"
       IN  (IF pc THEN c[1] ELSE <<Lit(FmtAt(i))>>) \o printf(IF pc THEN i + 2 + c[2] ELSE i + 1)

user_Conversion(c0, c1, c2) ==
  CASE c0 = "l" /\ c1 = "l" /\ c2 \in Numeric -> <<<<Arg(c2, TRUE)>>, 2>>
    [] c0 = "l" /\ c1 \in Numeric -> <<<<Arg(c1, TRUE)>>, 1>>
    [] c0 \in {"p", "s"} -> <<<<Arg(c0, TRUE)>>, 0>>
    [] c0 \in Numeric -> <<<<Arg(c0, FALSE)>>, 0>>
    [] OTHER -> <<IF c0 = "%" THEN <<Lit("%")>> ELSE <<Lit("%"), Lit(c0)>>, 0>>

\* The user's loop remembers the '%' in `state` until the next iteration.
RECURSIVE vprintf(_, _)
vprintf(i, state) ==
  LET c == user_Conversion(FmtAt(i), FmtAt(i + 1), FmtAt(i + 2)) IN
  IF FmtAt(i) = "nul" THEN <<>>
  ELSE (IF state = "%" THEN c[1] ELSE IF FmtAt(i) = "%" THEN <<>> ELSE <<Lit(FmtAt(i))>>)
       \o vprintf(IF state = "%" THEN i + 1 + c[2] ELSE i + 1,
                  IF state = "0" /\ FmtAt(i) = "%" THEN "%" ELSE "0")

\* Seeded defect: a while loop, which prints nothing for 0.
\* The do-while of both printints; "-" is appended to the reversed buffer.
RECURSIVE DigitsOf(_, _)
DigitsOf(x, base) ==
  IF x \div base = 0 THEN <<x % base>> ELSE DigitsOf(x \div base, base) \o <<x % base>>

\* As unsigned of the width given.
Unsigned(xx, bits) == xx % 2^bits


\* The kernel's printint takes a long long: an int argument is sign-extended.
printint(xx, base, sign) ==
  [neg |-> sign /\ xx < 0,
   buf |-> DigitsOf(Unsigned(IF sign /\ xx < 0 THEN -xx ELSE xx, LONGBITS), base)]

\* The library's takes an int: a long argument is cut to its low bits.
ToInt(xx) == LET u == Unsigned(xx, INTBITS)
             IN  IF u >= 2^(INTBITS - 1) THEN u - 2^INTBITS ELSE u
user_printint(xx, base, sign) ==
  LET x == ToInt(xx)
  IN  [neg |-> sign /\ x < 0,
       buf |-> DigitsOf(Unsigned(IF sign /\ x < 0 THEN -x ELSE x, INTBITS), base)]

\* printptr: the top nibble, LONGBITS / 4 times, shifting left.
printptr(x) ==
  [j \in 1 .. LONGBITS \div 4 |-> ((x * 16^(j - 1)) % 2^LONGBITS) \div 2^(LONGBITS - 4)]

Longs == -(2^(LONGBITS - 1)) .. (2^(LONGBITS - 1) - 1)

AddChar(c) == num = NoNum /\ Len(fmt) < MaxFmt /\ fmt' = Append(fmt, c) /\ UNCHANGED num

Number ==
  /\ num = NoNum /\ fmt = <<>> /\ UNCHANGED fmt
  /\ \E xx \in Longs, base \in {10, 16}, sign \in BOOLEAN :
       \/ num' = [by |-> "kernel", xx |-> xx, base |-> base, sign |-> sign,
                  text |-> printint(xx, base, sign)]
       \/ num' = [by |-> "user", xx |-> xx, base |-> base, sign |-> sign,
                  text |-> user_printint(xx, base, sign)]
       \/ num' = [by |-> "ptr", xx |-> xx, text |-> printptr(Unsigned(xx, LONGBITS))]

PrintfNext == Number \/ \E c \in FmtChars : AddChar(c)

-----------------------------------------------------------------------------
\* The two scanners print the same characters and take the same arguments, in the
\* same order and of the same width, for every format, also one that breaks off
\* inside a directive: a message means the same from a program and the kernel.
ScannersAgree == printf(1) = vprintf(1, "0")

RECURSIVE ValueOf(_, _)
ValueOf(s, base) ==
  IF s = <<>> THEN 0 ELSE ValueOf(SubSeq(s, 1, Len(s) - 1), base) * base + s[Len(s)]

\* The text printed for a number reads back as that number, the most negative one
\* and 0 included, without leading zeros: of its 64-bit value in the kernel, of
\* its low 32 bits in the library.
NumbersReadBack ==
  LET xx == IF num.by = "user" THEN ToInt(num.xx) ELSE num.xx
      bits == IF num.by = "user" THEN INTBITS ELSE LONGBITS
  IN  /\ num.by \in {"kernel", "user"} =>
           /\ num.text.buf # <<>> /\ (num.text.buf[1] = 0 => Len(num.text.buf) = 1)
           /\ IF num.sign THEN xx = ValueOf(num.text.buf, num.base) * IF num.text.neg THEN -1 ELSE 1
              ELSE Unsigned(xx, bits) = ValueOf(num.text.buf, num.base)
      /\ num.by = "ptr" => ValueOf(num.text, 16) = Unsigned(num.xx, LONGBITS)

\* What the kernel's own messages print fits printint's buffer: %x and %lx of any
\* value, and %d of any int with its sign (trap.c, proc.c, main.c and panic use no
\* other conversion).
KernelNumbersFit ==
  num.by = "kernel" /\ (\/ num.base = 16 /\ ~num.sign
                        \/ num.base = 10 /\ num.sign /\ num.xx = ToInt(num.xx))
    => Len(num.text.buf) + (IF num.text.neg THEN 1 ELSE 0) <= BUFLEN

=============================================================================
