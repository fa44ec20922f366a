-------------------------------- MODULE Ulib --------------------------------
(* The string functions of the user library, its printf, and the text      *)
(* filters grep and wc. A string is a sequence of characters; the          *)
(* terminating 0 is what a position behind it holds. An int has W bits.    *)
EXTENDS Integers, Sequences, SequencesExt

CONSTANT W

ASSUME WidthAssumption == W \in Nat /\ W % 4 = 0 /\ W > 0

EOS == ""
Char(s, i) == IF i \in DOMAIN s THEN s[i] ELSE EOS
DropFirst(s, n) == SubSeq(s, n + 1, Len(s))
FirstOf(S) == CHOOSE k \in S : \A l \in S : k <= l
ASCII(c) == CASE c = EOS -> 0 [] c = "\n" -> 10 [] c = "a" -> 97 [] c = "b" -> 98

(***************************************************************************)
(* ulib.c.                                                                 *)
(***************************************************************************)
strcmp(p, q) ==
  LET k == FirstOf({i \in 1 .. Len(p) + 1 : Char(p, i) = EOS \/ Char(p, i) # Char(q, i)})
  IN ASCII(Char(p, k)) - ASCII(Char(q, k))

\* The position of c, 0 if there is none.
strchr(s, c) == IF c \in Range(s) THEN FirstOf({i \in DOMAIN s : s[i] = c}) ELSE 0

\* Byte by byte, upwards if the source is behind the destination, else downwards.
memmove(mem, dst, src, n) ==
  LET Byte(m, i) == [m EXCEPT ![dst + i] = m[src + i]]
      up == [i \in 1 .. n |-> i - 1]
  IN FoldLeft(Byte, mem, IF src > dst THEN up ELSE Reverse(up))

\* The characters that one call takes from the input.
gets(in, max) ==
  LET ends == {i \in DOMAIN in : in[i] \in {"\n", "\r"} \/ i + 1 = max} \cup {Len(in)}
  IN IF max <= 1 THEN <<>> ELSE SubSeq(in, 1, FirstOf(ends))

atoi(s) ==
  LET value == [c \in {"0", "1", "2", "3", "4", "5", "6", "7", "8", "9"} |->
                  CASE c = "0" -> 0 [] c = "1" -> 1 [] c = "2" -> 2 [] c = "3" -> 3 [] c = "4" -> 4
                    [] c = "5" -> 5 [] c = "6" -> 6 [] c = "7" -> 7 [] c = "8" -> 8 [] c = "9" -> 9]
      digits == SubSeq(s, 1, FirstOf({i \in 0 .. Len(s) : Char(s, i + 1) \notin DOMAIN value}))
  IN FoldLeft(LAMBDA n, c : n * 10 + value[c], 0, digits)

(***************************************************************************)
(* printf.c.                                                               *)
(***************************************************************************)
digit(d) == <<"0", "1", "2", "3", "4", "5", "6", "7", "8", "9", "A", "B", "C", "D", "E", "F">>[d + 1]

\* An argument taken as an int.
ToInt(a) == ((a + 2 ^ (W - 1)) % (2 ^ W)) - 2 ^ (W - 1)

Magnitude(xx, sgn) == IF sgn /\ xx < 0 THEN (-xx) % (2 ^ W) ELSE xx % (2 ^ W)

\* The digits of x; the buffer they are collected in is written backwards.
RECURSIVE DigitsOf(_, _)
DigitsOf(x, b) == (IF x \div b = 0 THEN <<>> ELSE DigitsOf(x \div b, b)) \o <<digit(x % b)>>

printint(xx, b, sgn) == (IF sgn /\ xx < 0 THEN <<"-">> ELSE <<>>) \o DigitsOf(Magnitude(xx, sgn), b)

printptr(x) ==
  <<"0", "x">> \o [i \in 1 .. W \div 4 |-> digit(((x * 16 ^ (i - 1)) % (2 ^ W)) \div 2 ^ (W - 4))]

\* What %c prints of the argument a: [num, str, chr] as the type it is taken for.
Conversion(c, a) ==
  CASE c = "d" -> printint(ToInt(a.num), 10, TRUE)
    [] c = "l" -> printint(ToInt(a.num), 10, FALSE)
    [] c = "x" -> printint(ToInt(a.num), 16, FALSE)
    [] c = "p" -> printptr(a.num % (2 ^ W))
    [] c = "s" -> IF a.str = "null" THEN <<"(null)">> ELSE a.str
    [] c = "c" -> <<a.chr>>
    [] c = "%" -> <<"%">>
    [] OTHER   -> <<"%", c>>
TakesArgument == {"d", "l", "x", "p", "s", "c"}

vprintf(fmt, ap) ==
  LET Step(v, c) ==
        CASE v.state = "" /\ c = "%" -> [v EXCEPT !.state = "%"]
          [] v.state = "" /\ c # "%" -> [v EXCEPT !.out = Append(@, c)]
          [] v.state = "%"           ->
               [state |-> "", out |-> v.out \o Conversion(c, Head(v.ap)),
                ap |-> IF c \in TakesArgument THEN Tail(v.ap) ELSE v.ap]
  IN FoldLeft(Step, [state |-> "", out |-> <<>>, ap |-> ap], fmt).out

(***************************************************************************)
(* grep.c.                                                                 *)
(***************************************************************************)
RECURSIVE matchhere(_, _), matchstar(_, _, _), matchFrom(_, _)
matchhere(re, text) ==
  IF re = <<>> THEN TRUE
  ELSE IF Char(re, 2) = "*" THEN matchstar(re[1], DropFirst(re, 2), text)
  ELSE IF re = <<"$">> THEN text = <<>>
  ELSE text # <<>> /\ re[1] \in {".", text[1]} /\ matchhere(Tail(re), Tail(text))

\* Mutant: a starred character is there at least once.
matchplus(c, re, text) ==
  text # <<>> /\ c \in {".", text[1]} /\ (matchhere(re, Tail(text)) \/ matchstar(c, re, Tail(text)))

matchstar(c, re, text) ==
  \/ matchhere(re, text)
  \/ text # <<>> /\ c \in {".", text[1]} /\ matchstar(c, re, Tail(text))

matchFrom(re, text) == matchhere(re, text) \/ (text # <<>> /\ matchFrom(re, Tail(text)))
match(re, text) == IF Char(re, 1) = "^" THEN matchhere(Tail(re), text) ELSE matchFrom(re, text)

\* Mutant: the start of a line is not moved to the front of the buffer.
Dropped(rest) == <<>>

\* The start of a line, whose end the next reads bring.
Kept(rest) == rest

\* The lines of the buffer that match are written, the rest is kept.
RECURSIVE grepLines(_, _)
grepLines(pattern, buf) ==
  LET q == strchr(buf, "\n")
      more == grepLines(pattern, DropFirst(buf, q))
  IN IF q = 0 THEN [out |-> <<>>, kept |-> Kept(buf)]
     ELSE [more EXCEPT !.out = (IF match(pattern, SubSeq(buf, 1, q - 1)) THEN SubSeq(buf, 1, q) ELSE <<>>) \o @]

(***************************************************************************)
(* wc.c: the counts behind one more character.                             *)
(***************************************************************************)
wcChar(v, ch) ==
  LET space == ch \in {" ", "\r", "\t", "\n", "VT"}
  IN [c |-> v.c + 1,
      l |-> v.l + (IF ch = "\n" THEN 1 ELSE 0),
      w |-> v.w + (IF ~space /\ ~v.inword THEN 1 ELSE 0),
      inword |-> ~space]
=============================================================================
