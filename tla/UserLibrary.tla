---------------------------- MODULE UserLibrary ----------------------------
(* What user programs are linked with, one part at a time: the shared ring *)
(* buffer, the allocator, the filters grep and wc reading their input in   *)
(* pieces, and the pure functions over every text up to a length: the      *)
(* shell's parser, the regular expressions of grep, printf and the string  *)
(* functions.                                                              *)
EXTENDS UserRingBuf, Umalloc, Ulib, ShellParser

CONSTANTS
  BufferSize,   \* sizeof(buf) in grep and in wc
  MaxText       \* per part, the length of its texts

VARIABLES
  part,    \* the part that this behaviour is about
  text,    \* the text typed so far, or the filter's whole input
  job      \* the filter's state

libVars == <<ringVars, heapVars, part, text, job>>

Alphabet ==
  [shell  |-> {"a", " ", ">", "|", "&", ";", "(", ")"},
   regex  |-> {"a", "b", ".", "*", "^", "$"},
   format |-> {"%", "d", "l", "x", "p", "s", "c"},
   bytes  |-> {"a", "b", "\n"},
   grep   |-> {"a", "b", "\n"},
   wc     |-> {"a", " ", "\n"}]

Typed == {"shell", "regex", "format", "bytes"}
Filters == {"grep", "wc"}
Patterns == {<<"a">>, <<"^", "b">>, <<"a", "$">>}

LibInit ==
  /\ RingInit /\ HeapInit
  /\ \/ part \in {"ring", "heap"} \cup Typed /\ text = <<>> /\ job = <<>>
     \/ /\ part = "grep" /\ text \in BoundedSeq(Alphabet.grep, MaxText.grep)
        /\ \E pattern \in Patterns :
             job = [pattern |-> pattern, rest |-> text, buf |-> <<>>, out |-> <<>>, eof |-> FALSE]
     \/ /\ part = "wc" /\ text \in BoundedSeq(Alphabet.wc, MaxText.wc)
        /\ job = [rest |-> text, c |-> 0, l |-> 0, w |-> 0, inword |-> FALSE, eof |-> FALSE]
  /\ part # "ring" => \A i \in DOMAIN data : data[i] = CHOOSE b \in Bytes : TRUE   \* not used

type(c) ==
  /\ part \in Typed /\ c \in Alphabet[part]
  /\ Len(text) < MaxText[part]
  /\ text' = Append(text, c)
  /\ UNCHANGED <<ringVars, heapVars, part, job>>

\* A read of at most max characters returns any number of those there are.
ReadLengths(max) ==
  LET most == IF max < Len(job.rest) THEN max ELSE Len(job.rest)
  IN IF most = 0 THEN {0} ELSE 1 .. most

grepRead ==
  /\ part = "grep" /\ ~job.eof
  /\ \E n \in ReadLengths(BufferSize - Len(job.buf) - 1) :
       LET r == grepLines(job.pattern, job.buf \o SubSeq(job.rest, 1, n))
       IN job' = IF n = 0 THEN [job EXCEPT !.eof = TRUE]
                 ELSE [job EXCEPT !.rest = DropFirst(@, n), !.buf = r.kept, !.out = @ \o r.out]
  /\ UNCHANGED <<ringVars, heapVars, part, text>>

wcRead ==
  /\ part = "wc" /\ ~job.eof
  /\ \E n \in ReadLengths(BufferSize) :
       LET counts == [f \in {"c", "l", "w", "inword"} |-> job[f]]
       IN job' = IF n = 0 THEN [job EXCEPT !.eof = TRUE]
                 ELSE FoldLeft(wcChar, counts, SubSeq(job.rest, 1, n))
                        @@ [rest |-> DropFirst(job.rest, n), eof |-> FALSE]
  /\ UNCHANGED <<ringVars, heapVars, part, text>>

LibNext ==
  \/ part = "ring" /\ RingNext /\ UNCHANGED <<heapVars, part, text, job>>
  \/ part = "heap" /\ HeapNext /\ UNCHANGED <<ringVars, part, text, job>>
  \/ \E c \in UNION Range(Alphabet) : type(c)
  \/ grepRead
  \/ wcRead

LibSpec == LibInit /\ [][LibNext]_libVars

(***************************************************************************)
(* The shell's grammar:                                                    *)
(*   line ::= pipe "&"* [";" line]      pipe ::= exec ["|" pipe]           *)
(*   exec ::= "(" line ")" redir* | redir* (word redir* )*                 *)
(*   redir ::= ("<" | ">" | ">>") word                                     *)
(* Each operator is the set of the trees of a sequence of tokens. The      *)
(* innermost of several redirections is the leftmost.                      *)
(***************************************************************************)
\* A token begins where no word and no ">>" goes on.
IsWordChar(c) == c \notin whitespace \cup symbols \cup {NUL}
Starts(line) ==
  {i \in DOMAIN line :
     /\ line[i] \notin whitespace
     /\ IsWordChar(line[i]) => ~IsWordChar(At(line, i - 1))
     /\ line[i] = ">" =>
          \* an even number of ">" directly in front
          \E k \in 0 .. i - 1 : /\ k % 2 = 0
                                /\ \A j \in i - k .. i - 1 : line[j] = ">"
                                /\ At(line, i - k - 1) # ">"}
Token(line, i) ==
  IF IsWordChar(line[i])
  THEN LET e == CHOOSE e \in i .. Len(line) : /\ \A k \in i .. e : IsWordChar(line[k])
                                              /\ ~IsWordChar(At(line, e + 1))
       IN [tok |-> "a", word |-> SubSeq(line, i, e)]
  ELSE [tok |-> IF line[i] = ">" /\ At(line, i + 1) = ">" THEN "+" ELSE line[i], word |-> <<>>]
Tokens(line) ==
  LET starts == SetToSortSeq(Starts(line), <)
  IN [k \in DOMAIN starts |-> Token(line, starts[k])]

Part(t, i, j) == SubSeq(t, i, j)
Where(t, tok) == {k \in DOMAIN t : t[k].tok = tok}
IsRedirs(t) == Len(t) % 2 = 0 /\ \A k \in DOMAIN t : IF k % 2 = 1 THEN t[k].tok \in {"<", ">", "+"} ELSE t[k].tok = "a"
Redirected(cmd, t) ==
  FoldLeft(LAMBDA c, k : redircmd(c, t[2 * k - 1].tok, t[2 * k].word), cmd, [k \in 1 .. Len(t) \div 2 |-> k])

\* The words are the word tokens that no redirection takes as its file.
Operators(t) == {k \in DOMAIN t : t[k].tok \in {"<", ">", "+"}}
Simple(t) ==
  LET files == {k + 1 : k \in Operators(t)}
      words == SetToSortSeq(DOMAIN t \ (Operators(t) \cup files), <)
      redirs == SetToSortSeq(Operators(t) \cup files, <)
  IN IF /\ \A k \in DOMAIN t : t[k].tok \in {"<", ">", "+", "a"}
        /\ \A k \in files : k \in DOMAIN t /\ t[k].tok = "a"
        /\ Len(words) < MAXARGS
     THEN {Redirected(execcmd([k \in DOMAIN words |-> t[words[k]].word]), [k \in DOMAIN redirs |-> t[redirs[k]]])}
     ELSE {}

RECURSIVE LineTrees(_)
ExecTrees(t) ==
  Simple(t)
    \cup UNION {{Redirected(c, Part(t, k + 1, Len(t))) : c \in LineTrees(Part(t, 2, k - 1))} :
                  k \in {j \in Where(t, ")") : t[1].tok = "(" /\ IsRedirs(Part(t, j + 1, Len(t)))}}
RECURSIVE PipeTrees(_)
PipeTrees(t) ==
  ExecTrees(t)
    \cup UNION {{pipecmd(l, r) : l \in ExecTrees(Part(t, 1, k - 1)), r \in PipeTrees(Part(t, k + 1, Len(t)))} :
                  k \in Where(t, "|")}
RECURSIVE BackTrees(_)
BackTrees(t) ==
  PipeTrees(t) \cup (IF t # <<>> /\ Last(t).tok = "&" THEN {backcmd(c) : c \in BackTrees(Front(t))} ELSE {})
LineTrees(t) ==
  BackTrees(t)
    \cup UNION {{listcmd(l, r) : l \in BackTrees(Part(t, 1, k - 1)), r \in LineTrees(Part(t, k + 1, Len(t)))} :
                  k \in Where(t, ";")}

\* The recursive descent with one character of lookahead accepts exactly the
\* lines of the grammar, and gives the one tree that the grammar has for the
\* line: no line is ambiguous, none is cut off, and the rest is refused
\* (sh.c:303, 328-450).
ParseIsGrammar ==
  part = "shell" =>
    LET trees == LineTrees(Tokens(text))
    IN IF trees = {} THEN parsecmd(text) = PANIC.cmd ELSE trees = {parsecmd(text)}

(***************************************************************************)
(* Filters.                                                                *)
(***************************************************************************)
\* The complete lines of s, without their ends.
LineEnds(s) == SetToSortSeq({i \in DOMAIN s : s[i] = "\n"}, <)
LinesOf(s) ==
  LET e == LineEnds(s)
  IN [k \in DOMAIN e |-> SubSeq(s, (IF k = 1 THEN 0 ELSE e[k - 1]) + 1, e[k] - 1)]
\* grep stops for good at a line that does not fit its buffer.
Readable(lines) ==
  LET long == {k \in DOMAIN lines : Len(lines[k]) >= BufferSize - 1}
  IN IF long = {} THEN lines ELSE SubSeq(lines, 1, FirstOf(long) - 1)

\* What grep writes and what wc counts does not depend on how the reads of a
\* pipe or a console cut the input: grep writes the matching lines that end
\* in a newline, up to a line too long for its buffer; wc's counts are those
\* of what it has read, at any time (grep.c:17-32, wc.c:15-26).
SplitDoesNotMatter ==
  /\ part = "grep" /\ job.eof =>
       job.out = FlattenSeq([k \in DOMAIN Readable(LinesOf(text)) |->
                               LET line == LinesOf(text)[k]
                               IN IF match(job.pattern, line) THEN Append(line, "\n") ELSE <<>>])
  /\ part = "wc" =>
       LET done == Len(text) - Len(job.rest)
           space(i) == Char(text, i) \in {" ", "\n", EOS}
       IN /\ job.c = done
          /\ job.l = Cardinality({i \in 1 .. done : text[i] = "\n"})
          /\ job.w = Cardinality({i \in 1 .. done : ~space(i) /\ space(i - 1)})

(***************************************************************************)
(* Pure functions against what they are to compute.                        *)
(***************************************************************************)
\* The pattern re, without anchors, describes exactly s: each of its atoms
\* takes one character of s, or any number of them if a star follows.
Fits(c, s) == \A i \in DOMAIN s : c \in {".", s[i]}
RECURSIVE Describes(_, _)
Describes(re, s) ==
  IF re = <<>> THEN s = <<>>
  ELSE LET starred == Len(re) > 1 /\ re[2] = "*"
       IN \E k \in IF starred THEN 0 .. Len(s) ELSE {1} \cap DOMAIN s :
            /\ Fits(re[1], SubSeq(s, 1, k))
            /\ Describes(DropFirst(re, IF starred THEN 2 ELSE 1), DropFirst(s, k))
MatchesSomewhere(re, s) ==
  LET from == re # <<>> /\ re[1] = "^"
      body == IF from THEN Tail(re) ELSE re
      to == body # <<>> /\ Last(body) = "$"
      core == IF to THEN Front(body) ELSE body
  IN \E i \in 1 .. Len(s) + 1, j \in 0 .. Len(s) :
       /\ i <= j + 1
       /\ from => i = 1
       /\ to => j = Len(s)
       /\ Describes(core, SubSeq(s, i, j))

\* The format's output, position by position: a "%" begins a conversion
\* unless an odd number of "%" is directly in front of it.
Begins(fmt, i) ==
  /\ Char(fmt, i) = "%"
  /\ \E k \in 0 .. i - 1 : /\ k % 2 = 0
                           /\ \A j \in i - k .. i - 1 : fmt[j] = "%"
                           /\ Char(fmt, i - k - 1) # "%"
Formatted(fmt, ap) ==
  FlattenSeq([i \in DOMAIN fmt |->
    IF Begins(fmt, i) THEN <<>>
    ELSE IF ~Begins(fmt, i - 1) THEN <<fmt[i]>>
    ELSE Conversion(fmt[i], ap[1 + Cardinality({j \in 1 .. i - 2 : Begins(fmt, j) /\ fmt[j + 1] \in TakesArgument})])])

Ints == -(2 ^ (W - 1)) .. (2 ^ (W - 1) - 1)
Arguments == <<[num |-> -(2 ^ (W - 1)), str |-> "null", chr |-> "%"],
               [num |-> 2 ^ W + 1, str |-> <<"%", "d">>, chr |-> "d"],
               [num |-> -1, str |-> <<>>, chr |-> "s"]>>
\* The int that a decimal numeral stands for.
ValueOf(s) == IF Char(s, 1) = "-" THEN -atoi(Tail(s)) ELSE atoi(s)

ShortTexts == BoundedSeq({"a", "b"}, 3)

\* The lines that calls of gets with this buffer size take from the input.
RECURSIVE Pieces(_, _)
Pieces(s, max) == IF s = <<>> THEN <<>> ELSE <<gets(s, max)>> \o Pieces(DropFirst(s, Len(gets(s, max))), max)

\* match decides whether the pattern occurs in the text, with ^ . * $ as the
\* comment in grep.c says. printf takes an argument for each conversion that
\* needs one and none for %%, and prints every int as its numeral, the least
\* int too. memmove copies overlapping ranges as if at once, in both
\* directions. strcmp is 0 for equal strings only and changes its sign with
\* the order. gets loses nothing of a line longer than its buffer.
FunctionsCompute ==
  /\ part = "regex" => \A s \in ShortTexts : match(text, s) = MatchesSomewhere(text, s)
  /\ part = "format" =>
       /\ vprintf(text, Arguments) = Formatted(text, Arguments)
       /\ \A x \in Ints : ValueOf(printint(x, 10, TRUE)) = x
  /\ part = "bytes" =>
       /\ \A dst, src \in 1 .. Len(text) : \A n \in 0 .. Len(text) + 1 - (IF dst > src THEN dst ELSE src) :
            memmove(text, dst, src, n) =
              [k \in DOMAIN text |-> IF k \in dst .. dst + n - 1 THEN text[k - dst + src] ELSE text[k]]
       /\ \A s \in ShortTexts : /\ (strcmp(text, s) = 0) = (text = s)
                                /\ strcmp(text, s) = -strcmp(s, text)
       /\ \A max \in 2 .. 4 : FlattenSeq(Pieces(text, max)) = text
=============================================================================
