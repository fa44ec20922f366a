---------------------------- MODULE ShellParser ----------------------------
(* sh's parser. A line is a sequence of characters; any character that is  *)
(* neither white space nor a symbol is part of a word. A position past the *)
(* end of the line is the terminating 0. panic ends the process: a parse   *)
(* that panics has the command PANIC.                                      *)
EXTENDS Integers, Sequences, SequencesExt

CONSTANT MAXARGS

ASSUME MaxArgsPositive == MAXARGS \in Nat \ {0}

whitespace == {" ", "\t", "\r", "\n", "VT"}     \* VT: \v
symbols == {"<", "|", ">", "&", ";", "(", ")"}
NUL == ""

execcmd(argv)         == [type |-> "EXEC", argv |-> argv]
redircmd(c, tok, f)   == [type |-> "REDIR", cmd |-> c, file |-> f,
                          mode |-> CASE tok = "<" -> {}
                                     [] tok = ">" -> {"WRONLY", "CREATE", "TRUNC"}
                                     [] tok = "+" -> {"WRONLY", "CREATE"},
                          fd |-> IF tok = "<" THEN "0" ELSE "1"]
pipecmd(left, right)  == [type |-> "PIPE", left |-> left, right |-> right]
listcmd(left, right)  == [type |-> "LIST", left |-> left, right |-> right]
backcmd(c)            == [type |-> "BACK", cmd |-> c]

At(line, s) == IF s \in DOMAIN line THEN line[s] ELSE NUL
Skip(line, s) ==
  CHOOSE e \in s..(Len(line) + 1) :
    /\ At(line, e) \notin whitespace
    /\ \A k \in s..(e - 1) : line[k] \in whitespace
WordEnd(line, s) ==
  CHOOSE e \in s..(Len(line) + 1) :
    /\ At(line, e) \in whitespace \cup symbols \cup {NUL}
    /\ \A k \in s..(e - 1) : line[k] \notin whitespace \cup symbols

gettoken(line, s0) ==
  LET s == Skip(line, s0)
      c == At(line, s)
      append == c = ">" /\ At(line, s + 1) = ">"
      e == CASE c = NUL -> s
             [] append -> s + 2
             [] c \in symbols /\ ~append -> s + 1
             [] OTHER -> WordEnd(line, s)
  IN [tok |-> IF append THEN "+" ELSE IF c \in symbols \cup {NUL} THEN c ELSE "a",
      word |-> SubSeq(line, s, e - 1), s |-> Skip(line, e)]

peek(line, s, toks) == At(line, Skip(line, s)) \in toks

Parsed(c, s) == [cmd |-> c, s |-> s]
PANIC == Parsed([type |-> "PANIC"], 1)

\* What comes after a parse r that may have panicked.
Then(r, Rest(_)) ==
  CHOOSE x \in {IF q = PANIC THEN PANIC ELSE Rest(q) : q \in {r}} : TRUE

RECURSIVE parseline(_, _), parsepipe(_, _), parseredirs(_, _, _), parsewords(_, _, _, _)

parseredirs(c, line, s) ==
  LET t == gettoken(line, s)
      f == gettoken(line, t.s)
  IN IF ~peek(line, s, {"<", ">"}) THEN Parsed(c, s)
     ELSE IF f.tok # "a" THEN PANIC
     ELSE Then(Parsed(redircmd(c, t.tok, f.word), f.s), LAMBDA r : parseredirs(r.cmd, line, r.s))

parseblock(line, s) ==
  Then(parseline(line, gettoken(line, s).s), LAMBDA r :
         IF peek(line, r.s, {")"}) THEN parseredirs(r.cmd, line, gettoken(line, r.s).s) ELSE PANIC)

\* The innermost command of a chain of redirections gets the words.
RECURSIVE WithArgv(_, _)
WithArgv(c, argv) ==
  IF c.type = "EXEC" THEN execcmd(argv) ELSE [c EXCEPT !.cmd = WithArgv(@, argv)]

parsewords(c, argv, line, s) ==
  LET t == gettoken(line, s)
  IN IF peek(line, s, {"|", ")", "&", ";"}) \/ t.tok = NUL THEN Parsed(WithArgv(c, argv), s)
     ELSE IF t.tok # "a" \/ Len(argv) + 1 >= MAXARGS THEN PANIC
     ELSE Then(parseredirs(c, line, t.s), LAMBDA r : parsewords(r.cmd, Append(argv, t.word), line, r.s))

parseexec(line, s) ==
  IF peek(line, s, {"("}) THEN parseblock(line, s)
  ELSE Then(parseredirs(execcmd(<<>>), line, s), LAMBDA r : parsewords(r.cmd, <<>>, line, r.s))

\* The command l goes on behind the symbol tok with another one, if tok is next.
Joined(l, line, tok, Other(_, _), Join(_, _)) ==
  IF ~peek(line, l.s, {tok}) THEN l
  ELSE Then(Other(line, gettoken(line, l.s).s), LAMBDA r : Parsed(Join(l.cmd, r.cmd), r.s))

parsepipe(line, s) ==
  Then(parseexec(line, s), LAMBDA l : Joined(l, line, "|", parsepipe, pipecmd))

RECURSIVE parseback(_, _)
parseback(r, line) ==
  IF ~peek(line, r.s, {"&"}) THEN r
  ELSE parseback(Parsed(backcmd(r.cmd), gettoken(line, r.s).s), line)

parseline(line, s) ==
  Then(parsepipe(line, s), LAMBDA p :
  Then(parseback(p, line), LAMBDA l : Joined(l, line, ";", parseline, listcmd)))

\* Mutant: what is left behind the command is ignored.
parseprefix(line) == parseline(line, 1).cmd

\* What is left behind the command is a syntax error.
parsecmd(line) ==
  Then(parseline(line, 1), LAMBDA r :
         IF Skip(line, r.s) = Len(line) + 1 THEN r ELSE PANIC).cmd
=============================================================================
