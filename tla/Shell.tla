------------------------------- MODULE Shell -------------------------------
(* init, the shell and the utilities as programs over the system calls.    *)
(* Messages to the user are left out. A word of one character stands for a *)
(* name: a word is the path it spells.                                     *)
EXTENDS UserCode, ShellParser

(***************************************************************************)
(* init: starts the shell, waits for it and for orphans, and starts it     *)
(* again. It does so Sessions times here and then only waits.              *)
(***************************************************************************)
initMain(Sessions, shell) ==
  <<Call("open", <<<<"console">>, {"RDWR"}>>, "_"), dup("0", "_"), dup("0", "_"),
    For(Sessions, LAMBDA i :
      <<OrElse(fork("pid"), <<exit(1)>>),
        If("pid", {0}, <<exec(<<"sh">>, shell), exit(1)>>, <<>>),
        Loop(<<OrElse(wait("wpid", "_"), <<exit(1)>>),
               IfSame("wpid", "pid", <<Break>>, <<>>)>>)>>),
    Loop(<<wait("wpid", "_")>>)>>

(***************************************************************************)
(* The shell.                                                              *)
(***************************************************************************)
panic == <<exit(1)>>
fork1(child) == <<OrElse(fork("pid"), panic), If("pid", {0}, child, <<>>)>>

\* Mutant: the shell waits for one side of the pipe only.
WaitsForOne == <<close("p0"), close("p1"), wait("_", "_"), exit(0)>>

\* The shell's own end of a pipeline: it keeps no end of the pipe open.
PipeEnd == <<close("p0"), close("p1"), wait("_", "_"), wait("_", "_"), exit(0)>>

RECURSIVE runcmd(_)
runcmd(c) ==
  CASE c.type = "PANIC" -> panic       \* parsecmd did not return
    [] c.type = "EXEC"  -> IF c.argv = <<>> THEN <<exit(1)>>
                           ELSE <<exec(c.argv[1], c.argv), exit(0)>>
    [] c.type = "REDIR" -> <<close(c.fd), OrElse(open(c.file, c.mode, "_"), <<exit(1)>>)>> \o runcmd(c.cmd)
    [] c.type = "LIST"  -> fork1(runcmd(c.left)) \o <<wait("_", "_")>> \o runcmd(c.right)
    [] c.type = "PIPE"  ->
         <<OrElse(pipe("p0", "p1"), panic)>>
           \o fork1(<<close("1"), dup("p1", "_"), close("p0"), close("p1")>> \o runcmd(c.left))
           \o fork1(<<close("0"), dup("p0", "_"), close("p0"), close("p1")>> \o runcmd(c.right))
           \o PipeEnd
    [] c.type = "BACK"  -> fork1(runcmd(c.cmd)) \o <<exit(0)>>

\* What the shell does with a line.
IsCd(line) == Len(line) > 3 /\ SubSeq(line, 1, 3) = <<"c", "d", " ">>
ShellLine(line) ==
  IF IsCd(line) THEN <<chdir(SubSeq(line, 4, Len(line)))>>
  ELSE fork1(runcmd(parsecmd(line))) \o <<wait("_", "_")>>

\* getcmd reads a line; line number i of the console's input is script[i].
shellMain(script) ==
  <<Loop(<<OrElse(open(<<"console">>, {"RDWR"}, "fd"), <<Break>>),
           If("fd", 0..2, <<>>, <<close("fd"), Break>>)>>),
    Loop(<<read("0", 1),
           If("n", {1}, <<>>, <<Break>>)>>
         \o [i \in DOMAIN script |-> If("buf", {<<i>>}, ShellLine(script[i]), <<>>)]),
    exit(0)>>

(***************************************************************************)
(* The utilities.                                                          *)
(***************************************************************************)
\* A read of a whole buffer takes ReadSize units.
CONSTANT ReadSize
cat(fd) == <<Loop(<<OrElse(read(fd, ReadSize), <<exit(1)>>),
                    If("n", {0}, <<Break>>, <<>>),
                    OrElse(writeVar("1", "buf"), <<exit(1)>>)>>)>>
catMain(argv) ==
  IF Len(argv) <= 1 THEN cat("0") \o <<exit(0)>>
  ELSE <<For(Len(argv) - 1, LAMBDA i :
           <<OrElse(open(argv[i + 1], {}, "fd"), <<exit(1)>>)>> \o cat("fd") \o <<close("fd")>>),
         exit(0)>>

echoMain(argv) ==
  <<For(Len(argv) - 1, LAMBDA i :
      <<write("1", argv[i + 1]), write("1", IF i + 1 < Len(argv) THEN <<" ">> ELSE <<"\n">>)>>),
    exit(0)>>

rmMain(argv) ==
  IF Len(argv) < 2 THEN <<exit(1)>>
  ELSE <<For(Len(argv) - 1, LAMBDA i : <<OrElse(unlink(argv[i + 1]), <<Break>>)>>), exit(0)>>

mkdirMain(argv) ==
  IF Len(argv) < 2 THEN <<exit(1)>>
  ELSE <<For(Len(argv) - 1, LAMBDA i : <<OrElse(mkdir(argv[i + 1]), <<Break>>)>>), exit(0)>>

lnMain(argv) == IF Len(argv) # 3 THEN <<exit(1)>> ELSE <<link(argv[2], argv[3]), exit(0)>>

zombieMain == <<fork("pid"), If("pid", {-1, 0}, <<>>, <<sleep>>), exit(0)>>

\* An executable of the file system image run with argv; none if there is no such file.
Utility(name, argv) ==
  CASE name = <<"cat">>   -> catMain(argv)
    [] name = <<"echo">>  -> echoMain(argv)
    [] name = <<"rm">>    -> rmMain(argv)
    [] name = <<"mkdir">> -> mkdirMain(argv)
    [] name = <<"ln">>    -> lnMain(argv)
    [] name = <<"zombie">> -> zombieMain
    [] OTHER              -> <<>>
=============================================================================
