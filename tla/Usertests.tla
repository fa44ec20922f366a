----------------------------- MODULE Usertests -----------------------------
(* usertests: each test as a program over the system calls. A test that    *)
(* fails exits with status 1. Names, sizes and the number of rounds are    *)
(* scaled to the small system; Rounds stands for the tests' loop counts.   *)
EXTENDS Unix, Shell

CONSTANT Rounds

ASSUME RoundsIsCount == Rounds \in Nat \ {0}

Create == {"CREATE", "RDWR"}
Numbered(name, i) == name \o ToString(i)
Units(x, n) == [k \in 1..n |-> x]
\* A read that takes all there is.
Whole == MaxFile + 1

(***************************************************************************)
(* Truncation, directories as current directory, opening and writing.      *)
(***************************************************************************)
truncate1 ==
  <<unlink(<<"truncfile">>),
    open(<<"truncfile">>, {"CREATE", "WRONLY", "TRUNC"}, "fd1"), write("fd1", <<"a", "b">>), close("fd1"),
    open(<<"truncfile">>, {}, "fd2"), Gives(read("fd2", Whole), 2),
    open(<<"truncfile">>, {"WRONLY", "TRUNC"}, "fd1"),
    open(<<"truncfile">>, {}, "fd3"), Gives(read("fd3", Whole), 0),
    Gives(read("fd2", Whole), 0),
    write("fd1", <<"a", "b", "c">>),
    Gives(read("fd3", Whole), 3),
    Gives(read("fd2", Whole), 1),
    unlink(<<"truncfile">>), close("fd1"), close("fd2"), close("fd3")>>

truncate2 ==
  <<unlink(<<"truncfile">>),
    open(<<"truncfile">>, {"CREATE", "TRUNC", "WRONLY"}, "fd1"), write("fd1", <<"a", "b">>),
    open(<<"truncfile">>, {"TRUNC", "WRONLY"}, "fd2"),
    Gives(write("fd1", <<"x">>), -1),
    unlink(<<"truncfile">>), close("fd1"), close("fd2")>>

truncate3 ==
  <<open(<<"truncfile">>, {"CREATE", "TRUNC", "WRONLY"}, "fd"), close("fd")>>
  \o Fork("pid",
       <<For(Rounds, LAMBDA i :
           <<Must(open(<<"truncfile">>, {"WRONLY"}, "fd")), Gives(write("fd", Units("1", 3)), 3), close("fd"),
             open(<<"truncfile">>, {}, "fd"), read("fd", Whole), close("fd")>>),
         exit(0)>>)
  \o <<For(Rounds, LAMBDA i :
         <<Must(open(<<"truncfile">>, {"CREATE", "WRONLY", "TRUNC"}, "fd")),
           Gives(write("fd", Units("x", 2)), 2), close("fd")>>),
       wait("_", "xstatus"), unlink(<<"truncfile">>), exitWith("xstatus")>>

iputtest ==
  <<Must(mkdir(<<"iputdir">>)), Must(chdir(<<"iputdir">>)), Must(unlink(<<"..", "iputdir">>)),
    Must(chdir(<<"/">>))>>

exitiputtest ==
  Fork("pid", <<Must(mkdir(<<"iputdir">>)), Must(chdir(<<"iputdir">>)),
                Must(unlink(<<"..", "iputdir">>)), exit(0)>>)
  \o <<wait("_", "xstatus"), exitWith("xstatus")>>

openiputtest ==
  <<Must(mkdir(<<"oidir">>))>>
  \o Fork("pid", <<Refused(open(<<"oidir">>, {"RDWR"}, "fd")), exit(0)>>)
  \o <<sleep, Must(unlink(<<"oidir">>)), wait("_", "xstatus"), exitWith("xstatus")>>

opentest ==
  <<Must(open(<<"echo">>, {}, "fd")), close("fd"), Refused(open(<<"doesnotexist">>, {}, "fd"))>>

writetest ==
  <<Must(open(<<"small">>, Create, "fd")),
    For(Rounds, LAMBDA i : <<Gives(write("fd", <<"a">>), 1), Gives(write("fd", <<"b">>), 1)>>),
    close("fd"),
    Must(open(<<"small">>, {}, "fd")), Gives(read("fd", Whole), 2 * Rounds), close("fd"),
    Must(unlink(<<"small">>))>>

writebig ==
  <<Must(open(<<"big">>, Create, "fd")),
    For(MaxFile, LAMBDA i : <<Gives(write("fd", <<i>>), 1)>>),
    close("fd"),
    Must(open(<<"big">>, {}, "fd")), Set("blocks", 0),
    For(MaxFile + 1, LAMBDA i :
      <<read("fd", 1),
        If("n", {0}, <<If("blocks", {MaxFile - 1}, Failed, <<>>), Break>>,
                     <<Check("n", {1}), Check("buf", {<<i>>}), Add("blocks", 1)>>)>>),
    close("fd"), Must(unlink(<<"big">>))>>

createtest ==
  <<For(Rounds, LAMBDA i : <<open(<<Numbered("a", i)>>, Create, "fd"), close("fd")>>),
    For(Rounds, LAMBDA i : <<unlink(<<Numbered("a", i)>>)>>)>>

dirtest ==
  <<Must(mkdir(<<"dir0">>)), Must(chdir(<<"dir0">>)), Must(chdir(<<"..">>)), Must(unlink(<<"dir0">>))>>

exectest ==
  <<unlink(<<"echo-ok">>)>>
  \o Fork("pid", <<close("1"), Must(open(<<"echo-ok">>, {"CREATE", "WRONLY"}, "fd")), Check("fd", {1}),
                   Must(exec(<<"echo">>, << <<"echo">>, <<"O", "K">> >>))>>)
  \o <<wait("_", "xstatus"), If("xstatus", {0}, <<>>, <<exitWith("xstatus")>>),
       Must(open(<<"echo-ok">>, {}, "fd")), Gives(read("fd", 2), 2), unlink(<<"echo-ok">>),
       If("buf", {<<"O", "K">>}, <<exit(0)>>, <<exit(1)>>)>>

(***************************************************************************)
(* Pipes, kill, fork, exit and wait.                                       *)
(***************************************************************************)
\* The parent's buffer doubles with every read.
pipe1 ==
  LET SZ     == PipeSize + 1
      stream == [k \in 1..(2 * SZ) |-> k]
      cc(i)  == Smaller(2 ^ (i - 1), SZ)
  IN <<Gives(pipe("p0", "p1"), 0)>>
     \o Fork("pid",
          <<close("p0"),
            For(2, LAMBDA k : <<Gives(write("p1", SubSeq(stream, (k - 1) * SZ + 1, k * SZ)), SZ)>>),
            exit(0)>>)
     \o <<close("p1"), Set("all", <<>>),
          For(2 * SZ + 1, LAMBDA i :
            <<read("p0", cc(i)), If("n", {-1, 0}, <<Break>>, <<>>),
              Cat("all", "buf"), IfPrefix("all", stream, <<>>, <<exit(0)>>)>>),
          Check("all", {stream}), close("p0"), wait("_", "xstatus"), exitWith("xstatus")>>

killstatus ==
  <<For(Rounds, LAMBDA i : Fork("pid1", <<spin>>)
      \o <<sleep, kill("pid1"), wait("_", "xst"), Check("xst", {-1})>>),
    exit(0)>>

preempt ==
  Fork("pid1", <<spin>>) \o Fork("pid2", <<spin>>) \o <<pipe("p0", "p1")>>
  \o Fork("pid3", <<close("p0"), write("p1", <<"x">>), close("p1"), spin>>)
  \o <<close("p1"), read("p0", Whole), If("n", {1}, <<>>, <<exit(0)>>), close("p0"),
       kill("pid1"), kill("pid2"), kill("pid3"), wait("_", "_"), wait("_", "_"), wait("_", "_")>>

exitwait ==
  <<For(Rounds, LAMBDA i : Fork("pid", <<exit(i)>>)
      \o <<wait("w", "xstate"), IfSame("w", "pid", <<>>, Failed), Check("xstate", {i})>>)>>

reparent ==
  <<getpid("master"),
    For(Rounds, LAMBDA i :
      Fork("pid", <<OrElse(fork("pid2"), <<kill("master"), exit(1)>>), exit(0)>>)
      \o <<wait("w", "_"), IfSame("w", "pid", <<>>, Failed)>>),
    exit(0)>>

twochildren ==
  <<For(Rounds, LAMBDA i : Fork("pid1", <<exit(0)>>) \o Fork("pid2", <<exit(0)>>)
                           \o <<wait("_", "_"), wait("_", "_")>>)>>

forkfork ==
  <<For(2, LAMBDA i :
      Fork("pid", <<For(Rounds, LAMBDA j : Fork("pid1", <<exit(0)>>) \o <<wait("_", "_")>>), exit(0)>>)),
    For(2, LAMBDA i : <<wait("_", "xstatus"), Check("xstatus", {0})>>)>>

reparent2 ==
  <<For(1, LAMBDA i : Fork("pid1", <<fork("_"), fork("_"), exit(0)>>) \o <<wait("_", "_")>>),
    exit(0)>>

\* The allocator grows the heap four pages at a time; what is freed is used again.
mem ==
  <<fork("pid"),
    If("pid", {0}, <<Loop(<<OrElse(sbrk(4 * PGSIZE, "m1"), <<Break>>)>>), exit(0)>>, <<>>),
    wait("_", "xstatus"), If("xstatus", {-1}, <<exit(0)>>, <<>>), exitWith("xstatus")>>

(***************************************************************************)
(* More file system tests.                                                 *)
(***************************************************************************)
\* Rounds writes of a unit by each of the two processes.
sharedfd ==
  LET Writes(c) == For(Rounds, LAMBDA i : <<Gives(write("fd", <<c>>), 1)>>)
  IN <<unlink(<<"sharedfd">>), Must(open(<<"sharedfd">>, Create, "fd")),
       fork("pid"),
       If("pid", {0}, <<Writes("c"), exit(0)>>, <<Writes("p")>>),
       wait("_", "xstatus"), If("xstatus", {0}, <<>>, <<exitWith("xstatus")>>),
       close("fd"), Must(open(<<"sharedfd">>, {}, "fd")), Set("nc", 0), Set("np", 0),
       Loop(<<read("fd", 1), If("n", {-1, 0}, <<Break>>, <<>>),
              If("buf", {<<"c">>}, <<Add("nc", 1)>>, <<>>), If("buf", {<<"p">>}, <<Add("np", 1)>>, <<>>)>>),
       close("fd"), unlink(<<"sharedfd">>), Check("nc", {Rounds}), Check("np", {Rounds}), exit(0)>>

NCHILD == 2

fourfiles ==
  LET name(i) == <<Numbered("f", i)>>
      data(i) == Units(ToString(i), Rounds)
  IN <<For(NCHILD, LAMBDA i :
         <<unlink(name(i))>>
         \o Fork("pid", <<Must(open(name(i), Create, "fd")),
                          For(Rounds, LAMBDA k : <<Gives(write("fd", <<ToString(i)>>), 1)>>), exit(0)>>)),
       For(NCHILD, LAMBDA i : <<wait("_", "xstatus"), If("xstatus", {0}, <<>>, <<exitWith("xstatus")>>)>>),
       For(NCHILD, LAMBDA i :
         <<open(name(i), {}, "fd"), Set("all", <<>>),
           Loop(<<read("fd", Whole), If("n", {-1, 0}, <<Break>>, <<>>),
                  Cat("all", "buf"), IfPrefix("all", data(i), <<>>, Failed)>>),
           close("fd"), Check("all", {data(i)}), unlink(name(i))>>)>>

\* The last loop means to delete the files: it names 'p' + i where the files are 'p' + pi.
createdelete ==
  LET N == 4
      name(pi, i) == <<Numbered(CASE pi = 0 -> "p" [] pi = 1 -> "q" [] pi = 2 -> "r" [] pi = 3 -> "s", i)>>
  IN <<For(NCHILD, LAMBDA c :
         Fork("pid",
           <<For(N, LAMBDA k :
               <<Must(open(name(c - 1, k - 1), Create, "fd")), close("fd")>>
               \o (IF k > 1 /\ (k - 1) % 2 = 0 THEN <<Must(unlink(name(c - 1, (k - 1) \div 2)))>> ELSE <<>>)),
             exit(0)>>)),
       For(NCHILD, LAMBDA c : <<wait("_", "xstatus"), Check("xstatus", {0})>>),
       For(N, LAMBDA k : <<For(NCHILD, LAMBDA c :
         <<open(name(c - 1, k - 1), {}, "fd"),
           If("fd", {-1}, IF k = 1 \/ k - 1 >= N \div 2 THEN Failed ELSE <<>>,
                          (IF k = 1 \/ k - 1 >= N \div 2 THEN <<>> ELSE Failed) \o <<close("fd")>>)>>)>>),
       For(N, LAMBDA k : <<For(NCHILD, LAMBDA c : <<unlink(name(k - 1, k - 1))>>)>>)>>

unlinkread ==
  <<Must(open(<<"unlinkread">>, Create, "fd")), write("fd", <<"h", "e">>), close("fd"),
    Must(open(<<"unlinkread">>, {"RDWR"}, "fd")), Must(unlink(<<"unlinkread">>)),
    open(<<"unlinkread">>, Create, "fd1"), write("fd1", <<"y">>), close("fd1"),
    Gives(read("fd", Whole), 2), Check("buf", {<<"h", "e">>}),
    Gives(write("fd", Units("h", 2)), 2), close("fd"), unlink(<<"unlinkread">>)>>

linktest ==
  <<unlink(<<"lf1">>), unlink(<<"lf2">>),
    Must(open(<<"lf1">>, Create, "fd")), Gives(write("fd", <<"h", "e">>), 2), close("fd"),
    Must(link(<<"lf1">>, <<"lf2">>)), unlink(<<"lf1">>),
    Refused(open(<<"lf1">>, {}, "_")),
    Must(open(<<"lf2">>, {}, "fd")), Gives(read("fd", Whole), 2), close("fd"),
    Refused(link(<<"lf2">>, <<"lf2">>)), unlink(<<"lf2">>),
    Refused(link(<<"lf2">>, <<"lf1">>)),
    Refused(link(<<".">>, <<"lf1">>))>>

\* The rounds are one of each residue that the test tells apart.
concreate ==
  LET rounds == <<0, 1, 4, 6>>
      N == Len(rounds)
      name(k) == <<Numbered("C", rounds[k])>>
      Entries(k) == {<<Entry(Numbered("C", rounds[k]), i)>> : i \in 1..NInode}
      Makes(k, links) == IF links THEN <<link(<<"C0">>, name(k))>>
                         ELSE <<Must(open(name(k), Create, "fd")), close("fd")>>
      Uses2(k, opens) == IF opens THEN <<open(name(k), {}, "fd"), close("fd"), open(name(k), {}, "fd"), close("fd")>>
                         ELSE <<unlink(name(k)), unlink(name(k))>>
      fa(k) == Numbered("fa", k)
  IN <<For(N, LAMBDA k :
         <<unlink(name(k)), fork("pid"),
           If("pid", {0}, Makes(k, rounds[k] % 5 = 1) \o <<exit(0)>>, Makes(k, rounds[k] % 3 = 1)),
           wait("_", "xstatus"), Check("xstatus", {0})>>),
       For(N, LAMBDA k : <<Set(fa(k), 0)>>), Set("files", 0),
       open(<<".">>, {}, "fd"),
       Loop(<<read("fd", 1), If("n", {-1, 0}, <<Break>>, <<>>)>>
            \o [k \in 1..N |-> If("buf", Entries(k), <<Check(fa(k), {0}), Set(fa(k), 1), Add("files", 1)>>, <<>>)]),
       close("fd"), Check("files", {N}),
       For(N, LAMBDA k :
         <<Must(fork("pid")),
           If("pid", {0}, Uses2(k, rounds[k] % 3 = 0) \o <<exit(0)>>, Uses2(k, rounds[k] % 3 = 1)),
           wait("_", "_")>>)>>

\* The congruential generator that chooses the operation is left open.
linkunlink ==
  <<unlink(<<"x">>), Must(fork("pid")),
    For(Rounds, LAMBDA i :
      <<rand("x", 0..2),
        If("x", {0}, <<open(<<"x">>, Create, "fd"), close("fd")>>,
        <<If("x", {1}, <<link(<<"cat">>, <<"x">>)>>, <<unlink(<<"x">>)>>)>>)>>),
    If("pid", {0}, <<exit(0)>>, <<wait("_", "_")>>)>>

subdir ==
  <<unlink(<<"ff">>), Must(mkdir(<<"dd">>)),
    Must(open(<<"dd", "ff">>, Create, "fd")), write("fd", <<"f", "f">>), close("fd"),
    Refused(unlink(<<"dd">>)),
    Must(mkdir(<<"/", "dd", "dd">>)),
    Must(open(<<"dd", "dd", "ff">>, Create, "fd")), write("fd", <<"F", "F">>), close("fd"),
    Must(open(<<"dd", "dd", "..", "ff">>, {}, "fd")), Gives(read("fd", Whole), 2),
    Check("buf", {<<"f", "f">>}), close("fd"),
    Must(link(<<"dd", "dd", "ff">>, <<"dd", "dd", "ffff">>)),
    Must(unlink(<<"dd", "dd", "ff">>)), Refused(open(<<"dd", "dd", "ff">>, {}, "_")),
    Must(chdir(<<"dd">>)), Must(chdir(<<"dd", "..", "..", "dd">>)),
    Must(chdir(<<"dd", "..", "..", "..", "dd">>)), Must(chdir(<<".", "..">>)),
    Must(open(<<"dd", "dd", "ffff">>, {}, "fd")), Gives(read("fd", Whole), 2), close("fd"),
    Refused(open(<<"dd", "dd", "ff">>, {}, "_"))>>
  \o [k \in 1..5 |-> Refused(CASE k = 1 -> open(<<"dd", "ff", "ff">>, Create, "_")
                               [] k = 2 -> open(<<"dd", "xx", "ff">>, Create, "_")
                               [] k = 3 -> open(<<"dd">>, {"CREATE"}, "_")
                               [] k = 4 -> open(<<"dd">>, {"RDWR"}, "_")
                               [] k = 5 -> open(<<"dd">>, {"WRONLY"}, "_"))]
  \o <<Refused(link(<<"dd", "ff", "ff">>, <<"dd", "dd", "xx">>)),
       Refused(link(<<"dd", "xx", "ff">>, <<"dd", "dd", "xx">>)),
       Refused(link(<<"dd", "ff">>, <<"dd", "dd", "ffff">>)),
       Refused(mkdir(<<"dd", "ff", "ff">>)), Refused(mkdir(<<"dd", "xx", "ff">>)),
       Refused(mkdir(<<"dd", "dd", "ffff">>)),
       Refused(unlink(<<"dd", "xx", "ff">>)), Refused(unlink(<<"dd", "ff", "ff">>)),
       Refused(chdir(<<"dd", "ff">>)), Refused(chdir(<<"dd", "xx">>)),
       Must(unlink(<<"dd", "dd", "ffff">>)), Must(unlink(<<"dd", "ff">>)),
       Refused(unlink(<<"dd">>)), Must(unlink(<<"dd", "dd">>)), Must(unlink(<<"dd">>))>>

bigwrite ==
  <<unlink(<<"bigwrite">>),
    For(MaxFile \div 2, LAMBDA sz :
      <<Must(open(<<"bigwrite">>, Create, "fd")),
        Gives(write("fd", Units("x", sz)), sz), Gives(write("fd", Units("x", sz)), sz),
        close("fd"), unlink(<<"bigwrite">>)>>)>>

\* Records of two units, read one unit at a time.
bigfile ==
  LET N == MaxFile \div 2
  IN <<unlink(<<"bigfile.dat">>), Must(open(<<"bigfile.dat">>, Create, "fd")),
       For(N, LAMBDA i : <<Gives(write("fd", <<i, i>>), 2)>>), close("fd"),
       Must(open(<<"bigfile.dat">>, {}, "fd")), Set("total", 0),
       For(2 * N + 1, LAMBDA i :
         <<Must(read("fd", 1)), If("n", {0}, <<Break>>, <<>>),
           Check("buf", {<<(i + 1) \div 2>>}), Add("total", 1)>>),
       close("fd"), Check("total", {2 * N}), unlink(<<"bigfile.dat">>)>>

\* A name as long as a directory entry allows, and one longer.
fourteen ==
  LET n == "name27"
  IN <<Must(mkdir(<<n>>)), Refused(mkdir(<<"name28">>)), Must(mkdir(<<n, n>>)),
       Must(open(<<n, n, n>>, {"CREATE"}, "fd")), close("fd"),
       Must(open(<<n, n, n>>, {}, "fd")), close("fd"), Refused(mkdir(<<n, n, n>>)),
       unlink(<<n, n, n>>), unlink(<<n, n>>), unlink(<<n>>)>>

rmdot ==
  <<Must(mkdir(<<"dots">>)), Must(chdir(<<"dots">>)), Refused(unlink(<<".">>)), Refused(unlink(<<"..">>)),
    Must(chdir(<<"/">>)), Refused(unlink(<<"dots", ".">>)), Refused(unlink(<<"dots", "..">>)),
    Must(unlink(<<"dots">>))>>

dirfile ==
  <<Must(open(<<"dirfile">>, {"CREATE"}, "fd")), close("fd"), Refused(chdir(<<"dirfile">>)),
    Refused(open(<<"dirfile", "xx">>, {}, "fd")), Refused(open(<<"dirfile", "xx">>, {"CREATE"}, "fd")),
    Refused(mkdir(<<"dirfile", "xx">>)), Refused(unlink(<<"dirfile", "xx">>)),
    Refused(link(<<"README.md">>, <<"dirfile", "xx">>)), Must(unlink(<<"dirfile">>)),
    Refused(open(<<".">>, {"RDWR"}, "fd")),
    open(<<".">>, {}, "fd"), Refused(write("fd", <<"x">>)), close("fd")>>

iref ==
  <<For(Rounds + 1, LAMBDA i :
      <<Must(mkdir(<<"irefd">>)), Must(chdir(<<"irefd">>)),
        mkdir(<<>>), link(<<"README.md">>, <<>>),
        open(<<>>, {"CREATE"}, "fd"), If("fd", {-1}, <<>>, <<close("fd")>>),
        open(<<"xx">>, {"CREATE"}, "fd"), If("fd", {-1}, <<>>, <<close("fd")>>),
        unlink(<<"xx">>)>>),
    For(Rounds + 1, LAMBDA i : <<chdir(<<"..">>), unlink(<<"irefd">>)>>),
    chdir(<<"/">>)>>

bigdir ==
  <<unlink(<<"bd">>), Must(open(<<"bd">>, {"CREATE"}, "fd")), close("fd"),
    For(Rounds + 1, LAMBDA i : <<Must(link(<<"bd">>, <<Numbered("x", i)>>))>>),
    unlink(<<"bd">>),
    For(Rounds + 1, LAMBDA i : <<Must(unlink(<<Numbered("x", i)>>))>>)>>

manywrites ==
  LET name(c) == <<Numbered("b", c)>>
  IN <<For(NCHILD, LAMBDA c :
         Fork("pid",
           <<unlink(name(c)),
             For(Rounds, LAMBDA iters :
               <<For(c, LAMBDA i : <<Must(open(name(c), Create, "fd")),
                                     Gives(write("fd", Units("x", 2)), 2), close("fd")>>),
                 unlink(name(c))>>),
             unlink(name(c)), exit(0)>>)),
       For(NCHILD, LAMBDA c : <<wait("_", "st"), If("st", {0}, <<>>, <<exitWith("st")>>)>>),
       exit(0)>>

\* Files of the largest size until the disk is full; then as many names as there are inodes.
diskfull ==
  LET big(i) == <<Numbered("big", i)>>
      zz(i) == <<Numbered("zz", i)>>
      Fill == NBlocks \div MaxFile
      Truncating == Create \cup {"TRUNC"}
  IN <<unlink(<<"diskfulldir">>), Set("done", 0),
       For(Fill, LAMBDA fi :
         <<unlink(big(fi)), OrElse(open(big(fi), Truncating, "fd"), <<Break>>),
           For(MaxFile, LAMBDA i : <<OrElse(write("fd", <<i>>), <<Set("done", 1), close("fd"), Break>>)>>),
           close("fd"), If("done", {1}, <<Break>>, <<>>)>>),
       For(NInode, LAMBDA i :
         <<unlink(zz(i)), OrElse(open(zz(i), Truncating, "fd"), <<Break>>), close("fd")>>),
       mkdir(<<"diskfulldir">>), unlink(<<"diskfulldir">>),
       For(NInode, LAMBDA i : <<unlink(zz(i))>>),
       For(Fill, LAMBDA fi : <<unlink(big(fi))>>)>>

outofinodes ==
  LET zz(i) == <<Numbered("zz", i)>>
  IN <<For(NInode, LAMBDA i :
         <<unlink(zz(i)), OrElse(open(zz(i), Create \cup {"TRUNC"}, "fd"), <<Break>>), close("fd")>>),
       For(NInode, LAMBDA i : <<unlink(zz(i))>>)>>

(***************************************************************************)
(* Memory: out of process slots, growing and shrinking, faults, exec       *)
(* without memory. What is in a page is left out.                          *)
(***************************************************************************)
forktest ==
  <<Set("k", 0),
    For(NProc, LAMBDA i : <<fork("pid"), If("pid", {-1}, <<Break>>, <<>>),
                            If("pid", {0}, <<exit(0)>>, <<>>), Add("k", 1)>>),
    Check("k", 1..(NProc - 1)),
    Loop(<<If("k", {0}, <<Break>>, <<>>), Must(wait("_", "_")), Add("k", -1)>>),
    Gives(wait("_", "_"), -1)>>

\* sbrk(0), as a program asks for its break.
brk(v) == sbrk(0, v)
TooMuch == NPages * PGSIZE

sbrkbasic ==
  Fork("pid", <<OrElse(sbrk(TooMuch, "a"), <<exit(0)>>), touch("a", TooMuch - 1), exit(1)>>)
  \o <<wait("_", "xstatus"), If("xstatus", {1}, Failed, <<>>),
       brk("a"),
       For(PGSIZE + 1, LAMBDA i :
         <<sbrk(1, "b"), IfSame("b", "a", <<>>, Failed), touch("b", 0), Add("a", 1)>>),
       Must(fork("pid")), sbrk(1, "c"), sbrk(1, "c"), Add("a", 1), IfSame("c", "a", <<>>, Failed),
       If("pid", {0}, <<exit(0)>>, <<>>), wait("_", "xstatus"), exitWith("xstatus")>>

\* The process starts with a page, so it grows to three by two.
sbrkmuch ==
  <<brk("oldbrk"), brk("a"), sbrk(2 * PGSIZE, "p"), IfSame("p", "a", <<>>, Failed),
    touch("a", 0), touch("a", PGSIZE), touch("a", 2 * PGSIZE - 1),
    brk("a"), Must(sbrk(-PGSIZE, "c")), brk("c"), Add("c", PGSIZE), IfSame("c", "a", <<>>, Failed),
    brk("a"), sbrk(PGSIZE, "c"), IfSame("c", "a", <<>>, Failed),
    brk("c"), Add("a", PGSIZE), IfSame("c", "a", <<>>, Failed),
    brk("a"), sbrk(-2 * PGSIZE, "c"), IfSame("c", "a", <<>>, Failed)>>

\* The access at each address kills the child.
Faults(address) ==
  <<Set("a", address)>>
  \o Fork("pid", <<touch("a", 0), exit(1)>>) \o <<wait("_", "xstatus"), Check("xstatus", {-1})>>
kernmem == <<For(Rounds, LAMBDA i : Faults(TooMuch + i))>>
MAXVAplus == <<For(Rounds, LAMBDA i : Faults(TooMuch * 2 ^ i))>>

\* One child gets much of the memory, the other's request fails and must leave nothing behind.
sbrkfail ==
  LET Big == (NPages \div 2 - 3) * PGSIZE
      pid(i) == Numbered("pid", i)
  IN <<Must(pipe("p0", "p1")),
       For(2, LAMBDA i :
         <<fork(pid(i)),
           If(pid(i), {0}, <<sbrk(Big, "_"), write("p1", <<"x">>), spin>>, <<>>),
           If(pid(i), {-1}, <<>>, <<read("p0", 1)>>)>>),
       sbrk(PGSIZE, "c"),
       For(2, LAMBDA i : <<If(pid(i), {-1}, <<>>, <<kill(pid(i)), wait("_", "_")>>)>>),
       If("c", {-1}, Failed, <<>>)>>
     \o Fork("pid", <<brk("a"), sbrk(10 * Big, "_"), touch("a", 0), exit(1)>>)
     \o <<wait("_", "xstatus"), Check("xstatus", {-1, 2})>>

sbrkarg ==
  <<sbrk(PGSIZE, "a"), open(<<"sbrk">>, {"CREATE", "WRONLY"}, "fd"), unlink(<<"sbrk">>),
    Check("fd", Fds), Must(write("fd", Units("a", 2))), close("fd"),
    sbrk(PGSIZE, "a"), Gives(pipe("p0", "p1"), 0)>>

\* The break at zero, inside the first page, and moved inside a page.
sbrkbugs ==
  Fork("pid", <<sbrk(-PGSIZE, "_"), Set("pc", 0), touch("pc", 0), exit(0)>>) \o <<wait("_", "_")>>
  \o Fork("pid", <<sbrk(1 - PGSIZE, "_"), exit(0)>>) \o <<wait("_", "_")>>
  \o Fork("pid", <<sbrk(2 * PGSIZE + 2, "_"), sbrk(-1, "_"), exit(0)>>) \o <<wait("_", "_")>>
  \o <<exit(0)>>

execout ==
  <<For(3, LAMBDA avail :
      Fork("pid", <<Loop(<<OrElse(sbrk(PGSIZE, "a"), <<Break>>), touch("a", PGSIZE - 1)>>),
                    For(avail - 1, LAMBDA i : <<sbrk(-PGSIZE, "_")>>),
                    close("1"), exec(<<"echo">>, << <<"echo">>, <<"x">> >>), exit(0)>>)
      \o <<wait("_", "_")>>),
    exit(0)>>

(***************************************************************************)
(* The driver, for one test.                                               *)
(***************************************************************************)
run(f) ==
  Fork("pid", f \o <<exit(0)>>) \o <<wait("_", "xstatus")>>
runtests(f) == run(f) \o <<If("xstatus", {0}, <<>>, <<exit(1)>>)>>

\* The number of free pages: what a child can allocate before sbrk fails.
countfree(v) ==
  <<Must(pipe("p0", "p1"))>>
  \o Fork("pid", <<close("p0"),
                   Loop(<<OrElse(sbrk(PGSIZE, "a"), <<Break>>), touch("a", PGSIZE - 1),
                          Gives(write("p1", <<"x">>), 1)>>),
                   exit(0)>>)
  \o <<close("p1"), Set(v, 0),
       Loop(<<Must(read("p0", 1)), If("n", {0}, <<Break>>, <<>>), Add(v, 1)>>),
       close("p0"), wait("_", "_")>>

drivetests(f) ==
  countfree("free0") \o runtests(f) \o countfree("free1") \o <<IfLess("free1", "free0", <<exit(1)>>, <<>>)>>
usertestsMain(f) == drivetests(f) \o <<exit(0)>>
=============================================================================
