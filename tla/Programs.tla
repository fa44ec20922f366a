----------------------------- MODULE Programs -----------------------------
(* The other programs that exercise the kernel: grind, forktest, stressfs  *)
(* and the ring buffer tests. Complaint is a failure message of a test     *)
(* whose exit status does not tell.                                        *)
EXTENDS Usertests

Complaint == <<"complaint">>

(***************************************************************************)
(* grind: two processes run calls chosen at random, on the same names.     *)
(* Each makes one choice here, from the set it is given.                   *)
(***************************************************************************)
\* A child that runs code while the parent waits.
Waited(code) == Fork("pid", code \o <<exit(0)>>) \o <<wait("_", "_")>>
closeOpen(path) == <<open(path, Create, "_fd"), close("_fd")>>

\* echo hi | cat
grindPipeline ==
  <<Must(pipe("aa0", "aa1")), Must(pipe("bb0", "bb1")),
    OrElse(fork("pid1"), <<exit(3)>>),
    If("pid1", {0}, <<close("bb0"), close("bb1"), close("aa0"), close("1"), Gives(dup("aa1", "_"), 1),
                      close("aa1"), exec(<<"echo">>, << <<"echo">>, <<"h", "i">> >>), exit(2)>>, <<>>),
    OrElse(fork("pid2"), <<exit(7)>>),
    If("pid2", {0}, <<close("aa1"), close("bb0"), close("0"), Gives(dup("aa0", "_"), 0), close("aa0"),
                      close("1"), Gives(dup("bb1", "_"), 1), close("bb1"),
                      exec(<<"cat">>, << <<"cat">> >>), exit(6)>>, <<>>),
    close("aa0"), close("aa1"), close("bb1"),
    read("bb0", 1), Set("text", <<>>), Cat("text", "buf"), read("bb0", 1), Cat("text", "buf"),
    read("bb0", 1), Cat("text", "buf"), close("bb0"),
    wait("_", "st1"), wait("_", "st2"), Check("st1", {0}), Check("st2", {0}), Check("text", {<<"h", "i", "\n">>})>>

go(choices) ==
  LET Case(n, code) == If("what", {n}, code, <<>>)
      dots == <<"grindir", "..">>
  IN <<Set("fd", -1), brk("break0"), mkdir(<<"grindir">>), Must(chdir(<<"grindir">>)), chdir(<<"/">>),
       rand("what", choices),
       Case(1, closeOpen(dots \o <<"a">>)),
       Case(2, closeOpen(dots \o dots \o <<"b">>)),
       Case(3, <<unlink(dots \o <<"a">>)>>),
       Case(4, <<Must(chdir(<<"grindir">>)), unlink(<<"..", "b">>), chdir(<<"/">>)>>),
       Case(5, <<close("fd"), open(<<"/">> \o dots \o <<"a">>, Create, "fd")>>),
       Case(6, <<close("fd"), open(<<"/", ".">> \o dots \o <<"b">>, Create, "fd")>>),
       Case(7, <<write("fd", Units("x", 2))>>),
       Case(8, <<read("fd", 2)>>),
       Case(9, <<mkdir(dots \o <<"a">>)>> \o closeOpen(<<"a", "..", "a", ".", "a">>) \o <<unlink(<<"a", "a">>)>>),
       Case(10, <<mkdir(<<"/", "..", "b">>)>> \o closeOpen(dots \o <<"b", "b">>) \o <<unlink(<<"b", "b">>)>>),
       Case(11, <<unlink(<<"b">>), link(<<"..", "grindir", ".", "..", "a">>, <<"..", "b">>)>>),
       Case(12, <<unlink(<<"..">> \o dots \o <<"a">>), link(<<"..", ".", "b">>, <<"/">> \o dots \o <<"a">>)>>),
       Case(13, Waited(<<>>)),
       Case(14, Waited(<<fork("_"), fork("_")>>)),
       Case(15, <<sbrk(PGSIZE + 1, "_")>>),
       Case(16, <<brk("a"), IfLess("break0", "a", <<brk("b"), sbrk(-PGSIZE - 1, "_")>>, <<>>)>>),
       Case(17, Fork("pid", closeOpen(<<"a">>) \o <<exit(0)>>)
                \o <<Must(chdir(<<"..">> \o dots)), kill("pid"), wait("_", "_")>>),
       Case(18, Waited(<<getpid("me"), kill("me")>>)),
       Case(19, <<Must(pipe("p0", "p1"))>>
                \o Fork("pid", <<fork("_"), fork("_"), OrElse(write("p1", <<"x">>), <<write("1", Complaint)>>),
                                 read("p0", 1), If("n", {1}, <<>>, <<write("1", Complaint)>>), exit(0)>>)
                \o <<close("p0"), close("p1"), wait("_", "_")>>),
       Case(20, Waited(<<unlink(<<"a">>), mkdir(<<"a">>), chdir(<<"a">>), unlink(<<"..", "a">>),
                         open(<<"x">>, Create, "fd"), unlink(<<"x">>)>>)),
       Case(21, <<unlink(<<"c">>), Must(open(<<"c">>, Create, "fd1")), Gives(write("fd1", <<"x">>), 1),
                  Must(fstat("fd1")), Check("size", {1}), close("fd1"), unlink(<<"c">>)>>),
       Case(22, grindPipeline)>>

iter(low, high) ==
  <<unlink(<<"a">>), unlink(<<"b">>)>>
  \o Fork("pid1", go(low) \o <<exit(0)>>) \o Fork("pid2", go(high) \o <<exit(0)>>)
  \o <<Set("st1", -1), wait("_", "st1"), If("st1", {0}, <<>>, <<kill("pid1"), kill("pid2")>>),
       wait("_", "st2"), exit(0)>>

grindMain(low, high) ==
  <<fork("pid"), If("pid", {0}, iter(low, high) \o <<exit(0)>>, <<>>), If("pid", {-1}, <<>>, <<wait("_", "_")>>), sleep, exit(0)>>

(***************************************************************************)
(* forktest and stressfs.                                                  *)
(***************************************************************************)
forktestMain ==
  <<Set("k", 0),
    For(NProc, LAMBDA i : <<fork("pid"), If("pid", {-1}, <<Break>>, <<>>),
                            If("pid", {0}, <<exit(0)>>, <<>>), Add("k", 1)>>),
    If("k", {NProc}, Failed, <<>>),
    Loop(<<If("k", {0}, <<Break>>, <<>>), Must(wait("_", "_")), Add("k", -1)>>),
    Gives(wait("_", "_"), -1), exit(0)>>

\* Each of the processes of a chain works on a file of its own.
stressfsMain ==
  LET Work(i) == LET path == <<Numbered("stressfs", i)>>
                 IN <<open(path, Create, "fd"), For(Rounds, LAMBDA k : <<write("fd", <<i>>)>>), close("fd"),
                      open(path, {}, "fd"), For(Rounds, LAMBDA k : <<read("fd", 1)>>), close("fd"),
                      wait("_", "_"), exit(0)>>
  IN <<fork("pid"), If("pid", {-1, 0}, <<>>, Work(0)),
       fork("pid"), If("pid", {-1, 0}, <<>>, Work(1))>> \o Work(2)

(***************************************************************************)
(* Ring buffer tests. main returns -1 after a complaint, and _main exits   *)
(* with status 0 all the same.                                             *)
(***************************************************************************)
Complains == <<write("1", Complaint), exit(0)>>
Opens1(name) == OrElse(ringbuf(name, 1), Complains)
Denied(s) == [s EXCEPT !.hi = -1, !.fail = Complains]
\* exit_status < 0 is never true of a child that returned from main.
Reaped == <<wait("_", "st"), If("st", {-1}, <<exit(0)>>, <<>>)>>

rb_spsc_test ==
  LET Child(v, code) == <<fork(v), If(v, {-1, 0}, code \o <<exit(0)>>, <<>>)>>
  IN _main(
       <<Opens1("double_own"), Denied(ringbuf("double_own", 1))>>
       \o Child("pid", <<Opens1("double_own")>> \o Child("pid", <<Denied(ringbuf("double_own", 1))>>) \o Reaped)
       \o Reaped
       \o Child("pid2", <<Opens1("double_own")>>) \o Reaped
       \o <<Opens1("second")>>
       \o Child("pid3", <<Opens1("second")>>) \o <<sleep, ringbuf("second", 0)>>
       \o Child("pid4", <<Opens1("second")>>) \o Reaped)

rb_open_close ==
  LET Error == <<exit(-1)>>
      name(i) == Numbered("buf", i)
      xname(i) == Numbered("xuf", i)
      N == NRingbuf + 1
  IN _main(
       <<For(Rounds, LAMBDA i : <<OrElse(ringbuf("reopen", 1), Error), OrElse(ringbuf("reopen", 0), Error)>>),
         For(Rounds, LAMBDA r :
           <<Set("count", 0),
             For(N, LAMBDA i : <<OrElse(ringbuf(name(i), 1), <<Break>>), Add("count", 1)>>),
             If("count", {0}, Error, <<>>),
             For(N, LAMBDA i : <<If("count", i..N, <<OrElse(ringbuf(name(i), 0), Error)>>, <<>>)>>)>>),
         OrElse(fork("pid"), Error),
         If("pid", {0}, <<For(N, LAMBDA i : <<OrElse(ringbuf(xname(i), 1), <<Break>>)>>), exit(0)>>, <<>>),
         wait("_", "_"), OrElse(ringbuf("parent_ringbuf", 1), Error)>>)

rb_failtest ==
  _main(<<Denied(ringbuf("", 1)), Denied(ringbuf("0123456789ABCDEF", 1)), Denied(ringbuf("test", 0))>>)

\* The access behind the last close kills the program.
rb_wipe ==
  _main(<<ringbuf("info_wiped", 1), store("info_wiped", 1337), ringbuf("info_wiped", 0),
          ringbuf("info_wiped", 1), load("info_wiped", "x"), If("x", {1337}, Complains, <<>>),
          ringbuf("info_wiped", 0), load("info_wiped", "x")>>)
=============================================================================
