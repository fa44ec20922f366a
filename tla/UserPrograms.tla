--------------------------- MODULE UserPrograms ---------------------------
(* The programs run on the system calls: init starts one of them in the    *)
(* place of the shell, or the shell with a script as console input.        *)
EXTENDS Programs

VARIABLE program     \* the program that init starts

allVars == <<vars, program>>

\* Lines of console input. A name of several characters is one of them here.
Scripts ==
  [pipeline   |-> << <<"echo", " ", "x", "|", "cat">>, <<"echo", " ", "y">> >>,
   longPipe   |-> << <<"echo", " ", "x", "|", "cat", "|", "cat">> >>,
   redirect   |-> << <<"echo", " ", "x", ">", "f">>, <<"cat", "<", "f">> >>,
   list       |-> << <<"(", "echo", " ", "x", ";", "echo", " ", "y", ")", "|", "cat", ">", "f">>,
                     <<"cat", " ", "f">> >>,
   overwrite  |-> << <<"echo", " ", "x", " ", "y", ">", "f">>, <<"echo", " ", "z", ">", ">", "f">>,
                     <<"cat", " ", "f">>, <<"echo", " ", "w", ">", "f">>, <<"cat", " ", "f">> >>,
   twice      |-> << <<"echo", " ", "x", ">", "f", ">", "g">>, <<"cat", " ", "g">>, <<"cat", " ", "f">> >>,
   missing    |-> << <<"cat", "<", "g">>, <<"cat", " ", "g">>, <<"nosuch">>, <<"echo", " ", "x">> >>,
   syntax     |-> << <<"(", "echo", " ", "x">>, <<"echo", " ", "x", "|">>, <<"echo", " ", "x", ")">>, <<";">>,
                     <<"echo", " ", "y">> >>,
   remove     |-> << <<"echo", " ", "x", ">", "f">>, <<"ln", " ", "f", " ", "g">>, <<"rm", " ", "f", " ", "f">>,
                     <<"cat", " ", "g">>, <<"mkdir">>, <<"rm">>, <<"ln", " ", "g">> >>,
   directory  |-> << <<"mkdir", " ", "d">>, <<"c", "d", " ", "d">>, <<"echo", " ", "x", ">", "f">>,
                     <<"c", "d", " ", "..">>, <<"cat", " ", "f">>, <<"zombie">> >>,
   background |-> << <<"echo", " ", "x", "&">>, <<"zombie", "&">>, <<"echo", " ", "y">> >>]

UserTests ==
  [truncate1 |-> truncate1, truncate2 |-> truncate2, truncate3 |-> truncate3, openiput |-> openiputtest,
   exitiput |-> exitiputtest, iput |-> iputtest, opentest |-> opentest, writetest |-> writetest,
   writebig |-> writebig, createtest |-> createtest, dirtest |-> dirtest, exectest |-> exectest,
   pipe1 |-> pipe1, killstatus |-> killstatus, preempt |-> preempt, exitwait |-> exitwait,
   reparent |-> reparent, twochildren |-> twochildren, forkfork |-> forkfork, reparent2 |-> reparent2,
   mem |-> mem, sharedfd |-> sharedfd, fourfiles |-> fourfiles, createdelete |-> createdelete,
   unlinkread |-> unlinkread, linktest |-> linktest, concreate |-> concreate, linkunlink |-> linkunlink,
   subdir |-> subdir, bigwrite |-> bigwrite, bigfile |-> bigfile, fourteen |-> fourteen, rmdot |-> rmdot,
   dirfile |-> dirfile, iref |-> iref, forktest |-> forktest, sbrkbasic |-> sbrkbasic,
   sbrkmuch |-> sbrkmuch, kernmem |-> kernmem, MAXVAplus |-> MAXVAplus, sbrkfail |-> sbrkfail,
   sbrkarg |-> sbrkarg, sbrkbugs |-> sbrkbugs, bigdir |-> bigdir, manywrites |-> manywrites,
   execout |-> execout, diskfull |-> diskfull, outofinodes |-> outofinodes]

Others ==
  [grindNames |-> grindMain({3, 4, 5, 9, 12, 20, 21}, {1, 6, 10, 11, 21}),
   grindFiles |-> grindMain({2, 7, 8, 15, 16, 21}, {7, 8, 15}),
   grindForks |-> go({13, 14, 17, 18, 19, 22}) \o <<exit(0)>>,
   forktestBinary |-> forktestMain, stressfs |-> stressfsMain, spsc |-> rb_spsc_test,
   openClose |-> rb_open_close, failtest |-> rb_failtest, wipe |-> rb_wipe]

ShellCode == [s \in DOMAIN Scripts |-> shellMain(Scripts[s])]

\* The file that init executes as sh is the program's.
ImageOf(name, argv) ==
  IF name # <<"sh">> THEN Utility(name, argv)
  ELSE CASE argv \in DOMAIN Scripts   -> ShellCode[argv]
         [] argv \in DOMAIN UserTests -> usertestsMain(UserTests[argv])
         [] OTHER                     -> Others[argv]

ConsoleInput == IF program \in DOMAIN Scripts THEN [i \in DOMAIN Scripts[program] |-> i] ELSE <<>>

Init ==
  /\ program \in DOMAIN Scripts \cup DOMAIN UserTests \cup DOMAIN Others
  /\ Boot(initMain(1, program), ConsoleInput)

Next == \E p \in 1..MaxPid : Step(p) /\ UNCHANGED program

(***************************************************************************)
(* When everything has ended.                                              *)
(***************************************************************************)
Main == InitPid + 1     \* the program init started
Quiet == DOMAIN proc = {InitPid} /\ nextpid > Main

\* A wait without children in a loop of waits changes nothing.
Idle(p) == Calls(p, "wait") /\ Children(p) = {} /\ After(proc[p], -1, Empty) = proc[p]

\* While a process is ready some process runs: weak fairness of Next, with
\* the enabling condition written out.
Fairness ==
  \/ []<>(\A p \in DOMAIN proc : Ready(p) => Idle(p))
  \/ []<><<TRUE>>_allVars
Spec == Init /\ [][Next]_allVars /\ Fairness

(***************************************************************************)
(* Verdicts.                                                               *)
(***************************************************************************)
\* The process usertests forks for the test.
TestPid == Main + 2
Ended(p) == p \in DOMAIN proc /\ proc[p].state = "zombie"

\* Tests that leave orphans behind: init may still have to reap them when
\* usertests counts the free pages again.
LeaveOrphans == {"reparent", "reparent2"}

\* A test of usertests ends without an error, and usertests finds all pages
\* free afterwards.
UserTestPasses ==
  /\ Ended(TestPid) => proc[TestPid].status = 0
  /\ Ended(Main) /\ program \notin LeaveOrphans => proc[Main].status = 0

\* A program that is a test on its own reports no failure: rb_wipe ends with
\* the fault it provokes, the others with status 0 and no complaint, and no
\* process of grind ends with one of its error statuses.
ProgramPasses ==
  /\ "complaint" \notin Range(console)
  /\ Ended(Main) => proc[Main].status = IF program = "wipe" THEN -1 ELSE 0
  /\ program \in {"grindNames", "grindFiles", "grindForks"} =>
       \A p \in DOMAIN proc : Ended(p) => proc[p].status \in {0, -1}

\* What the tests expect of the system calls holds whatever the order in
\* which their processes run and whichever of their random choices they make
\* (usertests.c:2966, grind.c:45).
TestsPass ==
  /\ program \in DOMAIN UserTests => UserTestPasses
  /\ program \in DOMAIN Others => ProgramPasses

(***************************************************************************)
(* What a command line means, independently of how the shell runs it.      *)
(***************************************************************************)
\* s: the files by path, the current directory, and what was written to the
\* command's standard output.
Put(files, path, data) == (path :> data) @@ files
Said(s, text) == [s EXCEPT !.out = @ \o text]
Contents(files, path) == IF path \in DOMAIN files THEN files[path] ELSE <<>>
Spoken(argv) ==
  FoldLeft(LAMBDA text, i : text \o argv[i] \o (IF i < Len(argv) THEN <<" ">> ELSE <<"\n">>), <<>>,
           [i \in 1..(Len(argv) - 1) |-> i + 1])
MeansExec(argv, s, in) ==
  LET path(i) == s.cwd \o argv[i]
      files == s.files
  IN CASE argv[1] = <<"echo">>                   -> Said(s, Spoken(argv))
       [] argv[1] = <<"cat">> /\ Len(argv) = 1    -> Said(s, in)
       [] argv[1] = <<"cat">> /\ Len(argv) = 2    -> Said(s, Contents(files, path(2)))
       [] argv[1] = <<"rm">> /\ Len(argv) > 1     -> [s EXCEPT !.files = Keep(@, DOMAIN @ \ {path(2)})]
       [] argv[1] = <<"ln">> /\ Len(argv) = 3     -> [s EXCEPT !.files = Put(@, path(3), @[path(2)])]
       [] OTHER                                   -> s

RECURSIVE Means(_, _, _)
Means(c, s, in) ==
  CASE c.type = "EXEC" /\ c.argv # <<>> -> MeansExec(c.argv, s, in)
    [] c.type = "LIST" -> Means(c.right, Means(c.left, s, in), in)
    [] c.type = "PIPE" -> LET l == Means(c.left, [s EXCEPT !.out = <<>>], in)
                          IN Means(c.right, [l EXCEPT !.out = s.out], l.out)
    [] c.type = "REDIR" /\ c.fd = "0" ->
         LET path == s.cwd \o c.file
         IN IF path \in DOMAIN s.files THEN Means(c.cmd, s, s.files[path]) ELSE s
    [] c.type = "REDIR" /\ c.fd = "1" ->
         LET path == s.cwd \o c.file
             old == IF "TRUNC" \in c.mode THEN <<>> ELSE Contents(s.files, path)
             r == Means(c.cmd, [s EXCEPT !.files = Put(@, path, old), !.out = <<>>], in)
         IN [r EXCEPT !.files = Put(@, path, Overwritten(old, 0, r.out)), !.out = s.out]
    [] OTHER -> s

MeansLine(s, line) ==
  IF ~IsCd(line) THEN Means(parsecmd(line), s, <<>>)
  ELSE [s EXCEPT !.cwd = IF line[4] = ".." THEN <<>> ELSE @ \o SubSeq(line, 4, Len(line))]
MeansScript(script) == FoldLeft(MeansLine, [files |-> Empty, cwd |-> <<>>, out |-> <<>>], script)

\* The files on the disk that are not the image's, two directories deep.
FilesIn(prefix, i) ==
  {<<prefix \o <<e.name>>, inode[e.inum].data>> :
     e \in {f \in Range(inode[i].data) : f.inum # Nothing /\ f.inum > 1 + Len(ImageFiles)
                                          /\ inode[f.inum].type = "file"}}
Subdirectories == {e \in Range(inode[Root].data) : e.inum > Root /\ inode[e.inum].type = "dir"}
FilesOnDisk == FilesIn(<<>>, Root) \cup UNION {FilesIn(<<e.name>>, e.inum) : e \in Subdirectories}

\* The shell is about to read a line.
AtPrompt == Main \in DOMAIN proc /\ Calls(Main, "read")

\* When the shell asks for a line, the console and the files are what the
\* lines before it mean: it has waited for every process of a pipeline and
\* of a list. A line with & only has been started.
PromptMeansDone ==
  program \in DOMAIN Scripts \ {"background"} /\ AtPrompt =>
    LET script == Scripts[program]
        meant == MeansScript(SubSeq(script, 1, Len(script) - Len(input)))
    IN /\ console = meant.out
       /\ FilesOnDisk = {<<path, meant.files[path]>> : path \in DOMAIN meant.files}

\* The system is as it was when init started the program: its console is
\* the only open file, no pipe, ring buffer or inode is held by anybody,
\* and the only memory in use is init's.
NothingLeftBehind ==
  Quiet =>
    /\ \A f \in DOMAIN file : file[f].type = "console"
    /\ pipes = Empty /\ rings = Empty
    /\ \A i \in DOMAIN inode : inode[i].nlink > 0
    /\ FreePages = NPages - 2

\* Every program ends, its orphans too, and init reaps them: nobody waits
\* for ever for a child, a pipe or a kill.
EveryProgramEnds == <>Quiet
=============================================================================
