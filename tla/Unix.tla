------------------------------- MODULE Unix -------------------------------
(* The system calls of zigmaos as its user programs see them: one action   *)
(* per call, atomic unless it blocks. Process, Pipe, Files and Ringbuf     *)
(* model the same calls lock by lock; here they carry whole programs,      *)
(* processes, descriptors, directories and memory together.                *)
EXTENDS UserCode, FiniteSets

CONSTANTS
  NProc,      \* process table slots
  NOFile,     \* descriptors of a process; an open never needs more
  NFile,      \* open file table; it never needs more
  NInode,     \* inodes on the disk
  NBlocks,    \* data blocks on the disk; a unit of file data fills one
  MaxFile,    \* blocks of a file
  PipeSize,   \* units a pipe holds
  NPages,     \* physical pages
  PGSIZE,     \* bytes of a page
  NRingbuf,   \* ring buffers
  MaxPid,     \* bound on the processes of a behaviour
  Image(_, _) \* the code of an executable run with argv

ASSUME LimitsAreCounts ==
  {NProc, NOFile, NFile, NInode, NBlocks, MaxFile, PipeSize, NPages, PGSIZE, NRingbuf, MaxPid}
    \subseteq Nat \ {0}

VARIABLES
  proc,     \* pid -> process; the parent's wait removes a process
  nextpid,
  file,     \* open file table
  pipes,    \* pipe -> the units in it
  inode,    \* inode number -> inode
  rings,    \* ring buffer name -> owners and first word
  input,    \* lines still to be read from the console
  console   \* what was written to it

vars == <<proc, nextpid, file, pipes, inode, rings, input, console>>

InitPid == 1
Root == 1
Nothing == 0                       \* no file, no inode
Fds == 0..(NOFile - 1)
Empty == [x \in {} |-> x]

(***************************************************************************)
(* Processes.                                                              *)
(***************************************************************************)
Literals == [d \in {"0", "1", "2"} |-> CASE d = "0" -> 0 [] d = "1" -> 1 [] d = "2" -> 2]

NewProcess(parent, code, fd) ==
  [state |-> "running", parent |-> parent, code |-> code, env |-> Literals, fd |-> fd,
   cwd |-> Root, size |-> PGSIZE, status |-> 0, killed |-> FALSE]

Zombie(q, status) ==
  [q EXCEPT !.state = "zombie", !.code = <<>>, !.env = Empty, !.status = status,
            !.fd = [d \in Fds |-> Nothing], !.cwd = Nothing]

Children(p) == {c \in DOMAIN proc : proc[c].parent = p}
Runs(p) == p \in DOMAIN proc /\ proc[p].state = "running"
Calls(p, op) == Runs(p) /\ ~proc[p].killed /\ Head(proc[p].code).op = op
Arg(p, i) == Head(proc[p].code).a[i]
Var(p, i) == proc[p].env[Arg(p, i)]

\* q goes on behind its system call with the result r and the variables in more.
After(q, r, more) ==
  LET s == Head(q.code) IN
  Settle([q EXCEPT !.env = more @@ (s.v :> r) @@ @,
                   !.code = (IF s.lo <= r /\ r <= s.hi THEN <<>> ELSE s.fail) \o Tail(@)])

(***************************************************************************)
(* Memory: a process has its pages and one for trap frame and page table,  *)
(* a pipe has a page.                                                      *)
(***************************************************************************)
PageCount(bytes) == (bytes + PGSIZE - 1) \div PGSIZE
FreePages == NPages - Cardinality(DOMAIN pipes)
               - MapThenSumSet(LAMBDA p : 1 + PageCount(proc[p].size), DOMAIN proc)

(***************************************************************************)
(* Files.                                                                  *)
(***************************************************************************)
Lowest(S) == IF S = {} THEN Nothing ELSE CHOOSE x \in S : \A y \in S : x <= y
FreeFds(q) == {d \in Fds : q.fd[d] = Nothing}
FreeFiles(F) == 1..NFile \ DOMAIN F
NewFd(q) == CHOOSE d \in FreeFds(q) : \A e \in FreeFds(q) : d <= e
OpenFile(p, i) == IF Var(p, i) \in Fds THEN proc[p].fd[Var(p, i)] ELSE Nothing
FreeBlocks == NBlocks - MapThenSumSet(LAMBDA i : IF inode[i].type = "dir" THEN 1
                                                 ELSE Len(inode[i].data), DOMAIN inode)

Entry(name, i) == [name |-> name, inum |-> i]
NewInode(type, self, parent) ==
  [type |-> type, nlink |-> 1,
   data |-> IF type = "dir" THEN <<Entry(".", self), Entry("..", parent)>> ELSE <<>>]

lookupChild(i, name) ==
  LET k == SelectInSeq(inode[i].data, LAMBDA e : e.name = name /\ e.inum # Nothing)
  IN IF k = 0 THEN Nothing ELSE inode[i].data[k].inum

\* A path is the sequence of its elements, "/" in front if it is absolute.
Element(i, name) ==
  IF name = "/" THEN Root
  ELSE IF i = Nothing THEN Nothing
  ELSE IF inode[i].type # "dir" THEN Nothing
  ELSE lookupChild(i, name)
resolvePath(p, path) == FoldLeft(Element, IF path = <<>> THEN Nothing ELSE proc[p].cwd, path)
resolvePathParent(p, path) ==
  IF path \in {<<>>, <<"/">>} THEN Nothing
  ELSE LET i == IF Len(path) = 1 THEN proc[p].cwd ELSE resolvePath(p, Front(path))
       IN IF i = Nothing THEN Nothing ELSE IF inode[i].type = "dir" THEN i ELSE Nothing

\* The directory with an entry more, in its first empty slot, and with one emptied.
TooLong == {"name28"}
linkEntry(dir, name, i) ==
  LET k == SelectInSeq(dir.data, LAMBDA e : e.inum = Nothing)
  IN IF k = 0 THEN [dir EXCEPT !.data = Append(@, Entry(name, i))]
     ELSE [dir EXCEPT !.data[k] = Entry(name, i)]
CanLink(i, name) == name \notin TooLong /\ lookupChild(i, name) = Nothing
removeEntry(dir, name) ==
  [dir EXCEPT !.data = [k \in DOMAIN @ |-> IF @[k].name = name THEN Entry("", Nothing) ELSE @[k]]]

\* Mutant: the last entry is not looked at.
isEmptyToLast(dir) == \A k \in 3..(Len(dir.data) - 1) : dir.data[k].inum = Nothing

isEmpty(dir) == \A k \in 3..Len(dir.data) : dir.data[k].inum = Nothing

\* create's new inode: none if the parent does not take the name or none is free.
FreeInodes == 1..NInode \ DOMAIN inode
CanCreate(p, path, type) ==
  LET d == resolvePathParent(p, path)
  IN /\ d # Nothing
     /\ CanLink(d, Last(path))
     /\ FreeInodes # {}
     /\ type = "dir" => FreeBlocks > 0
Created(p, path, type) ==
  LET d == resolvePathParent(p, path)
      i == Lowest(FreeInodes)
      linked == linkEntry(inode[d], Last(path), i)
  IN (i :> NewInode(type, i, d))
       @@ [inode EXCEPT ![d] = IF type = "dir" THEN [linked EXCEPT !.nlink = @ + 1] ELSE linked]

\* The state when the processes are P: files nobody has open are closed,
\* inodes without a name or a reference are freed.
Keep(f, S) == [x \in DOMAIN f \cap S |-> f[x]]
Opened(F, types) == {F[f].ip : f \in {g \in DOMAIN F : F[g].type \in types}}
Becomes(P, F, B, I) ==
  LET F2 == Keep(F, UNION {Range(P[p].fd) : p \in DOMAIN P})
  IN /\ proc' = P
     /\ file' = F2
     /\ pipes' = Keep(B, Opened(F2, {"pipe"}))
     /\ inode' = Keep(I, {i \in DOMAIN I : \/ I[i].nlink > 0
                                           \/ i \in Opened(F2, {"inode"})
                                           \/ \E p \in DOMAIN P : P[p].cwd = i})

\* p's system call returns r, with the variables in more, and nothing else changes.
Return(p, r, more) ==
  /\ proc' = [proc EXCEPT ![p] = After(@, r, more)]
  /\ UNCHANGED <<nextpid, file, pipes, inode, rings, input, console>>
Fails(p) == Return(p, -1, Empty)

(***************************************************************************)
(* Process system calls.                                                   *)
(***************************************************************************)
sys_fork(p) ==
  LET q == proc[p]
      fits == Cardinality(DOMAIN proc) < NProc /\ FreePages >= 1 + PageCount(q.size)
      child == [q EXCEPT !.parent = p, !.killed = FALSE]
  IN /\ Calls(p, "fork")
     /\ \/ ~fits /\ Fails(p)
        \/ /\ fits
           /\ nextpid <= MaxPid
           /\ proc' = (nextpid :> After(child, 0, Empty)) @@ [proc EXCEPT ![p] = After(q, nextpid, Empty)]
           /\ nextpid' = nextpid + 1
           /\ UNCHANGED <<file, pipes, inode, rings, input, console>>

\* Mutant: the children of p keep their parent.
LeftAlone(q, p) == q

\* The process q behind the exit of p: p's children are init's.
Reparented(q, p) == IF q.parent = p THEN [q EXCEPT !.parent = InitPid] ELSE q

\* The end of p: its files and directory are closed.
Exit(p, status) ==
  /\ p # InitPid
  /\ Becomes([c \in DOMAIN proc |-> IF c = p THEN Zombie(proc[p], status) ELSE Reparented(proc[c], p)],
             file, pipes, inode)
  /\ UNCHANGED <<nextpid, rings, input, console>>

sys_exit(p) ==
  \/ Calls(p, "exit") /\ Exit(p, Arg(p, 1))
  \/ Calls(p, "exitWith") /\ Exit(p, Var(p, 1))

\* A killed process exits when it enters or leaves the kernel, whatever it waits for.
dieKilled(p) == Runs(p) /\ proc[p].killed /\ Exit(p, -1)

\* Mutant: the ring buffers of a process that did not close them are kept.
StillOwned(c) == rings

\* The ring buffers without the owner c; one without owners is freed.
Disowned(c) ==
  LET left == [n \in DOMAIN rings |-> [rings[n] EXCEPT !.owners = @ \ {c}]]
  IN Keep(left, {n \in DOMAIN left : left[n].owners # {}})

\* The first zombie of the table is any of them: slots are used again.
sys_wait(p) ==
  /\ Calls(p, "wait")
  /\ \/ Children(p) = {} /\ Fails(p)
     \/ \E c \in Children(p) :
          /\ proc[c].state = "zombie"
          /\ proc' = Keep([proc EXCEPT ![p] = After(@, c, Arg(p, 1) :> proc[c].status)], DOMAIN proc \ {c})
          /\ rings' = Disowned(c)
          /\ UNCHANGED <<nextpid, file, pipes, inode, input, console>>

sys_kill(p) ==
  LET victim == Var(p, 1)
      Marked(P) == [P EXCEPT ![victim].killed = TRUE]
  IN /\ Calls(p, "kill")
     /\ \/ victim \notin DOMAIN proc /\ Fails(p)
        \/ /\ victim \in DOMAIN proc
           /\ proc' = Marked([proc EXCEPT ![p] = After(@, 0, Empty)])
           /\ UNCHANGED <<nextpid, file, pipes, inode, rings, input, console>>

sys_getpid(p) == Calls(p, "getpid") /\ Return(p, p, Empty)

\* Not a system call: the program's own pseudo-random number.
random(p) == Calls(p, "rand") /\ \E x \in Arg(p, 1) : Return(p, x, Empty)

\* How long a sleep takes is left open.
sys_sleep(p) == Calls(p, "sleep") /\ Return(p, 0, Empty)

\* changeProcessSize: growing needs pages, shrinking gives them back. No program
\* gives back more than it has.
sys_sbrk(p) ==
  LET q == proc[p]
      size == q.size + Arg(p, 1)
      fits == PageCount(size) - PageCount(q.size) <= FreePages
  IN /\ Calls(p, "sbrk")
     /\ \/ ~fits /\ Fails(p)
        \/ /\ fits
           /\ proc' = [proc EXCEPT ![p] = [After(@, q.size, Empty) EXCEPT !.size = size]]
           /\ UNCHANGED <<nextpid, file, pipes, inode, rings, input, console>>

\* A user memory access outside the process: usertrap kills it.
userAccess(p) ==
  /\ Calls(p, "touch")
  /\ IF Var(p, 1) + Arg(p, 2) \in 0..(proc[p].size - 1) THEN Return(p, 0, Empty) ELSE Exit(p, -1)

\* exec needs the new image's memory while it still has the old one's.
sys_exec(p) ==
  LET found == Image(Arg(p, 1), Arg(p, 2))
  IN /\ Calls(p, "exec")
     /\ \/ (found = <<>> \/ FreePages < 2) /\ Fails(p)
        \/ /\ found # <<>> /\ FreePages >= 2
           /\ proc' = [proc EXCEPT ![p] = Settle([@ EXCEPT !.code = found, !.env = Literals, !.size = PGSIZE])]
           /\ UNCHANGED <<nextpid, file, pipes, inode, rings, input, console>>

(***************************************************************************)
(* File system calls.                                                      *)
(***************************************************************************)
\* The open file table with a file for inode i, and p with a descriptor for it.
Opens(p, i, I, flags) ==
  LET f  == Lowest(FreeFiles(file))
      d  == NewFd(proc[p])
      tr == "TRUNC" \in flags /\ I[i].type = "file"
  IN /\ FreeFds(proc[p]) # {} /\ FreeFiles(file) # {}
     /\ Becomes([proc EXCEPT ![p] = After([@ EXCEPT !.fd[d] = f], d, Empty)],
                file @@ (f :> [type |-> IF I[i].type = "dev" THEN "console" ELSE "inode", ip |-> i, off |-> 0,
                               r |-> "WRONLY" \notin flags, w |-> flags \cap {"WRONLY", "RDWR"} # {}]),
                pipes, IF tr THEN [I EXCEPT ![i].data = <<>>] ELSE I)
     /\ UNCHANGED <<nextpid, rings, input, console>>

sys_open(p) ==
  LET path == Arg(p, 1)
      flags == Arg(p, 2)
      i == resolvePath(p, path)
      creates == "CREATE" \in flags /\ i = Nothing
      exists == i # Nothing /\ (inode[i].type = "dir" => flags \subseteq {"TRUNC"})
  IN /\ Calls(p, "open")
     /\ \/ ~exists /\ ~(creates /\ CanCreate(p, path, "file")) /\ Fails(p)
        \/ exists /\ Opens(p, i, inode, flags)
        \/ /\ creates /\ CanCreate(p, path, "file")
           /\ Opens(p, Lowest(FreeInodes), Created(p, path, "file"), flags)

sys_close(p) ==
  /\ Calls(p, "close")
  /\ \/ OpenFile(p, 1) = Nothing /\ Fails(p)
     \/ /\ OpenFile(p, 1) # Nothing
        /\ Becomes([proc EXCEPT ![p] = After([@ EXCEPT !.fd[Var(p, 1)] = Nothing], 0, Empty)],
                   file, pipes, inode)
        /\ UNCHANGED <<nextpid, rings, input, console>>

sys_dup(p) ==
  LET q == proc[p]
  IN /\ Calls(p, "dup")
     /\ \/ (OpenFile(p, 1) = Nothing \/ FreeFds(q) = {}) /\ Fails(p)
        \/ /\ OpenFile(p, 1) # Nothing /\ FreeFds(q) # {}
           /\ proc' = [proc EXCEPT ![p] = After([q EXCEPT !.fd[NewFd(q)] = OpenFile(p, 1)], NewFd(q), Empty)]
           /\ UNCHANGED <<nextpid, file, pipes, inode, rings, input, console>>

sys_pipe(p) ==
  LET q == proc[p]
      fits == FreePages >= 1 /\ Cardinality(FreeFiles(file)) >= 2 /\ Cardinality(FreeFds(q)) >= 2
      new == Lowest(1..NFile \ DOMAIN pipes)
      fr == Lowest(FreeFiles(file))
      fw == Lowest(FreeFiles(file) \ {fr})
      dr == NewFd(q)
      q2 == [q EXCEPT !.fd[dr] = fr]
      dw == NewFd(q2)
      End(r) == [type |-> "pipe", ip |-> new, off |-> 0, r |-> r, w |-> ~r]
  IN /\ Calls(p, "pipe")
     /\ \/ ~fits /\ Fails(p)
        \/ /\ fits
           /\ proc' = [proc EXCEPT ![p] = After([q2 EXCEPT !.fd[dw] = fw], 0,
                                                (Arg(p, 1) :> dr) @@ (Arg(p, 2) :> dw))]
           /\ file' = file @@ (fr :> End(TRUE)) @@ (fw :> End(FALSE))
           /\ pipes' = pipes @@ (new :> <<>>)
           /\ UNCHANGED <<nextpid, inode, rings, input, console>>

IsOpen(ip, end) == \E f \in DOMAIN file : file[f].type = "pipe" /\ file[f].ip = ip /\ file[f][end]
Smaller(m, n) == IF m < n THEN m ELSE n

\* p's call is for a file of this type that is open for it ("r" or "w").
Uses(p, op, end, type) ==
  LET f == OpenFile(p, 1)
  IN Calls(p, op) /\ f # Nothing /\ file[f][end] /\ file[f].type = type

badDescriptor(p) ==
  \E <<op, end>> \in {<<"read", "r">>, <<"write", "w">>} :
    /\ Calls(p, op)
    /\ OpenFile(p, 1) # Nothing => ~file[OpenFile(p, 1)][end]
    /\ Fails(p)

\* The call returns with the data in buf.
Got(p, data) == proc' = [proc EXCEPT ![p] = After(@, Len(data), "buf" :> data)]
UpTo(n, data) == SubSeq(data, 1, Smaller(n, Len(data)))
From(n, data) == SubSeq(data, n + 1, Len(data))

readInode(p) ==
  LET f == OpenFile(p, 1)
      part == UpTo(Arg(p, 2), From(file[f].off, inode[file[f].ip].data))
  IN /\ Uses(p, "read", "r", "inode")
     /\ Got(p, part)
     /\ file' = [file EXCEPT ![f].off = @ + Len(part)]
     /\ UNCHANGED <<nextpid, pipes, inode, rings, input, console>>

readPipe(p) ==
  LET ip == file[OpenFile(p, 1)].ip
  IN /\ Uses(p, "read", "r", "pipe")
     /\ pipes[ip] # <<>> \/ ~IsOpen(ip, "w")
     /\ Got(p, UpTo(Arg(p, 2), pipes[ip]))
     /\ pipes' = [pipes EXCEPT ![ip] = From(Smaller(Arg(p, 2), Len(@)), @)]
     /\ UNCHANGED <<nextpid, file, inode, rings, input, console>>

\* A line of input, and nothing at its end.
readConsole(p) ==
  /\ Uses(p, "read", "r", "console")
  /\ Got(p, UpTo(1, input))
  /\ input' = From(1, input)
  /\ UNCHANGED <<nextpid, file, pipes, inode, rings, console>>

\* The data with more written over it from the offset on.
Overwritten(data, off, more) == UpTo(off, data) \o more \o From(off + Len(more), data)

\* A write past the end of the disk keeps what it wrote and fails.
writeInode(p) ==
  LET f == OpenFile(p, 1)
      ip == file[f].ip
      off == file[f].off
      data == Arg(p, 2)
      size == Len(inode[ip].data)
      fit == UpTo(FreeBlocks + size - off, data)
  IN /\ Uses(p, "write", "w", "inode")
     /\ \/ (off > size \/ off + Len(data) > MaxFile) /\ Fails(p)
        \/ /\ off <= size /\ off + Len(data) <= MaxFile
           /\ inode' = [inode EXCEPT ![ip].data = Overwritten(@, off, fit)]
           /\ file' = [file EXCEPT ![f].off = @ + Len(fit)]
           /\ proc' = [proc EXCEPT ![p] = After(@, IF fit = data THEN Len(data) ELSE -1, Empty)]
           /\ UNCHANGED <<nextpid, pipes, rings, input, console>>

\* A write to a pipe fills it, sleeps, and goes on when a reader has made room.
writePipe(p) ==
  LET ip == file[OpenFile(p, 1)].ip
      data == Arg(p, 2)
      done == Arg(p, 3)
      now == UpTo(PipeSize - Len(pipes[ip]), data)
      Rest(q) == [q EXCEPT !.code[1].a = <<@[1], From(Len(now), data), done + Len(now)>>]
  IN /\ Uses(p, "write", "w", "pipe")
     /\ \/ ~IsOpen(ip, "r") /\ Fails(p)
        \/ /\ IsOpen(ip, "r") /\ now # <<>>
           /\ pipes' = [pipes EXCEPT ![ip] = @ \o now]
           /\ proc' = [proc EXCEPT ![p] = IF now = data THEN After(@, done + Len(data), Empty) ELSE Rest(@)]
           /\ UNCHANGED <<nextpid, file, inode, rings, input, console>>

writeConsole(p) ==
  /\ Uses(p, "write", "w", "console")
  /\ console' = console \o Arg(p, 2)
  /\ proc' = [proc EXCEPT ![p] = After(@, Len(Arg(p, 2)), Empty)]
  /\ UNCHANGED <<nextpid, file, pipes, inode, rings, input>>

sys_fstat(p) ==
  LET f == OpenFile(p, 1)
  IN /\ Calls(p, "fstat")
     /\ \/ f = Nothing /\ Fails(p)
        \/ f # Nothing /\ Return(p, 0, "size" :> Len(inode[file[f].ip].data))

sys_mkdir(p) ==
  /\ Calls(p, "mkdir")
  /\ \/ ~CanCreate(p, Arg(p, 1), "dir") /\ Fails(p)
     \/ /\ CanCreate(p, Arg(p, 1), "dir")
        /\ inode' = Created(p, Arg(p, 1), "dir")
        /\ proc' = [proc EXCEPT ![p] = After(@, 0, Empty)]
        /\ UNCHANGED <<nextpid, file, pipes, rings, input, console>>

sys_link(p) ==
  LET i == resolvePath(p, Arg(p, 1))
      d == resolvePathParent(p, Arg(p, 2))
      name == Last(Arg(p, 2))
      fits == i # Nothing /\ d # Nothing /\ inode[i].type # "dir" /\ CanLink(d, name)
  IN /\ Calls(p, "link")
     /\ \/ ~fits /\ Fails(p)
        \/ /\ fits
           /\ inode' = [inode EXCEPT ![i].nlink = @ + 1, ![d] = linkEntry(@, name, i)]
           /\ proc' = [proc EXCEPT ![p] = After(@, 0, Empty)]
           /\ UNCHANGED <<nextpid, file, pipes, rings, input, console>>

sys_unlink(p) ==
  LET d == resolvePathParent(p, Arg(p, 1))
      name == Last(Arg(p, 1))
      i == lookupChild(d, name)
      dir == inode[i].type = "dir"
      fits == /\ d # Nothing
              /\ name \notin {".", ".."}
              /\ i # Nothing
              /\ dir => isEmpty(inode[i])
      Unnamed == [inode EXCEPT ![d] = removeEntry(@, name), ![i].nlink = @ - 1]
  IN /\ Calls(p, "unlink")
     /\ \/ ~fits /\ Fails(p)
        \/ /\ fits
           /\ Becomes([proc EXCEPT ![p] = After(@, 0, Empty)], file, pipes,
                      IF dir THEN [Unnamed EXCEPT ![d].nlink = @ - 1] ELSE Unnamed)
           /\ UNCHANGED <<nextpid, rings, input, console>>

sys_chdir(p) ==
  LET i == resolvePath(p, Arg(p, 1))
      fits == i # Nothing /\ inode[i].type = "dir"
  IN /\ Calls(p, "chdir")
     /\ \/ ~fits /\ Fails(p)
        \/ /\ fits
           /\ Becomes([proc EXCEPT ![p] = After([@ EXCEPT !.cwd = i], 0, Empty)], file, pipes, inode)
           /\ UNCHANGED <<nextpid, rings, input, console>>

(***************************************************************************)
(* Ring buffers: a name, at most two owners, and the first word of them.   *)
(***************************************************************************)
sys_ringbuf(p) ==
  LET name == Arg(p, 1)
      owners == IF name \in DOMAIN rings THEN rings[name].owners ELSE {}
      fits == /\ name \notin {"", "0123456789ABCDEF"}
              /\ IF Arg(p, 2) = 1
                 THEN /\ p \notin owners /\ Cardinality(owners) < 2
                      /\ owners = {} => Cardinality(DOMAIN rings) < NRingbuf
                 ELSE p \in owners
      Without(o) == [rings EXCEPT ![name].owners = o]
  IN /\ Calls(p, "ringbuf")
     /\ \/ ~fits /\ Fails(p)
        \/ /\ fits
           /\ rings' = IF owners = {} THEN rings @@ (name :> [owners |-> {p}, word |-> 0])
                       ELSE IF Arg(p, 2) = 1 THEN Without(owners \cup {p})
                       ELSE IF owners = {p} THEN Keep(rings, DOMAIN rings \ {name})
                       ELSE Without(owners \ {p})
           /\ proc' = [proc EXCEPT ![p] = After(@, 0, Empty)]
           /\ UNCHANGED <<nextpid, file, pipes, inode, input, console>>

Mapped(p, name) == name \in DOMAIN rings /\ p \in rings[name].owners

\* Loads and stores of the word; a process that has not mapped it is killed.
ringAccess(p) ==
  \/ \E op \in {"load", "store"} : Calls(p, op) /\ ~Mapped(p, Arg(p, 1)) /\ Exit(p, -1)
  \/ /\ Calls(p, "load") /\ Mapped(p, Arg(p, 1))
     /\ Return(p, rings[Arg(p, 1)].word, Empty)
  \/ /\ Calls(p, "store") /\ Mapped(p, Arg(p, 1))
     /\ rings' = [rings EXCEPT ![Arg(p, 1)].word = Arg(p, 2)]
     /\ proc' = [proc EXCEPT ![p] = After(@, 0, Empty)]
     /\ UNCHANGED <<nextpid, file, pipes, inode, input, console>>

(***************************************************************************)
(* The first process runs code; the image has these files in its root.     *)
(***************************************************************************)
ImageFiles == <<"console", "README.md", "init", "echo", "cat">>
Boot(code, lines) ==
  /\ proc = (InitPid :> Settle(NewProcess(Nothing, code, [d \in Fds |-> Nothing])))
  /\ nextpid = InitPid + 1
  /\ file = Empty
  /\ pipes = Empty
  /\ inode = (Root :> [type |-> "dir", nlink |-> 1,
                       data |-> <<Entry(".", Root), Entry("..", Root)>>
                                  \o [k \in DOMAIN ImageFiles |-> Entry(ImageFiles[k], Root + k)]])
             @@ [i \in 2..(1 + Len(ImageFiles)) |-> [type |-> IF i = 2 THEN "dev" ELSE "file", nlink |-> 1, data |-> <<>>]]
  /\ rings = Empty
  /\ input = lines
  /\ console = <<>>

\* p sleeps in the kernel or loops without system calls, and nobody killed it.
Blocked(p) ==
  LET ip == file[OpenFile(p, 1)].ip IN
  \/ Calls(p, "spin")
  \/ Calls(p, "wait") /\ Children(p) # {} /\ \A c \in Children(p) : proc[c].state # "zombie"
  \/ Uses(p, "read", "r", "pipe") /\ pipes[ip] = <<>> /\ IsOpen(ip, "w")
  \/ Uses(p, "write", "w", "pipe") /\ Len(pipes[ip]) = PipeSize /\ IsOpen(ip, "r")
Ready(p) == Runs(p) /\ ~Blocked(p)

ProcessCall(p) ==
  sys_fork(p) \/ sys_exit(p) \/ sys_wait(p) \/ sys_kill(p) \/ sys_getpid(p)
  \/ sys_sleep(p) \/ sys_sbrk(p) \/ sys_exec(p)
FileCall(p) ==
  \/ sys_open(p) \/ sys_close(p) \/ sys_dup(p) \/ sys_pipe(p) \/ badDescriptor(p)
  \/ readInode(p) \/ readPipe(p) \/ readConsole(p) \/ writeInode(p) \/ writePipe(p) \/ writeConsole(p)
  \/ sys_fstat(p) \/ sys_mkdir(p) \/ sys_link(p) \/ sys_unlink(p) \/ sys_chdir(p)

Step(p) == ProcessCall(p) \/ FileCall(p) \/ sys_ringbuf(p) \/ ringAccess(p)
             \/ userAccess(p) \/ random(p) \/ dieKilled(p)
=============================================================================
