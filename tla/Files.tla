-------------------------------- MODULE Files --------------------------------
(***************************************************************************)
(* Open files and the system calls on names:                               *)
(* src/kernel/filesystem/file.zig, directory.zig and                       *)
(* src/kernel/traps/sysfile.zig (open, create, link, unlink, dup, close),  *)
(* with the files that fork and exit of process.zig duplicate and close.   *)
(*                                                                         *)
(* All names are in the root directory, whose inode is in the table as the *)
(* first process's working directory for ever: of it, only its lock, its   *)
(* entries and its links are kept.  A directory made in it stays empty.    *)
(* Which free descriptor and which free file is taken is left open.        *)
(***************************************************************************)
EXTENDS Inodes

CONSTANTS Names,       \* names that calls use
          Files,       \* entries of file_table
          Fds,         \* descriptors of a process
          FirstProc,   \* the process that never exits
          OpenWhenFull \* whether a process with all descriptors in use calls open

ASSUME FileAssumption ==
  /\ IsFiniteSet(Names) /\ IsFiniteSet(Files) /\ IsFiniteSet(Fds)
  /\ None \notin Files /\ FirstProc \in Procs /\ OpenWhenFull \in BOOLEAN

VARIABLES
  entry,        \* the root directory: the inode of each name, or None
  rootLinks,    \* link_count of the root directory
  root,         \* the process that holds the root directory's lock
  file,         \* file_table.files
  openFiles,    \* Process.openFiles
  life,         \* whether a process exists
  call          \* the call each process is in: how far, the slot, name and kind

inodeVars == <<disk, table>>
fileVars  == <<file, openFiles, life>>
vars == <<inodeVars, panic, entry, rootLinks, root, fileVars, call>>

Idle == [at |-> "idle", of |-> "none", slot |-> None, name |-> None, kind |-> "none"]

TypeOK ==
  /\ InodeTypeOK
  /\ entry \in [Names -> Inums \cup {None}]
  /\ rootLinks \in Nat
  /\ root \in Procs \cup {NoProc}
  /\ file \in [Files -> [reference_count : Nat, slot : Slots \cup {None}]]
  /\ openFiles \in [Procs -> [Fds -> Files \cup {None}]]
  /\ life \in [Procs -> {"unused", "running", "exiting"}]
  /\ call \in [Procs -> [at : {"idle", "lock", "body", "entry", "put", "free", "freed", "drop"},
                         of : {"none", "open", "create", "new", "link", "rollback", "unlink"},
                         slot : Slots \cup {None}, name : Names \cup {None},
                         kind : Kinds \cup {"none"}]]

Init ==
  /\ InodeInit
  /\ entry = [n \in Names |-> None]
  /\ rootLinks = 1
  /\ root = NoProc
  /\ file = [f \in Files |-> [reference_count |-> 0, slot |-> None]]
  /\ openFiles = [p \in Procs |-> [d \in Fds |-> None]]
  /\ life = [p \in Procs |-> IF p = FirstProc THEN "running" ELSE "unused"]
  /\ call = [p \in Procs |-> Idle]

Ready(p) == panic = "none" /\ life[p] = "running" /\ call[p].at = "idle"

At(p, at, of) == panic = "none" /\ call[p].at = at /\ call[p].of = of

FreeFds(p) == {d \in Fds : openFiles[p][d] = None}

FreeFiles == {f \in Files : file[f].reference_count = 0}

\* get(n) for the call c of p, which then locks the inode.
GetFor(p, n, c) ==
  IF NoSlotFor(n)
  THEN panic' = "no inodes available" /\ UNCHANGED <<table, call>>
  ELSE /\ table' = Get(n)
       /\ call' = [call EXCEPT ![p] = [c EXCEPT !.at = "lock", !.slot = SlotFor(n)]]
       /\ UNCHANGED panic

Calling(of, n, k) == [Idle EXCEPT !.of = of, !.name = n, !.kind = k]

\* The call goes on at the next place.
GoOn(p, at) == call' = [call EXCEPT ![p].at = at]

\* All that is left of the call is to put the inode.
Put(p) == call' = [call EXCEPT ![p] = [Idle EXCEPT !.at = "put", !.slot = call[p].slot]]

\* The call returns; a directory lock it still has is released.
Return(p) ==
  /\ call' = [call EXCEPT ![p] = Idle]
  /\ root' = IF root = p THEN NoProc ELSE root

-----------------------------------------------------------------------------
(* Entering a call.  The root directory is locked for a lookup.             *)

\* Calls that resolve their path and let the directory go again: open without
\* create, and link.
resolvePath(p, n, of, m) ==
  /\ Ready(p) /\ root = NoProc
  /\ entry[n] # None
  /\ of = "open" => OpenWhenFull \/ FreeFds(p) # {}
  /\ GetFor(p, entry[n], Calling(of, m, "none"))
  /\ UNCHANGED <<disk, entry, rootLinks, root, fileVars>>

\* create and unlink of a name that exists keep the directory locked.
lookupChild(p, n, of, k) ==
  /\ Ready(p) /\ root = NoProc
  /\ entry[n] # None
  /\ of = "create" /\ k = "file" => OpenWhenFull \/ FreeFds(p) # {}
  /\ root' = p
  /\ GetFor(p, entry[n], Calling(of, n, k))
  /\ UNCHANGED <<disk, entry, rootLinks, fileVars>>

\* create of a name that does not exist takes the first free inode on disk.
alloc(p, n, k) ==
  /\ Ready(p) /\ root = NoProc
  /\ entry[n] = None /\ FreeInums # {}
  /\ k = "file" => OpenWhenFull \/ FreeFds(p) # {}
  /\ root' = p
  /\ disk' = [disk EXCEPT ![Lowest(FreeInums)] = [type |-> k, link_count |-> 0]]
  /\ GetFor(p, Lowest(FreeInums), Calling("new", n, k))
  /\ UNCHANGED <<entry, rootLinks, fileVars>>

\* Inode.lock, which sleeps while another process holds the inode.
lock(p) ==
  LET s == call[p].slot IN
  /\ panic = "none" /\ call[p].at = "lock"
  /\ CanLock(s)
  /\ table' = [table EXCEPT ![s] = Locked(s, p)]
  /\ panic' = LockPanic(s)
  /\ GoOn(p, "body")
  /\ UNCHANGED <<disk, entry, rootLinks, root, fileVars>>

-----------------------------------------------------------------------------
(* The bodies of the calls, with the inode locked.                          *)

Type(p)  == table[call[p].slot].disk_inode.type
Links(p) == table[call[p].slot].disk_inode.link_count
With(p, links) == [type |-> Type(p), link_count |-> links]

Unlock(s) == [table EXCEPT ![s].holder = NoProc]

\* The file and the descriptor are there: open returns.
openSucceeds(p) ==
  LET s == call[p].slot IN
  /\ At(p, "body", "open")
  /\ \E f \in FreeFiles, d \in FreeFds(p) :
       /\ file' = [file EXCEPT ![f] = [reference_count |-> 1, slot |-> s]]
       /\ openFiles' = [openFiles EXCEPT ![p][d] = f]
  /\ table' = Unlock(s)
  /\ Return(p)
  /\ UNCHANGED <<disk, panic, entry, rootLinks, life>>

\* open fails for a directory opened for writing and for a full file table.
\* Without a descriptor its errdefers run in reverse: file.close() puts the inode,
\* the lock is released, and the inode is put again.
openFails(p) ==
  LET s == call[p].slot IN
  \E writable \in BOOLEAN :
  LET early == (writable /\ Type(p) = "directory") \/ FreeFiles = {} IN
  /\ At(p, "body", "open")
  /\ early \/ FreeFds(p) = {}
  /\ IF ~early /\ table[s].reference_count = 1
     THEN /\ panic' = IF Links(p) = 0 THEN "sleep with inode_table.lock"
                      ELSE "can't unlock unused inode"
          /\ UNCHANGED <<table, call>>
     ELSE /\ table' = [table EXCEPT ![s].holder = NoProc,
                                    ![s].reference_count = IF early THEN @ ELSE @ - 1]
          /\ Put(p)
          /\ UNCHANGED panic
  /\ UNCHANGED <<disk, entry, rootLinks, root, fileVars>>

\* create finds the name: open goes on with a file, all else fails, with the
\* directory locked until the inode is put.
createExisting(p) ==
  /\ At(p, "body", "create")
  /\ IF call[p].kind = "file" /\ Type(p) = "file"
     THEN /\ call' = [call EXCEPT ![p].of = "open"]
          /\ root' = NoProc
          /\ UNCHANGED table
     ELSE /\ table' = Unlock(call[p].slot)
          /\ Put(p)
          /\ UNCHANGED root
  /\ UNCHANGED <<disk, panic, entry, rootLinks, fileVars>>

\* The new inode gets its link and its name; a file goes on to open, locked,
\* a directory is done.
createNew(p) ==
  LET s == call[p].slot IN
  /\ At(p, "body", "new")
  /\ disk' = [disk EXCEPT ![table[s].inode_number] = With(p, 1)]
  /\ entry' = [entry EXCEPT ![call[p].name] = table[s].inode_number]
  /\ root' = NoProc
  /\ IF call[p].kind = "directory"
     THEN /\ rootLinks' = rootLinks + 1
          /\ table' = [Unlock(s) EXCEPT ![s].disk_inode = With(p, 1)]
          /\ Put(p)
     ELSE /\ table' = [table EXCEPT ![s].disk_inode = With(p, 1)]
          /\ call' = [call EXCEPT ![p].of = "open"]
          /\ UNCHANGED rootLinks
  /\ UNCHANGED <<panic, fileVars>>

\* linkEntry finds no disk block: the errdefer takes the link back and puts the
\* inode, which frees it.
createFails(p) ==
  /\ At(p, "body", "new")
  /\ UpdateAndRelease(call[p].slot, With(p, 0))
  /\ Put(p)
  /\ UNCHANGED <<panic, entry, rootLinks, root, fileVars>>

unlink(p) ==
  /\ At(p, "body", "unlink")
  /\ IF Links(p) < 1
     THEN panic' = "unlink: nlink < 1" /\ UNCHANGED <<inodeVars, entry, rootLinks, call>>
     ELSE /\ entry' = [entry EXCEPT ![call[p].name] = None]
          /\ rootLinks' = IF Type(p) = "directory" THEN rootLinks - 1 ELSE rootLinks
          /\ UpdateAndRelease(call[p].slot, With(p, Links(p) - 1))
          /\ Put(p)
          /\ UNCHANGED panic
  /\ UNCHANGED <<root, fileVars>>

\* link counts the new name before it is in the directory.
link(p) ==
  /\ At(p, "body", "link")
  /\ IF Type(p) = "directory"
     THEN table' = Unlock(call[p].slot) /\ Put(p) /\ UNCHANGED disk
     ELSE UpdateAndRelease(call[p].slot, With(p, Links(p) + 1)) /\ GoOn(p, "entry")
  /\ UNCHANGED <<panic, entry, rootLinks, root, fileVars>>

linkEntry(p) ==
  LET n == call[p].name IN
  /\ At(p, "entry", "link") /\ root = NoProc
  /\ \/ /\ entry[n] = None
        /\ entry' = [entry EXCEPT ![n] = table[call[p].slot].inode_number]
        /\ Put(p)
     \/ /\ call' = [call EXCEPT ![p].at = "lock", ![p].of = "rollback"]
        /\ UNCHANGED entry
  /\ UNCHANGED <<inodeVars, panic, rootLinks, root, fileVars>>

\* Mutant: the link is left counted.
LinksKept(p) == With(p, Links(p))

LinksBack(p) == With(p, Links(p) - 1)

rollback(p) ==
  /\ At(p, "body", "rollback")
  /\ UpdateAndRelease(call[p].slot, LinksBack(p))
  /\ Put(p)
  /\ UNCHANGED <<panic, entry, rootLinks, root, fileVars>>

-----------------------------------------------------------------------------
(* Inode.put, the end of every call.                                        *)

put(p) ==
  LET s == call[p].slot IN
  /\ panic = "none" /\ call[p].at = "put"
  /\ PutBegin(s, p)
  /\ IF Unused(s) THEN GoOn(p, "free") /\ UNCHANGED root ELSE Return(p)
  /\ UNCHANGED <<disk, entry, rootLinks, fileVars>>

putFree(p) ==
  /\ panic = "none" /\ call[p].at = "free"
  /\ PutFree(call[p].slot)
  /\ GoOn(p, "freed")
  /\ UNCHANGED <<panic, entry, rootLinks, root, fileVars>>

putRelease(p) ==
  /\ panic = "none" /\ call[p].at = "freed"
  /\ PutRelease(call[p].slot)
  /\ GoOn(p, "drop")
  /\ UNCHANGED <<disk, panic, entry, rootLinks, root, fileVars>>

putEnd(p) ==
  /\ panic = "none" /\ call[p].at = "drop"
  /\ PutEnd(call[p].slot)
  /\ Return(p)
  /\ UNCHANGED <<disk, panic, entry, rootLinks, fileVars>>

-----------------------------------------------------------------------------
(* Descriptors.                                                             *)

\* How often the files in S point to f.
Uses(S, f) == Cardinality({d \in Fds : S[d] = f})

\* File.close of descriptor d; the last one puts the inode.
close(p, d) ==
  LET f == openFiles[p][d] IN
  /\ panic = "none" /\ life[p] # "unused" /\ call[p].at = "idle"
  /\ f # None
  /\ openFiles' = [openFiles EXCEPT ![p][d] = None]
  /\ CASE file[f].reference_count < 1 ->
            panic' = "file closing failed" /\ UNCHANGED <<file, call>>
       [] file[f].reference_count = 1 ->
            /\ file' = [file EXCEPT ![f] = [reference_count |-> 0, slot |-> None]]
            /\ call' = [call EXCEPT ![p] = [Idle EXCEPT !.at = "put", !.slot = file[f].slot]]
            /\ UNCHANGED panic
       [] OTHER ->
            /\ file' = [file EXCEPT ![f].reference_count = @ - 1]
            /\ UNCHANGED <<call, panic>>
  /\ UNCHANGED <<inodeVars, entry, rootLinks, root, life>>

dup(p, d) ==
  LET f == openFiles[p][d] IN
  /\ Ready(p) /\ f # None
  /\ \E e \in FreeFds(p) : openFiles' = [openFiles EXCEPT ![p][e] = f]
  /\ file' = [file EXCEPT ![f].reference_count = @ + 1]
  /\ UNCHANGED <<inodeVars, panic, entry, rootLinks, root, life, call>>

Shared(p, f) == Uses(openFiles[p], f)

\* fork duplicates the files of p for the child q.
fork(p, q) ==
  /\ Ready(p) /\ life[q] = "unused"
  /\ life' = [life EXCEPT ![q] = "running"]
  /\ openFiles' = [openFiles EXCEPT ![q] = openFiles[p]]
  /\ file' = [f \in Files |-> [file[f] EXCEPT !.reference_count = @ + Shared(p, f)]]
  /\ UNCHANGED <<inodeVars, panic, entry, rootLinks, root, call>>

\* exit closes all files, one after the other, and leaves.
exit(p) ==
  /\ Ready(p) /\ p # FirstProc
  /\ life' = [life EXCEPT ![p] = "exiting"]
  /\ UNCHANGED <<inodeVars, panic, entry, rootLinks, root, file, openFiles, call>>

exitEnd(p) ==
  /\ panic = "none" /\ life[p] = "exiting" /\ call[p].at = "idle"
  /\ FreeFds(p) = Fds
  /\ life' = [life EXCEPT ![p] = "unused"]
  /\ UNCHANGED <<inodeVars, panic, entry, rootLinks, root, file, openFiles, call>>

Next ==
  \E p \in Procs :
    \/ \E n \in Names :
         \/ resolvePath(p, n, "open", None)
         \/ \E m \in Names : resolvePath(p, n, "link", m)
         \/ \E k \in Kinds : lookupChild(p, n, "create", k) \/ alloc(p, n, k)
         \/ lookupChild(p, n, "unlink", "none")
    \/ lock(p)
    \/ openSucceeds(p) \/ openFails(p)
    \/ createExisting(p) \/ createNew(p) \/ createFails(p)
    \/ unlink(p) \/ link(p) \/ linkEntry(p) \/ rollback(p)
    \/ put(p) \/ putFree(p) \/ putRelease(p) \/ putEnd(p)
    \/ \E d \in Fds : close(p, d) \/ dup(p, d)
    \/ \E q \in Procs : fork(p, q)
    \/ exit(p) \/ exitEnd(p)

Spec == Init /\ [][Next]_vars

-----------------------------------------------------------------------------
(* Properties.                                                              *)

InCall(s) == {p \in Procs : call[p].slot = s}

\* An entry of the inode table counts the open files and the calls under way
\* that point to it, "the number of in-memory pointers to the entry"
\* (inode.zig:43-47), and an open file the descriptors of all processes that
\* refer to it: neither is recycled under them or kept for ever.
ReferencesExact ==
  /\ \A s \in Slots : table[s].reference_count =
       Cardinality({f \in Files : file[f].slot = s}) + Cardinality(InCall(s))
  /\ \A f \in Files : file[f].reference_count =
       Cardinality({u \in Procs \X Fds : openFiles[u[1]][u[2]] = f})

\* A copy that is valid and not locked is what the disk has (inode.zig:49-53):
\* no change is lost, and no entry speaks of a file that was in the slot before.
CopyIsCurrent ==
  \A s \in Slots :
    table[s].reference_count > 0 /\ table[s].is_valid /\ table[s].holder = NoProc =>
      table[s].disk_inode = disk[table[s].inode_number]

\* p has counted a link that is not in the directory.
LinkUnderWay(p) ==
  \/ call[p].of = "link" /\ call[p].at = "entry"
  \/ call[p].of = "rollback" /\ call[p].at \in {"lock", "body"}

\* link_count is the number of names, plus one for each link call between its two
\* halves (sysfile.zig:119-150); the root directory has one for itself and one for
\* each directory in it (sysfile.zig:216-219, 266-269).
LinksExact ==
  /\ \A n \in Inums : disk[n].link_count =
       Cardinality({x \in Names : entry[x] = n}) +
       Cardinality({p \in Procs : LinkUnderWay(p) /\ table[call[p].slot].inode_number = n})
  /\ rootLinks = 1 + Cardinality({x \in Names : entry[x] # None /\ disk[entry[x]].type = "directory"})

\* No name and no open file outlives its inode: put frees only what nobody can
\* reach any more (inode.zig:266), although it lets go of the table meanwhile,
\* and nothing panics, put's claim that its acquire of the inode lock "won't
\* block (or deadlock)" (inode.zig:267-268) included.
NothingDangles ==
  /\ panic = "none"
  /\ \A n \in FreeInums :
       /\ \A x \in Names : entry[x] # n
       /\ \A f \in Files : file[f].reference_count > 0 => table[file[f].slot].inode_number # n

\* No inode outlives its names and references: "if that was the last reference
\* and the inode has no links to it, free the inode (and its content) on disk"
\* (inode.zig:258-259). The code does not keep this: an inode allocated again
\* while put frees it, and given up before put ends, stays allocated.
NothingLeaks ==
  \A n \in Inums \ FreeInums : Referenced(n) # {} \/ \E x \in Names : entry[x] = n
=============================================================================
