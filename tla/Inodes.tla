------------------------------- MODULE Inodes -------------------------------
(***************************************************************************)
(* Inodes on disk and the table of inodes in memory,                       *)
(* src/kernel/filesystem/inode.zig: alloc, update, get, lock, release and  *)
(* put.  Contents and sizes of files are left out.                         *)
(*                                                                         *)
(* inode_table.lock makes get and the two ends of put atomic; the lock of  *)
(* the buffer that holds an inode makes alloc's test of it and update      *)
(* atomic.  Everything else of an inode is protected by its sleep lock.    *)
(* All calls are inside a transaction of the log, so a power failure       *)
(* undoes the whole call (module Log).                                     *)
(***************************************************************************)
EXTENDS Naturals, FiniteSets

CONSTANTS Procs, NoProc,
          Inums,     \* inode numbers but the root directory's, 1 .. n
          Slots,     \* entries of inode_table, 1 .. n
          Kinds      \* what create makes: "file", "directory"

ASSUME InodeAssumption ==
  /\ IsFiniteSet(Procs) /\ NoProc \notin Procs
  /\ IsFiniteSet(Inums) /\ Inums \subseteq Nat \ {0}
  /\ IsFiniteSet(Slots) /\ Slots \subseteq Nat \ {0}
  /\ Kinds \subseteq {"file", "directory"}

\* Neither an inode, a slot nor a directory entry.
None == 0

VARIABLES
  disk,    \* type and link_count of each inode on disk
  table,   \* inode_table.inodes
  panic

DiskInodes == [type : {"free", "file", "directory"}, link_count : Nat]

InodeTypeOK ==
  /\ disk \in [Inums -> DiskInodes]
  /\ table \in [Slots -> [inode_number : Inums \cup {None}, reference_count : Nat,
                          is_valid : BOOLEAN, disk_inode : DiskInodes,
                          holder : Procs \cup {NoProc}]]
  /\ panic \in {"none", "no inodes available", "can't lock unused inode",
                "can't lock a free inode", "can't unlock unused inode",
                "sleep with inode_table.lock", "unlink: nlink < 1", "file closing failed"}

FreeInode == [type |-> "free", link_count |-> 0]

InodeInit ==
  /\ disk = [n \in Inums |-> FreeInode]
  /\ table = [s \in Slots |-> [inode_number |-> None, reference_count |-> 0, is_valid |-> FALSE,
                               disk_inode |-> FreeInode, holder |-> NoProc]]
  /\ panic = "none"

-----------------------------------------------------------------------------
(* get and alloc.                                                           *)

FreeInums == {n \in Inums : disk[n].type = "free"}

Lowest(S) == CHOOSE x \in S : \A y \in S : x <= y

\* The entry of inode n, if there is one.
Referenced(n) == {s \in Slots : table[s].reference_count > 0 /\ table[s].inode_number = n}

EmptySlots == {s \in Slots : table[s].reference_count = 0}

\* The slot in which get(n) returns the inode; get panics if there is none.
SlotFor(n) == IF Referenced(n) # {} THEN Lowest(Referenced(n)) ELSE Lowest(EmptySlots)

NoSlotFor(n) == Referenced(n) = {} /\ EmptySlots = {}

\* Mutant: the entry is taken over with the copy that was in it.
RecycledValid(s, n) == [table[s] EXCEPT !.inode_number = n, !.reference_count = 1]

\* An entry recycled for inode n.
Recycled(s, n) ==
  [table[s] EXCEPT !.inode_number = n, !.reference_count = 1, !.is_valid = FALSE]

\* Mutant: get returns the entry it found without counting the reference.
SameReference(s) == table[s]

OneMoreReference(s) == [table[s] EXCEPT !.reference_count = @ + 1]

\* get(n), without its panic.
Get(n) ==
  [table EXCEPT ![SlotFor(n)] =
     IF Referenced(n) # {} THEN OneMoreReference(SlotFor(n)) ELSE Recycled(SlotFor(n), n)]

-----------------------------------------------------------------------------
(* lock, update and release.                                                *)

CanLock(s) == table[s].holder = NoProc

\* What lock leaves in the table: the inode is read from disk if need be.
Locked(s, p) ==
  [table[s] EXCEPT !.holder = p, !.is_valid = TRUE,
                   !.disk_inode = IF table[s].is_valid THEN @ ELSE disk[table[s].inode_number]]

LockPanic(s) ==
  CASE table[s].reference_count < 1 -> "can't lock unused inode"
    [] Locked(s, NoProc).disk_inode.type = "free" -> "can't lock a free inode"
    [] OTHER -> panic

\* The inode of slot s is changed to d, written through with update, and unlocked.
UpdateAndRelease(s, d) ==
  /\ disk' = [disk EXCEPT ![table[s].inode_number] = d]
  /\ table' = [table EXCEPT ![s].disk_inode = d, ![s].holder = NoProc]

-----------------------------------------------------------------------------
(* put.                                                                     *)

\* Mutant: put frees the inode whoever else refers to it.
Unlinked(s) == table[s].is_valid /\ table[s].disk_inode.link_count = 0

\* The last reference to an inode without links.
Unused(s) ==
  /\ table[s].reference_count = 1
  /\ table[s].is_valid /\ table[s].disk_inode.link_count = 0

\* One reference less.  Whose entry it was is never asked of an entry without
\* references, and is forgotten here.
Dropped(s) ==
  IF table[s].reference_count = 1
  THEN [table[s] EXCEPT !.reference_count = 0, !.inode_number = None, !.disk_inode = FreeInode]
  ELSE [table[s] EXCEPT !.reference_count = @ - 1]

\* put by p, up to where it gives up inode_table.lock to free the inode.
PutBegin(s, p) ==
  IF Unused(s)
  THEN IF table[s].holder # NoProc
       THEN panic' = "sleep with inode_table.lock" /\ UNCHANGED table
       ELSE table' = [table EXCEPT ![s].holder = p] /\ UNCHANGED panic
  ELSE table' = [table EXCEPT ![s] = Dropped(s)] /\ UNCHANGED panic

\* truncate, and the type .free written to disk: alloc can find the inode.
PutFree(s) ==
  /\ disk' = [disk EXCEPT ![table[s].inode_number] = FreeInode]
  /\ table' = [table EXCEPT ![s].disk_inode = FreeInode]

\* The copy is no longer valid, the sleep lock is released.
PutRelease(s) == table' = [table EXCEPT ![s].is_valid = FALSE, ![s].holder = NoProc]

\* inode_table.lock is taken again.
PutEnd(s) == table' = [table EXCEPT ![s] = Dropped(s)]
=============================================================================
