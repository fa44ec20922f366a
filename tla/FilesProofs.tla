---------------------------- MODULE FilesProofs ----------------------------
(***************************************************************************)
(* Proofs about Files and Inodes, for every number of processes, names,    *)
(* inodes, table entries and descriptors.                                  *)
(*                                                                         *)
(* The records of the model are taken apart into one function per field,   *)
(* and the counts are counts of the places where such a function has a     *)
(* value, so that a step changes a function in one place and a count by    *)
(* one (CountExcept).                                                      *)
(*                                                                         *)
(* The argument turns on put, which lets go of the table while it frees an *)
(* inode.  Until the inode is free on disk nobody else refers to it        *)
(* (Freeing); from then on only create can find it, and whoever does waits *)
(* for the sleep lock that put still holds, or reads the inode from disk   *)
(* again (CopyExact, FreeRefs, NewInode).                                  *)
(***************************************************************************)
EXTENDS Files, FiniteSetTheorems, WellFoundedInduction, TLAPS

Place  == [p \in Procs |-> call[p].at]
Doing  == [p \in Procs |-> call[p].of]
SlotOf == [p \in Procs |-> call[p].slot]
NameOf == [p \in Procs |-> call[p].name]
KindOf == [p \in Procs |-> call[p].kind]

Refs      == [s \in Slots |-> table[s].reference_count]
Nums      == [s \in Slots |-> table[s].inode_number]
Valids    == [s \in Slots |-> table[s].is_valid]
CopyTypes == [s \in Slots |-> table[s].disk_inode.type]
CopyLinks == [s \in Slots |-> table[s].disk_inode.link_count]
Holders   == [s \in Slots |-> table[s].holder]

DiskTypes == [n \in Inums |-> disk[n].type]
DiskLinks == [n \in Inums |-> disk[n].link_count]

FileRefs  == [f \in Files |-> file[f].reference_count]
FileSlots == [f \in Files |-> file[f].slot]
Points    == [u \in Procs \X Fds |-> openFiles[u[1]][u[2]]]

\* p has counted a link that is not in the directory.
HasCounted(p) ==
  \/ Doing[p] = "link" /\ Place[p] = "entry"
  \/ Doing[p] = "rollback" /\ Place[p] \in {"lock", "body"}

\* The inode it has counted it for.
Counted == [p \in Procs |-> IF HasCounted(p) THEN Nums[SlotOf[p]] ELSE None]

\* The type of what a name stands for.
NameTypes == [x \in Names |-> IF entry[x] = None THEN "free" ELSE DiskTypes[entry[x]]]

\* How often the function g has the value v.
Count(g, v) == Cardinality({x \in DOMAIN g : g[x] = v})

-----------------------------------------------------------------------------
(* The inductive invariant.                                                 *)

\* What a call has at each place.
CallShape ==
  \A p \in Procs :
    /\ SlotOf[p] = None <=> Place[p] = "idle"
    /\ Doing[p] = "none" <=> Place[p] \notin {"lock", "body", "entry"}
    /\ Place[p] = "entry" => Doing[p] = "link"
    /\ Doing[p] \in {"create", "new"} => KindOf[p] \in Kinds
    /\ Doing[p] \in {"create", "new", "link", "unlink"} => NameOf[p] \in Names

\* A process that does not exist has no call and no files.
Unborn ==
  \A p \in Procs : life[p] = "unused" =>
    Place[p] = "idle" /\ \A d \in Fds : openFiles[p][d] = None

\* The calls that hold the root directory's lock over their whole body.
RootHeld ==
  \A p \in Procs : Doing[p] \in {"create", "new", "unlink"} => root = p

\* The sleep lock of an inode is with the call that locked it.
Holding == {"body", "free", "freed"}
HolderExact ==
  /\ \A p \in Procs : Place[p] \in Holding => Holders[SlotOf[p]] = p
  /\ \A s \in Slots : Holders[s] # NoProc =>
       SlotOf[Holders[s]] = s /\ Place[Holders[s]] \in Holding

\* An inode is in one entry of the table only.
OneEntry ==
  /\ \A s \in Slots : Refs[s] > 0 => Nums[s] \in Inums
  /\ \A s, t \in Slots : Refs[s] > 0 /\ Refs[t] > 0 /\ Nums[s] = Nums[t] => s = t

\* put has freed the inode of entry s and not yet given up its lock.
BeingFreed(s) == \E p \in Procs : Place[p] = "freed" /\ SlotOf[p] = s

\* A valid copy is the disk's inode, locked or not, but for the one being freed.
CopyExact ==
  \A s \in Slots : Refs[s] > 0 /\ Valids[s] /\ ~BeingFreed(s) =>
    /\ CopyTypes[s] = DiskTypes[Nums[s]] /\ CopyLinks[s] = DiskLinks[Nums[s]]
    /\ DiskTypes[Nums[s]] # "free"

BodyValid == \A p \in Procs : Place[p] \in {"body", "free"} => Valids[SlotOf[p]]

FreeDisk == \A n \in Inums : DiskTypes[n] = "free" => DiskLinks[n] = 0

\* A free inode is referred to by nobody but the put that freed it.
FreeRefs ==
  /\ \A p \in Procs : Place[p] # "idle" /\ DiskTypes[Nums[SlotOf[p]]] = "free" =>
       Place[p] \in {"freed", "drop"}
  /\ \A f \in Files : FileSlots[f] # None => DiskTypes[Nums[FileSlots[f]]] # "free"

\* put frees what only it refers to and what has no name.
Freeing ==
  \A p \in Procs : Place[p] = "free" =>
    Refs[SlotOf[p]] = 1 /\ DiskLinks[Nums[SlotOf[p]]] = 0

\* The inode create has allocated is its own.
NewInode ==
  \A p \in Procs : Doing[p] = "new" =>
    /\ DiskTypes[Nums[SlotOf[p]]] = KindOf[p] /\ DiskLinks[Nums[SlotOf[p]]] = 0
    /\ entry[NameOf[p]] = None
    /\ \A q \in Procs : q # p /\ SlotOf[q] = SlotOf[p] => Place[q] \in {"freed", "drop"}
    /\ \A f \in Files : FileSlots[f] # SlotOf[p]

\* The name that unlink removes still stands for the inode it has locked.
UnlinkName ==
  \A p \in Procs : Doing[p] = "unlink" => entry[NameOf[p]] = Nums[SlotOf[p]]

\* link does not give a directory a second name.
LinkedFile ==
  \A p \in Procs : Doing[p] = "link" /\ Place[p] = "entry" =>
    DiskTypes[Nums[SlotOf[p]]] # "directory"

\* A call that opens a file has a descriptor for it.
FdsLeft ==
  \A p \in Procs :
    Doing[p] = "open" \/ (Doing[p] \in {"create", "new"} /\ KindOf[p] = "file") =>
      \E d \in Fds : openFiles[p][d] = None

FileShape == \A f \in Files : FileRefs[f] = 0 <=> FileSlots[f] = None

\* The counts.
SlotRefs == \A s \in Slots : Refs[s] = Count(FileSlots, s) + Count(SlotOf, s)
DescriptorRefs == \A f \in Files : FileRefs[f] = Count(Points, f)
NameLinks == \A n \in Inums : DiskLinks[n] = Count(entry, n) + Count(Counted, n)
DirectoryLinks == rootLinks = 1 + Count(NameTypes, "directory")

Counts == SlotRefs /\ DescriptorRefs /\ NameLinks /\ DirectoryLinks

Calls == CallShape /\ Unborn /\ RootHeld /\ FdsLeft /\ FileShape
Table == HolderExact /\ OneEntry /\ CopyExact /\ BodyValid
Disk  == FreeDisk /\ FreeRefs /\ Freeing /\ NewInode /\ UnlinkName /\ LinkedFile

\* What holds until the inode table overflows, and what holds even then.
Core == Counts /\ Calls /\ Table /\ Disk
Running == TypeOK /\ Core
Stopped == TypeOK /\ Counts /\ CallShape /\ CopyIsCurrent /\ panic = "no inodes available"
IInv == (panic = "none" /\ Running) \/ Stopped

-----------------------------------------------------------------------------
(* Constants, minima and counts.                                            *)

TableEntries ==
  [inode_number : Inums \cup {None}, reference_count : Nat, is_valid : BOOLEAN,
   disk_inode : DiskInodes, holder : Procs \cup {NoProc}]

OpenRecords == [reference_count : Nat, slot : Slots \cup {None}]

CallRecords ==
  [at : {"idle", "lock", "body", "entry", "put", "free", "freed", "drop"},
   of : {"none", "open", "create", "new", "link", "rollback", "unlink"},
   slot : Slots \cup {None}, name : Names \cup {None}, kind : Kinds \cup {"none"}]

\* What the assumptions on the constants say, taken apart.
LEMMA Constants ==
  /\ NoProc \notin Procs /\ None \notin Slots /\ None \notin Inums /\ None \notin Files
  /\ Slots \subseteq Nat /\ Inums \subseteq Nat
  /\ IsFiniteSet(Procs) /\ IsFiniteSet(Slots) /\ IsFiniteSet(Inums) /\ IsFiniteSet(Names)
  /\ IsFiniteSet(Files) /\ IsFiniteSet(Fds)
  /\ Kinds \subseteq {"file", "directory"} /\ FirstProc \in Procs /\ None \in Nat
BY InodeAssumption, FileAssumption DEF None

\* Lowest finds the lowest number.
LEMMA LowestIsMember ==
  ASSUME NEW S, S \subseteq Nat, S # {}
  PROVE  Lowest(S) \in S
<1>1. PICK x \in S : \A y \in S : ~(<<y, x>> \in OpToRel(<, Nat))
  BY NatLessThanWellFounded, WFMin
<1>2. ASSUME NEW y \in S PROVE x <= y
  <2>1. x \in Nat /\ y \in Nat
    OBVIOUS
  <2>2. ~(y < x)
    BY <1>1, <2>1 DEF OpToRel
  <2> QED
    BY <2>1, <2>2
<1> QED
  BY <1>2 DEF Lowest

\* A count is a number, and zero for a value that occurs nowhere.
LEMMA CountFacts ==
  ASSUME NEW D, IsFiniteSet(D), NEW R, NEW g \in [D -> R], NEW v
  PROVE  /\ Count(g, v) \in Nat
         /\ Count(g, v) = 0 => \A x \in D : g[x] # v
         /\ (\A x \in D : g[x] # v) => Count(g, v) = 0
<1> DEFINE S == {x \in D : g[x] = v}
<1>1. Count(g, v) = Cardinality(S)
  BY DEF Count
<1>2. IsFiniteSet(S) /\ Cardinality(S) \in Nat
  BY FS_Subset, FS_CardinalityType
<1>3. Cardinality(S) = 0 <=> S = {}
  BY <1>2, FS_EmptySet
<1> QED
  BY <1>1, <1>2, <1>3

\* Two places with the value v count twice.
LEMMA CountTwo ==
  ASSUME NEW D, IsFiniteSet(D), NEW R, NEW g \in [D -> R], NEW v,
         NEW x \in D, NEW y \in D, x # y, g[x] = v, g[y] = v
  PROVE  Count(g, v) >= 2
<1> DEFINE S == {z \in D : g[z] = v}
<1>1. Count(g, v) = Cardinality(S)
  BY DEF Count
<1>2. IsFiniteSet(S) /\ Cardinality(S) \in Nat
  BY FS_Subset, FS_CardinalityType
<1>3. IsFiniteSet(S \ {x}) /\ Cardinality(S \ {x}) = Cardinality(S) - 1 /\ y \in S \ {x}
  BY <1>2, FS_RemoveElement
<1>4. Cardinality(S \ {x}) \in Nat /\ Cardinality(S \ {x}) # 0
  BY <1>3, FS_EmptySet, FS_CardinalityType
<1> QED
  BY <1>1, <1>2, <1>3, <1>4

\* Whether a is b, as a number.
Is(a, b) == IF a = b THEN 1 ELSE 0

\* A function changed in one place.
LEMMA CountExcept ==
  ASSUME NEW g, IsFiniteSet(DOMAIN g), NEW x \in DOMAIN g, NEW v, NEW w
  PROVE  Count([g EXCEPT ![x] = w], v) = Count(g, v) - Is(g[x], v) + Is(w, v)
<1> PICK h, D : h = [g EXCEPT ![x] = w] /\ D = DOMAIN g
  OBVIOUS
<1>0. DOMAIN h = D /\ IsFiniteSet(D) /\ x \in D
  OBVIOUS
<1> DEFINE S == {y \in D : g[y] = v}
           T == {y \in D : h[y] = v}
<1>1. Count(g, v) = Cardinality(S) /\ Count(h, v) = Cardinality(T)
  BY <1>0 DEF Count
<1>2. IsFiniteSet(S) /\ Cardinality(S) \in Nat
  BY <1>0, FS_Subset, FS_CardinalityType
<1>3. \A y \in D : h[y] = IF y = x THEN w ELSE g[y]
  BY <1>0
<1>4. /\ g[x] = v /\ w = v => T = S
      /\ g[x] = v /\ w # v => T = S \ {x} /\ x \in S
      /\ g[x] # v /\ w = v => T = S \cup {x} /\ x \notin S
      /\ g[x] # v /\ w # v => T = S
  BY <1>3
<1>5. /\ x \in S => Cardinality(S \ {x}) = Cardinality(S) - 1
      /\ x \notin S => Cardinality(S \cup {x}) = Cardinality(S) + 1
  BY <1>2, FS_AddElement, FS_RemoveElement
<1> HIDE DEF S, T
<1> PICK j, k : j = Is(g[x], v) /\ k = Is(w, v)
  OBVIOUS
<1>6. /\ (g[x] = v => j = 1) /\ (g[x] # v => j = 0)
      /\ (w = v => k = 1) /\ (w # v => k = 0)
  BY DEF Is
<1>7. PICK c, d : c = Cardinality(S) /\ d = Cardinality(T)
  OBVIOUS
<1>8. c \in Nat /\ d = c - j + k
  <2>1. CASE g[x] = v /\ w = v
    BY <1>2, <1>4, <1>6, <1>7, <2>1
  <2>2. CASE g[x] = v /\ w # v
    <3>1. d = c - 1
      BY <1>4, <1>5, <1>7, <2>2, Zenon
    <3> QED
      BY <1>2, <1>6, <1>7, <2>2, <3>1
  <2>3. CASE g[x] # v /\ w = v
    <3>1. d = c + 1
      BY <1>4, <1>5, <1>7, <2>3, Zenon
    <3> QED
      BY <1>2, <1>6, <1>7, <2>3, <3>1
  <2>4. CASE g[x] # v /\ w # v
    BY <1>2, <1>4, <1>6, <1>7, <2>4
  <2> QED
    BY <2>1, <2>2, <2>3, <2>4
<1> QED
  BY <1>1, <1>7, <1>8

-----------------------------------------------------------------------------
(* The fields, before and after a step.                                     *)

\* The types of the fields.
Views ==
  /\ Place \in [Procs -> {"idle", "lock", "body", "entry", "put", "free", "freed", "drop"}]
  /\ Doing \in [Procs -> {"none", "open", "create", "new", "link", "rollback", "unlink"}]
  /\ SlotOf \in [Procs -> Slots \cup {None}]
  /\ NameOf \in [Procs -> Names \cup {None}]
  /\ KindOf \in [Procs -> Kinds \cup {"none"}]
  /\ Refs \in [Slots -> Nat] /\ Nums \in [Slots -> Inums \cup {None}]
  /\ Valids \in [Slots -> BOOLEAN] /\ Holders \in [Slots -> Procs \cup {NoProc}]
  /\ CopyTypes \in [Slots -> {"free", "file", "directory"}] /\ CopyLinks \in [Slots -> Nat]
  /\ DiskTypes \in [Inums -> {"free", "file", "directory"}] /\ DiskLinks \in [Inums -> Nat]
  /\ FileRefs \in [Files -> Nat] /\ FileSlots \in [Files -> Slots \cup {None}]
  /\ Points \in [Procs \X Fds -> Files \cup {None}]
  /\ entry \in [Names -> Inums \cup {None}]

\* The types of the records give those of their fields.
LEMMA ViewTypes == TypeOK => Views
<1> SUFFICES ASSUME TypeOK PROVE Views
  OBVIOUS
<1>1. /\ Place \in [Procs -> {"idle", "lock", "body", "entry", "put", "free", "freed", "drop"}]
      /\ Doing \in [Procs -> {"none", "open", "create", "new", "link", "rollback", "unlink"}]
      /\ SlotOf \in [Procs -> Slots \cup {None}]
      /\ NameOf \in [Procs -> Names \cup {None}]
      /\ KindOf \in [Procs -> Kinds \cup {"none"}]
  BY DEF TypeOK, Place, Doing, SlotOf, NameOf, KindOf
<1>2. /\ Refs \in [Slots -> Nat] /\ Nums \in [Slots -> Inums \cup {None}]
      /\ Holders \in [Slots -> Procs \cup {NoProc}]
  BY DEF TypeOK, InodeTypeOK, Refs, Nums, Holders
<1>3. Valids \in [Slots -> BOOLEAN]
  BY DEF TypeOK, InodeTypeOK, Valids
<1>4. CopyTypes \in [Slots -> {"free", "file", "directory"}] /\ CopyLinks \in [Slots -> Nat]
  BY DEF TypeOK, InodeTypeOK, DiskInodes, CopyTypes, CopyLinks
<1>5. DiskTypes \in [Inums -> {"free", "file", "directory"}] /\ DiskLinks \in [Inums -> Nat]
  BY DEF TypeOK, InodeTypeOK, DiskInodes, DiskTypes, DiskLinks
<1>6. FileRefs \in [Files -> Nat] /\ FileSlots \in [Files -> Slots \cup {None}]
  BY DEF TypeOK, FileRefs, FileSlots
<1>7. Points \in [Procs \X Fds -> Files \cup {None}]
  BY DEF TypeOK, Points
<1> QED
  BY <1>1, <1>2, <1>3, <1>4, <1>5, <1>6, <1>7 DEF Views, TypeOK

\* Of each variable: its fields are kept with it, and follow a change of one record.
LEMMA KeepCall ==
  ASSUME call' = call
  PROVE  UNCHANGED <<Place, Doing, SlotOf, NameOf, KindOf>>
BY DEF Place, Doing, SlotOf, NameOf, KindOf

LEMMA SetCall ==
  ASSUME TypeOK, NEW p \in Procs, NEW c \in CallRecords, call' = [call EXCEPT ![p] = c]
  PROVE  /\ call' \in [Procs -> CallRecords]
         /\ Place' = [Place EXCEPT ![p] = c.at] /\ Doing' = [Doing EXCEPT ![p] = c.of]
         /\ SlotOf' = [SlotOf EXCEPT ![p] = c.slot] /\ NameOf' = [NameOf EXCEPT ![p] = c.name]
         /\ KindOf' = [KindOf EXCEPT ![p] = c.kind]
<1>1. call \in [Procs -> CallRecords]
  BY DEF TypeOK, CallRecords
<1>2. call' \in [Procs -> CallRecords] /\ \A q \in Procs : call'[q] = IF q = p THEN c ELSE call[q]
  BY <1>1
<1> QED
  BY <1>2 DEF Place, Doing, SlotOf, NameOf, KindOf

LEMMA KeepTable ==
  ASSUME table' = table
  PROVE  UNCHANGED <<Refs, Nums, Valids, CopyTypes, CopyLinks, Holders>>
BY DEF Refs, Nums, Valids, CopyTypes, CopyLinks, Holders

LEMMA SetEntry ==
  ASSUME TypeOK, NEW s \in Slots, NEW r \in TableEntries, table' = [table EXCEPT ![s] = r]
  PROVE  /\ table' \in [Slots -> TableEntries]
         /\ Refs' = [Refs EXCEPT ![s] = r.reference_count]
         /\ Nums' = [Nums EXCEPT ![s] = r.inode_number]
         /\ Valids' = [Valids EXCEPT ![s] = r.is_valid]
         /\ CopyTypes' = [CopyTypes EXCEPT ![s] = r.disk_inode.type]
         /\ CopyLinks' = [CopyLinks EXCEPT ![s] = r.disk_inode.link_count]
         /\ Holders' = [Holders EXCEPT ![s] = r.holder]
<1>1. table \in [Slots -> TableEntries]
  BY DEF TypeOK, InodeTypeOK, TableEntries
<1>2. table' \in [Slots -> TableEntries] /\ \A t \in Slots : table'[t] = IF t = s THEN r ELSE table[t]
  BY <1>1
<1>3. /\ Refs' = [Refs EXCEPT ![s] = r.reference_count]
      /\ Nums' = [Nums EXCEPT ![s] = r.inode_number]
      /\ Valids' = [Valids EXCEPT ![s] = r.is_valid]
  BY <1>2 DEF Refs, Nums, Valids
<1>4. /\ CopyTypes' = [CopyTypes EXCEPT ![s] = r.disk_inode.type]
      /\ CopyLinks' = [CopyLinks EXCEPT ![s] = r.disk_inode.link_count]
      /\ Holders' = [Holders EXCEPT ![s] = r.holder]
  BY <1>2 DEF CopyTypes, CopyLinks, Holders
<1> QED
  BY <1>2, <1>3, <1>4

LEMMA KeepDisk ==
  ASSUME disk' = disk
  PROVE  UNCHANGED <<DiskTypes, DiskLinks>>
BY DEF DiskTypes, DiskLinks

LEMMA SetDisk ==
  ASSUME TypeOK, NEW n \in Inums, NEW r \in DiskInodes, disk' = [disk EXCEPT ![n] = r]
  PROVE  /\ disk' \in [Inums -> DiskInodes]
         /\ DiskTypes' = [DiskTypes EXCEPT ![n] = r.type]
         /\ DiskLinks' = [DiskLinks EXCEPT ![n] = r.link_count]
<1>1. disk \in [Inums -> DiskInodes]
  BY DEF TypeOK, InodeTypeOK
<1>2. disk' \in [Inums -> DiskInodes] /\ \A m \in Inums : disk'[m] = IF m = n THEN r ELSE disk[m]
  BY <1>1
<1> QED
  BY <1>2 DEF DiskTypes, DiskLinks

LEMMA KeepFile ==
  ASSUME file' = file
  PROVE  UNCHANGED <<FileRefs, FileSlots>>
BY DEF FileRefs, FileSlots

LEMMA SetFile ==
  ASSUME TypeOK, NEW f \in Files, NEW r \in OpenRecords, file' = [file EXCEPT ![f] = r]
  PROVE  /\ file' \in [Files -> OpenRecords]
         /\ FileRefs' = [FileRefs EXCEPT ![f] = r.reference_count]
         /\ FileSlots' = [FileSlots EXCEPT ![f] = r.slot]
<1>1. file \in [Files -> OpenRecords]
  BY DEF TypeOK, OpenRecords
<1>2. file' \in [Files -> OpenRecords] /\ \A g \in Files : file'[g] = IF g = f THEN r ELSE file[g]
  BY <1>1
<1> QED
  BY <1>2 DEF FileRefs, FileSlots

LEMMA SetPoint ==
  ASSUME TypeOK, NEW p \in Procs, NEW d \in Fds, NEW f, f \in Files \/ f = None,
         openFiles' = [openFiles EXCEPT ![p][d] = f]
  PROVE  /\ openFiles' \in [Procs -> [Fds -> Files \cup {None}]]
         /\ \A q \in Procs, e \in Fds :
              openFiles'[q][e] = IF q = p /\ e = d THEN f ELSE openFiles[q][e]
         /\ Points' = [Points EXCEPT ![<<p, d>>] = f]
<1>1. openFiles \in [Procs -> [Fds -> Files \cup {None}]]
  BY DEF TypeOK
<1>2. /\ openFiles' \in [Procs -> [Fds -> Files \cup {None}]]
      /\ \A q \in Procs, e \in Fds :
           openFiles'[q][e] = IF q = p /\ e = d THEN f ELSE openFiles[q][e]
  BY <1>1
<1>3. ASSUME NEW u \in Procs \X Fds
      PROVE  openFiles'[u[1]][u[2]] = IF u = <<p, d>> THEN f ELSE openFiles[u[1]][u[2]]
  <2>1. PICK q \in Procs, e \in Fds : u = <<q, e>>
    OBVIOUS
  <2> QED
    BY <1>2, <2>1
<1> QED
  BY <1>2, <1>3 DEF Points

\* What the calls have in common: the entry of the table they use is referred to.
LEMMA Referring ==
  ASSUME Running
  PROVE  /\ \A p \in Procs : Place[p] # "idle" =>
              SlotOf[p] \in Slots /\ Refs[SlotOf[p]] > 0 /\ Nums[SlotOf[p]] \in Inums
         /\ \A p, q \in Procs : p # q /\ Place[p] # "idle" /\ SlotOf[p] = SlotOf[q] =>
              Refs[SlotOf[p]] >= 2
         /\ \A f \in Files : FileSlots[f] # None =>
              FileSlots[f] \in Slots /\ Refs[FileSlots[f]] > 0 /\ Nums[FileSlots[f]] \in Inums
         /\ \A p \in Procs, f \in Files : Place[p] # "idle" /\ FileSlots[f] = SlotOf[p] =>
              Refs[SlotOf[p]] >= 2
         /\ \A x \in Names : entry[x] # None => entry[x] \in Inums /\ DiskLinks[entry[x]] > 0
<1>1. Views /\ CallShape /\ SlotRefs /\ OneEntry /\ NameLinks
  BY ViewTypes DEF Running, Core, Counts, Calls, Table
<1>2. \A s \in Slots : /\ Count(FileSlots, s) \in Nat /\ Count(SlotOf, s) \in Nat
                       /\ Refs[s] = Count(FileSlots, s) + Count(SlotOf, s)
                       /\ \A f \in Files : FileSlots[f] = s => Count(FileSlots, s) > 0
                       /\ \A p \in Procs : SlotOf[p] = s => Count(SlotOf, s) > 0
  <2> TAKE s \in Slots
  <2>1. Count(FileSlots, s) \in Nat /\ (Count(FileSlots, s) = 0 => \A f \in Files : FileSlots[f] # s)
    <3>1. FileSlots \in [Files -> Slots \cup {None}] /\ IsFiniteSet(Files)
      BY <1>1, Constants DEF Views
    <3> QED
      BY <3>1, CountFacts, Zenon
  <2>2. Count(SlotOf, s) \in Nat /\ (Count(SlotOf, s) = 0 => \A p \in Procs : SlotOf[p] # s)
    <3>1. SlotOf \in [Procs -> Slots \cup {None}] /\ IsFiniteSet(Procs)
      BY <1>1, Constants DEF Views
    <3> QED
      BY <3>1, CountFacts, Zenon
  <2> QED
    BY <1>1, <2>1, <2>2 DEF SlotRefs
<1>3. \A p \in Procs : Place[p] # "idle" => SlotOf[p] \in Slots
  BY <1>1, Constants DEF CallShape, Views
<1>4. \A f \in Files : FileSlots[f] # None => FileSlots[f] \in Slots
  BY <1>1 DEF Views
<1>5. ASSUME NEW p \in Procs, NEW q \in Procs, p # q, Place[p] # "idle", SlotOf[p] = SlotOf[q]
      PROVE  Refs[SlotOf[p]] >= 2
  <2> PICK s \in Slots : s = SlotOf[p]
    BY <1>3, <1>5
  <2>1. /\ SlotOf \in [Procs -> Slots \cup {None}] /\ IsFiniteSet(Procs)
        /\ p # q /\ SlotOf[p] = s /\ SlotOf[q] = s
    BY <1>1, <1>5, Constants DEF Views
  <2>2. Count(SlotOf, s) >= 2
    BY ONLY <2>1, p \in Procs, q \in Procs, CountTwo
  <2> QED
    BY <1>2, <2>2
<1>6. ASSUME NEW x \in Names, entry[x] # None
      PROVE  entry[x] \in Inums /\ DiskLinks[entry[x]] > 0
  <2> PICK n \in Inums : n = entry[x]
    BY <1>1, <1>6 DEF Views
  <2>1. Count(entry, n) \in Nat /\ (Count(entry, n) = 0 => \A y \in Names : entry[y] # n)
    <3>1. entry \in [Names -> Inums \cup {None}] /\ IsFiniteSet(Names)
      BY <1>1, Constants DEF Views
    <3> QED
      BY <3>1, CountFacts, Zenon
  <2>2. Counted \in [Procs -> Inums \cup {None}]
    BY <1>1, <1>3, Constants DEF Views, Counted, HasCounted, CallShape
  <2>3. Count(Counted, n) \in Nat
    BY <2>2, Constants, CountFacts
  <2> QED
    BY <1>1, <2>1, <2>3 DEF NameLinks
<1>7. \A p \in Procs : Place[p] # "idle" =>
        SlotOf[p] \in Slots /\ Refs[SlotOf[p]] > 0 /\ Nums[SlotOf[p]] \in Inums
  BY <1>1, <1>2, <1>3 DEF OneEntry
<1>8. \A f \in Files : FileSlots[f] # None =>
        FileSlots[f] \in Slots /\ Refs[FileSlots[f]] > 0 /\ Nums[FileSlots[f]] \in Inums
  BY <1>1, <1>2, <1>4 DEF OneEntry
<1>9. \A p \in Procs, f \in Files : Place[p] # "idle" /\ FileSlots[f] = SlotOf[p] =>
        Refs[SlotOf[p]] >= 2
  BY <1>2, <1>3
<1> QED
  BY <1>5, <1>6, <1>7, <1>8, <1>9

\* A call, a file, a descriptor or a name changes what it counts for.
LEMMA SlotCounts ==
  ASSUME Views, NEW p \in Procs, NEW v, NEW g, g = [SlotOf EXCEPT ![p] = v], NEW t \in Slots
  PROVE  /\ Count(SlotOf, t) \in Nat
         /\ Count(g, t) = Count(SlotOf, t) - Is(SlotOf[p], t)
                                           + Is(v, t)
<1>1. SlotOf \in [Procs -> Slots \cup {None}] /\ IsFiniteSet(Procs)
  BY Constants DEF Views
<1>2. Count(SlotOf, t) \in Nat
  BY <1>1, CountFacts, Zenon
<1>3. DOMAIN SlotOf = Procs /\ IsFiniteSet(DOMAIN SlotOf) /\ p \in DOMAIN SlotOf
  BY <1>1
<1>4. Count([SlotOf EXCEPT ![p] = v], t) = Count(SlotOf, t) - Is(SlotOf[p], t) + Is(v, t)
  BY ONLY <1>3, CountExcept, Zenon
<1> QED
  BY <1>2, <1>4

LEMMA FileCounts ==
  ASSUME Views, NEW f \in Files, NEW v, NEW g, g = [FileSlots EXCEPT ![f] = v], NEW t \in Slots
  PROVE  /\ Count(FileSlots, t) \in Nat
         /\ Count(g, t) = Count(FileSlots, t) - Is(FileSlots[f], t)
                                              + Is(v, t)
<1>1. FileSlots \in [Files -> Slots \cup {None}] /\ IsFiniteSet(Files)
  BY Constants DEF Views
<1>2. Count(FileSlots, t) \in Nat
  BY <1>1, CountFacts, Zenon
<1>3. DOMAIN FileSlots = Files /\ IsFiniteSet(DOMAIN FileSlots) /\ f \in DOMAIN FileSlots
  BY <1>1
<1>4. Count([FileSlots EXCEPT ![f] = v], t) = Count(FileSlots, t) - Is(FileSlots[f], t) + Is(v, t)
  BY ONLY <1>3, CountExcept, Zenon
<1> QED
  BY <1>2, <1>4

LEMMA PointCounts ==
  ASSUME Views, NEW D, D = Procs \X Fds, NEW u \in D, NEW v,
         NEW g, g = [Points EXCEPT ![u] = v], NEW f \in Files
  PROVE  /\ Count(Points, f) \in Nat
         /\ Count(g, f) = Count(Points, f) - Is(Points[u], f)
                                           + Is(v, f)
<1>1. Points \in [D -> Files \cup {None}] /\ IsFiniteSet(D)
  BY Constants, FS_Product DEF Views
<1>2. Count(Points, f) \in Nat
  BY ONLY <1>1, CountFacts, Zenon
<1>3. IsFiniteSet(DOMAIN Points) /\ u \in DOMAIN Points
  BY <1>1
<1>4. Count([Points EXCEPT ![u] = v], f) = Count(Points, f) - Is(Points[u], f) + Is(v, f)
  BY ONLY <1>3, CountExcept, Zenon
<1> QED
  BY <1>2, <1>4

LEMMA EntryCounts ==
  ASSUME Views, NEW x \in Names, NEW v, NEW g, g = [entry EXCEPT ![x] = v], NEW n \in Inums
  PROVE  /\ Count(entry, n) \in Nat
         /\ Count(g, n) = Count(entry, n) - Is(entry[x], n)
                                          + Is(v, n)
<1>1. entry \in [Names -> Inums \cup {None}] /\ IsFiniteSet(Names)
  BY Constants DEF Views
<1>2. Count(entry, n) \in Nat
  BY <1>1, CountFacts, Zenon
<1>3. DOMAIN entry = Names /\ IsFiniteSet(DOMAIN entry) /\ x \in DOMAIN entry
  BY <1>1
<1>4. Count([entry EXCEPT ![x] = v], n) = Count(entry, n) - Is(entry[x], n) + Is(v, n)
  BY ONLY <1>3, CountExcept, Zenon
<1> QED
  BY <1>2, <1>4

\* A link is counted for an inode.
LEMMA CountedType == Running => Counted \in [Procs -> Inums \cup {None}]
<1> SUFFICES ASSUME Running PROVE Counted \in [Procs -> Inums \cup {None}]
  OBVIOUS
<1>1. Views /\ CallShape
  BY ViewTypes DEF Running, Core, Calls
<1>2. \A p \in Procs : Place[p] # "idle" => SlotOf[p] \in Slots
  BY <1>1, Constants DEF CallShape, Views
<1> QED
  BY <1>1, <1>2, Constants DEF Views, Counted, HasCounted, CallShape

LEMMA CountedCounts ==
  ASSUME Running, NEW p \in Procs, NEW v, NEW g, g = [Counted EXCEPT ![p] = v], NEW n \in Inums
  PROVE  /\ Count(Counted, n) \in Nat
         /\ Count(g, n) = Count(Counted, n) - Is(Counted[p], n)
                                            + Is(v, n)
<1>1. Counted \in [Procs -> Inums \cup {None}] /\ IsFiniteSet(Procs)
  BY Constants, CountedType
<1>2. Count(Counted, n) \in Nat
  BY <1>1, CountFacts, Zenon
<1>3. DOMAIN Counted = Procs /\ IsFiniteSet(DOMAIN Counted) /\ p \in DOMAIN Counted
  BY <1>1
<1>4. Count([Counted EXCEPT ![p] = v], n) = Count(Counted, n) - Is(Counted[p], n) + Is(v, n)
  BY ONLY <1>3, CountExcept, Zenon
<1> QED
  BY <1>2, <1>4

LEMMA NameTypeCounts ==
  ASSUME Views, NEW x \in Names, NEW v, NEW g, g = [NameTypes EXCEPT ![x] = v]
  PROVE  /\ Count(NameTypes, "directory") \in Nat
         /\ Count(g, "directory") =
              Count(NameTypes, "directory") - Is(NameTypes[x], "directory")
                                            + Is(v, "directory")
<1>1. NameTypes \in [Names -> {"free", "file", "directory"}] /\ IsFiniteSet(Names)
  BY Constants DEF Views, NameTypes
<1>2. Count(NameTypes, "directory") \in Nat
  BY <1>1, CountFacts, Zenon
<1>3. DOMAIN NameTypes = Names /\ IsFiniteSet(DOMAIN NameTypes) /\ x \in DOMAIN NameTypes
  BY <1>1
<1>4. Count([NameTypes EXCEPT ![x] = v], "directory") =
        Count(NameTypes, "directory") - Is(NameTypes[x], "directory") + Is(v, "directory")
  BY ONLY <1>3, CountExcept, Zenon
<1> QED
  BY <1>2, <1>4

\* The counts are numbers.
LEMMA CountTypes ==
  ASSUME Views
  PROVE  /\ \A s \in Slots : Count(FileSlots, s) \in Nat /\ Count(SlotOf, s) \in Nat
         /\ \A f \in Files : Count(Points, f) \in Nat
         /\ \A n \in Inums : Count(entry, n) \in Nat
<1>1. /\ FileSlots \in [Files -> Slots \cup {None}] /\ IsFiniteSet(Files)
      /\ SlotOf \in [Procs -> Slots \cup {None}] /\ IsFiniteSet(Procs)
      /\ Points \in [Procs \X Fds -> Files \cup {None}] /\ IsFiniteSet(Procs \X Fds)
      /\ entry \in [Names -> Inums \cup {None}] /\ IsFiniteSet(Names)
  BY Constants, FS_Product DEF Views
<1>2. \A s : Count(FileSlots, s) \in Nat
  BY <1>1, CountFacts, Zenon
<1>3. \A s : Count(SlotOf, s) \in Nat
  BY <1>1, CountFacts, Zenon
<1>4. \A f : Count(Points, f) \in Nat
  BY <1>1, CountFacts, Zenon
<1>5. \A n : Count(entry, n) \in Nat
  BY <1>1, CountFacts, Zenon
<1> QED
  BY <1>2, <1>3, <1>4, <1>5

\* The parts of the invariant, by name.
LEMMA Parts ==
  ASSUME Running
  PROVE  /\ Views /\ SlotRefs /\ DescriptorRefs /\ NameLinks /\ DirectoryLinks
         /\ CallShape /\ Unborn /\ RootHeld /\ FdsLeft /\ FileShape
         /\ HolderExact /\ OneEntry /\ CopyExact /\ BodyValid
         /\ FreeDisk /\ FreeRefs /\ Freeing /\ NewInode /\ UnlinkName /\ LinkedFile
BY ViewTypes DEF Running, Core, Counts, Calls, Table, Disk

-----------------------------------------------------------------------------
(* The steps, by what they do to the fields.                                *)

\* The counts do not change.
LEMMA KeepSlots ==
  ASSUME Running, UNCHANGED <<Refs, FileSlots, SlotOf>>
  PROVE  SlotRefs'
BY Parts DEF SlotRefs, Count

LEMMA KeepPoints ==
  ASSUME Running, UNCHANGED <<FileRefs, Points>>
  PROVE  DescriptorRefs'
BY Parts DEF DescriptorRefs, Count

LEMMA KeepLinks ==
  ASSUME Running, UNCHANGED <<DiskLinks, entry, Counted>>
  PROVE  NameLinks'
BY Parts DEF NameLinks, Count

LEMMA KeepDirectories ==
  ASSUME Running, UNCHANGED <<rootLinks, NameTypes>>
  PROVE  DirectoryLinks'
BY Parts DEF DirectoryLinks, Count

\* Each count follows the number that is kept for it.
LEMMA CallRefs ==
  ASSUME Running, NEW p \in Procs, NEW v, SlotOf' = [SlotOf EXCEPT ![p] = v],
         FileSlots' = FileSlots,
         \A t \in Slots : Refs'[t] = Refs[t] - Is(SlotOf[p], t) + Is(v, t)
  PROVE  SlotRefs'
<1> SUFFICES ASSUME NEW t \in Slots
             PROVE  Refs'[t] = Count(FileSlots', t) + Count(SlotOf', t)
  BY DEF SlotRefs
<1>1. Views /\ Refs[t] = Count(FileSlots, t) + Count(SlotOf, t)
  BY Parts DEF SlotRefs
<1>2. Count(FileSlots', t) = Count(FileSlots, t) /\ Count(FileSlots, t) \in Nat
  BY <1>1, CountTypes
<1> PICK g : g = SlotOf'
  OBVIOUS
<1>3. Views /\ g = [SlotOf EXCEPT ![p] = v]
  BY <1>1
<1>4. Count(SlotOf, t) \in Nat /\ Count(g, t) = Count(SlotOf, t) - Is(SlotOf[p], t) + Is(v, t)
  BY ONLY <1>3, p \in Procs, t \in Slots, SlotCounts, Zenon
<1>5. Is(SlotOf[p], t) \in Nat /\ Is(v, t) \in Nat
  BY DEF Is
<1> QED
  BY <1>1, <1>2, <1>4, <1>5

\* A reference passes from a call to a file, or back.
LEMMA FileAndCallRefs ==
  ASSUME Running, NEW p \in Procs, NEW f \in Files, Refs' = Refs,
         SlotOf' = [SlotOf EXCEPT ![p] = FileSlots[f]],
         FileSlots' = [FileSlots EXCEPT ![f] = SlotOf[p]]
  PROVE  SlotRefs'
<1> SUFFICES ASSUME NEW t \in Slots
             PROVE  Refs'[t] = Count(FileSlots', t) + Count(SlotOf', t)
  BY DEF SlotRefs
<1>1. Views /\ Refs[t] = Count(FileSlots, t) + Count(SlotOf, t)
  BY Parts DEF SlotRefs
<1> PICK g, h, v, w : g = SlotOf' /\ h = FileSlots' /\ v = FileSlots[f] /\ w = SlotOf[p]
  OBVIOUS
<1>2. Views /\ h = [FileSlots EXCEPT ![f] = w]
  BY <1>1
<1>3. Views /\ g = [SlotOf EXCEPT ![p] = v]
  BY <1>1
<1>4. Count(SlotOf, t) \in Nat /\ Count(g, t) = Count(SlotOf, t) - Is(SlotOf[p], t) + Is(v, t)
  BY ONLY <1>3, p \in Procs, t \in Slots, SlotCounts, Zenon
<1>5. Count(FileSlots, t) \in Nat /\ Count(h, t) = Count(FileSlots, t) - Is(FileSlots[f], t) + Is(w, t)
  BY ONLY <1>2, f \in Files, t \in Slots, FileCounts, Zenon
<1>6. Is(v, t) \in Nat /\ Is(w, t) \in Nat
  BY DEF Is
<1> QED
  BY <1>1, <1>4, <1>5, <1>6

LEMMA PointRefs ==
  ASSUME Running, NEW p \in Procs, NEW d \in Fds, NEW w, Points' = [Points EXCEPT ![<<p, d>>] = w],
         \A f \in Files : FileRefs'[f] = FileRefs[f] - Is(openFiles[p][d], f) + Is(w, f)
  PROVE  DescriptorRefs'
<1> SUFFICES ASSUME NEW f \in Files PROVE FileRefs'[f] = Count(Points', f)
  BY DEF DescriptorRefs
<1>1. Views /\ FileRefs[f] = Count(Points, f)
  BY Parts DEF DescriptorRefs
<1> PICK g : g = Points'
  OBVIOUS
<1> PICK D : D = Procs \X Fds
  OBVIOUS
<1> PICK u \in D : u = <<p, d>>
  OBVIOUS
<1>2. Views /\ D = Procs \X Fds /\ u \in D /\ g = [Points EXCEPT ![u] = w]
  BY <1>1
<1>3. Count(Points, f) \in Nat /\ Count(g, f) = Count(Points, f) - Is(Points[u], f) + Is(w, f)
  BY ONLY <1>2, f \in Files, PointCounts, Zenon
<1>4. Points[u] = openFiles[p][d]
  BY DEF Points
<1> QED
  BY <1>1, <1>3, <1>4

LEMMA EntryLinks ==
  ASSUME Running, NEW x \in Names, NEW v, entry' = [entry EXCEPT ![x] = v], Counted' = Counted,
         \A n \in Inums : DiskLinks'[n] = DiskLinks[n] - Is(entry[x], n) + Is(v, n)
  PROVE  NameLinks'
<1> SUFFICES ASSUME NEW n \in Inums
             PROVE  DiskLinks'[n] = Count(entry', n) + Count(Counted', n)
  BY DEF NameLinks
<1>1. Views /\ DiskLinks[n] = Count(entry, n) + Count(Counted, n)
  BY Parts DEF NameLinks
<1>2. Count(Counted', n) = Count(Counted, n) /\ Count(Counted, n) \in Nat
  <2>1. Counted \in [Procs -> Inums \cup {None}] /\ IsFiniteSet(Procs)
    BY CountedType, Constants
  <2>2. Count(Counted, n) \in Nat
    BY <2>1, CountFacts, Zenon
  <2> QED
    BY <2>2
<1> PICK g : g = entry'
  OBVIOUS
<1>3. Views /\ g = [entry EXCEPT ![x] = v]
  BY <1>1
<1>4. Count(entry, n) \in Nat /\ Count(g, n) = Count(entry, n) - Is(entry[x], n) + Is(v, n)
  BY ONLY <1>3, x \in Names, n \in Inums, EntryCounts, Zenon
<1>5. Is(entry[x], n) \in Nat /\ Is(v, n) \in Nat
  BY DEF Is
<1> QED
  BY <1>1, <1>2, <1>4, <1>5

LEMMA CountedLinks ==
  ASSUME Running, NEW p \in Procs, NEW v, Counted' = [Counted EXCEPT ![p] = v], entry' = entry,
         \A n \in Inums : DiskLinks'[n] = DiskLinks[n] - Is(Counted[p], n) + Is(v, n)
  PROVE  NameLinks'
<1> SUFFICES ASSUME NEW n \in Inums
             PROVE  DiskLinks'[n] = Count(entry', n) + Count(Counted', n)
  BY DEF NameLinks
<1>1. Views /\ DiskLinks[n] = Count(entry, n) + Count(Counted, n)
  BY Parts DEF NameLinks
<1>2. Count(entry', n) = Count(entry, n) /\ Count(entry, n) \in Nat
  BY <1>1, CountTypes
<1> PICK g : g = Counted'
  OBVIOUS
<1>3. Running /\ g = [Counted EXCEPT ![p] = v]
  OBVIOUS
<1>4. Count(Counted, n) \in Nat /\ Count(g, n) = Count(Counted, n) - Is(Counted[p], n) + Is(v, n)
  BY ONLY <1>3, p \in Procs, n \in Inums, CountedCounts, Zenon
<1>5. Is(Counted[p], n) \in Nat /\ Is(v, n) \in Nat
  BY DEF Is
<1> QED
  BY <1>1, <1>2, <1>4, <1>5

\* A link that was counted is entered.
LEMMA EntryAndCountedLinks ==
  ASSUME Running, NEW p \in Procs, NEW x \in Names,
         Counted' = [Counted EXCEPT ![p] = None], entry' = [entry EXCEPT ![x] = Counted[p]],
         entry[x] = None, DiskLinks' = DiskLinks
  PROVE  NameLinks'
<1> SUFFICES ASSUME NEW n \in Inums
             PROVE  DiskLinks'[n] = Count(entry', n) + Count(Counted', n)
  BY DEF NameLinks
<1>1. Views /\ DiskLinks[n] = Count(entry, n) + Count(Counted, n)
  BY Parts DEF NameLinks
<1> PICK g, h, m : g = Counted' /\ h = entry' /\ m = Counted[p]
  OBVIOUS
<1>2. Views /\ h = [entry EXCEPT ![x] = m]
  BY <1>1
<1>3. Running /\ g = [Counted EXCEPT ![p] = None]
  OBVIOUS
<1>4. Count(Counted, n) \in Nat /\ Count(g, n) = Count(Counted, n) - Is(Counted[p], n) + Is(None, n)
  BY ONLY <1>3, p \in Procs, n \in Inums, CountedCounts, Zenon
<1>5. Count(entry, n) \in Nat /\ Count(h, n) = Count(entry, n) - Is(entry[x], n) + Is(m, n)
  BY ONLY <1>2, x \in Names, n \in Inums, EntryCounts, Zenon
<1>6. Is(m, n) \in Nat /\ Is(None, n) = 0 /\ Is(entry[x], n) = 0
  BY Constants DEF Is
<1> QED
  BY <1>1, <1>4, <1>5, <1>6

LEMMA DirectoryNames ==
  ASSUME Running, NEW x \in Names, NEW v, NameTypes' = [NameTypes EXCEPT ![x] = v],
         rootLinks' = rootLinks - Is(NameTypes[x], "directory") + Is(v, "directory")
  PROVE  DirectoryLinks'
<1>1. Views /\ rootLinks = 1 + Count(NameTypes, "directory")
  BY Parts DEF DirectoryLinks
<1> PICK g : g = NameTypes'
  OBVIOUS
<1>2. Views /\ g = [NameTypes EXCEPT ![x] = v]
  BY <1>1
<1>3. /\ Count(NameTypes, "directory") \in Nat
      /\ Count(g, "directory") = Count(NameTypes, "directory") - Is(NameTypes[x], "directory")
                                                              + Is(v, "directory")
  BY ONLY <1>2, x \in Names, NameTypeCounts, Zenon
<1>4. Is(NameTypes[x], "directory") \in Nat /\ Is(v, "directory") \in Nat
  BY DEF Is
<1> QED
  BY <1>1, <1>3, <1>4 DEF DirectoryLinks

-----------------------------------------------------------------------------
(* The steps, by what they do to the fields.                                *)

\* The call has the inode's lock, and the copy is valid.
LEMMA LockCore ==
  ASSUME Running, NEW p \in Procs,
         NEW s \in Slots, s = SlotOf[p], NEW n, n = Nums[s],
         Place[p] = "lock", Holders[s] = NoProc,
         Place' = [Place EXCEPT ![p] = "body"], Holders' = [Holders EXCEPT ![s] = p],
         Valids' = [Valids EXCEPT ![s] = TRUE],
         CopyTypes' = [CopyTypes EXCEPT ![s] = DiskTypes[n]],
         CopyLinks' = [CopyLinks EXCEPT ![s] = DiskLinks[n]],
         UNCHANGED <<Doing, SlotOf, NameOf, KindOf, Refs, Nums, DiskTypes, DiskLinks, FileRefs,
                    FileSlots, Points, openFiles, entry, rootLinks, root, life>>
  PROVE  Core'
<1> USE Constants
<1>0. /\ Views /\ SlotRefs /\ DescriptorRefs /\ NameLinks /\ DirectoryLinks
      /\ CallShape /\ Unborn /\ RootHeld /\ FdsLeft /\ FileShape
      /\ HolderExact /\ OneEntry /\ CopyExact /\ BodyValid
      /\ FreeDisk /\ FreeRefs /\ Freeing /\ NewInode /\ UnlinkName /\ LinkedFile
  BY Parts
<1>1. NameTypes' = NameTypes
  BY DEF NameTypes
<1>2. SlotRefs' /\ DescriptorRefs' /\ DirectoryLinks'
  BY <1>1, KeepSlots, KeepPoints, KeepDirectories
<1>3. RootHeld' /\ FdsLeft' /\ FileShape' /\ OneEntry' /\ FreeDisk' /\ UnlinkName'
  BY <1>0 DEF RootHeld, FdsLeft, FileShape, OneEntry, FreeDisk, UnlinkName
<1>4. NameLinks'
  <2>1. \A q \in Procs : HasCounted(q)' <=> HasCounted(q)
    BY <1>0 DEF HasCounted, Views
  <2>2. Counted' = Counted
    BY <1>0, <2>1 DEF Counted, Views
  <2> QED
    BY <2>2, KeepLinks
<1>5. CallShape'
  BY <1>0 DEF CallShape, Views
<1>6. Unborn'
  BY <1>0 DEF Unborn, Views
<1>7. HolderExact'
  BY <1>0 DEF HolderExact, Holding, Views
<1>8. CopyExact'
  <2>1. ~BeingFreed(s) /\ DiskTypes[n] # "free"
    BY <1>0 DEF BeingFreed, HolderExact, Holding, FreeRefs, Views
  <2>2. \A t \in Slots : BeingFreed(t)' <=> BeingFreed(t)
    BY <1>0 DEF BeingFreed, Views
  <2> QED
    BY <1>0, <2>1, <2>2 DEF CopyExact, Views
<1>9. BodyValid'
  BY <1>0 DEF BodyValid, Views
<1>10. FreeRefs'
  BY <1>0 DEF FreeRefs, Views
<1>11. Freeing'
  BY <1>0 DEF Freeing, Views
<1>12. NewInode'
  BY <1>0 DEF NewInode, Views
<1>13. LinkedFile'
  BY <1>0 DEF LinkedFile, Views
<1> QED
  BY <1>2, <1>3, <1>4, <1>5, <1>6, <1>7, <1>8, <1>9, <1>10, <1>11, <1>12, <1>13 DEF Core,
     Counts, Calls, Table, Disk

\* The call gives up its reference and returns.
LEMMA DropCore ==
  ASSUME Running, NEW p \in Procs,
         NEW s \in Slots, s = SlotOf[p],
         Place[p] \in {"put", "drop"},
         Place' = [Place EXCEPT ![p] = "idle"], Doing' = [Doing EXCEPT ![p] = "none"],
         SlotOf' = [SlotOf EXCEPT ![p] = None],
         NameOf' = [NameOf EXCEPT ![p] = None], KindOf' = [KindOf EXCEPT ![p] = "none"],
         Refs' = [Refs EXCEPT ![s] = Refs[s] - 1],
         Refs[s] # 1 => UNCHANGED <<Nums, CopyTypes, CopyLinks>>,
         \A t \in Slots \ {s} : /\ Nums'[t] = Nums[t] /\ CopyTypes'[t] = CopyTypes[t]
                               /\ CopyLinks'[t] = CopyLinks[t],
         root' = IF root = p THEN NoProc ELSE root,
         UNCHANGED <<Valids, Holders, DiskTypes, DiskLinks, FileRefs, FileSlots, Points,
                    openFiles, entry, rootLinks, life>>
  PROVE  Core'
<1> USE Constants
<1>0. /\ Views /\ SlotRefs /\ DescriptorRefs /\ NameLinks /\ DirectoryLinks
      /\ CallShape /\ Unborn /\ RootHeld /\ FdsLeft /\ FileShape
      /\ HolderExact /\ OneEntry /\ CopyExact /\ BodyValid
      /\ FreeDisk /\ FreeRefs /\ Freeing /\ NewInode /\ UnlinkName /\ LinkedFile
  BY Parts
<1>1. /\ Refs[s] > 0
      /\ \A q \in Procs : q # p /\ SlotOf[q] = s => Refs[s] >= 2
      /\ \A f \in Files : FileSlots[f] = s => Refs[s] >= 2
      /\ \A q \in Procs : q # p /\ Place[q] # "idle" =>
           Nums'[SlotOf[q]] = Nums[SlotOf[q]] /\ SlotOf[q] \in Slots
      /\ \A f \in Files : FileSlots[f] # None =>
           Nums'[FileSlots[f]] = Nums[FileSlots[f]] /\ FileSlots[f] \in Slots
  <2>1. /\ Refs[s] > 0
        /\ \A q \in Procs : q # p /\ SlotOf[q] = s => Refs[s] >= 2
        /\ \A f \in Files : FileSlots[f] = s => Refs[s] >= 2
    BY Referring
  <2>2. /\ \A q \in Procs : Place[q] # "idle" => SlotOf[q] \in Slots
        /\ \A f \in Files : FileSlots[f] # None => FileSlots[f] \in Slots
    BY Referring
  <2>3. /\ \A q \in Procs : q # p /\ SlotOf[q] = s => Refs[s] # 1
        /\ \A f \in Files : FileSlots[f] = s => Refs[s] # 1
    BY <2>1
  <2>4. \A t \in Slots : t # s \/ Refs[s] # 1 => Nums'[t] = Nums[t]
    OBVIOUS
  <2> QED
    BY <2>1, <2>2, <2>3, <2>4, Zenon
<1>2. \A t \in Slots : Refs'[t] > 0 =>
        /\ Nums'[t] = Nums[t] /\ CopyTypes'[t] = CopyTypes[t] /\ CopyLinks'[t] = CopyLinks[t]
        /\ Refs[t] > 0
  BY <1>0, <1>1 DEF Views
<1>3. NameTypes' = NameTypes
  BY DEF NameTypes
<1>4. DescriptorRefs' /\ DirectoryLinks'
  BY <1>3, KeepPoints, KeepDirectories
<1>5. FileShape' /\ FreeDisk'
  BY <1>0 DEF FileShape, FreeDisk
<1>6. SlotRefs'
  <2>1. \A t \in Slots : Refs'[t] = Refs[t] - Is(SlotOf[p], t) + Is(None, t)
    BY <1>0 DEF Views, Is
  <2>2. FileSlots' = FileSlots /\ SlotOf' = [SlotOf EXCEPT ![p] = None]
    OBVIOUS
  <2> QED
    BY ONLY <2>1, <2>2, Running, p \in Procs, CallRefs, Zenon
<1>7. NameLinks'
  <2>1. \A q \in Procs : HasCounted(q)' <=> HasCounted(q)
    BY <1>0, <1>1, <1>2 DEF HasCounted, Views, CallShape
  <2>2. Counted' = Counted
    BY <1>0, <1>1, <1>2, <2>1 DEF Counted, Views, HasCounted, CallShape
  <2> QED
    BY <2>2, KeepLinks
<1>8. CallShape'
  BY <1>0, <1>1, <1>2 DEF CallShape, Views
<1>9. Unborn'
  BY <1>0, <1>1, <1>2 DEF Unborn, Views
<1>10. RootHeld'
  BY <1>0, <1>1, <1>2 DEF RootHeld, Views
<1>11. FdsLeft'
  BY <1>0, <1>1, <1>2 DEF FdsLeft, Views
<1>12. HolderExact'
  BY <1>0, <1>1, <1>2 DEF HolderExact, Holding, Views
<1>13. OneEntry'
  BY <1>0, <1>1, <1>2 DEF OneEntry, Views
<1>14. CopyExact'
  BY <1>0, <1>1, <1>2 DEF CopyExact, BeingFreed, Views
<1>15. BodyValid'
  BY <1>0, <1>1, <1>2 DEF BodyValid, Views
<1>16. FreeRefs'
  BY <1>0, <1>1, <1>2 DEF FreeRefs, Views
<1>17. Freeing'
  BY <1>0, <1>1, <1>2 DEF Freeing, Views
<1>18. NewInode'
  BY <1>0, <1>1, <1>2 DEF NewInode, CallShape, Views
<1>19. UnlinkName'
  BY <1>0, <1>1, <1>2 DEF UnlinkName, CallShape, Views
<1>20. LinkedFile'
  BY <1>0, <1>1, <1>2 DEF LinkedFile, Views
<1> QED
  BY <1>4, <1>5, <1>6, <1>7, <1>8, <1>9, <1>10, <1>11, <1>12, <1>13, <1>14, <1>15, <1>16,
     <1>17, <1>18, <1>19, <1>20 DEF Core, Counts, Calls, Table, Disk

\* The call gives up the inode's lock and goes on to put it.
LEMMA ReleaseCore ==
  ASSUME Running, NEW p \in Procs,
         NEW s \in Slots, s = SlotOf[p],
         Place[p] = "body", Doing[p] # "rollback",
         Place' = [Place EXCEPT ![p] = "put"], Doing' = [Doing EXCEPT ![p] = "none"],
         NameOf' = [NameOf EXCEPT ![p] = None], KindOf' = [KindOf EXCEPT ![p] = "none"],
         Holders' = [Holders EXCEPT ![s] = NoProc],
         UNCHANGED <<SlotOf, Refs, Nums, Valids, CopyTypes, CopyLinks, DiskTypes, DiskLinks,
                    FileRefs, FileSlots, Points, openFiles, entry, rootLinks, root,
                    life>>
  PROVE  Core'
<1> USE Constants
<1>0. /\ Views /\ SlotRefs /\ DescriptorRefs /\ NameLinks /\ DirectoryLinks
      /\ CallShape /\ Unborn /\ RootHeld /\ FdsLeft /\ FileShape
      /\ HolderExact /\ OneEntry /\ CopyExact /\ BodyValid
      /\ FreeDisk /\ FreeRefs /\ Freeing /\ NewInode /\ UnlinkName /\ LinkedFile
  BY Parts
<1>1. NameTypes' = NameTypes
  BY DEF NameTypes
<1>2. SlotRefs' /\ DescriptorRefs' /\ DirectoryLinks'
  BY <1>1, KeepSlots, KeepPoints, KeepDirectories
<1>3. FileShape' /\ OneEntry' /\ FreeDisk'
  BY <1>0 DEF FileShape, OneEntry, FreeDisk
<1>4. NameLinks'
  <2>1. \A q \in Procs : HasCounted(q)' <=> HasCounted(q)
    BY <1>0 DEF HasCounted, Views
  <2>2. Counted' = Counted
    BY <1>0, <2>1 DEF Counted, Views
  <2> QED
    BY <2>2, KeepLinks
<1>5. CallShape'
  BY <1>0 DEF CallShape, Views
<1>6. Unborn'
  BY <1>0 DEF Unborn, Views
<1>7. RootHeld'
  BY <1>0 DEF RootHeld, Views
<1>8. FdsLeft'
  BY <1>0 DEF FdsLeft, Views
<1>9. HolderExact'
  BY <1>0 DEF HolderExact, Holding, Views
<1>10. CopyExact'
  BY <1>0 DEF CopyExact, BeingFreed, Views
<1>11. BodyValid'
  BY <1>0 DEF BodyValid, Views
<1>12. FreeRefs'
  BY <1>0 DEF FreeRefs, Views
<1>13. Freeing'
  BY <1>0 DEF Freeing, Views
<1>14. NewInode'
  BY <1>0 DEF NewInode, Views
<1>15. UnlinkName'
  BY <1>0 DEF UnlinkName, Views
<1>16. LinkedFile'
  BY <1>0 DEF LinkedFile, Views
<1> QED
  BY <1>2, <1>3, <1>4, <1>5, <1>6, <1>7, <1>8, <1>9, <1>10, <1>11, <1>12, <1>13, <1>14, <1>15,
     <1>16 DEF Core, Counts, Calls, Table, Disk

\* create has found a file and goes on to open it.
LEMMA ReopenCore ==
  ASSUME Running, NEW p \in Procs,
         Place[p] = "body", Doing[p] = "create", KindOf[p] = "file",
         Doing' = [Doing EXCEPT ![p] = "open"], root' = NoProc,
         UNCHANGED <<Place, SlotOf, NameOf, KindOf, Refs, Nums, Valids, CopyTypes, CopyLinks,
                    Holders, DiskTypes, DiskLinks, FileRefs, FileSlots, Points,
                    openFiles, entry, rootLinks, life>>
  PROVE  Core'
<1> USE Constants
<1>0. /\ Views /\ SlotRefs /\ DescriptorRefs /\ NameLinks /\ DirectoryLinks
      /\ CallShape /\ Unborn /\ RootHeld /\ FdsLeft /\ FileShape
      /\ HolderExact /\ OneEntry /\ CopyExact /\ BodyValid
      /\ FreeDisk /\ FreeRefs /\ Freeing /\ NewInode /\ UnlinkName /\ LinkedFile
  BY Parts
<1>1. NameTypes' = NameTypes
  BY DEF NameTypes
<1>2. SlotRefs' /\ DescriptorRefs' /\ DirectoryLinks'
  BY <1>1, KeepSlots, KeepPoints, KeepDirectories
<1>3. Unborn' /\ FileShape' /\ HolderExact' /\ OneEntry' /\ CopyExact' /\ BodyValid' /\
      FreeDisk' /\ FreeRefs' /\ Freeing'
  BY <1>0 DEF Unborn, FileShape, HolderExact, Holding, OneEntry, CopyExact, BeingFreed,
              BodyValid, FreeDisk, FreeRefs, Freeing
<1>4. NameLinks'
  <2>1. \A q \in Procs : HasCounted(q)' <=> HasCounted(q)
    BY <1>0 DEF HasCounted, Views
  <2>2. Counted' = Counted
    BY <1>0, <2>1 DEF Counted, Views
  <2> QED
    BY <2>2, KeepLinks
<1>5. CallShape'
  BY <1>0 DEF CallShape, Views
<1>6. RootHeld'
  BY <1>0 DEF RootHeld, Views
<1>7. FdsLeft'
  BY <1>0 DEF FdsLeft, Views
<1>8. NewInode'
  BY <1>0 DEF NewInode, Views
<1>9. UnlinkName'
  BY <1>0 DEF UnlinkName, Views
<1>10. LinkedFile'
  BY <1>0 DEF LinkedFile, Views
<1> QED
  BY <1>2, <1>3, <1>4, <1>5, <1>6, <1>7, <1>8, <1>9, <1>10 DEF Core, Counts, Calls, Table, Disk

\* linkEntry has failed.
LEMMA ToRollbackCore ==
  ASSUME Running, NEW p \in Procs,
         Place[p] = "entry",
         Place' = [Place EXCEPT ![p] = "lock"], Doing' = [Doing EXCEPT ![p] = "rollback"],
         UNCHANGED <<SlotOf, NameOf, KindOf, Refs, Nums, Valids, CopyTypes, CopyLinks, Holders,
                    DiskTypes, DiskLinks, FileRefs, FileSlots, Points, openFiles,
                    entry, rootLinks, root, life>>
  PROVE  Core'
<1> USE Constants
<1>0. /\ Views /\ SlotRefs /\ DescriptorRefs /\ NameLinks /\ DirectoryLinks
      /\ CallShape /\ Unborn /\ RootHeld /\ FdsLeft /\ FileShape
      /\ HolderExact /\ OneEntry /\ CopyExact /\ BodyValid
      /\ FreeDisk /\ FreeRefs /\ Freeing /\ NewInode /\ UnlinkName /\ LinkedFile
  BY Parts
<1>1. NameTypes' = NameTypes
  BY DEF NameTypes
<1>2. SlotRefs' /\ DescriptorRefs' /\ DirectoryLinks'
  BY <1>1, KeepSlots, KeepPoints, KeepDirectories
<1>3. FileShape' /\ OneEntry' /\ FreeDisk'
  BY <1>0 DEF FileShape, OneEntry, FreeDisk
<1>4. NameLinks'
  <2>1. \A q \in Procs : HasCounted(q)' <=> HasCounted(q)
    BY <1>0 DEF HasCounted, Views, CallShape
  <2>2. Counted' = Counted
    BY <1>0, <2>1 DEF Counted, Views, HasCounted, CallShape
  <2> QED
    BY <2>2, KeepLinks
<1>5. CallShape'
  BY <1>0 DEF CallShape, Views
<1>6. Unborn'
  BY <1>0 DEF Unborn, Views
<1>7. RootHeld'
  BY <1>0 DEF RootHeld, Views
<1>8. FdsLeft'
  BY <1>0 DEF FdsLeft, Views
<1>9. HolderExact'
  BY <1>0 DEF HolderExact, Holding, Views
<1>10. CopyExact'
  BY <1>0 DEF CopyExact, BeingFreed, Views
<1>11. BodyValid'
  BY <1>0 DEF BodyValid, Views
<1>12. FreeRefs'
  BY <1>0 DEF FreeRefs, Views
<1>13. Freeing'
  BY <1>0 DEF Freeing, Views
<1>14. NewInode'
  BY <1>0 DEF NewInode, Views
<1>15. UnlinkName'
  BY <1>0 DEF UnlinkName, Views
<1>16. LinkedFile'
  BY <1>0 DEF LinkedFile, Views
<1> QED
  BY <1>2, <1>3, <1>4, <1>5, <1>6, <1>7, <1>8, <1>9, <1>10, <1>11, <1>12, <1>13, <1>14, <1>15,
     <1>16 DEF Core, Counts, Calls, Table, Disk

\* link has counted the new name.
LEMMA LinkCore ==
  ASSUME Running, NEW p \in Procs,
         NEW s \in Slots, s = SlotOf[p], NEW n, n = Nums[s],
         Place[p] = "body", Doing[p] = "link", DiskTypes[n] # "directory",
         Place' = [Place EXCEPT ![p] = "entry"], Holders' = [Holders EXCEPT ![s] = NoProc],
         CopyLinks' = [CopyLinks EXCEPT ![s] = DiskLinks[n] + 1],
         DiskLinks' = [DiskLinks EXCEPT ![n] = DiskLinks[n] + 1],
         UNCHANGED <<Doing, SlotOf, NameOf, KindOf, Refs, Nums, Valids, CopyTypes, DiskTypes,
                    FileRefs, FileSlots, Points, openFiles, entry, rootLinks, root,
                    life>>
  PROVE  Core'
<1> USE Constants
<1>0. /\ Views /\ SlotRefs /\ DescriptorRefs /\ NameLinks /\ DirectoryLinks
      /\ CallShape /\ Unborn /\ RootHeld /\ FdsLeft /\ FileShape
      /\ HolderExact /\ OneEntry /\ CopyExact /\ BodyValid
      /\ FreeDisk /\ FreeRefs /\ Freeing /\ NewInode /\ UnlinkName /\ LinkedFile
  BY Parts
<1>1. n \in Inums /\ Valids[s] /\ Refs[s] > 0
  BY <1>0, Referring DEF BodyValid
<1>2. /\ \A t \in Slots : Refs[t] > 0 /\ Nums[t] = n => t = s
      /\ \A q \in Procs : Place[q] # "idle" => SlotOf[q] \in Slots /\ Refs[SlotOf[q]] > 0
      /\ \A q \in Procs : Place[q] # "idle" /\ Nums[SlotOf[q]] = n => SlotOf[q] = s
  <2>1. \A t \in Slots : Refs[t] > 0 /\ Nums[t] = n => t = s
    BY <1>0, <1>1 DEF OneEntry
  <2>2. \A q \in Procs : Place[q] # "idle" => SlotOf[q] \in Slots /\ Refs[SlotOf[q]] > 0
    BY Referring
  <2> QED
    BY <2>1, <2>2
<1>3. /\ \A q \in Procs : SlotOf[q] = s => Place[q] \notin {"free", "freed"}
      /\ DiskTypes[n] # "free" /\ Place[p] # "idle"
  <2>1. \A q \in Procs : SlotOf[q] = s /\ q # p => Place[q] \notin Holding
    BY <1>0 DEF HolderExact, Holding
  <2>2. DiskTypes[n] # "free"
    BY <1>0 DEF FreeRefs, CallShape
  <2> QED
    BY <2>1, <2>2 DEF Holding
<1>4. \A q \in Procs : q # p /\ Doing[q] = "new" => SlotOf[q] # s /\ Nums[SlotOf[q]] # n
  <2>1. \A q \in Procs : q # p /\ Doing[q] = "new" => SlotOf[q] # s /\ Place[q] # "idle"
    BY <1>0 DEF NewInode, CallShape
  <2> QED
    BY <1>2, <2>1
<1>5. NameTypes' = NameTypes
  BY DEF NameTypes
<1>6. SlotRefs' /\ DescriptorRefs' /\ DirectoryLinks'
  BY <1>5, KeepSlots, KeepPoints, KeepDirectories
<1>7. RootHeld' /\ FdsLeft' /\ FileShape' /\ OneEntry' /\ UnlinkName'
  BY <1>0 DEF RootHeld, FdsLeft, FileShape, OneEntry, UnlinkName
<1>8. NameLinks'
  <2>0. \A q \in Procs : HasCounted(q)' <=> HasCounted(q) \/ q = p
    BY <1>0 DEF HasCounted, Views
  <2>1. Counted' = [Counted EXCEPT ![p] = n] /\ entry' = entry /\ Counted[p] = None
    <3>1. ~HasCounted(p)
      BY DEF HasCounted
    <3> QED
      BY <2>0, <3>1 DEF Counted
  <2>2. \A m \in Inums : DiskLinks'[m] = DiskLinks[m] - Is(Counted[p], m) + Is(n, m)
    BY <1>0, <2>1 DEF Views, Is
  <2> QED
    BY ONLY <2>1, <2>2, Running, p \in Procs, CountedLinks, Zenon
<1>9. CallShape'
  BY <1>0, <1>1, <1>2, <1>3, <1>4 DEF CallShape, Views
<1>10. Unborn'
  BY <1>0, <1>1, <1>2, <1>3, <1>4 DEF Unborn, Views
<1>11. HolderExact'
  BY <1>0, <1>1, <1>2, <1>3, <1>4 DEF HolderExact, Holding, Views
<1>12. CopyExact'
  <2>1. \A t \in Slots : BeingFreed(t)' <=> BeingFreed(t)
    BY <1>0 DEF BeingFreed, Views
  <2>2. \A t \in Slots : Refs[t] > 0 /\ t # s => Nums[t] # n
    BY <1>2
  <2> QED
    BY <1>0, <1>1, <1>3, <2>1, <2>2 DEF CopyExact, Views
<1>13. BodyValid'
  BY <1>0, <1>1, <1>2, <1>3, <1>4 DEF BodyValid, Views
<1>14. FreeDisk'
  BY <1>0, <1>1, <1>2, <1>3, <1>4 DEF FreeDisk, Views
<1>15. FreeRefs'
  BY <1>0, <1>1, <1>2, <1>3, <1>4 DEF FreeRefs, Views
<1>16. Freeing'
  BY <1>0, <1>1, <1>2, <1>3, <1>4 DEF Freeing, Views
<1>17. NewInode'
  BY <1>0, <1>1, <1>2, <1>3, <1>4 DEF NewInode, Views
<1>18. LinkedFile'
  BY <1>0, <1>1, <1>2, <1>3, <1>4 DEF LinkedFile, Views
<1> QED
  BY <1>6, <1>7, <1>8, <1>9, <1>10, <1>11, <1>12, <1>13, <1>14, <1>15, <1>16, <1>17, <1>18 DEF
     Core, Counts, Calls, Table, Disk

\* link has taken back what it counted.
LEMMA RollbackCore ==
  ASSUME Running, NEW p \in Procs,
         NEW s \in Slots, s = SlotOf[p], NEW n, n = Nums[s],
         Place[p] = "body", Doing[p] = "rollback", DiskLinks[n] > 0,
         Place' = [Place EXCEPT ![p] = "put"], Doing' = [Doing EXCEPT ![p] = "none"],
         NameOf' = [NameOf EXCEPT ![p] = None], KindOf' = [KindOf EXCEPT ![p] = "none"],
         Holders' = [Holders EXCEPT ![s] = NoProc],
         CopyLinks' = [CopyLinks EXCEPT ![s] = DiskLinks[n] - 1],
         DiskLinks' = [DiskLinks EXCEPT ![n] = DiskLinks[n] - 1],
         UNCHANGED <<SlotOf, Refs, Nums, Valids, CopyTypes, DiskTypes, FileRefs, FileSlots,
                    Points, openFiles, entry, rootLinks, root, life>>
  PROVE  Core'
<1> USE Constants
<1>0. /\ Views /\ SlotRefs /\ DescriptorRefs /\ NameLinks /\ DirectoryLinks
      /\ CallShape /\ Unborn /\ RootHeld /\ FdsLeft /\ FileShape
      /\ HolderExact /\ OneEntry /\ CopyExact /\ BodyValid
      /\ FreeDisk /\ FreeRefs /\ Freeing /\ NewInode /\ UnlinkName /\ LinkedFile
  BY Parts
<1>1. n \in Inums /\ Valids[s] /\ Refs[s] > 0
  BY <1>0, Referring DEF BodyValid
<1>2. /\ \A t \in Slots : Refs[t] > 0 /\ Nums[t] = n => t = s
      /\ \A q \in Procs : Place[q] # "idle" => SlotOf[q] \in Slots /\ Refs[SlotOf[q]] > 0
      /\ \A q \in Procs : Place[q] # "idle" /\ Nums[SlotOf[q]] = n => SlotOf[q] = s
  <2>1. \A t \in Slots : Refs[t] > 0 /\ Nums[t] = n => t = s
    BY <1>0, <1>1 DEF OneEntry
  <2>2. \A q \in Procs : Place[q] # "idle" => SlotOf[q] \in Slots /\ Refs[SlotOf[q]] > 0
    BY Referring
  <2> QED
    BY <2>1, <2>2
<1>3. /\ \A q \in Procs : SlotOf[q] = s => Place[q] \notin {"free", "freed"}
      /\ DiskTypes[n] # "free" /\ Place[p] # "idle"
  <2>1. \A q \in Procs : SlotOf[q] = s /\ q # p => Place[q] \notin Holding
    BY <1>0 DEF HolderExact, Holding
  <2>2. DiskTypes[n] # "free"
    BY <1>0 DEF FreeRefs, CallShape
  <2> QED
    BY <2>1, <2>2 DEF Holding
<1>4. \A q \in Procs : q # p /\ Doing[q] = "new" => SlotOf[q] # s /\ Nums[SlotOf[q]] # n
  <2>1. \A q \in Procs : q # p /\ Doing[q] = "new" => SlotOf[q] # s /\ Place[q] # "idle"
    BY <1>0 DEF NewInode, CallShape
  <2> QED
    BY <1>2, <2>1
<1>5. NameTypes' = NameTypes
  BY DEF NameTypes
<1>6. SlotRefs' /\ DescriptorRefs' /\ DirectoryLinks'
  BY <1>5, KeepSlots, KeepPoints, KeepDirectories
<1>7. FileShape' /\ OneEntry'
  BY <1>0 DEF FileShape, OneEntry
<1>8. NameLinks'
  <2>0. \A q \in Procs : HasCounted(q)' <=> HasCounted(q) /\ q # p
    BY <1>0 DEF HasCounted, Views
  <2>1. Counted' = [Counted EXCEPT ![p] = None] /\ entry' = entry /\ Counted[p] = n
    <3>1. HasCounted(p)
      BY DEF HasCounted
    <3> QED
      BY <2>0, <3>1 DEF Counted
  <2>2. \A m \in Inums : DiskLinks'[m] = DiskLinks[m] - Is(Counted[p], m) + Is(None, m)
    BY <1>0, <1>1, <2>1 DEF Views, Is
  <2> QED
    BY ONLY <2>1, <2>2, Running, p \in Procs, CountedLinks, Zenon
<1>9. CallShape'
  BY <1>0, <1>1, <1>2, <1>3, <1>4 DEF CallShape, Views
<1>10. Unborn'
  BY <1>0, <1>1, <1>2, <1>3, <1>4 DEF Unborn, Views
<1>11. RootHeld'
  BY <1>0, <1>1, <1>2, <1>3, <1>4 DEF RootHeld, Views
<1>12. FdsLeft'
  BY <1>0, <1>1, <1>2, <1>3, <1>4 DEF FdsLeft, Views
<1>13. HolderExact'
  BY <1>0, <1>1, <1>2, <1>3, <1>4 DEF HolderExact, Holding, Views
<1>14. CopyExact'
  <2>1. \A t \in Slots : BeingFreed(t)' <=> BeingFreed(t)
    BY <1>0 DEF BeingFreed, Views
  <2>2. \A t \in Slots : Refs[t] > 0 /\ t # s => Nums[t] # n
    BY <1>2
  <2> QED
    BY <1>0, <1>1, <1>3, <2>1, <2>2 DEF CopyExact, Views
<1>15. BodyValid'
  BY <1>0, <1>1, <1>2, <1>3, <1>4 DEF BodyValid, Views
<1>16. FreeDisk'
  BY <1>0, <1>1, <1>2, <1>3, <1>4 DEF FreeDisk, Views
<1>17. FreeRefs'
  BY <1>0, <1>1, <1>2, <1>3, <1>4 DEF FreeRefs, Views
<1>18. Freeing'
  BY <1>0, <1>1, <1>2, <1>3, <1>4 DEF Freeing, Views
<1>19. NewInode'
  BY <1>0, <1>1, <1>2, <1>3, <1>4 DEF NewInode, Views
<1>20. UnlinkName'
  BY <1>0, <1>1, <1>2, <1>3, <1>4 DEF UnlinkName, Views
<1>21. LinkedFile'
  BY <1>0, <1>1, <1>2, <1>3, <1>4 DEF LinkedFile, Views
<1> QED
  BY <1>6, <1>7, <1>8, <1>9, <1>10, <1>11, <1>12, <1>13, <1>14, <1>15, <1>16, <1>17, <1>18,
     <1>19, <1>20, <1>21 DEF Core, Counts, Calls, Table, Disk

\* link has entered the new name.
LEMMA LinkEntryCore ==
  ASSUME Running, NEW p \in Procs,
         NEW n, n = Nums[SlotOf[p]], NEW x \in Names,
         Place[p] = "entry", root = NoProc, entry[x] = None,
         Place' = [Place EXCEPT ![p] = "put"], Doing' = [Doing EXCEPT ![p] = "none"],
         NameOf' = [NameOf EXCEPT ![p] = None], KindOf' = [KindOf EXCEPT ![p] = "none"],
         entry' = [entry EXCEPT ![x] = n],
         UNCHANGED <<SlotOf, Refs, Nums, Valids, CopyTypes, CopyLinks, Holders, DiskTypes,
                    DiskLinks, FileRefs, FileSlots, Points, openFiles, rootLinks,
                    root, life>>
  PROVE  Core'
<1> USE Constants
<1>0. /\ Views /\ SlotRefs /\ DescriptorRefs /\ NameLinks /\ DirectoryLinks
      /\ CallShape /\ Unborn /\ RootHeld /\ FdsLeft /\ FileShape
      /\ HolderExact /\ OneEntry /\ CopyExact /\ BodyValid
      /\ FreeDisk /\ FreeRefs /\ Freeing /\ NewInode /\ UnlinkName /\ LinkedFile
  BY Parts
<1>1. n \in Inums /\ Doing[p] = "link" /\ DiskTypes[n] # "directory"
  BY <1>0, Referring DEF LinkedFile, CallShape
<1>2. \A q \in Procs : Doing[q] \notin {"create", "new", "unlink"}
  BY <1>0 DEF RootHeld
<1>3. SlotRefs' /\ DescriptorRefs'
  BY KeepSlots, KeepPoints
<1>4. FileShape' /\ OneEntry' /\ FreeDisk'
  BY <1>0 DEF FileShape, OneEntry, FreeDisk
<1>5. NameLinks'
  <2>0. \A q \in Procs : HasCounted(q)' <=> HasCounted(q) /\ q # p
    BY <1>0, <1>1 DEF HasCounted, Views
  <2>1. Counted' = [Counted EXCEPT ![p] = None] /\ Counted[p] = n
    <3>1. HasCounted(p)
      BY <1>1 DEF HasCounted
    <3> QED
      BY <2>0, <3>1 DEF Counted
  <2>2. DiskLinks' = DiskLinks /\ entry' = [entry EXCEPT ![x] = Counted[p]] /\ entry[x] = None
    BY <2>1
  <2> QED
    BY <2>1, <2>2, EntryAndCountedLinks
<1>6. DirectoryLinks'
  <2>1. NameTypes' = [NameTypes EXCEPT ![x] = DiskTypes[n]] /\ NameTypes[x] = "free"
    BY <1>0, <1>1 DEF NameTypes, Views
  <2>2. rootLinks' = rootLinks - Is(NameTypes[x], "directory") + Is(DiskTypes[n], "directory")
    <3>1. Is(NameTypes[x], "directory") = 0 /\ Is(DiskTypes[n], "directory") = 0
      BY <1>1, <2>1 DEF Is
    <3> QED
      BY <3>1 DEF Running, TypeOK
  <2> QED
    BY ONLY <2>1, <2>2, Running, x \in Names, DirectoryNames, Zenon
<1>7. CallShape'
  BY <1>0, <1>1, <1>2 DEF CallShape, Views
<1>8. Unborn'
  BY <1>0, <1>1, <1>2 DEF Unborn, Views
<1>9. RootHeld'
  BY <1>0, <1>1, <1>2 DEF RootHeld, Views
<1>10. FdsLeft'
  BY <1>0, <1>1, <1>2 DEF FdsLeft, Views
<1>11. HolderExact'
  BY <1>0, <1>1, <1>2 DEF HolderExact, Holding, Views
<1>12. CopyExact'
  BY <1>0, <1>1, <1>2 DEF CopyExact, BeingFreed, Views
<1>13. BodyValid'
  BY <1>0, <1>1, <1>2 DEF BodyValid, Views
<1>14. FreeRefs'
  BY <1>0, <1>1, <1>2 DEF FreeRefs, Views
<1>15. Freeing'
  BY <1>0, <1>1, <1>2 DEF Freeing, Views
<1>16. NewInode'
  BY <1>0, <1>1, <1>2 DEF NewInode, Views
<1>17. UnlinkName'
  BY <1>0, <1>1, <1>2 DEF UnlinkName, Views
<1>18. LinkedFile'
  BY <1>0, <1>1, <1>2 DEF LinkedFile, Views
<1> QED
  BY <1>3, <1>4, <1>5, <1>6, <1>7, <1>8, <1>9, <1>10, <1>11, <1>12, <1>13, <1>14, <1>15, <1>16,
     <1>17, <1>18 DEF Core, Counts, Calls, Table, Disk

\* create has made a file and goes on to open it.
LEMMA CreateFileCore ==
  ASSUME Running, NEW p \in Procs,
         NEW s \in Slots, s = SlotOf[p], NEW n, n = Nums[s], NEW x, x = NameOf[p],
         Place[p] = "body", Doing[p] = "new", KindOf[p] = "file",
         Doing' = [Doing EXCEPT ![p] = "open"], root' = NoProc,
         CopyLinks' = [CopyLinks EXCEPT ![s] = 1], DiskLinks' = [DiskLinks EXCEPT ![n] = 1],
         entry' = [entry EXCEPT ![x] = n],
         UNCHANGED <<Place, SlotOf, NameOf, KindOf, Refs, Nums, Valids, CopyTypes, Holders,
                    DiskTypes, FileRefs, FileSlots, Points, openFiles, rootLinks,
                    life>>
  PROVE  Core'
<1> USE Constants
<1>0. /\ Views /\ SlotRefs /\ DescriptorRefs /\ NameLinks /\ DirectoryLinks
      /\ CallShape /\ Unborn /\ RootHeld /\ FdsLeft /\ FileShape
      /\ HolderExact /\ OneEntry /\ CopyExact /\ BodyValid
      /\ FreeDisk /\ FreeRefs /\ Freeing /\ NewInode /\ UnlinkName /\ LinkedFile
  BY Parts
<1>1. n \in Inums /\ Valids[s] /\ Refs[s] > 0
  BY <1>0, Referring DEF BodyValid
<1>2. /\ \A t \in Slots : Refs[t] > 0 /\ Nums[t] = n => t = s
      /\ \A q \in Procs : Place[q] # "idle" => SlotOf[q] \in Slots /\ Refs[SlotOf[q]] > 0
      /\ \A q \in Procs : Place[q] # "idle" /\ Nums[SlotOf[q]] = n => SlotOf[q] = s
  <2>1. \A t \in Slots : Refs[t] > 0 /\ Nums[t] = n => t = s
    BY <1>0, <1>1 DEF OneEntry
  <2>2. \A q \in Procs : Place[q] # "idle" => SlotOf[q] \in Slots /\ Refs[SlotOf[q]] > 0
    BY Referring
  <2> QED
    BY <2>1, <2>2
<1>3. /\ \A q \in Procs : SlotOf[q] = s => Place[q] \notin {"free", "freed"}
      /\ DiskTypes[n] # "free" /\ Place[p] # "idle"
  <2>1. \A q \in Procs : SlotOf[q] = s /\ q # p => Place[q] \notin Holding
    BY <1>0 DEF HolderExact, Holding
  <2>2. DiskTypes[n] # "free"
    BY <1>0 DEF FreeRefs, CallShape
  <2> QED
    BY <2>1, <2>2 DEF Holding
<1>4. \A q \in Procs : q # p /\ Doing[q] = "new" => SlotOf[q] # s /\ Nums[SlotOf[q]] # n
  <2>1. \A q \in Procs : q # p /\ Doing[q] = "new" => SlotOf[q] # s /\ Place[q] # "idle"
    BY <1>0 DEF NewInode, CallShape
  <2> QED
    BY <1>2, <2>1
<1>5. /\ DiskTypes[n] = KindOf[p] /\ DiskLinks[n] = 0 /\ x \in Names /\ entry[x] = None
      /\ \A q \in Procs : q # p => Doing[q] \notin {"create", "new", "unlink"}
  BY <1>0 DEF NewInode, RootHeld, CallShape
<1>6. SlotRefs' /\ DescriptorRefs'
  BY KeepSlots, KeepPoints
<1>7. Unborn' /\ FileShape' /\ HolderExact' /\ OneEntry' /\ BodyValid' /\ FreeRefs'
  BY <1>0 DEF Unborn, FileShape, HolderExact, Holding, OneEntry, BodyValid, FreeRefs
<1>8. NameLinks'
  <2>0. \A q \in Procs : HasCounted(q)' <=> HasCounted(q)
    BY <1>0 DEF HasCounted, Views
  <2>1. Counted' = Counted /\ entry' = [entry EXCEPT ![x] = n]
    BY <2>0 DEF Counted
  <2>2. \A m \in Inums : DiskLinks'[m] = DiskLinks[m] - Is(entry[x], m) + Is(n, m)
    BY <1>0, <1>1, <1>5 DEF Views, Is
  <2> QED
    BY ONLY <2>1, <2>2, <1>5, Running, EntryLinks, Zenon
<1>9. DirectoryLinks'
  <2>0. /\ \A y \in Names : entry'[y] = IF y = x THEN entry'[x] ELSE entry[y]
        /\ n # None /\ DiskTypes' = DiskTypes
    BY <1>0, <1>1, <1>5 DEF Views
  <2>1. NameTypes' = [NameTypes EXCEPT ![x] = DiskTypes[n]] /\ NameTypes[x] = "free"
    BY <1>0, <1>5, <2>0 DEF NameTypes, Views
  <2>2. rootLinks' = rootLinks - Is(NameTypes[x], "directory") + Is(DiskTypes[n], "directory")
    <3>1. Is(NameTypes[x], "directory") = 0 /\ Is(DiskTypes[n], "directory") = 0
      BY <1>5, <2>1 DEF Is
    <3> QED
      BY <3>1 DEF Running, TypeOK
  <2> QED
    BY ONLY <2>1, <2>2, <1>5, Running, DirectoryNames, Zenon
<1>10. CallShape'
  BY <1>0, <1>1, <1>2, <1>3, <1>4, <1>5 DEF CallShape, Views
<1>11. RootHeld'
  BY <1>0, <1>1, <1>2, <1>3, <1>4, <1>5 DEF RootHeld, Views
<1>12. FdsLeft'
  BY <1>0, <1>1, <1>2, <1>3, <1>4, <1>5 DEF FdsLeft, Views
<1>13. CopyExact'
  <2>1. \A t \in Slots : BeingFreed(t)' <=> BeingFreed(t)
    BY <1>0 DEF BeingFreed, Views
  <2>2. \A t \in Slots : Refs[t] > 0 /\ t # s => Nums[t] # n
    BY <1>2
  <2> QED
    BY <1>0, <1>1, <1>3, <2>1, <2>2 DEF CopyExact, Views
<1>14. FreeDisk'
  BY <1>0, <1>1, <1>2, <1>3, <1>4, <1>5 DEF FreeDisk, Views
<1>15. Freeing'
  BY <1>0, <1>1, <1>2, <1>3, <1>4, <1>5 DEF Freeing, Views
<1>16. NewInode'
  BY <1>0, <1>1, <1>2, <1>3, <1>4, <1>5 DEF NewInode, Views
<1>17. UnlinkName'
  BY <1>0, <1>1, <1>2, <1>3, <1>4, <1>5 DEF UnlinkName, Views
<1>18. LinkedFile'
  BY <1>0, <1>1, <1>2, <1>3, <1>4, <1>5 DEF LinkedFile, Views
<1> QED
  BY <1>6, <1>7, <1>8, <1>9, <1>10, <1>11, <1>12, <1>13, <1>14, <1>15, <1>16, <1>17, <1>18 DEF
     Core, Counts, Calls, Table, Disk

\* create has made a directory and puts it.
LEMMA CreateDirectoryCore ==
  ASSUME Running, NEW p \in Procs,
         NEW s \in Slots, s = SlotOf[p], NEW n, n = Nums[s], NEW x, x = NameOf[p],
         Place[p] = "body", Doing[p] = "new", KindOf[p] = "directory",
         Place' = [Place EXCEPT ![p] = "put"], Doing' = [Doing EXCEPT ![p] = "none"],
         NameOf' = [NameOf EXCEPT ![p] = None], KindOf' = [KindOf EXCEPT ![p] = "none"],
         Holders' = [Holders EXCEPT ![s] = NoProc], root' = NoProc, rootLinks' = rootLinks + 1,
         CopyLinks' = [CopyLinks EXCEPT ![s] = 1], DiskLinks' = [DiskLinks EXCEPT ![n] = 1],
         entry' = [entry EXCEPT ![x] = n],
         UNCHANGED <<SlotOf, Refs, Nums, Valids, CopyTypes, DiskTypes, FileRefs, FileSlots,
                    Points, openFiles, life>>
  PROVE  Core'
<1> USE Constants
<1>0. /\ Views /\ SlotRefs /\ DescriptorRefs /\ NameLinks /\ DirectoryLinks
      /\ CallShape /\ Unborn /\ RootHeld /\ FdsLeft /\ FileShape
      /\ HolderExact /\ OneEntry /\ CopyExact /\ BodyValid
      /\ FreeDisk /\ FreeRefs /\ Freeing /\ NewInode /\ UnlinkName /\ LinkedFile
  BY Parts
<1>1. n \in Inums /\ Valids[s] /\ Refs[s] > 0
  BY <1>0, Referring DEF BodyValid
<1>2. /\ \A t \in Slots : Refs[t] > 0 /\ Nums[t] = n => t = s
      /\ \A q \in Procs : Place[q] # "idle" => SlotOf[q] \in Slots /\ Refs[SlotOf[q]] > 0
      /\ \A q \in Procs : Place[q] # "idle" /\ Nums[SlotOf[q]] = n => SlotOf[q] = s
  <2>1. \A t \in Slots : Refs[t] > 0 /\ Nums[t] = n => t = s
    BY <1>0, <1>1 DEF OneEntry
  <2>2. \A q \in Procs : Place[q] # "idle" => SlotOf[q] \in Slots /\ Refs[SlotOf[q]] > 0
    BY Referring
  <2> QED
    BY <2>1, <2>2
<1>3. /\ \A q \in Procs : SlotOf[q] = s => Place[q] \notin {"free", "freed"}
      /\ DiskTypes[n] # "free" /\ Place[p] # "idle"
  <2>1. \A q \in Procs : SlotOf[q] = s /\ q # p => Place[q] \notin Holding
    BY <1>0 DEF HolderExact, Holding
  <2>2. DiskTypes[n] # "free"
    BY <1>0 DEF FreeRefs, CallShape
  <2> QED
    BY <2>1, <2>2 DEF Holding
<1>4. \A q \in Procs : q # p /\ Doing[q] = "new" => SlotOf[q] # s /\ Nums[SlotOf[q]] # n
  <2>1. \A q \in Procs : q # p /\ Doing[q] = "new" => SlotOf[q] # s /\ Place[q] # "idle"
    BY <1>0 DEF NewInode, CallShape
  <2> QED
    BY <1>2, <2>1
<1>5. /\ DiskTypes[n] = KindOf[p] /\ DiskLinks[n] = 0 /\ x \in Names /\ entry[x] = None
      /\ \A q \in Procs : q # p => Doing[q] \notin {"create", "new", "unlink"}
  BY <1>0 DEF NewInode, RootHeld, CallShape
<1>6. SlotRefs' /\ DescriptorRefs'
  BY KeepSlots, KeepPoints
<1>7. FileShape' /\ OneEntry'
  BY <1>0 DEF FileShape, OneEntry
<1>8. NameLinks'
  <2>0. \A q \in Procs : HasCounted(q)' <=> HasCounted(q)
    BY <1>0 DEF HasCounted, Views
  <2>1. Counted' = Counted /\ entry' = [entry EXCEPT ![x] = n]
    BY <2>0 DEF Counted
  <2>2. \A m \in Inums : DiskLinks'[m] = DiskLinks[m] - Is(entry[x], m) + Is(n, m)
    BY <1>0, <1>1, <1>5 DEF Views, Is
  <2> QED
    BY ONLY <2>1, <2>2, <1>5, Running, EntryLinks, Zenon
<1>9. DirectoryLinks'
  <2>0. /\ \A y \in Names : entry'[y] = IF y = x THEN entry'[x] ELSE entry[y]
        /\ n # None /\ DiskTypes' = DiskTypes
    BY <1>0, <1>1, <1>5 DEF Views
  <2>1. NameTypes' = [NameTypes EXCEPT ![x] = DiskTypes[n]] /\ NameTypes[x] = "free"
    BY <1>0, <1>5, <2>0 DEF NameTypes, Views
  <2>2. rootLinks' = rootLinks - Is(NameTypes[x], "directory") + Is(DiskTypes[n], "directory")
    <3>1. Is(NameTypes[x], "directory") = 0 /\ Is(DiskTypes[n], "directory") = 1
      BY <1>5, <2>1 DEF Is
    <3> QED
      BY <3>1 DEF Running, TypeOK
  <2> QED
    BY ONLY <2>1, <2>2, <1>5, Running, DirectoryNames, Zenon
<1>10. CallShape'
  BY <1>0, <1>1, <1>2, <1>3, <1>4, <1>5 DEF CallShape, Views
<1>11. Unborn'
  BY <1>0, <1>1, <1>2, <1>3, <1>4, <1>5 DEF Unborn, Views
<1>12. RootHeld'
  BY <1>0, <1>1, <1>2, <1>3, <1>4, <1>5 DEF RootHeld, Views
<1>13. FdsLeft'
  BY <1>0, <1>1, <1>2, <1>3, <1>4, <1>5 DEF FdsLeft, Views
<1>14. HolderExact'
  BY <1>0, <1>1, <1>2, <1>3, <1>4, <1>5 DEF HolderExact, Holding, Views
<1>15. CopyExact'
  <2>1. \A t \in Slots : BeingFreed(t)' <=> BeingFreed(t)
    BY <1>0 DEF BeingFreed, Views
  <2>2. \A t \in Slots : Refs[t] > 0 /\ t # s => Nums[t] # n
    BY <1>2
  <2> QED
    BY <1>0, <1>1, <1>3, <2>1, <2>2 DEF CopyExact, Views
<1>16. BodyValid'
  BY <1>0, <1>1, <1>2, <1>3, <1>4, <1>5 DEF BodyValid, Views
<1>17. FreeDisk'
  BY <1>0, <1>1, <1>2, <1>3, <1>4, <1>5 DEF FreeDisk, Views
<1>18. FreeRefs'
  BY <1>0, <1>1, <1>2, <1>3, <1>4, <1>5 DEF FreeRefs, Views
<1>19. Freeing'
  BY <1>0, <1>1, <1>2, <1>3, <1>4, <1>5 DEF Freeing, Views
<1>20. NewInode'
  BY <1>0, <1>1, <1>2, <1>3, <1>4, <1>5 DEF NewInode, Views
<1>21. UnlinkName'
  BY <1>0, <1>1, <1>2, <1>3, <1>4, <1>5 DEF UnlinkName, Views
<1>22. LinkedFile'
  BY <1>0, <1>1, <1>2, <1>3, <1>4, <1>5 DEF LinkedFile, Views
<1> QED
  BY <1>6, <1>7, <1>8, <1>9, <1>10, <1>11, <1>12, <1>13, <1>14, <1>15, <1>16, <1>17, <1>18,
     <1>19, <1>20, <1>21, <1>22 DEF Core, Counts, Calls, Table, Disk

\* unlink has removed the name.
LEMMA UnlinkCore ==
  ASSUME Running, NEW p \in Procs,
         NEW s \in Slots, s = SlotOf[p], NEW n, n = Nums[s], NEW x, x = NameOf[p],
         Place[p] = "body", Doing[p] = "unlink",
         Place' = [Place EXCEPT ![p] = "put"], Doing' = [Doing EXCEPT ![p] = "none"],
         NameOf' = [NameOf EXCEPT ![p] = None], KindOf' = [KindOf EXCEPT ![p] = "none"],
         Holders' = [Holders EXCEPT ![s] = NoProc],
         rootLinks' = IF DiskTypes[n] = "directory" THEN rootLinks - 1 ELSE rootLinks,
         CopyLinks' = [CopyLinks EXCEPT ![s] = DiskLinks[n] - 1],
         DiskLinks' = [DiskLinks EXCEPT ![n] = DiskLinks[n] - 1],
         entry' = [entry EXCEPT ![x] = None],
         UNCHANGED <<SlotOf, Refs, Nums, Valids, CopyTypes, DiskTypes, FileRefs, FileSlots,
                    Points, openFiles, root, life>>
  PROVE  Core'
<1> USE Constants
<1>0. /\ Views /\ SlotRefs /\ DescriptorRefs /\ NameLinks /\ DirectoryLinks
      /\ CallShape /\ Unborn /\ RootHeld /\ FdsLeft /\ FileShape
      /\ HolderExact /\ OneEntry /\ CopyExact /\ BodyValid
      /\ FreeDisk /\ FreeRefs /\ Freeing /\ NewInode /\ UnlinkName /\ LinkedFile
  BY Parts
<1>1. n \in Inums /\ Valids[s] /\ Refs[s] > 0
  BY <1>0, Referring DEF BodyValid
<1>2. /\ \A t \in Slots : Refs[t] > 0 /\ Nums[t] = n => t = s
      /\ \A q \in Procs : Place[q] # "idle" => SlotOf[q] \in Slots /\ Refs[SlotOf[q]] > 0
      /\ \A q \in Procs : Place[q] # "idle" /\ Nums[SlotOf[q]] = n => SlotOf[q] = s
  <2>1. \A t \in Slots : Refs[t] > 0 /\ Nums[t] = n => t = s
    BY <1>0, <1>1 DEF OneEntry
  <2>2. \A q \in Procs : Place[q] # "idle" => SlotOf[q] \in Slots /\ Refs[SlotOf[q]] > 0
    BY Referring
  <2> QED
    BY <2>1, <2>2
<1>3. /\ \A q \in Procs : SlotOf[q] = s => Place[q] \notin {"free", "freed"}
      /\ DiskTypes[n] # "free" /\ Place[p] # "idle"
  <2>1. \A q \in Procs : SlotOf[q] = s /\ q # p => Place[q] \notin Holding
    BY <1>0 DEF HolderExact, Holding
  <2>2. DiskTypes[n] # "free"
    BY <1>0 DEF FreeRefs, CallShape
  <2> QED
    BY <2>1, <2>2 DEF Holding
<1>4. \A q \in Procs : q # p /\ Doing[q] = "new" => SlotOf[q] # s /\ Nums[SlotOf[q]] # n
  <2>1. \A q \in Procs : q # p /\ Doing[q] = "new" => SlotOf[q] # s /\ Place[q] # "idle"
    BY <1>0 DEF NewInode, CallShape
  <2> QED
    BY <1>2, <2>1
<1>5. /\ entry[x] = n /\ x \in Names
      /\ \A q \in Procs : q # p => Doing[q] \notin {"create", "new", "unlink"}
  BY <1>0 DEF UnlinkName, RootHeld, CallShape
<1>6. DiskLinks[n] \in Nat /\ DiskLinks[n] > 0
  BY <1>0, <1>1, <1>5, Referring DEF Views
<1>7. SlotRefs' /\ DescriptorRefs'
  BY KeepSlots, KeepPoints
<1>8. FileShape' /\ OneEntry'
  BY <1>0 DEF FileShape, OneEntry
<1>9. NameLinks'
  <2>0. \A q \in Procs : HasCounted(q)' <=> HasCounted(q)
    BY <1>0 DEF HasCounted, Views
  <2>1. Counted' = Counted /\ entry' = [entry EXCEPT ![x] = None]
    BY <2>0 DEF Counted
  <2>2. \A m \in Inums : DiskLinks'[m] = DiskLinks[m] - Is(entry[x], m) + Is(None, m)
    BY <1>0, <1>1, <1>5 DEF Views, Is
  <2> QED
    BY ONLY <2>1, <2>2, <1>5, Running, EntryLinks, Zenon
<1>10. DirectoryLinks'
  <2>0. /\ \A y \in Names : entry'[y] = IF y = x THEN entry'[x] ELSE entry[y]
        /\ n # None /\ DiskTypes' = DiskTypes
    BY <1>0, <1>1, <1>5 DEF Views
  <2>1. NameTypes' = [NameTypes EXCEPT ![x] = "free"] /\ NameTypes[x] = DiskTypes[n]
    BY <1>0, <1>5, <2>0 DEF NameTypes, Views
  <2>2. rootLinks' = rootLinks - Is(NameTypes[x], "directory") + Is("free", "directory")
    <3>1. Is(NameTypes[x], "directory") = (IF DiskTypes[n] = "directory" THEN 1 ELSE 0)
        /\ Is("free", "directory") = 0
      BY <1>5, <2>1 DEF Is
    <3> QED
      BY <3>1 DEF Running, TypeOK
  <2> QED
    BY ONLY <2>1, <2>2, <1>5, Running, DirectoryNames, Zenon
<1>11. CallShape'
  BY <1>0, <1>1, <1>2, <1>3, <1>4, <1>5, <1>6 DEF CallShape, Views
<1>12. Unborn'
  BY <1>0, <1>1, <1>2, <1>3, <1>4, <1>5, <1>6 DEF Unborn, Views
<1>13. RootHeld'
  BY <1>0, <1>1, <1>2, <1>3, <1>4, <1>5, <1>6 DEF RootHeld, Views
<1>14. FdsLeft'
  BY <1>0, <1>1, <1>2, <1>3, <1>4, <1>5, <1>6 DEF FdsLeft, Views
<1>15. HolderExact'
  BY <1>0, <1>1, <1>2, <1>3, <1>4, <1>5, <1>6 DEF HolderExact, Holding, Views
<1>16. CopyExact'
  <2>1. \A t \in Slots : BeingFreed(t)' <=> BeingFreed(t)
    BY <1>0 DEF BeingFreed, Views
  <2>2. \A t \in Slots : Refs[t] > 0 /\ t # s => Nums[t] # n
    BY <1>2
  <2> QED
    BY <1>0, <1>1, <1>3, <2>1, <2>2 DEF CopyExact, Views
<1>17. BodyValid'
  BY <1>0, <1>1, <1>2, <1>3, <1>4, <1>5, <1>6 DEF BodyValid, Views
<1>18. FreeDisk'
  BY <1>0, <1>1, <1>2, <1>3, <1>4, <1>5, <1>6 DEF FreeDisk, Views
<1>19. FreeRefs'
  BY <1>0, <1>1, <1>2, <1>3, <1>4, <1>5, <1>6 DEF FreeRefs, Views
<1>20. Freeing'
  BY <1>0, <1>1, <1>2, <1>3, <1>4, <1>5, <1>6 DEF Freeing, Views
<1>21. NewInode'
  BY <1>0, <1>1, <1>2, <1>3, <1>4, <1>5, <1>6 DEF NewInode, Views
<1>22. UnlinkName'
  BY <1>0, <1>1, <1>2, <1>3, <1>4, <1>5, <1>6 DEF UnlinkName, Views
<1>23. LinkedFile'
  BY <1>0, <1>1, <1>2, <1>3, <1>4, <1>5, <1>6 DEF LinkedFile, Views
<1> QED
  BY <1>7, <1>8, <1>9, <1>10, <1>11, <1>12, <1>13, <1>14, <1>15, <1>16, <1>17, <1>18, <1>19,
     <1>20, <1>21, <1>22, <1>23 DEF Core, Counts, Calls, Table, Disk

\* get has returned the inode of a name.
\* A call of p about name x gets entry s for its inode n, and is to wait for its lock.
FoundEffect(p, of, m, s, n, x, k) ==
  /\ p \in Procs
  /\ of \in {"open", "link", "create", "unlink"}
  /\ s \in Slots
  /\ n \in Inums
  /\ x \in Names
  /\ root = NoProc
  /\ Place[p] = "idle"
  /\ life[p] # "unused"
  /\ Refs[s] > 0 => Nums[s] = n
  /\ Refs[s] = 0 => \A t \in Slots : Refs[t] > 0 => Nums[t] # n
  /\ entry[x] = n
  /\ of # "open" => m \in Names
  /\ of = "unlink" => m = x
  /\ of = "create" => k \in Kinds
  /\ of = "open" \/ (of = "create" /\ k = "file") => \E d \in Fds : openFiles[p][d] = None
  /\ SlotOf' = [SlotOf EXCEPT ![p] = s]
  /\ Refs' = [Refs EXCEPT ![s] = Refs[s] + 1]
  /\ Nums' = [Nums EXCEPT ![s] = n]
  /\ Valids' = [Valids EXCEPT ![s] = Refs[s] > 0 /\ Valids[s]]
  /\ Place' = [Place EXCEPT ![p] = "lock"]
  /\ Doing' = [Doing EXCEPT ![p] = of]
  /\ NameOf' = [NameOf EXCEPT ![p] = m]
  /\ KindOf' = [KindOf EXCEPT ![p] = k]
  /\ root' = IF of \in {"create", "unlink"} THEN p ELSE root
  /\ UNCHANGED <<CopyTypes, CopyLinks, Holders, DiskTypes, DiskLinks, FileRefs, FileSlots,
                 Points, openFiles, entry, rootLinks, life>>

\* A lookup keeps the invariant.
LEMMA FoundCore ==
  ASSUME Running, NEW p, NEW of, NEW m, NEW s, NEW n, NEW x, NEW k,
         FoundEffect(p, of, m, s, n, x, k)
  PROVE  Core'
<1> USE Constants DEF FoundEffect
<1>0. /\ Views /\ SlotRefs /\ DescriptorRefs /\ NameLinks /\ DirectoryLinks
      /\ CallShape /\ Unborn /\ RootHeld /\ FdsLeft /\ FileShape
      /\ HolderExact /\ OneEntry /\ CopyExact /\ BodyValid
      /\ FreeDisk /\ FreeRefs /\ Freeing /\ NewInode /\ UnlinkName /\ LinkedFile
  BY Parts
<1>1. /\ SlotOf[p] = None /\ Doing[p] = "none" /\ Refs[s] \in Nat
      /\ \A q \in Procs : Doing[q] \notin {"create", "new", "unlink"}
  BY <1>0 DEF CallShape, RootHeld, Views
<1>2. /\ \A q \in Procs : Place[q] # "idle" => q # p /\ SlotOf[q] \in Slots /\ Refs[SlotOf[q]] > 0
                                              /\ Nums'[SlotOf[q]] = Nums[SlotOf[q]]
                                              /\ (Nums[SlotOf[q]] = n => SlotOf[q] = s)
      /\ \A f \in Files : FileSlots[f] # None =>
           /\ FileSlots[f] \in Slots /\ Refs[FileSlots[f]] > 0
           /\ Nums'[FileSlots[f]] = Nums[FileSlots[f]]
  <2>1. \A t \in Slots : Refs[t] > 0 => Nums'[t] = Nums[t] /\ (Nums[t] = n => t = s)
    BY <1>0, <1>1 DEF OneEntry, Views
  <2>2. /\ \A q \in Procs : Place[q] # "idle" => SlotOf[q] \in Slots /\ Refs[SlotOf[q]] > 0
        /\ \A f \in Files : FileSlots[f] # None => FileSlots[f] \in Slots /\ Refs[FileSlots[f]] > 0
    BY Referring
  <2> QED
    BY <2>1, <2>2
<1>3. DiskLinks[n] > 0 /\ DiskTypes[n] # "free"
  BY <1>0, Referring DEF FreeDisk, Views
<1>4. \A t \in Slots : /\ BeingFreed(t)' <=> BeingFreed(t)
                       /\ Refs[t] > 0 => Nums'[t] = Nums[t]
                       /\ Refs'[t] > 0 => Refs[t] > 0 \/ (t = s /\ Nums'[t] = n)
                       /\ Refs'[t] > 0 /\ Valids'[t] => Refs[t] > 0 /\ Valids[t]
  <2>1. \A t \in Slots : BeingFreed(t)' <=> BeingFreed(t)
    BY <1>0, <1>1 DEF BeingFreed, Views
  <2>2. \A t \in Slots : /\ Refs[t] > 0 => Nums'[t] = Nums[t]
                         /\ Refs'[t] > 0 => Refs[t] > 0 \/ (t = s /\ Nums'[t] = n)
    BY <1>0, <1>1 DEF Views
  <2>3. \A t \in Slots : Refs'[t] > 0 /\ Valids'[t] => Refs[t] > 0 /\ Valids[t]
    <3>1. \A t \in Slots : t # s => Refs'[t] = Refs[t] /\ Valids'[t] = Valids[t]
      BY <1>0 DEF Views
    <3>2. Valids'[s] = (Refs[s] > 0 /\ Valids[s])
      BY <1>0 DEF Views
    <3> QED
      BY <3>1, <3>2
  <2> QED
    BY <2>1, <2>2, <2>3
<1>5. NameTypes' = NameTypes
  BY DEF NameTypes
<1>6. DescriptorRefs' /\ DirectoryLinks'
  BY <1>5, KeepPoints, KeepDirectories
<1>7. FileShape' /\ FreeDisk'
  BY <1>0 DEF FileShape, FreeDisk
<1>8. SlotRefs'
  <2>0. /\ SlotOf[p] = None /\ None \notin Slots /\ s \in Slots /\ Refs \in [Slots -> Nat]
        /\ Refs' = [Refs EXCEPT ![s] = Refs[s] + 1]
    BY <1>0, <1>1 DEF Views
  <2>1. \A t \in Slots : Refs'[t] = Refs[t] - Is(SlotOf[p], t) + Is(s, t)
    BY ONLY <2>0 DEF Is
  <2>2. FileSlots' = FileSlots /\ SlotOf' = [SlotOf EXCEPT ![p] = s]
    OBVIOUS
  <2> QED
    BY ONLY <2>1, <2>2, Running, p \in Procs, CallRefs, Zenon
<1>9. NameLinks'
  <2>0. \A q \in Procs : HasCounted(q)' <=> HasCounted(q)
    BY <1>0, <1>1 DEF HasCounted, Views
  <2>1. Counted' = Counted
    <3>1. \A q \in Procs : HasCounted(q) => q # p /\ Place[q] # "idle"
      BY <1>1 DEF HasCounted
    <3> QED
      BY <1>2, <2>0, <3>1 DEF Counted
  <2> QED
    BY <2>1, KeepLinks
<1>10. CallShape'
  BY <1>0, <1>1, <1>2, <1>3 DEF CallShape, Views
<1>11. Unborn'
  BY <1>0, <1>1, <1>2, <1>3 DEF Unborn, Views
<1>12. RootHeld'
  BY <1>0, <1>1, <1>2, <1>3 DEF RootHeld, Views
<1>13. FdsLeft'
  BY <1>0, <1>1, <1>2, <1>3 DEF FdsLeft, Views
<1>14. HolderExact'
  BY <1>0, <1>1, <1>2, <1>3 DEF HolderExact, Holding, Views
<1>15. OneEntry'
  BY <1>0, <1>1, <1>2, <1>3 DEF OneEntry, Views
<1>16. CopyExact'
  BY <1>0, <1>4 DEF CopyExact
<1>17. BodyValid'
  BY <1>0, <1>1, <1>2, <1>3 DEF BodyValid, Views
<1>18. FreeRefs'
  BY <1>0, <1>1, <1>2, <1>3 DEF FreeRefs, Views
<1>19. Freeing'
  BY <1>0, <1>1, <1>2, <1>3 DEF Freeing, Views
<1>20. NewInode'
  BY <1>0, <1>1, <1>2, <1>3 DEF NewInode, Views
<1>21. UnlinkName'
  BY <1>0, <1>1, <1>2, <1>3 DEF UnlinkName, Views
<1>22. LinkedFile'
  BY <1>0, <1>1, <1>2, <1>3 DEF LinkedFile, Views
<1> QED
  BY <1>6, <1>7, <1>8, <1>9, <1>10, <1>11, <1>12, <1>13, <1>14, <1>15, <1>16, <1>17, <1>18,
     <1>19, <1>20, <1>21, <1>22 DEF Core, Counts, Calls, Table, Disk

\* get has returned the inode that alloc has found.
\* create by p of name x allocates inode n and gets entry s for it.
AllocEffect(p, s, n, x, k) ==
  /\ p \in Procs
  /\ s \in Slots
  /\ n \in Inums
  /\ x \in Names
  /\ root = NoProc
  /\ Place[p] = "idle"
  /\ life[p] # "unused"
  /\ Refs[s] > 0 => Nums[s] = n
  /\ Refs[s] = 0 => \A t \in Slots : Refs[t] > 0 => Nums[t] # n
  /\ k \in Kinds
  /\ entry[x] = None
  /\ DiskTypes[n] = "free"
  /\ k = "file" => \E d \in Fds : openFiles[p][d] = None
  /\ SlotOf' = [SlotOf EXCEPT ![p] = s]
  /\ Refs' = [Refs EXCEPT ![s] = Refs[s] + 1]
  /\ Nums' = [Nums EXCEPT ![s] = n]
  /\ Valids' = [Valids EXCEPT ![s] = Refs[s] > 0 /\ Valids[s]]
  /\ Place' = [Place EXCEPT ![p] = "lock"]
  /\ Doing' = [Doing EXCEPT ![p] = "new"]
  /\ NameOf' = [NameOf EXCEPT ![p] = x]
  /\ KindOf' = [KindOf EXCEPT ![p] = k]
  /\ DiskTypes' = [DiskTypes EXCEPT ![n] = k]
  /\ DiskLinks' = [DiskLinks EXCEPT ![n] = 0]
  /\ root' = p
  /\ UNCHANGED <<CopyTypes, CopyLinks, Holders, FileRefs, FileSlots, Points, openFiles, entry,
                 rootLinks, life>>

\* So does an allocation.
LEMMA AllocCore ==
  ASSUME Running, NEW p, NEW s, NEW n, NEW x, NEW k,
         AllocEffect(p, s, n, x, k)
  PROVE  Core'
<1> USE Constants DEF AllocEffect
<1>0. /\ Views /\ SlotRefs /\ DescriptorRefs /\ NameLinks /\ DirectoryLinks
      /\ CallShape /\ Unborn /\ RootHeld /\ FdsLeft /\ FileShape
      /\ HolderExact /\ OneEntry /\ CopyExact /\ BodyValid
      /\ FreeDisk /\ FreeRefs /\ Freeing /\ NewInode /\ UnlinkName /\ LinkedFile
  BY Parts
<1>1. /\ SlotOf[p] = None /\ Doing[p] = "none" /\ Refs[s] \in Nat
      /\ \A q \in Procs : Doing[q] \notin {"create", "new", "unlink"}
  BY <1>0 DEF CallShape, RootHeld, Views
<1>2. /\ \A q \in Procs : Place[q] # "idle" => q # p /\ SlotOf[q] \in Slots /\ Refs[SlotOf[q]] > 0
                                              /\ Nums'[SlotOf[q]] = Nums[SlotOf[q]]
                                              /\ (Nums[SlotOf[q]] = n => SlotOf[q] = s)
      /\ \A f \in Files : FileSlots[f] # None =>
           /\ FileSlots[f] \in Slots /\ Refs[FileSlots[f]] > 0
           /\ Nums'[FileSlots[f]] = Nums[FileSlots[f]]
  <2>1. \A t \in Slots : Refs[t] > 0 => Nums'[t] = Nums[t] /\ (Nums[t] = n => t = s)
    BY <1>0, <1>1 DEF OneEntry, Views
  <2>2. /\ \A q \in Procs : Place[q] # "idle" => SlotOf[q] \in Slots /\ Refs[SlotOf[q]] > 0
        /\ \A f \in Files : FileSlots[f] # None => FileSlots[f] \in Slots /\ Refs[FileSlots[f]] > 0
    BY Referring
  <2> QED
    BY <2>1, <2>2
<1>3. /\ DiskLinks[n] = 0 /\ DiskLinks' = DiskLinks
      /\ \A y \in Names : entry[y] # n /\ (entry[y] # None => entry[y] \in Inums)
      /\ k \in {"file", "directory"}
  <2>1. DiskLinks[n] = 0 /\ DiskLinks' = DiskLinks
    BY <1>0 DEF FreeDisk, Views
  <2>2. \A y \in Names : entry[y] # None => entry[y] \in Inums /\ DiskLinks[entry[y]] > 0
    BY Referring
  <2> QED
    BY <2>1, <2>2
<1>4. /\ \A q \in Procs : Place[q] # "idle" /\ (Nums[SlotOf[q]] = n \/ SlotOf[q] = s) =>
           Place[q] \in {"freed", "drop"} /\ Nums[SlotOf[q]] = n /\ SlotOf[q] = s
      /\ \A f \in Files : FileSlots[f] # None => FileSlots[f] # s /\ Nums[FileSlots[f]] # n
  BY <1>0, <1>2 DEF FreeRefs
<1>5. \A t \in Slots : /\ BeingFreed(t)' <=> BeingFreed(t)
                       /\ Refs[t] > 0 => Nums'[t] = Nums[t]
                       /\ Refs'[t] > 0 => Refs[t] > 0 \/ (t = s /\ Nums'[t] = n)
                       /\ Refs'[t] > 0 /\ Valids'[t] => Refs[t] > 0 /\ Valids[t]
  <2>1. \A t \in Slots : BeingFreed(t)' <=> BeingFreed(t)
    BY <1>0, <1>1 DEF BeingFreed, Views
  <2>2. \A t \in Slots : /\ Refs[t] > 0 => Nums'[t] = Nums[t]
                         /\ Refs'[t] > 0 => Refs[t] > 0 \/ (t = s /\ Nums'[t] = n)
    BY <1>0, <1>1 DEF Views
  <2>3. \A t \in Slots : Refs'[t] > 0 /\ Valids'[t] => Refs[t] > 0 /\ Valids[t]
    <3>1. \A t \in Slots : t # s => Refs'[t] = Refs[t] /\ Valids'[t] = Valids[t]
      BY <1>0 DEF Views
    <3>2. Valids'[s] = (Refs[s] > 0 /\ Valids[s])
      BY <1>0 DEF Views
    <3> QED
      BY <3>1, <3>2
  <2> QED
    BY <2>1, <2>2, <2>3
<1>6. DescriptorRefs'
  BY KeepPoints
<1>7. FileShape'
  BY <1>0 DEF FileShape
<1>8. SlotRefs'
  <2>0. /\ SlotOf[p] = None /\ None \notin Slots /\ s \in Slots /\ Refs \in [Slots -> Nat]
        /\ Refs' = [Refs EXCEPT ![s] = Refs[s] + 1]
    BY <1>0, <1>1 DEF Views
  <2>1. \A t \in Slots : Refs'[t] = Refs[t] - Is(SlotOf[p], t) + Is(s, t)
    BY ONLY <2>0 DEF Is
  <2>2. FileSlots' = FileSlots /\ SlotOf' = [SlotOf EXCEPT ![p] = s]
    OBVIOUS
  <2> QED
    BY ONLY <2>1, <2>2, Running, p \in Procs, CallRefs, Zenon
<1>9. NameLinks'
  <2>0. \A q \in Procs : HasCounted(q)' <=> HasCounted(q)
    BY <1>0, <1>1 DEF HasCounted, Views
  <2>1. Counted' = Counted
    <3>1. \A q \in Procs : HasCounted(q) => q # p /\ Place[q] # "idle"
      BY <1>1 DEF HasCounted
    <3> QED
      BY <1>2, <2>0, <3>1 DEF Counted
  <2> QED
    BY <1>3, <2>1, KeepLinks
<1>10. DirectoryLinks'
  <2>1. NameTypes' = NameTypes
    BY <1>0, <1>3 DEF NameTypes, Views
  <2> QED
    BY <2>1, KeepDirectories
<1>11. CallShape'
  BY <1>0, <1>1, <1>2, <1>3, <1>4 DEF CallShape, Views
<1>12. Unborn'
  BY <1>0, <1>1, <1>2, <1>3, <1>4 DEF Unborn, Views
<1>13. RootHeld'
  BY <1>0, <1>1, <1>2, <1>3, <1>4 DEF RootHeld, Views
<1>14. FdsLeft'
  BY <1>0, <1>1, <1>2, <1>3, <1>4 DEF FdsLeft, Views
<1>15. HolderExact'
  BY <1>0, <1>1, <1>2, <1>3, <1>4 DEF HolderExact, Holding, Views
<1>16. OneEntry'
  BY <1>0, <1>1, <1>2, <1>3, <1>4 DEF OneEntry, Views
<1>17. CopyExact'
  BY <1>0, <1>3, <1>5 DEF CopyExact, OneEntry, Views
<1>18. BodyValid'
  BY <1>0, <1>1, <1>2, <1>3, <1>4 DEF BodyValid, Views
<1>19. FreeDisk'
  BY <1>0, <1>1, <1>2, <1>3, <1>4 DEF FreeDisk, Views
<1>20. FreeRefs'
  BY <1>0, <1>1, <1>2, <1>3, <1>4 DEF FreeRefs, Views
<1>21. Freeing'
  BY <1>0, <1>1, <1>2, <1>3, <1>4 DEF Freeing, Views
<1>22. NewInode'
  <2> SUFFICES ASSUME NEW q \in Procs, Doing'[q] = "new"
               PROVE  /\ DiskTypes'[Nums'[SlotOf'[q]]] = KindOf'[q] /\ DiskLinks'[Nums'[SlotOf'[q]]] = 0
                      /\ entry'[NameOf'[q]] = None
                      /\ \A r \in Procs :
                           r # q /\ SlotOf'[r] = SlotOf'[q] => Place'[r] \in {"freed", "drop"}
                      /\ \A f \in Files : FileSlots'[f] # SlotOf'[q]
    BY DEF NewInode
  <2>1. q = p
    BY <1>0, <1>1 DEF Views
  <2>2. SlotOf'[q] = s /\ Nums'[s] = n /\ KindOf'[q] = k /\ NameOf'[q] = x /\ DiskTypes'[n] = k
    BY <1>0, <2>1 DEF Views
  <2>3. \A r \in Procs : r # q => SlotOf'[r] = SlotOf[r] /\ Place'[r] = Place[r]
    BY <1>0, <2>1 DEF Views
  <2>4. \A r \in Procs : SlotOf[r] = s => Place[r] # "idle"
    BY <1>0 DEF CallShape
  <2> QED
    BY <1>3, <1>4, <2>2, <2>3, <2>4
<1>23. UnlinkName'
  BY <1>0, <1>1, <1>2, <1>3, <1>4 DEF UnlinkName, Views
<1>24. LinkedFile'
  BY <1>0, <1>1, <1>2, <1>3, <1>4 DEF LinkedFile, Views
<1> QED
  BY <1>6, <1>7, <1>8, <1>9, <1>10, <1>11, <1>12, <1>13, <1>14, <1>15, <1>16, <1>17, <1>18,
     <1>19, <1>20, <1>21, <1>22, <1>23, <1>24 DEF Core, Counts, Calls, Table, Disk

\* put has found that nobody else refers to the inode, which has no links.
LEMMA BeginFreeCore ==
  ASSUME Running, NEW p \in Procs,
         NEW s \in Slots, s = SlotOf[p], NEW n, n = Nums[s],
         Place[p] = "put", Refs[s] = 1, Valids[s], CopyLinks[s] = 0, Holders[s] = NoProc,
         Place' = [Place EXCEPT ![p] = "free"], Holders' = [Holders EXCEPT ![s] = p],
         UNCHANGED <<Doing, SlotOf, NameOf, KindOf, Refs, Nums, Valids, CopyTypes, CopyLinks,
                    DiskTypes, DiskLinks, FileRefs, FileSlots, Points, openFiles,
                    entry, rootLinks, root, life>>
  PROVE  Core'
<1> USE Constants
<1>0. /\ Views /\ SlotRefs /\ DescriptorRefs /\ NameLinks /\ DirectoryLinks
      /\ CallShape /\ Unborn /\ RootHeld /\ FdsLeft /\ FileShape
      /\ HolderExact /\ OneEntry /\ CopyExact /\ BodyValid
      /\ FreeDisk /\ FreeRefs /\ Freeing /\ NewInode /\ UnlinkName /\ LinkedFile
  BY Parts
<1>1. DiskLinks[n] = 0 /\ DiskTypes[n] # "free" /\ ~BeingFreed(s)
  <2>1. ~BeingFreed(s)
    BY <1>0 DEF BeingFreed, HolderExact, Holding
  <2> QED
    BY <1>0, <2>1 DEF CopyExact
<1>2. \A t \in Slots : BeingFreed(t)' <=> BeingFreed(t)
  BY <1>0 DEF BeingFreed, Views
<1>3. NameTypes' = NameTypes
  BY DEF NameTypes
<1>4. SlotRefs' /\ DescriptorRefs' /\ DirectoryLinks'
  BY <1>3, KeepSlots, KeepPoints, KeepDirectories
<1>5. RootHeld' /\ FdsLeft' /\ FileShape' /\ OneEntry' /\ FreeDisk'
  BY <1>0 DEF RootHeld, FdsLeft, FileShape, OneEntry, FreeDisk
<1>6. NameLinks'
  <2>1. \A q \in Procs : HasCounted(q)' <=> HasCounted(q)
    BY <1>0, <1>1, <1>2 DEF HasCounted, Views, CallShape
  <2>2. Counted' = Counted
    BY <1>0, <1>1, <1>2, <2>1 DEF Counted, Views, HasCounted, CallShape
  <2> QED
    BY <2>2, KeepLinks
<1>7. CallShape'
  BY <1>0, <1>1, <1>2 DEF CallShape, Views
<1>8. Unborn'
  BY <1>0, <1>1, <1>2 DEF Unborn, Views
<1>9. HolderExact'
  BY <1>0, <1>1, <1>2 DEF HolderExact, Holding, Views
<1>10. CopyExact'
  BY <1>0, <1>2 DEF CopyExact
<1>11. BodyValid'
  BY <1>0, <1>1, <1>2 DEF BodyValid, Views
<1>12. FreeRefs'
  BY <1>0, <1>1, <1>2 DEF FreeRefs, Views
<1>13. Freeing'
  BY <1>0, <1>1, <1>2 DEF Freeing, Views
<1>14. NewInode'
  BY <1>0, <1>1, <1>2 DEF NewInode, Views
<1>15. UnlinkName'
  BY <1>0 DEF UnlinkName
<1>16. LinkedFile'
  BY <1>0, <1>1, <1>2 DEF LinkedFile, Views
<1> QED
  BY <1>4, <1>5, <1>6, <1>7, <1>8, <1>9, <1>10, <1>11, <1>12, <1>13, <1>14, <1>15, <1>16 DEF
     Core, Counts, Calls, Table, Disk

\* put has freed the inode on disk.
LEMMA PutFreeCore ==
  ASSUME Running, NEW p \in Procs,
         NEW s \in Slots, s = SlotOf[p], NEW n, n = Nums[s],
         Place[p] = "free",
         Place' = [Place EXCEPT ![p] = "freed"],
         DiskTypes' = [DiskTypes EXCEPT ![n] = "free"], DiskLinks' = [DiskLinks EXCEPT ![n] = 0],
         CopyTypes' = [CopyTypes EXCEPT ![s] = "free"], CopyLinks' = [CopyLinks EXCEPT ![s] = 0],
         UNCHANGED <<Doing, SlotOf, NameOf, KindOf, Refs, Nums, Valids, Holders, FileRefs,
                    FileSlots, Points, openFiles, entry, rootLinks, root, life>>
  PROVE  Core'
<1> USE Constants
<1>0. /\ Views /\ SlotRefs /\ DescriptorRefs /\ NameLinks /\ DirectoryLinks
      /\ CallShape /\ Unborn /\ RootHeld /\ FdsLeft /\ FileShape
      /\ HolderExact /\ OneEntry /\ CopyExact /\ BodyValid
      /\ FreeDisk /\ FreeRefs /\ Freeing /\ NewInode /\ UnlinkName /\ LinkedFile
  BY Parts
<1>1. /\ n \in Inums /\ Refs[s] = 1 /\ DiskLinks[n] = 0 /\ DiskLinks' = DiskLinks
      /\ \A y \in Names : entry[y] # n /\ (entry[y] # None => entry[y] \in Inums)
  <2>1. n \in Inums
    BY Referring
  <2>2. Refs[s] = 1 /\ DiskLinks[n] = 0 /\ DiskLinks' = DiskLinks
    BY <1>0, <2>1 DEF Freeing, Views
  <2>3. \A y \in Names : entry[y] # None => entry[y] \in Inums /\ DiskLinks[entry[y]] > 0
    BY Referring
  <2> QED
    BY <2>1, <2>2, <2>3
<1>2. /\ \A q \in Procs : q # p /\ Place[q] # "idle" => Nums[SlotOf[q]] # n /\ SlotOf[q] # s
                                                      /\ Nums[SlotOf[q]] \in Inums
      /\ \A f \in Files : FileSlots[f] # None =>
           FileSlots[f] # s /\ Nums[FileSlots[f]] # n /\ Nums[FileSlots[f]] \in Inums
      /\ \A t \in Slots : t # s /\ Refs[t] > 0 => Nums[t] # n
  <2>1. \A t \in Slots : t # s /\ Refs[t] > 0 => Nums[t] # n
    BY <1>0, <1>1 DEF OneEntry
  <2>2. /\ \A q \in Procs : q # p /\ Place[q] # "idle" => SlotOf[q] # s
        /\ \A f \in Files : FileSlots[f] # None => FileSlots[f] # s
    BY <1>1, Referring
  <2>3. /\ \A q \in Procs : Place[q] # "idle" =>
             SlotOf[q] \in Slots /\ Refs[SlotOf[q]] > 0 /\ Nums[SlotOf[q]] \in Inums
        /\ \A f \in Files : FileSlots[f] # None =>
             FileSlots[f] \in Slots /\ Refs[FileSlots[f]] > 0 /\ Nums[FileSlots[f]] \in Inums
    BY Referring
  <2> QED
    BY <2>1, <2>2, <2>3
<1>3. \A t \in Slots : BeingFreed(t)' <=> BeingFreed(t) \/ t = s
  BY <1>0 DEF BeingFreed, Views
<1>4. SlotRefs' /\ DescriptorRefs'
  BY KeepSlots, KeepPoints
<1>5. RootHeld' /\ FdsLeft' /\ FileShape' /\ OneEntry' /\ UnlinkName'
  BY <1>0 DEF RootHeld, FdsLeft, FileShape, OneEntry, UnlinkName
<1>6. NameLinks'
  <2>1. \A q \in Procs : HasCounted(q)' <=> HasCounted(q)
    BY <1>0 DEF HasCounted, Views, CallShape
  <2>2. Counted' = Counted
    BY <2>1 DEF Counted
  <2> QED
    BY <1>1, <2>2, KeepLinks
<1>7. DirectoryLinks'
  <2>1. NameTypes' = NameTypes
    BY <1>0, <1>1 DEF NameTypes, Views
  <2> QED
    BY <2>1, KeepDirectories
<1>8. CallShape'
  BY <1>0, <1>1, <1>2 DEF CallShape, Views
<1>9. Unborn'
  BY <1>0, <1>1, <1>2 DEF Unborn, Views
<1>10. HolderExact'
  BY <1>0, <1>1, <1>2 DEF HolderExact, Holding, Views
<1>11. CopyExact'
  BY <1>0, <1>1, <1>2, <1>3 DEF CopyExact, Views
<1>12. BodyValid'
  BY <1>0, <1>1, <1>2 DEF BodyValid, Views
<1>13. FreeDisk'
  BY <1>0, <1>1, <1>2 DEF FreeDisk, Views
<1>14. FreeRefs'
  BY <1>0, <1>1, <1>2 DEF FreeRefs, Views
<1>15. Freeing'
  BY <1>0, <1>1, <1>2 DEF Freeing, Views
<1>16. NewInode'
  <2>1. \A q \in Procs : Doing[q] = "new" => q # p /\ Place[q] # "idle"
    BY <1>0 DEF CallShape
  <2>2. \A q \in Procs : Doing[q] = "new" => DiskTypes'[Nums[SlotOf[q]]] = DiskTypes[Nums[SlotOf[q]]]
    BY <1>0, <1>2, <2>1 DEF Views
  <2>3. \A q \in Procs : Place[q] \in {"freed", "drop"} => Place'[q] \in {"freed", "drop"}
    BY <1>0 DEF Views
  <2> QED
    BY <1>0, <1>1, <2>2, <2>3 DEF NewInode
<1>17. LinkedFile'
  BY <1>0, <1>1, <1>2 DEF LinkedFile, Views
<1> QED
  BY <1>4, <1>5, <1>6, <1>7, <1>8, <1>9, <1>10, <1>11, <1>12, <1>13, <1>14, <1>15, <1>16, <1>17
     DEF Core, Counts, Calls, Table, Disk

\* put has released the freed inode, whose copy is no longer valid.
LEMMA PutReleaseCore ==
  ASSUME Running, NEW p \in Procs,
         NEW s \in Slots, s = SlotOf[p],
         Place[p] = "freed",
         Place' = [Place EXCEPT ![p] = "drop"],
         Valids' = [Valids EXCEPT ![s] = FALSE], Holders' = [Holders EXCEPT ![s] = NoProc],
         UNCHANGED <<Doing, SlotOf, NameOf, KindOf, Refs, Nums, CopyTypes, CopyLinks,
                    DiskTypes, DiskLinks, FileRefs, FileSlots, Points, openFiles,
                    entry, rootLinks, root, life>>
  PROVE  Core'
<1> USE Constants
<1>0. /\ Views /\ SlotRefs /\ DescriptorRefs /\ NameLinks /\ DirectoryLinks
      /\ CallShape /\ Unborn /\ RootHeld /\ FdsLeft /\ FileShape
      /\ HolderExact /\ OneEntry /\ CopyExact /\ BodyValid
      /\ FreeDisk /\ FreeRefs /\ Freeing /\ NewInode /\ UnlinkName /\ LinkedFile
  BY Parts
<1>1. \A q \in Procs : q # p /\ SlotOf[q] = s => Place[q] \notin Holding
  BY <1>0 DEF HolderExact, Holding
<1>2. \A t \in Slots : t # s => (BeingFreed(t)' <=> BeingFreed(t))
  BY <1>0 DEF BeingFreed, Views
<1>3. NameTypes' = NameTypes
  BY DEF NameTypes
<1>4. SlotRefs' /\ DescriptorRefs' /\ DirectoryLinks'
  BY <1>3, KeepSlots, KeepPoints, KeepDirectories
<1>5. RootHeld' /\ FdsLeft' /\ FileShape' /\ OneEntry' /\ FreeDisk' /\ UnlinkName'
  BY <1>0 DEF RootHeld, FdsLeft, FileShape, OneEntry, FreeDisk, UnlinkName
<1>6. NameLinks'
  <2>1. \A q \in Procs : HasCounted(q)' <=> HasCounted(q)
    BY <1>0, <1>1 DEF HasCounted, Views, CallShape
  <2>2. Counted' = Counted
    BY <1>0, <1>1, <2>1 DEF Counted, Views, HasCounted, CallShape
  <2> QED
    BY <2>2, KeepLinks
<1>7. CallShape'
  BY <1>0, <1>1 DEF CallShape, Views
<1>8. Unborn'
  BY <1>0, <1>1 DEF Unborn, Views
<1>9. HolderExact'
  BY <1>0, <1>1 DEF HolderExact, Holding, Views
<1>10. CopyExact'
  BY <1>0, <1>2 DEF CopyExact, Views
<1>11. BodyValid'
  BY <1>0, <1>1 DEF BodyValid, Holding, Views
<1>12. FreeRefs'
  BY <1>0, <1>1 DEF FreeRefs, Views
<1>13. Freeing'
  BY <1>0, <1>1 DEF Freeing, Views
<1>14. NewInode'
  BY <1>0, <1>1 DEF NewInode, Views
<1>15. LinkedFile'
  BY <1>0, <1>1 DEF LinkedFile, Views
<1> QED
  BY <1>4, <1>5, <1>6, <1>7, <1>8, <1>9, <1>10, <1>11, <1>12, <1>13, <1>14, <1>15 DEF Core,
     Counts, Calls, Table, Disk

\* open has a file and a descriptor and returns.
LEMMA OpenCore ==
  ASSUME Running, NEW p \in Procs,
         NEW s \in Slots, s = SlotOf[p], NEW f \in Files, NEW d \in Fds,
         Place[p] = "body", Doing[p] = "open", FileRefs[f] = 0, openFiles[p][d] = None,
         Place' = [Place EXCEPT ![p] = "idle"], Doing' = [Doing EXCEPT ![p] = "none"],
         SlotOf' = [SlotOf EXCEPT ![p] = None],
         NameOf' = [NameOf EXCEPT ![p] = None], KindOf' = [KindOf EXCEPT ![p] = "none"],
         Holders' = [Holders EXCEPT ![s] = NoProc],
         FileRefs' = [FileRefs EXCEPT ![f] = 1], FileSlots' = [FileSlots EXCEPT ![f] = s],
         \A q \in Procs, e \in Fds :
           openFiles'[q][e] = IF q = p /\ e = d THEN f ELSE openFiles[q][e],
         Points' = [Points EXCEPT ![<<p, d>>] = f],
         root' = IF root = p THEN NoProc ELSE root,
         UNCHANGED <<Refs, Nums, Valids, CopyTypes, CopyLinks, DiskTypes, DiskLinks, entry,
                    rootLinks, life>>
  PROVE  Core'
<1> USE Constants
<1>0. /\ Views /\ SlotRefs /\ DescriptorRefs /\ NameLinks /\ DirectoryLinks
      /\ CallShape /\ Unborn /\ RootHeld /\ FdsLeft /\ FileShape
      /\ HolderExact /\ OneEntry /\ CopyExact /\ BodyValid
      /\ FreeDisk /\ FreeRefs /\ Freeing /\ NewInode /\ UnlinkName /\ LinkedFile
  BY Parts
<1>1. FileSlots[f] = None /\ life[p] # "unused"
  BY <1>0 DEF FileShape, Unborn
<1>2. /\ \A q \in Procs : q # p /\ SlotOf[q] = s => Doing[q] # "new"
      /\ DiskTypes[Nums[s]] # "free"
  BY <1>0 DEF NewInode, FreeRefs
<1>3. NameTypes' = NameTypes
  BY DEF NameTypes
<1>4. DirectoryLinks'
  BY <1>3, KeepDirectories
<1>5. OneEntry' /\ FreeDisk'
  BY <1>0 DEF OneEntry, FreeDisk
<1>6. SlotRefs'
  <2>1. /\ Refs' = Refs /\ SlotOf' = [SlotOf EXCEPT ![p] = FileSlots[f]]
        /\ FileSlots' = [FileSlots EXCEPT ![f] = SlotOf[p]]
    BY <1>1
  <2> QED
    BY <2>1, FileAndCallRefs
<1>7. DescriptorRefs'
  <2>1. \A g \in Files : FileRefs'[g] = FileRefs[g] - Is(openFiles[p][d], g) + Is(f, g)
    BY <1>0, <1>1 DEF Views, Is
  <2>2. Points' = [Points EXCEPT ![<<p, d>>] = f]
    OBVIOUS
  <2> QED
    BY ONLY <2>1, <2>2, Running, p \in Procs, d \in Fds, PointRefs, Zenon
<1>8. NameLinks'
  <2>1. \A q \in Procs : (HasCounted(q)' <=> HasCounted(q)) /\ (HasCounted(q) => q # p)
    BY <1>0, <1>1 DEF HasCounted, Views
  <2>2. Counted' = Counted
    BY <1>0, <2>1 DEF Counted, Views
  <2> QED
    BY <2>2, KeepLinks
<1>9. CallShape'
  BY <1>0, <1>1, <1>2 DEF CallShape, Views
<1>10. Unborn'
  <2>1. \A q \in Procs : life[q] = "unused" => q # p
    BY <1>1
  <2>2. \A q \in Procs : q # p =>
          Place'[q] = Place[q] /\ \A e \in Fds : openFiles'[q][e] = openFiles[q][e]
    BY <1>0 DEF Views
  <2> QED
    BY <1>0, <2>1, <2>2 DEF Unborn
<1>11. RootHeld'
  BY <1>0, <1>1, <1>2 DEF RootHeld, Views
<1>12. FdsLeft'
  BY <1>0, <1>1, <1>2 DEF FdsLeft, Views
<1>13. FileShape'
  BY <1>0, <1>1, <1>2 DEF FileShape, Views
<1>14. HolderExact'
  BY <1>0, <1>1, <1>2 DEF HolderExact, Holding, Views
<1>15. CopyExact'
  BY <1>0, <1>1, <1>2 DEF CopyExact, BeingFreed, Views
<1>16. BodyValid'
  BY <1>0, <1>1, <1>2 DEF BodyValid, Views
<1>17. FreeRefs'
  BY <1>0, <1>1, <1>2 DEF FreeRefs, CallShape, Views
<1>18. Freeing'
  BY <1>0, <1>1, <1>2 DEF Freeing, Views
<1>19. NewInode'
  BY <1>0, <1>1, <1>2 DEF NewInode, CallShape, Views
<1>20. UnlinkName'
  BY <1>0, <1>1, <1>2 DEF UnlinkName, Views
<1>21. LinkedFile'
  BY <1>0, <1>1, <1>2 DEF LinkedFile, Views
<1> QED
  BY <1>4, <1>5, <1>6, <1>7, <1>8, <1>9, <1>10, <1>11, <1>12, <1>13, <1>14, <1>15, <1>16,
     <1>17, <1>18, <1>19, <1>20, <1>21 DEF Core, Counts, Calls, Table, Disk

\* The last descriptor of a file is closed; its inode is put next.
LEMMA CloseLastCore ==
  ASSUME Running, NEW p \in Procs,
         NEW s \in Slots, NEW f \in Files, s = FileSlots[f], NEW d \in Fds,
         Place[p] = "idle", life[p] # "unused", FileRefs[f] = 1, openFiles[p][d] = f,
         Place' = [Place EXCEPT ![p] = "put"], SlotOf' = [SlotOf EXCEPT ![p] = s],
         FileRefs' = [FileRefs EXCEPT ![f] = 0], FileSlots' = [FileSlots EXCEPT ![f] = None],
         \A q \in Procs, e \in Fds :
           openFiles'[q][e] = IF q = p /\ e = d THEN None ELSE openFiles[q][e],
         Points' = [Points EXCEPT ![<<p, d>>] = None],
         NameOf' = [NameOf EXCEPT ![p] = None], KindOf' = [KindOf EXCEPT ![p] = "none"],
         UNCHANGED <<Doing, Refs, Nums, Valids, CopyTypes, CopyLinks, Holders, DiskTypes,
                    DiskLinks, entry, rootLinks, root, life>>
  PROVE  Core'
<1> USE Constants
<1>0. /\ Views /\ SlotRefs /\ DescriptorRefs /\ NameLinks /\ DirectoryLinks
      /\ CallShape /\ Unborn /\ RootHeld /\ FdsLeft /\ FileShape
      /\ HolderExact /\ OneEntry /\ CopyExact /\ BodyValid
      /\ FreeDisk /\ FreeRefs /\ Freeing /\ NewInode /\ UnlinkName /\ LinkedFile
  BY Parts
<1>1. FileSlots[f] # None /\ Doing[p] = "none" /\ SlotOf[p] = None
  BY <1>0 DEF FileShape, CallShape
<1>2. /\ \A q \in Procs : SlotOf[q] = s => Doing[q] # "new"
      /\ DiskTypes[Nums[s]] # "free"
  BY <1>0 DEF NewInode, FreeRefs
<1>3. NameTypes' = NameTypes
  BY DEF NameTypes
<1>4. DirectoryLinks'
  BY <1>3, KeepDirectories
<1>5. RootHeld' /\ OneEntry' /\ FreeDisk'
  BY <1>0 DEF RootHeld, OneEntry, FreeDisk
<1>6. SlotRefs'
  <2>1. /\ Refs' = Refs /\ SlotOf' = [SlotOf EXCEPT ![p] = FileSlots[f]]
        /\ FileSlots' = [FileSlots EXCEPT ![f] = SlotOf[p]]
    BY <1>1
  <2> QED
    BY <2>1, FileAndCallRefs
<1>7. DescriptorRefs'
  <2>1. \A g \in Files : FileRefs'[g] = FileRefs[g] - Is(openFiles[p][d], g) + Is(None, g)
    BY <1>0, <1>1 DEF Views, Is
  <2>2. Points' = [Points EXCEPT ![<<p, d>>] = None]
    OBVIOUS
  <2> QED
    BY ONLY <2>1, <2>2, Running, p \in Procs, d \in Fds, PointRefs, Zenon
<1>8. NameLinks'
  <2>1. \A q \in Procs : (HasCounted(q)' <=> HasCounted(q)) /\ (HasCounted(q) => q # p)
    BY <1>0, <1>1 DEF HasCounted, Views
  <2>2. Counted' = Counted
    BY <1>0, <2>1 DEF Counted, Views
  <2> QED
    BY <2>2, KeepLinks
<1>9. CallShape'
  <2>1. ASSUME NEW q \in Procs, q # p
        PROVE  /\ Place'[q] = Place[q] /\ Doing'[q] = Doing[q] /\ SlotOf'[q] = SlotOf[q]
               /\ NameOf'[q] = NameOf[q] /\ KindOf'[q] = KindOf[q]
    BY <1>0, <2>1 DEF Views
  <2>2. Place'[p] = "put" /\ Doing'[p] = "none" /\ SlotOf'[p] # None
    BY <1>0, <1>1 DEF Views
  <2> QED
    BY <1>0, <2>1, <2>2 DEF CallShape
<1>10. Unborn'
  <2> SUFFICES ASSUME NEW q \in Procs, life'[q] = "unused"
               PROVE  Place'[q] = "idle" /\ \A e \in Fds : openFiles'[q][e] = None
    BY DEF Unborn
  <2>1. q # p /\ life[q] = "unused" /\ Place'[q] = Place[q]
    BY <1>0 DEF Views
  <2>2. Place[q] = "idle" /\ \A e \in Fds : openFiles[q][e] = None
    BY <1>0, <2>1 DEF Unborn
  <2> QED
    BY <2>1, <2>2
<1>11. FdsLeft'
  <2> SUFFICES ASSUME NEW q \in Procs,
                      Doing'[q] = "open" \/ (Doing'[q] \in {"create", "new"} /\ KindOf'[q] = "file")
               PROVE  \E e \in Fds : openFiles'[q][e] = None
    BY DEF FdsLeft
  <2>1. q # p /\ Doing'[q] = Doing[q] /\ KindOf'[q] = KindOf[q]
    BY <1>0, <1>1 DEF Views
  <2>2. PICK e \in Fds : openFiles[q][e] = None
    BY <1>0, <2>1 DEF FdsLeft
  <2> QED
    BY <2>1, <2>2
<1>12. FileShape'
  BY <1>0, <1>1, <1>2 DEF FileShape, Views
<1>13. HolderExact'
  BY <1>0, <1>1, <1>2 DEF HolderExact, Holding, Views
<1>14. CopyExact'
  BY <1>0, <1>1, <1>2 DEF CopyExact, BeingFreed, Views
<1>15. BodyValid'
  BY <1>0, <1>1, <1>2 DEF BodyValid, Views
<1>16. FreeRefs'
  BY <1>0, <1>1, <1>2 DEF FreeRefs, Views
<1>17. Freeing'
  BY <1>0, <1>1, <1>2 DEF Freeing, Views
<1>18. NewInode'
  BY <1>0, <1>1, <1>2 DEF NewInode, CallShape, Views
<1>19. UnlinkName'
  BY <1>0, <1>1, <1>2 DEF UnlinkName, Views
<1>20. LinkedFile'
  BY <1>0, <1>1, <1>2 DEF LinkedFile, Views
<1> QED
  BY <1>4, <1>5, <1>6, <1>7, <1>8, <1>9, <1>10, <1>11, <1>12, <1>13, <1>14, <1>15, <1>16,
     <1>17, <1>18, <1>19, <1>20 DEF Core, Counts, Calls, Table, Disk

\* A descriptor of a file that has others is closed.
LEMMA CloseCore ==
  ASSUME Running, NEW p \in Procs,
         NEW f \in Files, NEW d \in Fds,
         FileRefs[f] > 1, openFiles[p][d] = f,
         FileRefs' = [FileRefs EXCEPT ![f] = FileRefs[f] - 1],
         \A q \in Procs, e \in Fds :
           openFiles'[q][e] = IF q = p /\ e = d THEN None ELSE openFiles[q][e],
         Points' = [Points EXCEPT ![<<p, d>>] = None],
         UNCHANGED <<Place, Doing, SlotOf, NameOf, KindOf, Refs, Nums, Valids, CopyTypes,
                    CopyLinks, Holders, DiskTypes, DiskLinks, FileSlots, entry,
                    rootLinks, root, life>>
  PROVE  Core'
<1> USE Constants
<1>0. /\ Views /\ SlotRefs /\ DescriptorRefs /\ NameLinks /\ DirectoryLinks
      /\ CallShape /\ Unborn /\ RootHeld /\ FdsLeft /\ FileShape
      /\ HolderExact /\ OneEntry /\ CopyExact /\ BodyValid
      /\ FreeDisk /\ FreeRefs /\ Freeing /\ NewInode /\ UnlinkName /\ LinkedFile
  BY Parts
<1>1. FileRefs[f] \in Nat
  BY <1>0 DEF Views
<1>2. Counted' = Counted /\ NameTypes' = NameTypes
  BY DEF Counted, NameTypes, HasCounted
<1>3. SlotRefs' /\ NameLinks' /\ DirectoryLinks'
  BY <1>2, KeepSlots, KeepLinks, KeepDirectories
<1>4. CallShape' /\ RootHeld' /\ HolderExact' /\ OneEntry' /\ CopyExact' /\ BodyValid' /\
      FreeDisk' /\ FreeRefs' /\ Freeing' /\ NewInode' /\ UnlinkName' /\ LinkedFile'
  BY <1>0 DEF CallShape, RootHeld, HolderExact, Holding, OneEntry, CopyExact, BeingFreed,
              BodyValid, FreeDisk, FreeRefs, Freeing, NewInode, UnlinkName, LinkedFile
<1>5. DescriptorRefs'
  <2>1. \A g \in Files : FileRefs'[g] = FileRefs[g] - Is(openFiles[p][d], g) + Is(None, g)
    BY <1>0, <1>1 DEF Views, Is
  <2>2. Points' = [Points EXCEPT ![<<p, d>>] = None]
    OBVIOUS
  <2> QED
    BY ONLY <2>1, <2>2, Running, p \in Procs, d \in Fds, PointRefs, Zenon
<1>6. Unborn'
  BY <1>0, <1>1 DEF Unborn, Views
<1>7. FdsLeft'
  BY <1>0, <1>1 DEF FdsLeft, Views
<1>8. FileShape'
  BY <1>0, <1>1 DEF FileShape, Views
<1> QED
  BY <1>3, <1>4, <1>5, <1>6, <1>7, <1>8 DEF Core, Counts, Calls, Table, Disk

\* dup has a descriptor.
LEMMA DupCore ==
  ASSUME Running, NEW p \in Procs,
         NEW f \in Files, NEW d \in Fds,
         Place[p] = "idle", life[p] # "unused", FileRefs[f] > 0, openFiles[p][d] = None,
         FileRefs' = [FileRefs EXCEPT ![f] = FileRefs[f] + 1],
         \A q \in Procs, e \in Fds :
           openFiles'[q][e] = IF q = p /\ e = d THEN f ELSE openFiles[q][e],
         Points' = [Points EXCEPT ![<<p, d>>] = f],
         UNCHANGED <<Place, Doing, SlotOf, NameOf, KindOf, Refs, Nums, Valids, CopyTypes,
                    CopyLinks, Holders, DiskTypes, DiskLinks, FileSlots, entry,
                    rootLinks, root, life>>
  PROVE  Core'
<1> USE Constants
<1>0. /\ Views /\ SlotRefs /\ DescriptorRefs /\ NameLinks /\ DirectoryLinks
      /\ CallShape /\ Unborn /\ RootHeld /\ FdsLeft /\ FileShape
      /\ HolderExact /\ OneEntry /\ CopyExact /\ BodyValid
      /\ FreeDisk /\ FreeRefs /\ Freeing /\ NewInode /\ UnlinkName /\ LinkedFile
  BY Parts
<1>1. FileRefs[f] \in Nat /\ Doing[p] = "none"
  BY <1>0 DEF Views, CallShape
<1>2. Counted' = Counted /\ NameTypes' = NameTypes
  BY DEF Counted, NameTypes, HasCounted
<1>3. SlotRefs' /\ NameLinks' /\ DirectoryLinks'
  BY <1>2, KeepSlots, KeepLinks, KeepDirectories
<1>4. CallShape' /\ RootHeld' /\ HolderExact' /\ OneEntry' /\ CopyExact' /\ BodyValid' /\
      FreeDisk' /\ FreeRefs' /\ Freeing' /\ NewInode' /\ UnlinkName' /\ LinkedFile'
  BY <1>0 DEF CallShape, RootHeld, HolderExact, Holding, OneEntry, CopyExact, BeingFreed,
              BodyValid, FreeDisk, FreeRefs, Freeing, NewInode, UnlinkName, LinkedFile
<1>5. DescriptorRefs'
  <2>1. \A g \in Files : FileRefs'[g] = FileRefs[g] - Is(openFiles[p][d], g) + Is(f, g)
    BY <1>0, <1>1 DEF Views, Is
  <2>2. Points' = [Points EXCEPT ![<<p, d>>] = f]
    OBVIOUS
  <2> QED
    BY ONLY <2>1, <2>2, Running, p \in Procs, d \in Fds, PointRefs, Zenon
<1>6. Unborn'
  <2> SUFFICES ASSUME NEW q \in Procs, life'[q] = "unused"
               PROVE  Place'[q] = "idle" /\ \A e \in Fds : openFiles'[q][e] = None
    BY DEF Unborn
  <2>1. q # p /\ life[q] = "unused" /\ Place'[q] = Place[q]
    BY <1>0 DEF Views
  <2>2. Place[q] = "idle" /\ \A e \in Fds : openFiles[q][e] = None
    BY <1>0, <2>1 DEF Unborn
  <2> QED
    BY <2>1, <2>2
<1>7. FdsLeft'
  <2> SUFFICES ASSUME NEW q \in Procs,
                      Doing[q] = "open" \/ (Doing[q] \in {"create", "new"} /\ KindOf[q] = "file")
               PROVE  \E e \in Fds : openFiles'[q][e] = None
    BY DEF FdsLeft
  <2>1. q # p
    BY <1>1
  <2>2. PICK e \in Fds : openFiles[q][e] = None
    BY <1>0 DEF FdsLeft
  <2> QED
    BY <2>1, <2>2
<1>8. FileShape'
  BY <1>0, <1>1 DEF FileShape, Views
<1> QED
  BY <1>3, <1>4, <1>5, <1>6, <1>7, <1>8 DEF Core, Counts, Calls, Table, Disk

\* A process begins to leave or has left.
LEMMA LifeCore ==
  ASSUME Running, NEW p \in Procs,
         Place[p] = "idle", NEW l, life' = [life EXCEPT ![p] = l],
         life[p] # "unused", life \in [Procs -> {"unused", "running", "exiting"}],
         l = "unused" => \A d \in Fds : openFiles[p][d] = None,
         UNCHANGED <<Place, Doing, SlotOf, NameOf, KindOf, Refs, Nums, Valids, CopyTypes,
                    CopyLinks, Holders, DiskTypes, DiskLinks, FileRefs, FileSlots,
                    Points, openFiles, entry, rootLinks, root>>
  PROVE  Core'
<1> USE Constants
<1>0. /\ Views /\ SlotRefs /\ DescriptorRefs /\ NameLinks /\ DirectoryLinks
      /\ CallShape /\ Unborn /\ RootHeld /\ FdsLeft /\ FileShape
      /\ HolderExact /\ OneEntry /\ CopyExact /\ BodyValid
      /\ FreeDisk /\ FreeRefs /\ Freeing /\ NewInode /\ UnlinkName /\ LinkedFile
  BY Parts
<1>1. Counted' = Counted /\ NameTypes' = NameTypes
  BY DEF Counted, NameTypes, HasCounted
<1>2. SlotRefs' /\ DescriptorRefs' /\ NameLinks' /\ DirectoryLinks'
  BY <1>1, KeepSlots, KeepPoints, KeepLinks, KeepDirectories
<1>3. CallShape' /\ RootHeld' /\ FdsLeft' /\ FileShape' /\ HolderExact' /\ OneEntry' /\
      CopyExact' /\ BodyValid' /\ FreeDisk' /\ FreeRefs' /\ Freeing' /\ NewInode' /\
      UnlinkName' /\ LinkedFile'
  BY <1>0 DEF CallShape, RootHeld, FdsLeft, FileShape, HolderExact, Holding, OneEntry,
              CopyExact, BeingFreed, BodyValid, FreeDisk, FreeRefs, Freeing, NewInode,
              UnlinkName, LinkedFile
<1>4. Unborn'
  BY <1>0 DEF Unborn, Views
<1> QED
  BY <1>2, <1>3, <1>4 DEF Core, Counts, Calls, Table, Disk

\* fork has duplicated the files for the child.
LEMMA ForkCore ==
  ASSUME Running, NEW p \in Procs,
         NEW q \in Procs, Place[p] = "idle",
         life[p] # "unused", life[q] = "unused",
         life \in [Procs -> {"unused", "running", "exiting"}], life' = [life EXCEPT ![q] = "running"],
         openFiles \in [Procs -> [Fds -> Files \cup {None}]],
         openFiles' = [openFiles EXCEPT ![q] = openFiles[p]],
         FileRefs' = [f \in Files |-> FileRefs[f] + Shared(p, f)],
         Points' = [u \in Procs \X Fds |-> openFiles'[u[1]][u[2]]],
         UNCHANGED <<Place, Doing, SlotOf, NameOf, KindOf, Refs, Nums, Valids, CopyTypes,
                    CopyLinks, Holders, DiskTypes, DiskLinks, FileSlots, entry,
                    rootLinks, root>>
  PROVE  Core'
<1> USE Constants
<1>0. /\ Views /\ SlotRefs /\ DescriptorRefs /\ NameLinks /\ DirectoryLinks
      /\ CallShape /\ Unborn /\ RootHeld /\ FdsLeft /\ FileShape
      /\ HolderExact /\ OneEntry /\ CopyExact /\ BodyValid
      /\ FreeDisk /\ FreeRefs /\ Freeing /\ NewInode /\ UnlinkName /\ LinkedFile
  BY Parts
<1>1. p # q /\ Doing[q] = "none" /\ \A d \in Fds : openFiles[q][d] = None
  BY <1>0 DEF CallShape, Unborn
<1>2. ASSUME NEW f \in Files
      PROVE  /\ Shared(p, f) \in Nat /\ Count(Points', f) = Count(Points, f) + Shared(p, f)
             /\ Count(Points, f) \in Nat /\ (Count(Points, f) = 0 => Shared(p, f) = 0)
  <2> DEFINE S == {u \in Procs \X Fds : Points[u] = f}
             T == {u \in Procs \X Fds : Points'[u] = f}
             D == {d \in Fds : openFiles[p][d] = f}
             E == {u \in {q} \X Fds : openFiles[p][u[2]] = f}
  <2>1. /\ DOMAIN Points = Procs \X Fds /\ DOMAIN Points' = Procs \X Fds
    BY DEF Points
  <2>2. Count(Points, f) = Cardinality(S) /\ Count(Points', f) = Cardinality(T)
    BY <2>1 DEF Count
  <2>3. Shared(p, f) = Cardinality(D)
    BY DEF Shared, Uses
  <2>4. IsFiniteSet(S) /\ IsFiniteSet(D) /\ IsFiniteSet(E)
    <3>1. IsFiniteSet(Procs \X Fds) /\ IsFiniteSet({q} \X Fds)
      BY FS_Product, FS_Singleton
    <3> QED
      BY <3>1, FS_Subset
  <2>5. T = S \cup E /\ S \cap E = {}
    <3>1. \A r \in Procs, d \in Fds :
            openFiles'[r][d] = IF r = q THEN openFiles[p][d] ELSE openFiles[r][d]
      OBVIOUS
    <3>2. \A r \in Procs, d \in Fds :
            /\ <<r, d>> \in S <=> openFiles[r][d] = f
            /\ <<r, d>> \in T <=> openFiles'[r][d] = f
      <4> TAKE r \in Procs, d \in Fds
      <4>1. <<r, d>> \in Procs \X Fds
        OBVIOUS
      <4>2. Points[<<r, d>>] = openFiles[r][d] /\ Points'[<<r, d>>] = openFiles'[r][d]
        BY DEF Points
      <4>3. <<r, d>> \in S <=> Points[<<r, d>>] = f
        BY <4>1
      <4>4. <<r, d>> \in T <=> Points'[<<r, d>>] = f
        BY <4>1
      <4> QED
        BY <4>2, <4>3, <4>4
    <3>3. \A r \in Procs, d \in Fds : <<r, d>> \in E <=> r = q /\ openFiles[p][d] = f
      OBVIOUS
    <3>4. \A d \in Fds : openFiles[q][d] # f
      BY <1>1
    <3>5. S \subseteq Procs \X Fds /\ T \subseteq Procs \X Fds /\ E \subseteq Procs \X Fds
      OBVIOUS
    <3> HIDE DEF S, T, E
    <3>6. \A r \in Procs, d \in Fds :
            /\ <<r, d>> \in T <=> <<r, d>> \in S \/ <<r, d>> \in E
            /\ ~(<<r, d>> \in S /\ <<r, d>> \in E)
      <4> TAKE r \in Procs, d \in Fds
      <4>1. CASE r = q
        BY <3>1, <3>2, <3>3, <3>4, <4>1, Zenon
      <4>2. CASE r # q
        BY <3>1, <3>2, <3>3, <3>4, <4>2, Zenon
      <4> QED
        BY <4>1, <4>2
    <3> QED
      BY <3>5, <3>6
  <2>6. Cardinality(E) = Cardinality(D)
    <3> DEFINE h == [d \in D |-> <<q, d>>]
    <3>1. h \in Bijection(D, E)
      <4>1. h \in [D -> E]
        OBVIOUS
      <4>2. \A a, b \in D : h[a] = h[b] => a = b
        OBVIOUS
      <4>3. \A u \in E : \E d \in D : h[d] = u
        OBVIOUS
      <4> QED
        BY <4>1, <4>2, <4>3 DEF Bijection, Injection, IsInjective, Surjection
    <3>2. ExistsBijection(D, E)
      BY <3>1 DEF ExistsBijection
    <3> QED
      BY <2>4, <3>2, FS_Bijection
  <2>7. Cardinality(T) = Cardinality(S) + Cardinality(E)
    <3> HIDE DEF S, T, E
    <3>1. Cardinality(S \cup E) = Cardinality(S) + Cardinality(E) - Cardinality(S \cap E)
      BY <2>4, FS_Union
    <3>2. Cardinality(S \cap E) = 0 /\ Cardinality(S) \in Nat /\ Cardinality(E) \in Nat
      BY <2>4, <2>5, FS_EmptySet, FS_CardinalityType
    <3> QED
      BY <2>5, <3>1, <3>2
  <2>8. Cardinality(S) \in Nat /\ Cardinality(D) \in Nat
    BY <2>4, FS_CardinalityType
  <2>9. Cardinality(S) = 0 => Cardinality(D) = 0
    <3>1. Cardinality(S) = 0 => S = {}
      BY <2>4, FS_EmptySet
    <3>2. S = {} => D = {}
      <4>1. ASSUME NEW d \in D PROVE <<p, d>> \in S
        <5>1. <<p, d>> \in Procs \X Fds /\ Points[<<p, d>>] = openFiles[p][d]
          BY DEF Points
        <5> QED
          BY <5>1
      <4> QED
        BY <4>1
    <3> QED
      BY <3>1, <3>2, FS_EmptySet
  <2> HIDE DEF S, T, D, E
  <2> QED
    BY <2>2, <2>3, <2>6, <2>7, <2>8, <2>9
<1>3. Counted' = Counted /\ NameTypes' = NameTypes
  BY DEF Counted, NameTypes, HasCounted
<1>4. SlotRefs' /\ NameLinks' /\ DirectoryLinks'
  BY <1>3, KeepSlots, KeepLinks, KeepDirectories
<1>5. CallShape' /\ RootHeld' /\ HolderExact' /\ OneEntry' /\ CopyExact' /\ BodyValid' /\
      FreeDisk' /\ FreeRefs' /\ Freeing' /\ NewInode' /\ UnlinkName' /\ LinkedFile'
  BY <1>0 DEF CallShape, RootHeld, HolderExact, Holding, OneEntry, CopyExact, BeingFreed,
              BodyValid, FreeDisk, FreeRefs, Freeing, NewInode, UnlinkName, LinkedFile
<1>6. DescriptorRefs'
  BY <1>0, <1>2 DEF DescriptorRefs
<1>7. Unborn'
  BY <1>0, <1>1 DEF Unborn, Views
<1>8. FdsLeft'
  <2>1. \A r \in Procs : r # q => openFiles'[r] = openFiles[r]
    OBVIOUS
  <2> QED
    BY <1>0, <1>1, <2>1 DEF FdsLeft
<1>9. FileShape'
  <2>1. \A f \in Files : FileRefs'[f] = FileRefs[f] + Shared(p, f)
    OBVIOUS
  <2>2. \A f \in Files :
          Shared(p, f) \in Nat /\ FileRefs[f] \in Nat /\ (FileRefs[f] = 0 => Shared(p, f) = 0)
    BY <1>0, <1>2 DEF DescriptorRefs
  <2> QED
    BY <1>0, <2>1, <2>2 DEF FileShape
<1> QED
  BY <1>4, <1>5, <1>6, <1>7, <1>8, <1>9 DEF Core, Counts, Calls, Table, Disk

-----------------------------------------------------------------------------
(* What the model's operators do to the fields.                             *)

Panics ==
  {"none", "no inodes available", "can't lock unused inode",
   "can't lock a free inode", "can't unlock unused inode",
   "sleep with inode_table.lock", "unlink: nlink < 1", "file closing failed"}

Typed ==
  /\ disk \in [Inums -> DiskInodes] /\ table \in [Slots -> TableEntries] /\ panic \in Panics
  /\ entry \in [Names -> Inums \cup {None}] /\ rootLinks \in Nat /\ root \in Procs \cup {NoProc}
  /\ file \in [Files -> OpenRecords] /\ openFiles \in [Procs -> [Fds -> Files \cup {None}]]
  /\ life \in [Procs -> {"unused", "running", "exiting"}] /\ call \in [Procs -> CallRecords]

\* The type invariant, with the names of the record sets.
LEMMA TypedIs == TypeOK <=> Typed
BY DEF TypeOK, InodeTypeOK, Typed, TableEntries, OpenRecords, CallRecords, Panics

\* The same after a step.
LEMMA TypedIsAfter == TypeOK' <=> Typed'
BY TypedIs, PTL

\* The fields are those of the records.
LEMMA Values ==
  /\ \A p \in Procs : /\ call[p].at = Place[p] /\ call[p].of = Doing[p]
                      /\ call[p].slot = SlotOf[p] /\ call[p].name = NameOf[p]
                      /\ call[p].kind = KindOf[p]
  /\ \A s \in Slots : /\ table[s].reference_count = Refs[s] /\ table[s].inode_number = Nums[s]
                      /\ table[s].is_valid = Valids[s] /\ table[s].holder = Holders[s]
                      /\ table[s].disk_inode.type = CopyTypes[s]
                      /\ table[s].disk_inode.link_count = CopyLinks[s]
  /\ \A n \in Inums : disk[n].type = DiskTypes[n] /\ disk[n].link_count = DiskLinks[n]
  /\ \A f \in Files : file[f].reference_count = FileRefs[f] /\ file[f].slot = FileSlots[f]
BY DEF Place, Doing, SlotOf, NameOf, KindOf, Refs, Nums, Valids, CopyTypes, CopyLinks, Holders,
       DiskTypes, DiskLinks, FileRefs, FileSlots

Places == {"idle", "lock", "body", "entry", "put", "free", "freed", "drop"}
Ofs == {"none", "open", "create", "new", "link", "rollback", "unlink"}

\* What GoOn, Put and Return do to the fields of a call.
LEMMA GoesOn ==
  ASSUME TypeOK, NEW p \in Procs, NEW a \in Places, GoOn(p, a)
  PROVE  /\ call' \in [Procs -> CallRecords]
         /\ Place' = [Place EXCEPT ![p] = a]
         /\ UNCHANGED <<Doing, SlotOf, NameOf, KindOf>>
<1> PICK c : c = [call[p] EXCEPT !.at = a]
  OBVIOUS
<1>1. Views /\ call[p] \in CallRecords
  BY ViewTypes DEF TypeOK, CallRecords
<1>2. /\ c \in CallRecords /\ c.at = a /\ c.of = call[p].of
      /\ c.slot = call[p].slot /\ c.name = call[p].name /\ c.kind = call[p].kind
  BY <1>1 DEF CallRecords, Places, Ofs, Idle
<1>3. TypeOK /\ p \in Procs /\ c \in CallRecords /\ call' = [call EXCEPT ![p] = c]
  BY <1>2 DEF GoOn
<1>4. /\ call' \in [Procs -> CallRecords]
      /\ Place' = [Place EXCEPT ![p] = c.at] /\ Doing' = [Doing EXCEPT ![p] = c.of]
      /\ SlotOf' = [SlotOf EXCEPT ![p] = c.slot] /\ NameOf' = [NameOf EXCEPT ![p] = c.name]
      /\ KindOf' = [KindOf EXCEPT ![p] = c.kind]
  BY ONLY <1>3, SetCall, Zenon
<1> QED
  BY <1>1, <1>2, <1>4, Values DEF Views

LEMMA GoesOnAs ==
  ASSUME TypeOK, NEW p \in Procs, NEW a \in Places, NEW o \in Ofs,
         call' = [call EXCEPT ![p].at = a, ![p].of = o]
  PROVE  /\ call' \in [Procs -> CallRecords]
         /\ Place' = [Place EXCEPT ![p] = a] /\ Doing' = [Doing EXCEPT ![p] = o]
         /\ UNCHANGED <<SlotOf, NameOf, KindOf>>
<1> PICK c : c = [call[p] EXCEPT !.at = a, !.of = o]
  OBVIOUS
<1>1. Views /\ call[p] \in CallRecords
  BY ViewTypes DEF TypeOK, CallRecords
<1>2. /\ c \in CallRecords /\ c.at = a /\ c.of = o
      /\ c.slot = call[p].slot /\ c.name = call[p].name /\ c.kind = call[p].kind
  BY <1>1 DEF CallRecords, Places, Ofs, Idle
<1>3. TypeOK /\ p \in Procs /\ c \in CallRecords /\ call' = [call EXCEPT ![p] = c]
  BY <1>2
<1>4. /\ call' \in [Procs -> CallRecords]
      /\ Place' = [Place EXCEPT ![p] = c.at] /\ Doing' = [Doing EXCEPT ![p] = c.of]
      /\ SlotOf' = [SlotOf EXCEPT ![p] = c.slot] /\ NameOf' = [NameOf EXCEPT ![p] = c.name]
      /\ KindOf' = [KindOf EXCEPT ![p] = c.kind]
  BY ONLY <1>3, SetCall, Zenon
<1> QED
  BY <1>1, <1>2, <1>4, Values DEF Views

LEMMA GoesOnToOpen ==
  ASSUME TypeOK, NEW p \in Procs, call' = [call EXCEPT ![p].of = "open"]
  PROVE  /\ call' \in [Procs -> CallRecords]
         /\ Doing' = [Doing EXCEPT ![p] = "open"]
         /\ UNCHANGED <<Place, SlotOf, NameOf, KindOf>>
<1> PICK c : c = [call[p] EXCEPT !.of = "open"]
  OBVIOUS
<1>1. Views /\ call[p] \in CallRecords
  BY ViewTypes DEF TypeOK, CallRecords
<1>2. /\ c \in CallRecords /\ c.at = call[p].at /\ c.of = "open"
      /\ c.slot = call[p].slot /\ c.name = call[p].name /\ c.kind = call[p].kind
  BY <1>1 DEF CallRecords, Places, Ofs, Idle
<1>3. TypeOK /\ p \in Procs /\ c \in CallRecords /\ call' = [call EXCEPT ![p] = c]
  BY <1>2
<1>4. /\ call' \in [Procs -> CallRecords]
      /\ Place' = [Place EXCEPT ![p] = c.at] /\ Doing' = [Doing EXCEPT ![p] = c.of]
      /\ SlotOf' = [SlotOf EXCEPT ![p] = c.slot] /\ NameOf' = [NameOf EXCEPT ![p] = c.name]
      /\ KindOf' = [KindOf EXCEPT ![p] = c.kind]
  BY ONLY <1>3, SetCall, Zenon
<1> QED
  BY <1>1, <1>2, <1>4, Values DEF Views

LEMMA Puts ==
  ASSUME TypeOK, NEW p \in Procs, Put(p)
  PROVE  /\ call' \in [Procs -> CallRecords]
         /\ Place' = [Place EXCEPT ![p] = "put"] /\ Doing' = [Doing EXCEPT ![p] = "none"]
         /\ NameOf' = [NameOf EXCEPT ![p] = None] /\ KindOf' = [KindOf EXCEPT ![p] = "none"]
         /\ UNCHANGED SlotOf
<1> PICK c : c = [Idle EXCEPT !.at = "put", !.slot = call[p].slot]
  OBVIOUS
<1>1. Views /\ call[p] \in CallRecords
  BY ViewTypes DEF TypeOK, CallRecords
<1>2. /\ c \in CallRecords /\ c.at = "put" /\ c.of = "none"
      /\ c.slot = call[p].slot /\ c.name = None /\ c.kind = "none"
  BY <1>1 DEF CallRecords, Places, Ofs, Idle
<1>3. TypeOK /\ p \in Procs /\ c \in CallRecords /\ call' = [call EXCEPT ![p] = c]
  BY <1>2 DEF Put
<1>4. /\ call' \in [Procs -> CallRecords]
      /\ Place' = [Place EXCEPT ![p] = c.at] /\ Doing' = [Doing EXCEPT ![p] = c.of]
      /\ SlotOf' = [SlotOf EXCEPT ![p] = c.slot] /\ NameOf' = [NameOf EXCEPT ![p] = c.name]
      /\ KindOf' = [KindOf EXCEPT ![p] = c.kind]
  BY ONLY <1>3, SetCall, Zenon
<1> QED
  BY <1>1, <1>2, <1>4, Values DEF Views

LEMMA Returns ==
  ASSUME TypeOK, NEW p \in Procs, Return(p)
  PROVE  /\ call' \in [Procs -> CallRecords]
         /\ Place' = [Place EXCEPT ![p] = "idle"] /\ Doing' = [Doing EXCEPT ![p] = "none"]
         /\ SlotOf' = [SlotOf EXCEPT ![p] = None] /\ NameOf' = [NameOf EXCEPT ![p] = None]
         /\ KindOf' = [KindOf EXCEPT ![p] = "none"]
         /\ root' = (IF root = p THEN NoProc ELSE root) /\ root' \in Procs \cup {NoProc}
<1> PICK c : c = Idle
  OBVIOUS
<1>1. Views /\ call[p] \in CallRecords
  BY ViewTypes DEF TypeOK, CallRecords
<1>2. /\ c \in CallRecords /\ c.at = "idle" /\ c.of = "none"
      /\ c.slot = None /\ c.name = None /\ c.kind = "none"
  BY <1>1 DEF CallRecords, Places, Ofs, Idle
<1>3. TypeOK /\ p \in Procs /\ c \in CallRecords /\ call' = [call EXCEPT ![p] = c]
  BY <1>2 DEF Return
<1>4. /\ call' \in [Procs -> CallRecords]
      /\ Place' = [Place EXCEPT ![p] = c.at] /\ Doing' = [Doing EXCEPT ![p] = c.of]
      /\ SlotOf' = [SlotOf EXCEPT ![p] = c.slot] /\ NameOf' = [NameOf EXCEPT ![p] = c.name]
      /\ KindOf' = [KindOf EXCEPT ![p] = c.kind]
  BY ONLY <1>3, SetCall, Zenon
<1> QED
  BY <1>1, <1>2, <1>4, Values DEF Views, Return, TypeOK

\* What the changes of one entry do to the fields of the table.
LEMMA Unlocks ==
  ASSUME TypeOK, NEW s \in Slots, table' = Unlock(s)
  PROVE  /\ table' \in [Slots -> TableEntries]
         /\ Holders' = [Holders EXCEPT ![s] = NoProc]
         /\ UNCHANGED <<Nums, Refs, Valids, CopyTypes, CopyLinks>>
<1> PICK e : e = [table[s] EXCEPT !.holder = NoProc]
  OBVIOUS
<1>1. Views /\ table[s] \in TableEntries /\ table[s].disk_inode \in DiskInodes
  BY ViewTypes DEF TypeOK, InodeTypeOK, TableEntries
<1>2. /\ e.inode_number = table[s].inode_number /\ e.reference_count = table[s].reference_count
      /\ e.holder = NoProc /\ e.disk_inode = table[s].disk_inode
  BY <1>1 DEF TableEntries
<1>3. e.is_valid = table[s].is_valid
  BY <1>1 DEF TableEntries
<1>4. e \in TableEntries
  BY <1>1 DEF TableEntries
<1>5. TypeOK /\ s \in Slots /\ e \in TableEntries /\ table' = [table EXCEPT ![s] = e]
  BY <1>4 DEF Unlock
<1>6. /\ table' \in [Slots -> TableEntries]
      /\ Refs' = [Refs EXCEPT ![s] = e.reference_count]
      /\ Nums' = [Nums EXCEPT ![s] = e.inode_number]
      /\ Valids' = [Valids EXCEPT ![s] = e.is_valid]
      /\ CopyTypes' = [CopyTypes EXCEPT ![s] = e.disk_inode.type]
      /\ CopyLinks' = [CopyLinks EXCEPT ![s] = e.disk_inode.link_count]
      /\ Holders' = [Holders EXCEPT ![s] = e.holder]
  BY ONLY <1>5, SetEntry, Zenon
<1>7. table' \in [Slots -> TableEntries]
      /\ Nums' = Nums /\ Refs' = Refs
      /\ Holders' = [Holders EXCEPT ![s] = NoProc] /\ CopyTypes' = CopyTypes
      /\ CopyLinks' = CopyLinks
  BY <1>1, <1>2, <1>6, Values DEF Views
<1>8. Valids' = Valids
  BY <1>1, <1>3, <1>6, Values DEF Views
<1> QED
  BY <1>7, <1>8

LEMMA SetsCopy ==
  ASSUME TypeOK, NEW s \in Slots, NEW d \in DiskInodes,
         table' = [table EXCEPT ![s].disk_inode = d]
  PROVE  /\ table' \in [Slots -> TableEntries]
         /\ CopyTypes' = [CopyTypes EXCEPT ![s] = d.type]
         /\ CopyLinks' = [CopyLinks EXCEPT ![s] = d.link_count]
         /\ UNCHANGED <<Nums, Refs, Valids, Holders>>
<1> PICK e : e = [table[s] EXCEPT !.disk_inode = d]
  OBVIOUS
<1>1. Views /\ table[s] \in TableEntries /\ table[s].disk_inode \in DiskInodes
  BY ViewTypes DEF TypeOK, InodeTypeOK, TableEntries
<1>2. /\ e.inode_number = table[s].inode_number /\ e.reference_count = table[s].reference_count
      /\ e.holder = table[s].holder /\ e.disk_inode = d
  BY <1>1 DEF TableEntries
<1>3. e.is_valid = table[s].is_valid
  BY <1>1 DEF TableEntries
<1>4. e \in TableEntries
  BY <1>1 DEF TableEntries
<1>5. TypeOK /\ s \in Slots /\ e \in TableEntries /\ table' = [table EXCEPT ![s] = e]
  BY <1>4
<1>6. /\ table' \in [Slots -> TableEntries]
      /\ Refs' = [Refs EXCEPT ![s] = e.reference_count]
      /\ Nums' = [Nums EXCEPT ![s] = e.inode_number]
      /\ Valids' = [Valids EXCEPT ![s] = e.is_valid]
      /\ CopyTypes' = [CopyTypes EXCEPT ![s] = e.disk_inode.type]
      /\ CopyLinks' = [CopyLinks EXCEPT ![s] = e.disk_inode.link_count]
      /\ Holders' = [Holders EXCEPT ![s] = e.holder]
  BY ONLY <1>5, SetEntry, Zenon
<1>7. table' \in [Slots -> TableEntries]
      /\ Nums' = Nums /\ Refs' = Refs
      /\ Holders' = Holders /\ CopyTypes' = [CopyTypes EXCEPT ![s] = d.type]
      /\ CopyLinks' = [CopyLinks EXCEPT ![s] = d.link_count]
  BY <1>1, <1>2, <1>6, Values DEF Views
<1>8. Valids' = Valids
  BY <1>1, <1>3, <1>6, Values DEF Views
<1> QED
  BY <1>7, <1>8

LEMMA SetsCopyAndUnlocks ==
  ASSUME TypeOK, NEW s \in Slots, NEW d \in DiskInodes,
         table' = [table EXCEPT ![s].disk_inode = d, ![s].holder = NoProc]
  PROVE  /\ table' \in [Slots -> TableEntries]
         /\ Holders' = [Holders EXCEPT ![s] = NoProc] /\ CopyTypes' = [CopyTypes EXCEPT ![s] = d.type]
         /\ CopyLinks' = [CopyLinks EXCEPT ![s] = d.link_count]
         /\ UNCHANGED <<Nums, Refs, Valids>>
<1> PICK e : e = [table[s] EXCEPT !.disk_inode = d, !.holder = NoProc]
  OBVIOUS
<1>1. Views /\ table[s] \in TableEntries /\ table[s].disk_inode \in DiskInodes
  BY ViewTypes DEF TypeOK, InodeTypeOK, TableEntries
<1>2. /\ e.inode_number = table[s].inode_number /\ e.reference_count = table[s].reference_count
      /\ e.holder = NoProc /\ e.disk_inode = d
  BY <1>1 DEF TableEntries
<1>3. e.is_valid = table[s].is_valid
  BY <1>1 DEF TableEntries
<1>4. e \in TableEntries
  BY <1>1 DEF TableEntries
<1>5. TypeOK /\ s \in Slots /\ e \in TableEntries /\ table' = [table EXCEPT ![s] = e]
  BY <1>4
<1>6. /\ table' \in [Slots -> TableEntries]
      /\ Refs' = [Refs EXCEPT ![s] = e.reference_count]
      /\ Nums' = [Nums EXCEPT ![s] = e.inode_number]
      /\ Valids' = [Valids EXCEPT ![s] = e.is_valid]
      /\ CopyTypes' = [CopyTypes EXCEPT ![s] = e.disk_inode.type]
      /\ CopyLinks' = [CopyLinks EXCEPT ![s] = e.disk_inode.link_count]
      /\ Holders' = [Holders EXCEPT ![s] = e.holder]
  BY ONLY <1>5, SetEntry, Zenon
<1>7. table' \in [Slots -> TableEntries]
      /\ Nums' = Nums /\ Refs' = Refs
      /\ Holders' = [Holders EXCEPT ![s] = NoProc] /\ CopyTypes' = [CopyTypes EXCEPT ![s] = d.type]
      /\ CopyLinks' = [CopyLinks EXCEPT ![s] = d.link_count]
  BY <1>1, <1>2, <1>6, Values DEF Views
<1>8. Valids' = Valids
  BY <1>1, <1>3, <1>6, Values DEF Views
<1> QED
  BY <1>7, <1>8

LEMMA SetsHolder ==
  ASSUME TypeOK, NEW s \in Slots, NEW p \in Procs, table' = [table EXCEPT ![s].holder = p]
  PROVE  /\ table' \in [Slots -> TableEntries]
         /\ Holders' = [Holders EXCEPT ![s] = p]
         /\ UNCHANGED <<Nums, Refs, Valids, CopyTypes, CopyLinks>>
<1> PICK e : e = [table[s] EXCEPT !.holder = p]
  OBVIOUS
<1>1. Views /\ table[s] \in TableEntries /\ table[s].disk_inode \in DiskInodes
  BY ViewTypes DEF TypeOK, InodeTypeOK, TableEntries
<1>2. /\ e.inode_number = table[s].inode_number /\ e.reference_count = table[s].reference_count
      /\ e.holder = p /\ e.disk_inode = table[s].disk_inode
  BY <1>1 DEF TableEntries
<1>3. e.is_valid = table[s].is_valid
  BY <1>1 DEF TableEntries
<1>4. e \in TableEntries
  BY <1>1 DEF TableEntries
<1>5. TypeOK /\ s \in Slots /\ e \in TableEntries /\ table' = [table EXCEPT ![s] = e]
  BY <1>4
<1>6. /\ table' \in [Slots -> TableEntries]
      /\ Refs' = [Refs EXCEPT ![s] = e.reference_count]
      /\ Nums' = [Nums EXCEPT ![s] = e.inode_number]
      /\ Valids' = [Valids EXCEPT ![s] = e.is_valid]
      /\ CopyTypes' = [CopyTypes EXCEPT ![s] = e.disk_inode.type]
      /\ CopyLinks' = [CopyLinks EXCEPT ![s] = e.disk_inode.link_count]
      /\ Holders' = [Holders EXCEPT ![s] = e.holder]
  BY ONLY <1>5, SetEntry, Zenon
<1>7. table' \in [Slots -> TableEntries]
      /\ Nums' = Nums /\ Refs' = Refs
      /\ Holders' = [Holders EXCEPT ![s] = p] /\ CopyTypes' = CopyTypes
      /\ CopyLinks' = CopyLinks
  BY <1>1, <1>2, <1>6, Values DEF Views
<1>8. Valids' = Valids
  BY <1>1, <1>3, <1>6, Values DEF Views
<1> QED
  BY <1>7, <1>8

LEMMA Releases ==
  ASSUME TypeOK, NEW s \in Slots, PutRelease(s)
  PROVE  /\ table' \in [Slots -> TableEntries]
         /\ Valids' = [Valids EXCEPT ![s] = FALSE] /\ Holders' = [Holders EXCEPT ![s] = NoProc]
         /\ UNCHANGED <<Nums, Refs, CopyTypes, CopyLinks>>
<1> PICK e : e = [table[s] EXCEPT !.is_valid = FALSE, !.holder = NoProc]
  OBVIOUS
<1>1. Views /\ table[s] \in TableEntries /\ table[s].disk_inode \in DiskInodes
  BY ViewTypes DEF TypeOK, InodeTypeOK, TableEntries
<1>2. /\ e.inode_number = table[s].inode_number /\ e.reference_count = table[s].reference_count
      /\ e.holder = NoProc /\ e.disk_inode = table[s].disk_inode
  BY <1>1 DEF TableEntries
<1>3. e.is_valid = FALSE
  BY <1>1 DEF TableEntries
<1>4. e \in TableEntries
  BY <1>1 DEF TableEntries
<1>5. TypeOK /\ s \in Slots /\ e \in TableEntries /\ table' = [table EXCEPT ![s] = e]
  BY <1>4 DEF PutRelease
<1>6. /\ table' \in [Slots -> TableEntries]
      /\ Refs' = [Refs EXCEPT ![s] = e.reference_count]
      /\ Nums' = [Nums EXCEPT ![s] = e.inode_number]
      /\ Valids' = [Valids EXCEPT ![s] = e.is_valid]
      /\ CopyTypes' = [CopyTypes EXCEPT ![s] = e.disk_inode.type]
      /\ CopyLinks' = [CopyLinks EXCEPT ![s] = e.disk_inode.link_count]
      /\ Holders' = [Holders EXCEPT ![s] = e.holder]
  BY ONLY <1>5, SetEntry, Zenon
<1>7. table' \in [Slots -> TableEntries]
      /\ Nums' = Nums /\ Refs' = Refs
      /\ Holders' = [Holders EXCEPT ![s] = NoProc] /\ CopyTypes' = CopyTypes
      /\ CopyLinks' = CopyLinks
  BY <1>1, <1>2, <1>6, Values DEF Views
<1>8. Valids' = [Valids EXCEPT ![s] = FALSE]
  BY <1>1, <1>3, <1>6, Values DEF Views
<1> QED
  BY <1>7, <1>8

LEMMA SetsReferences ==
  ASSUME TypeOK, NEW s \in Slots, NEW r \in Nat,
         table' = [table EXCEPT ![s] = [table[s] EXCEPT !.reference_count = r]]
  PROVE  /\ table' \in [Slots -> TableEntries]
         /\ Refs' = [Refs EXCEPT ![s] = r]
         /\ UNCHANGED <<Nums, Valids, Holders, CopyTypes, CopyLinks>>
<1> PICK e : e = [table[s] EXCEPT !.reference_count = r]
  OBVIOUS
<1>1. Views /\ table[s] \in TableEntries /\ table[s].disk_inode \in DiskInodes
  BY ViewTypes DEF TypeOK, InodeTypeOK, TableEntries
<1>2. /\ e.inode_number = table[s].inode_number /\ e.reference_count = r
      /\ e.holder = table[s].holder /\ e.disk_inode = table[s].disk_inode
  BY <1>1 DEF TableEntries
<1>3. e.is_valid = table[s].is_valid
  BY <1>1 DEF TableEntries
<1>4. e \in TableEntries
  BY <1>1 DEF TableEntries
<1>5. TypeOK /\ s \in Slots /\ e \in TableEntries /\ table' = [table EXCEPT ![s] = e]
  BY <1>4
<1>6. /\ table' \in [Slots -> TableEntries]
      /\ Refs' = [Refs EXCEPT ![s] = e.reference_count]
      /\ Nums' = [Nums EXCEPT ![s] = e.inode_number]
      /\ Valids' = [Valids EXCEPT ![s] = e.is_valid]
      /\ CopyTypes' = [CopyTypes EXCEPT ![s] = e.disk_inode.type]
      /\ CopyLinks' = [CopyLinks EXCEPT ![s] = e.disk_inode.link_count]
      /\ Holders' = [Holders EXCEPT ![s] = e.holder]
  BY ONLY <1>5, SetEntry, Zenon
<1>7. table' \in [Slots -> TableEntries]
      /\ Nums' = Nums /\ Refs' = [Refs EXCEPT ![s] = r]
      /\ Holders' = Holders /\ CopyTypes' = CopyTypes
      /\ CopyLinks' = CopyLinks
  BY <1>1, <1>2, <1>6, Values DEF Views
<1>8. Valids' = Valids
  BY <1>1, <1>3, <1>6, Values DEF Views
<1> QED
  BY <1>7, <1>8

LEMMA Forgets ==
  ASSUME TypeOK, NEW s \in Slots,
         table' = [table EXCEPT ![s] = [table[s] EXCEPT !.reference_count = 0, !.inode_number = None,
                                                         !.disk_inode = FreeInode]]
  PROVE  /\ table' \in [Slots -> TableEntries]
         /\ Nums' = [Nums EXCEPT ![s] = None] /\ Refs' = [Refs EXCEPT ![s] = 0]
         /\ CopyTypes' = [CopyTypes EXCEPT ![s] = FreeInode.type]
         /\ CopyLinks' = [CopyLinks EXCEPT ![s] = FreeInode.link_count]
         /\ UNCHANGED <<Valids, Holders>>
<1> PICK e : e = [table[s] EXCEPT !.reference_count = 0, !.inode_number = None,
                                  !.disk_inode = FreeInode]
  OBVIOUS
<1>1. Views /\ table[s] \in TableEntries /\ table[s].disk_inode \in DiskInodes
  BY ViewTypes DEF TypeOK, InodeTypeOK, TableEntries
<1>2. /\ e.inode_number = None /\ e.reference_count = 0
      /\ e.holder = table[s].holder /\ e.disk_inode = FreeInode
  BY <1>1 DEF TableEntries
<1>3. e.is_valid = table[s].is_valid
  BY <1>1 DEF TableEntries
<1>4. e \in TableEntries
  BY <1>1 DEF TableEntries, DiskInodes, FreeInode
<1>5. TypeOK /\ s \in Slots /\ e \in TableEntries /\ table' = [table EXCEPT ![s] = e]
  BY <1>4 DEF DiskInodes, FreeInode
<1>6. /\ table' \in [Slots -> TableEntries]
      /\ Refs' = [Refs EXCEPT ![s] = e.reference_count]
      /\ Nums' = [Nums EXCEPT ![s] = e.inode_number]
      /\ Valids' = [Valids EXCEPT ![s] = e.is_valid]
      /\ CopyTypes' = [CopyTypes EXCEPT ![s] = e.disk_inode.type]
      /\ CopyLinks' = [CopyLinks EXCEPT ![s] = e.disk_inode.link_count]
      /\ Holders' = [Holders EXCEPT ![s] = e.holder]
  BY ONLY <1>5, SetEntry, Zenon
<1>7. table' \in [Slots -> TableEntries]
      /\ Nums' = [Nums EXCEPT ![s] = None] /\ Refs' = [Refs EXCEPT ![s] = 0]
      /\ Holders' = Holders /\ CopyTypes' = [CopyTypes EXCEPT ![s] = FreeInode.type]
      /\ CopyLinks' = [CopyLinks EXCEPT ![s] = FreeInode.link_count]
  BY <1>1, <1>2, <1>6, Values DEF Views
<1>8. Valids' = Valids
  BY <1>1, <1>3, <1>6, Values DEF Views
<1> QED
  BY <1>7, <1>8

LEMMA Recycles ==
  ASSUME TypeOK, NEW s \in Slots, NEW n \in Inums, table' = [table EXCEPT ![s] = Recycled(s, n)]
  PROVE  /\ table' \in [Slots -> TableEntries]
         /\ Nums' = [Nums EXCEPT ![s] = n] /\ Refs' = [Refs EXCEPT ![s] = 1]
         /\ Valids' = [Valids EXCEPT ![s] = FALSE]
         /\ UNCHANGED <<Holders, CopyTypes, CopyLinks>>
<1> PICK e : e = Recycled(s, n)
  OBVIOUS
<1>1. Views /\ table[s] \in TableEntries /\ table[s].disk_inode \in DiskInodes
  BY ViewTypes DEF TypeOK, InodeTypeOK, TableEntries
<1>2. /\ e.inode_number = n /\ e.reference_count = 1
      /\ e.holder = table[s].holder /\ e.disk_inode = table[s].disk_inode
  BY <1>1 DEF TableEntries, Recycled
<1>3. e.is_valid = FALSE
  BY <1>1 DEF TableEntries, Recycled
<1>4. e \in TableEntries
  BY <1>1 DEF TableEntries, Recycled
<1>5. TypeOK /\ s \in Slots /\ e \in TableEntries /\ table' = [table EXCEPT ![s] = e]
  BY <1>4 DEF Recycled
<1>6. /\ table' \in [Slots -> TableEntries]
      /\ Refs' = [Refs EXCEPT ![s] = e.reference_count]
      /\ Nums' = [Nums EXCEPT ![s] = e.inode_number]
      /\ Valids' = [Valids EXCEPT ![s] = e.is_valid]
      /\ CopyTypes' = [CopyTypes EXCEPT ![s] = e.disk_inode.type]
      /\ CopyLinks' = [CopyLinks EXCEPT ![s] = e.disk_inode.link_count]
      /\ Holders' = [Holders EXCEPT ![s] = e.holder]
  BY ONLY <1>5, SetEntry, Zenon
<1>7. table' \in [Slots -> TableEntries]
      /\ Nums' = [Nums EXCEPT ![s] = n] /\ Refs' = [Refs EXCEPT ![s] = 1]
      /\ Holders' = Holders /\ CopyTypes' = CopyTypes
      /\ CopyLinks' = CopyLinks
  BY <1>1, <1>2, <1>6, Values DEF Views
<1>8. Valids' = [Valids EXCEPT ![s] = FALSE]
  BY <1>1, <1>3, <1>6, Values DEF Views
<1> QED
  BY <1>7, <1>8

\* An entry locked by p with the copy d.
LockedWith(s, p, d) == [table[s] EXCEPT !.holder = p, !.is_valid = TRUE, !.disk_inode = d]

\* The entry afterwards, with a copy of type k and link count l.
Locking(s, p, k, l) ==
  /\ table' \in [Slots -> TableEntries]
  /\ Valids' = [Valids EXCEPT ![s] = TRUE] /\ Holders' = [Holders EXCEPT ![s] = p]
  /\ CopyTypes' = [CopyTypes EXCEPT ![s] = k] /\ CopyLinks' = [CopyLinks EXCEPT ![s] = l]
  /\ UNCHANGED <<Nums, Refs>>

LEMMA Locks ==
  ASSUME TypeOK, NEW s \in Slots, NEW p \in Procs, NEW d \in DiskInodes,
         NEW k, k = d.type, NEW l, l = d.link_count,
         table' = [table EXCEPT ![s] = LockedWith(s, p, d)]
  PROVE  Locking(s, p, k, l)
<1> PICK e : e = LockedWith(s, p, d)
  OBVIOUS
<1>1. Views /\ table[s] \in TableEntries /\ table[s].disk_inode \in DiskInodes
  BY ViewTypes DEF TypeOK, InodeTypeOK, TableEntries
<1>2. /\ e.inode_number = table[s].inode_number /\ e.reference_count = table[s].reference_count
      /\ e.holder = p /\ e.disk_inode = d
  BY <1>1 DEF TableEntries, LockedWith
<1>3. e.is_valid = TRUE
  BY <1>1 DEF TableEntries, LockedWith
<1>4. e \in TableEntries
  BY <1>1 DEF TableEntries, LockedWith
<1>5. TypeOK /\ s \in Slots /\ e \in TableEntries /\ table' = [table EXCEPT ![s] = e]
  BY <1>4
<1>6. /\ table' \in [Slots -> TableEntries]
      /\ Refs' = [Refs EXCEPT ![s] = e.reference_count]
      /\ Nums' = [Nums EXCEPT ![s] = e.inode_number]
      /\ Valids' = [Valids EXCEPT ![s] = e.is_valid]
      /\ CopyTypes' = [CopyTypes EXCEPT ![s] = e.disk_inode.type]
      /\ CopyLinks' = [CopyLinks EXCEPT ![s] = e.disk_inode.link_count]
      /\ Holders' = [Holders EXCEPT ![s] = e.holder]
  BY ONLY <1>5, SetEntry, Zenon
<1>7. table' \in [Slots -> TableEntries]
      /\ Nums' = Nums /\ Refs' = Refs
      /\ Holders' = [Holders EXCEPT ![s] = p] /\ CopyTypes' = [CopyTypes EXCEPT ![s] = k]
      /\ CopyLinks' = [CopyLinks EXCEPT ![s] = l]
  BY <1>1, <1>2, <1>6, Values DEF Views
<1>8. Valids' = [Valids EXCEPT ![s] = TRUE]
  BY <1>1, <1>3, <1>6, Values DEF Views
<1> QED
  BY <1>7, <1>8, Zenon DEF Locking

\* One reference less.
LEMMA Drops ==
  ASSUME TypeOK, NEW s \in Slots, Refs[s] > 0, table' = [table EXCEPT ![s] = Dropped(s)]
  PROVE  /\ table' \in [Slots -> TableEntries]
         /\ Refs' = [Refs EXCEPT ![s] = Refs[s] - 1] /\ UNCHANGED <<Valids, Holders>>
         /\ Refs[s] # 1 => UNCHANGED <<Nums, CopyTypes, CopyLinks>>
         /\ \A t \in Slots \ {s} : /\ Nums'[t] = Nums[t] /\ CopyTypes'[t] = CopyTypes[t]
                                   /\ CopyLinks'[t] = CopyLinks[t]
<1>1. Views /\ table[s].reference_count = Refs[s]
  BY ViewTypes, Values
<1>2. CASE Refs[s] = 1
  <2>1. TypeOK /\ table' = [table EXCEPT ![s] = [table[s] EXCEPT !.reference_count = 0,
                                             !.inode_number = None, !.disk_inode = FreeInode]]
    BY <1>1, <1>2 DEF Dropped
  <2>2. /\ table' \in [Slots -> TableEntries] /\ Nums' = [Nums EXCEPT ![s] = None]
        /\ Refs' = [Refs EXCEPT ![s] = 0] /\ UNCHANGED <<Valids, Holders>>
        /\ CopyTypes' = [CopyTypes EXCEPT ![s] = FreeInode.type]
        /\ CopyLinks' = [CopyLinks EXCEPT ![s] = FreeInode.link_count]
    BY <2>1, Forgets
  <2> QED
    BY <1>1, <1>2, <2>2 DEF Views
<1>3. CASE Refs[s] # 1
  <2> PICK r : r = Refs[s] - 1
    OBVIOUS
  <2>1. TypeOK /\ r \in Nat /\ table' = [table EXCEPT ![s] = [table[s] EXCEPT !.reference_count = r]]
    <3>1. r \in Nat
      BY <1>1 DEF Views
    <3>2. table' = [table EXCEPT ![s].reference_count = r]
      BY <1>1, <1>3 DEF Dropped
    <3> QED
      BY <3>1, <3>2
  <2>2. /\ table' \in [Slots -> TableEntries] /\ Refs' = [Refs EXCEPT ![s] = r]
        /\ UNCHANGED <<Nums, Valids, Holders, CopyTypes, CopyLinks>>
    BY <2>1, SetsReferences
  <2> QED
    BY <1>3, <2>2
<1> QED
  BY <1>2, <1>3

\* What get does, when it finds the inode or an entry for it.
\* get(n) takes a reference to entry s.
Found(n, s) ==
  /\ s \in Slots /\ table' \in [Slots -> TableEntries]
  /\ Refs[s] > 0 => Nums[s] = n
  /\ Refs[s] = 0 => \A t \in Slots : Refs[t] > 0 => Nums[t] # n
  /\ Refs' = [Refs EXCEPT ![s] = Refs[s] + 1] /\ Nums' = [Nums EXCEPT ![s] = n]
  /\ Valids' = [Valids EXCEPT ![s] = Refs[s] > 0 /\ Valids[s]]
  /\ UNCHANGED <<CopyTypes, CopyLinks, Holders>>

\* get finds the entry of the inode, or recycles an empty one.
LEMMA Gets ==
  ASSUME TypeOK, NEW n \in Inums, ~NoSlotFor(n), table' = Get(n)
  PROVE  /\ SlotFor(n) \in Slots
         /\ Found(n, SlotFor(n))
<1> PICK s : s = SlotFor(n)
  OBVIOUS
<1>1. Views
  BY ViewTypes
<1>2. /\ Referenced(n) = {t \in Slots : Refs[t] > 0 /\ Nums[t] = n}
      /\ EmptySlots = {t \in Slots : Refs[t] = 0}
  BY Values DEF Referenced, EmptySlots
<1>3. CASE Referenced(n) # {}
  <2>1. s \in Referenced(n)
    <3>1. s = Lowest(Referenced(n))
      BY <1>3 DEF SlotFor
    <3>2. Referenced(n) \subseteq Nat
      BY Constants DEF Referenced
    <3> QED
      BY <1>3, <3>1, <3>2, LowestIsMember, Zenon
  <2>2. s \in Slots /\ Refs[s] > 0 /\ Nums[s] = n
    BY <1>2, <2>1
  <2> PICK r : r = Refs[s] + 1
    OBVIOUS
  <2>3. r \in Nat
    BY <1>1, <2>2 DEF Views
  <2>4. table' = [table EXCEPT ![s] = [table[s] EXCEPT !.reference_count = r]]
    BY <1>3, <2>2, Values DEF Get, OneMoreReference
  <2>5. /\ table' \in [Slots -> TableEntries] /\ Refs' = [Refs EXCEPT ![s] = r]
        /\ UNCHANGED <<Nums, Valids, Holders, CopyTypes, CopyLinks>>
    BY <2>2, <2>3, <2>4, SetsReferences
  <2>6. Nums' = [Nums EXCEPT ![s] = n] /\ Refs[s] # 0
    BY <1>1, <2>2, <2>5 DEF Views
  <2>7. Valids' = [Valids EXCEPT ![s] = Refs[s] > 0 /\ Valids[s]]
    BY <1>1, <2>2, <2>5 DEF Views
  <2> QED
    BY <2>2, <2>5, <2>6, <2>7 DEF Found
<1>4. CASE Referenced(n) = {}
  <2>1. s \in EmptySlots
    <3>1. s = Lowest(EmptySlots) /\ EmptySlots # {}
      BY <1>4 DEF SlotFor, NoSlotFor
    <3>2. EmptySlots \subseteq Nat
      BY Constants DEF EmptySlots
    <3> QED
      BY <3>1, <3>2, LowestIsMember, Zenon
  <2>2. s \in Slots /\ Refs[s] = 0 /\ \A t \in Slots : Refs[t] > 0 => Nums[t] # n
    BY <1>2, <1>4, <2>1
  <2>3. table' = [table EXCEPT ![s] = Recycled(s, n)]
    BY <1>4 DEF Get
  <2>4. /\ table' \in [Slots -> TableEntries] /\ Refs' = [Refs EXCEPT ![s] = 1]
        /\ Nums' = [Nums EXCEPT ![s] = n] /\ Valids' = [Valids EXCEPT ![s] = FALSE]
        /\ UNCHANGED <<Holders, CopyTypes, CopyLinks>>
    BY <2>2, <2>3, Recycles
  <2>5. Refs' = [Refs EXCEPT ![s] = Refs[s] + 1]
    BY <2>2, <2>4
  <2>6. Valids' = [Valids EXCEPT ![s] = Refs[s] > 0 /\ Valids[s]]
    <3>1. ~(Refs[s] > 0)
      BY <2>2
    <3>2. (Refs[s] > 0 /\ Valids[s]) = FALSE
      BY <3>1, Zenon
    <3> QED
      BY <2>4, <3>2, Zenon
  <2>7. Refs[s] > 0 => Nums[s] = n
    BY <2>2
  <2>8. Found(n, s)
    BY <2>2, <2>4, <2>5, <2>6, <2>7, Zenon DEF Found
  <2> QED
    BY <2>2, <2>8
<1> QED
  BY <1>3, <1>4

-----------------------------------------------------------------------------
(* The actions.                                                             *)

\* A step that does not panic keeps the invariant of a running system.
LEMMA Continues ==
  ASSUME panic' = "none", Typed', Core'
  PROVE  IInv'
BY TypedIsAfter DEF IInv, Running

\* A valid copy that is not locked is what the disk has.
LEMMA CopiesCurrent ==
  ASSUME Running, NEW s \in Slots, Refs[s] > 0, Valids[s], Holders[s] = NoProc
  PROVE  /\ Nums[s] \in Inums /\ table[s].disk_inode = disk[Nums[s]]
         /\ DiskTypes[Nums[s]] # "free"
<1> USE Constants
<1>1. Views /\ CopyExact /\ HolderExact /\ OneEntry /\ TypeOK
  BY Parts DEF Running
<1>2. ~BeingFreed(s)
  BY <1>1 DEF BeingFreed, HolderExact, Holding
<1> PICK n : n = Nums[s]
  OBVIOUS
<1>3. n \in Inums /\ CopyTypes[s] = DiskTypes[n] /\ CopyLinks[s] = DiskLinks[n] /\ DiskTypes[n] # "free"
  BY <1>1, <1>2 DEF CopyExact, OneEntry
<1> PICK c, d : c = table[s].disk_inode /\ d = disk[n]
  OBVIOUS
<1>4. c \in DiskInodes /\ d \in DiskInodes /\ c.type = d.type /\ c.link_count = d.link_count
  <2>1. c \in DiskInodes /\ d \in DiskInodes
    BY <1>1, <1>3 DEF TypeOK, InodeTypeOK
  <2>2. /\ c.type = CopyTypes[s] /\ c.link_count = CopyLinks[s]
        /\ d.type = DiskTypes[n] /\ d.link_count = DiskLinks[n]
    BY <1>3, Values
  <2> QED
    BY <1>3, <2>1, <2>2
<1>5. c = d
  BY <1>4 DEF DiskInodes
<1> QED
  BY <1>3, <1>5

\* get panics: nothing has changed but what alloc has written.
LEMMA Stops ==
  ASSUME Running, panic' = "no inodes available", UNCHANGED <<table, call, entry, rootLinks, fileVars>>,
         root' \in Procs \cup {NoProc},
         \/ disk' = disk
         \/ \E n \in Inums, k \in Kinds :
              DiskTypes[n] = "free" /\ disk' = [disk EXCEPT ![n] = [type |-> k, link_count |-> 0]]
  PROVE  IInv'
<1> USE Constants
<1>1. Views /\ Typed /\ SlotRefs /\ DescriptorRefs /\ FreeDisk /\ CallShape
  BY Parts, TypedIs DEF Running
<1>2. /\ UNCHANGED <<Place, Doing, SlotOf, NameOf, KindOf>> /\ UNCHANGED <<FileRefs, FileSlots>>
      /\ UNCHANGED <<Refs, Nums, Valids, CopyTypes, CopyLinks, Holders>> /\ UNCHANGED Points
  BY KeepCall, KeepTable, KeepFile DEF fileVars, Points
<1> DEFINE Kept ==
      /\ disk' \in [Inums -> DiskInodes] /\ UNCHANGED DiskLinks
      /\ \A n \in Inums : DiskTypes[n] # "free" => disk'[n] = disk[n] /\ DiskTypes'[n] = DiskTypes[n]
<1>3. Kept
  <2>1. CASE disk' = disk
    BY <1>1, <2>1, KeepDisk DEF Typed
  <2>2. ASSUME NEW n \in Inums, NEW k \in Kinds, DiskTypes[n] = "free",
               disk' = [disk EXCEPT ![n] = [type |-> k, link_count |-> 0]]
        PROVE  Kept
    <3> PICK r : r = [type |-> k, link_count |-> 0]
      OBVIOUS
    <3>1. r \in DiskInodes /\ r.type = k /\ r.link_count = 0
      BY DEF DiskInodes
    <3>2. TypeOK /\ n \in Inums /\ r \in DiskInodes /\ disk' = [disk EXCEPT ![n] = r]
      BY <2>2, <3>1 DEF Running
    <3>3. /\ disk' \in [Inums -> DiskInodes] /\ DiskTypes' = [DiskTypes EXCEPT ![n] = r.type]
          /\ DiskLinks' = [DiskLinks EXCEPT ![n] = r.link_count]
      BY ONLY <3>2, SetDisk, Zenon
    <3>4. DiskLinks[n] = 0
      BY <1>1, <2>2 DEF FreeDisk
    <3>5. DiskLinks' = DiskLinks
      BY <1>1, <3>1, <3>3, <3>4 DEF Views
    <3>6. ASSUME NEW m \in Inums, DiskTypes[m] # "free"
          PROVE  disk'[m] = disk[m] /\ DiskTypes'[m] = DiskTypes[m]
      <4>1. m # n
        BY <2>2, <3>6
      <4>2. disk \in [Inums -> DiskInodes] /\ DiskTypes \in [Inums -> {"free", "file", "directory"}]
        BY <1>1 DEF Typed, Views
      <4> QED
        BY ONLY <3>2, <3>3, <4>1, <4>2, m \in Inums
    <3> QED
      BY <3>3, <3>5, <3>6
  <2> QED
    BY <2>1, <2>2
<1>4. Typed'
  BY <1>1, <1>3 DEF Typed, Panics, fileVars
<1>5. Counts'
  <2>1. SlotRefs' /\ DescriptorRefs'
    BY <1>2, KeepSlots, KeepPoints
  <2>2. Counted' = Counted
    BY <1>2 DEF Counted, HasCounted
  <2>3. NameTypes' = NameTypes
    <3>1. ASSUME NEW x \in Names, entry[x] # None
          PROVE  DiskTypes'[entry[x]] = DiskTypes[entry[x]]
      <4>1. PICK n \in Inums : n = entry[x] /\ DiskLinks[n] > 0
        BY <3>1, Referring
      <4>2. Views /\ FreeDisk
        BY <1>1
      <4>3. DiskTypes[n] # "free"
        BY ONLY <4>1, <4>2 DEF FreeDisk, Views
      <4> QED
        BY <1>3, <4>1, <4>3
    <3> QED
      BY <3>1 DEF NameTypes
  <2>4. NameLinks' /\ DirectoryLinks'
    BY <1>3, <2>2, <2>3, KeepLinks, KeepDirectories
  <2> QED
    BY <2>1, <2>4 DEF Counts
<1>6. CopyIsCurrent'
  <2> SUFFICES ASSUME NEW s \in Slots, table[s].reference_count > 0, table[s].is_valid,
                      table[s].holder = NoProc
               PROVE  table[s].disk_inode = disk'[table[s].inode_number]
    BY DEF CopyIsCurrent
  <2>1. Refs[s] > 0 /\ Valids[s] /\ Holders[s] = NoProc /\ table[s].inode_number = Nums[s]
    BY Values
  <2>2. Nums[s] \in Inums /\ table[s].disk_inode = disk[Nums[s]] /\ DiskTypes[Nums[s]] # "free"
    BY <2>1, CopiesCurrent
  <2> QED
    BY <1>3, <2>1, <2>2
<1>7. CallShape'
  BY <1>1, <1>2 DEF CallShape
<1> QED
  BY <1>4, <1>5, <1>6, <1>7, TypedIsAfter DEF IInv, Stopped

\* What enters a call.
CallTypes(p, o, m, k, s) ==
  /\ p \in Procs /\ o \in Ofs /\ m \in Names \cup {None} /\ k \in Kinds \cup {"none"}
  /\ s \in Slots

\* The call as it waits for the lock of entry s.
LockEffect(p, o, m, k, s) ==
  /\ Place' = [Place EXCEPT ![p] = "lock"] /\ Doing' = [Doing EXCEPT ![p] = o]
  /\ SlotOf' = [SlotOf EXCEPT ![p] = s] /\ NameOf' = [NameOf EXCEPT ![p] = m]
  /\ KindOf' = [KindOf EXCEPT ![p] = k]

\* A call enters with the entry that get found.
LEMMA SetCallOf ==
  ASSUME TypeOK, NEW p, NEW o, NEW m, NEW k, NEW s, CallTypes(p, o, m, k, s),
         call' = [call EXCEPT ![p] = [Calling(o, m, k) EXCEPT !.at = "lock", !.slot = s]]
  PROVE  call' \in [Procs -> CallRecords] /\ LockEffect(p, o, m, k, s)
<1> USE DEF CallTypes
<1> PICK c : c = [Calling(o, m, k) EXCEPT !.at = "lock", !.slot = s]
  OBVIOUS
<1>1. /\ c \in CallRecords /\ c.at = "lock" /\ c.of = o /\ c.slot = s /\ c.name = m /\ c.kind = k
  BY DEF CallRecords, Ofs, Calling, Idle
<1>2. TypeOK /\ p \in Procs /\ c \in CallRecords /\ call' = [call EXCEPT ![p] = c]
  BY <1>1
<1>3. /\ call' \in [Procs -> CallRecords]
      /\ Place' = [Place EXCEPT ![p] = c.at] /\ Doing' = [Doing EXCEPT ![p] = c.of]
      /\ SlotOf' = [SlotOf EXCEPT ![p] = c.slot] /\ NameOf' = [NameOf EXCEPT ![p] = c.name]
      /\ KindOf' = [KindOf EXCEPT ![p] = c.kind]
  BY ONLY <1>2, SetCall, Zenon
<1> QED
  BY <1>1, <1>3 DEF LockEffect

\* get, and the call that waits for the lock of what it found.
LEMMA Takes ==
  ASSUME Running, NEW p, NEW n \in Inums, NEW o, NEW m, NEW k, NEW s, s = SlotFor(n),
         ~NoSlotFor(n), s \in Slots => CallTypes(p, o, m, k, s), GetFor(p, n, Calling(o, m, k))
  PROVE  /\ Found(n, s) /\ panic' = panic /\ call' \in [Procs -> CallRecords]
         /\ LockEffect(p, o, m, k, s)
<1>1. /\ TypeOK /\ table' = Get(n) /\ panic' = panic
      /\ call' = [call EXCEPT ![p] = [Calling(o, m, k) EXCEPT !.at = "lock", !.slot = s]]
  BY DEF GetFor, Running
<1>2. s \in Slots /\ Found(n, s)
  BY <1>1, Gets
<1>3. CallTypes(p, o, m, k, s)
  BY <1>2
<1>4. call' \in [Procs -> CallRecords] /\ LockEffect(p, o, m, k, s)
  BY ONLY <1>1, <1>3, SetCallOf, Zenon
<1> QED
  BY <1>1, <1>2, <1>4

\* resolvePath and lookupChild.
LEMMA FindStep ==
  ASSUME Running, panic = "none", NEW p \in Procs, NEW x \in Names,
         NEW of \in {"open", "link", "create", "unlink"}, NEW m \in Names \cup {None},
         NEW k \in Kinds \cup {"none"}, Ready(p), root = NoProc, entry[x] # None,
         of # "open" => m \in Names, of = "unlink" => m = x, of = "create" => k \in Kinds,
         of = "open" \/ (of = "create" /\ k = "file") => FreeFds(p) # {},
         GetFor(p, entry[x], Calling(of, m, k)),
         root' = IF of \in {"create", "unlink"} THEN p ELSE root,
         UNCHANGED <<disk, entry, rootLinks, fileVars>>
  PROVE  IInv'
<1>1. Views /\ Typed /\ TypeOK
  BY Parts, TypedIs DEF Running
<1> PICK n \in Inums : n = entry[x]
  BY <1>1 DEF Views
<1>2. CASE NoSlotFor(n)
  <2>1. /\ panic' = "no inodes available" /\ UNCHANGED <<table, call, entry, rootLinks, fileVars>>
        /\ disk' = disk /\ root' \in Procs \cup {NoProc}
    BY <1>1, <1>2 DEF GetFor, Typed
  <2> QED
    BY ONLY <2>1, Running, Stops, Zenon
<1>3. CASE ~NoSlotFor(n)
  <2> PICK s : s = SlotFor(n)
    OBVIOUS
  <2>1. /\ Running /\ ~NoSlotFor(n) /\ GetFor(p, n, Calling(of, m, k)) /\ s = SlotFor(n)
        /\ s \in Slots => CallTypes(p, of, m, k, s)
    BY <1>3 DEF CallTypes, Ofs
  <2>2. /\ Found(n, s) /\ panic' = panic /\ call' \in [Procs -> CallRecords]
        /\ LockEffect(p, of, m, k, s)
    BY ONLY <2>1, n \in Inums, Takes, Zenon
  <2>3. /\ Place[p] = "idle" /\ life[p] # "unused" /\ entry[x] = n /\ root = NoProc
        /\ (of = "open" \/ (of = "create" /\ k = "file") => \E d \in Fds : openFiles[p][d] = None)
    BY Values DEF Ready, FreeFds
  <2>4. /\ s \in Slots
        /\ Refs[s] > 0 => Nums[s] = n
        /\ Refs[s] = 0 => \A t \in Slots : Refs[t] > 0 => Nums[t] # n
        /\ Refs' = [Refs EXCEPT ![s] = Refs[s] + 1] /\ Nums' = [Nums EXCEPT ![s] = n]
        /\ Valids' = [Valids EXCEPT ![s] = Refs[s] > 0 /\ Valids[s]]
        /\ UNCHANGED <<CopyTypes, CopyLinks, Holders>> /\ table' \in [Slots -> TableEntries]
    BY <2>2, Zenon DEF Found
  <2>5. UNCHANGED <<DiskTypes, DiskLinks, FileRefs, FileSlots, Points, openFiles, life>>
    BY KeepDisk, KeepFile DEF fileVars, Points
  <2>6. UNCHANGED <<CopyTypes, CopyLinks, Holders, DiskTypes, DiskLinks, FileRefs, FileSlots,
                    Points, openFiles, entry, rootLinks, life>>
    BY <2>4, <2>5
  <2>7. FoundEffect(p, of, m, s, n, x, k)
    BY <2>2, <2>3, <2>4, <2>6, Zenon DEF FoundEffect, LockEffect
  <2>8. Typed'
    BY <1>1, <2>2, <2>4 DEF Typed, fileVars, Panics
  <2> QED
    BY <2>2, <2>7, <2>8, FoundCore, Continues
<1> QED
  BY <1>2, <1>3

\* Entering a call: open and link find the inode and let the directory go.
LEMMA ResolveStep ==
  ASSUME Running, panic = "none", ~OpenWhenFull, NEW p \in Procs, NEW n \in Names,
         NEW of \in {"open", "link"}, NEW m \in Names \cup {None}, of # "open" => m \in Names,
         resolvePath(p, n, of, m)
  PROVE  IInv'
<1>1. /\ Ready(p) /\ root = NoProc /\ entry[n] # None /\ root' = root
      /\ of = "open" => FreeFds(p) # {}
      /\ GetFor(p, entry[n], Calling(of, m, "none")) /\ UNCHANGED <<disk, entry, rootLinks, fileVars>>
  BY DEF resolvePath
<1>2. /\ of \in {"open", "link", "create", "unlink"} /\ "none" \in Kinds \cup {"none"}
      /\ (of = "unlink" => m = n) /\ (of = "create" => "none" \in Kinds)
      /\ (of = "open" \/ (of = "create" /\ "none" = "file") => FreeFds(p) # {})
      /\ root' = IF of \in {"create", "unlink"} THEN p ELSE root
  BY <1>1
<1> QED
  BY ONLY <1>1, <1>2, Running, panic = "none", p \in Procs, n \in Names, m \in Names \cup {None},
          of # "open" => m \in Names, FindStep, Zenon

\* create and unlink keep the directory locked.
LEMMA LookupStep ==
  ASSUME Running, panic = "none", ~OpenWhenFull, NEW p \in Procs, NEW n \in Names,
         NEW of \in {"create", "unlink"}, NEW k \in Kinds \cup {"none"}, of = "create" => k \in Kinds,
         lookupChild(p, n, of, k)
  PROVE  IInv'
<1>1. /\ Ready(p) /\ root = NoProc /\ entry[n] # None /\ root' = p
      /\ of = "create" /\ k = "file" => FreeFds(p) # {}
      /\ GetFor(p, entry[n], Calling(of, n, k)) /\ UNCHANGED <<disk, entry, rootLinks, fileVars>>
  BY DEF lookupChild
<1>2. /\ of \in {"open", "link", "create", "unlink"} /\ n \in Names \cup {None}
      /\ (of = "unlink" => n = n) /\ (of # "open" => n \in Names)
      /\ (of = "open" \/ (of = "create" /\ k = "file") => FreeFds(p) # {})
      /\ root' = IF of \in {"create", "unlink"} THEN p ELSE root
  BY <1>1
<1> QED
  BY ONLY <1>1, <1>2, Running, panic = "none", p \in Procs, n \in Names, k \in Kinds \cup {"none"},
          of = "create" => k \in Kinds, FindStep, Zenon

\* create of a new name allocates its inode.
LEMMA AllocStep ==
  ASSUME Running, panic = "none", ~OpenWhenFull, NEW p \in Procs, NEW x \in Names, NEW k \in Kinds,
         alloc(p, x, k)
  PROVE  IInv'
<1> USE Constants
<1>1. Views /\ Typed /\ TypeOK
  BY Parts, TypedIs DEF Running
<1> PICK n : n = Lowest(FreeInums)
  OBVIOUS
<1>2. /\ Ready(p) /\ root = NoProc /\ entry[x] = None /\ FreeInums # {} /\ root' = p
      /\ k = "file" => FreeFds(p) # {}
      /\ disk' = [disk EXCEPT ![n] = [type |-> k, link_count |-> 0]]
      /\ GetFor(p, n, Calling("new", x, k)) /\ UNCHANGED <<entry, rootLinks, fileVars>>
  BY DEF alloc
<1>3. n \in Inums /\ DiskTypes[n] = "free"
  <2>1. FreeInums \subseteq Nat
    BY Constants DEF FreeInums
  <2>2. n \in FreeInums
    BY <1>2, <2>1, LowestIsMember
  <2> QED
    BY <2>2, Values DEF FreeInums
<1>4. CASE NoSlotFor(n)
  <2>1. /\ panic' = "no inodes available" /\ UNCHANGED <<table, call, entry, rootLinks, fileVars>>
        /\ root' \in Procs \cup {NoProc}
        /\ \E i \in Inums, j \in Kinds :
             DiskTypes[i] = "free" /\ disk' = [disk EXCEPT ![i] = [type |-> j, link_count |-> 0]]
    BY <1>2, <1>3, <1>4 DEF GetFor
  <2> QED
    BY ONLY <2>1, Running, Stops, Zenon
<1>5. CASE ~NoSlotFor(n)
  <2> PICK s : s = SlotFor(n)
    OBVIOUS
  <2>1. /\ Running /\ ~NoSlotFor(n) /\ GetFor(p, n, Calling("new", x, k)) /\ s = SlotFor(n)
        /\ s \in Slots => CallTypes(p, "new", x, k, s)
    BY <1>2, <1>5 DEF CallTypes, Ofs
  <2>2. /\ Found(n, s) /\ panic' = panic /\ call' \in [Procs -> CallRecords]
        /\ LockEffect(p, "new", x, k, s)
    BY ONLY <1>3, <2>1, Takes, Zenon
  <2>3. /\ Place[p] = "idle" /\ life[p] # "unused" /\ entry[x] = None /\ root = NoProc
        /\ (k = "file" => \E d \in Fds : openFiles[p][d] = None)
    BY <1>2, Values DEF Ready, FreeFds
  <2>4. /\ s \in Slots
        /\ Refs[s] > 0 => Nums[s] = n
        /\ Refs[s] = 0 => \A t \in Slots : Refs[t] > 0 => Nums[t] # n
        /\ Refs' = [Refs EXCEPT ![s] = Refs[s] + 1] /\ Nums' = [Nums EXCEPT ![s] = n]
        /\ Valids' = [Valids EXCEPT ![s] = Refs[s] > 0 /\ Valids[s]]
        /\ UNCHANGED <<CopyTypes, CopyLinks, Holders>> /\ table' \in [Slots -> TableEntries]
    BY <2>2, Zenon DEF Found
  <2>5. UNCHANGED <<FileRefs, FileSlots, Points, openFiles, life>>
    BY <1>2, KeepFile DEF fileVars, Points
  <2>6. UNCHANGED <<CopyTypes, CopyLinks, Holders, FileRefs, FileSlots, Points, openFiles, entry,
                    rootLinks, life>>
    BY <1>2, <2>4, <2>5
  <2>7. /\ disk' \in [Inums -> DiskInodes] /\ DiskTypes' = [DiskTypes EXCEPT ![n] = k]
        /\ DiskLinks' = [DiskLinks EXCEPT ![n] = 0]
    <3> PICK r : r = [type |-> k, link_count |-> 0]
      OBVIOUS
    <3>1. r \in DiskInodes /\ r.type = k /\ r.link_count = 0
      BY DEF DiskInodes
    <3>2. TypeOK /\ n \in Inums /\ r \in DiskInodes /\ disk' = [disk EXCEPT ![n] = r]
      BY <1>1, <1>2, <1>3, <3>1
    <3>3. /\ disk' \in [Inums -> DiskInodes] /\ DiskTypes' = [DiskTypes EXCEPT ![n] = r.type]
          /\ DiskLinks' = [DiskLinks EXCEPT ![n] = r.link_count]
      BY ONLY <3>2, SetDisk, Zenon
    <3> QED
      BY <3>1, <3>3
  <2>8. AllocEffect(p, s, n, x, k)
    BY <1>2, <1>3, <2>2, <2>3, <2>4, <2>6, <2>7, Zenon DEF AllocEffect, LockEffect
  <2>9. Typed'
    BY <1>1, <1>2, <2>2, <2>4, <2>7 DEF Typed, fileVars, Panics
  <2> QED
    BY <2>2, <2>8, <2>9, AllocCore, Continues
<1> QED
  BY <1>4, <1>5

\* The inode that a call locks is not free, and has a reference.
LEMMA LockStep ==
  ASSUME Running, panic = "none", NEW p \in Procs, lock(p)
  PROVE  IInv'
<1> PICK s, n, d, k, l : /\ s = SlotOf[p] /\ n = Nums[s] /\ d = disk[n]
                         /\ k = d.type /\ l = d.link_count
  OBVIOUS
<1>1. Views /\ Typed /\ TypeOK
  BY Parts, TypedIs DEF Running
<1>2. Place[p] = "lock" /\ call[p].slot = s
  BY Values DEF lock
<1>3. s \in Slots /\ Refs[s] > 0 /\ n \in Inums /\ DiskTypes[n] # "free"
  <2>1. s \in Slots /\ Refs[s] > 0 /\ n \in Inums
    BY <1>2, Referring
  <2>2. DiskTypes[n] # "free"
    BY <1>2, Parts DEF FreeRefs
  <2> QED
    BY <2>1, <2>2
<1>4. /\ Holders[s] = NoProc /\ table' = [table EXCEPT ![s] = Locked(s, p)]
      /\ panic' = LockPanic(s) /\ GoOn(p, "body")
      /\ UNCHANGED <<disk, entry, rootLinks, root, fileVars>>
  BY <1>2, <1>3, Values DEF lock, CanLock
<1>5. d \in DiskInodes /\ d.type = DiskTypes[n] /\ d.link_count = DiskLinks[n]
  BY <1>1, <1>3, Values DEF Typed
<1>6. (IF table[s].is_valid THEN table[s].disk_inode ELSE disk[table[s].inode_number]) = d
  <2>1. table[s].inode_number = n
    BY <1>3, Values
  <2>2. CASE table[s].is_valid
    <3>1. Valids[s]
      BY <1>3, <2>2, Values
    <3> QED
      BY <1>3, <1>4, <2>2, <3>1, CopiesCurrent
  <2>3. CASE ~table[s].is_valid
    BY <2>1, <2>3
  <2> QED
    BY <2>2, <2>3
<1>7. table' = [table EXCEPT ![s] = LockedWith(s, p, d)]
  <2>1. Locked(s, p) = [table[s] EXCEPT !.holder = p, !.is_valid = TRUE,
           !.disk_inode =
             IF table[s].is_valid THEN table[s].disk_inode ELSE disk[table[s].inode_number]]
    <3>1. table[s] \in TableEntries
      BY <1>1, <1>3 DEF Typed
    <3> QED
      BY <3>1 DEF Locked, TableEntries
  <2> QED
    BY <1>4, <1>6, <2>1, Zenon DEF LockedWith
<1>8. /\ table' \in [Slots -> TableEntries]
      /\ Valids' = [Valids EXCEPT ![s] = TRUE] /\ Holders' = [Holders EXCEPT ![s] = p]
      /\ CopyTypes' = [CopyTypes EXCEPT ![s] = k]
      /\ CopyLinks' = [CopyLinks EXCEPT ![s] = l]
      /\ UNCHANGED <<Nums, Refs>>
  <2>1. /\ TypeOK /\ s \in Slots /\ p \in Procs /\ d \in DiskInodes /\ k = d.type /\ l = d.link_count
        /\ table' = [table EXCEPT ![s] = LockedWith(s, p, d)]
    BY <1>1, <1>3, <1>5, <1>7
  <2>2. Locking(s, p, k, l)
    BY ONLY <2>1, Locks, Zenon
  <2> QED
    BY <2>2, Zenon DEF Locking
<1>9. panic' = "none"
  <2>1. ~(table[s].reference_count < 1)
    BY <1>1, <1>3, Values DEF Views
  <2>2. Locked(s, NoProc).disk_inode = d
    <3>1. table[s] \in TableEntries
      BY <1>1, <1>3 DEF Typed
    <3> QED
      BY <1>6, <3>1 DEF Locked, TableEntries
  <2> QED
    BY <1>3, <1>4, <1>5, <2>1, <2>2 DEF LockPanic
<1>10. /\ call' \in [Procs -> CallRecords] /\ Place' = [Place EXCEPT ![p] = "body"]
       /\ UNCHANGED <<Doing, SlotOf, NameOf, KindOf>>
  BY <1>1, <1>4, GoesOn DEF Places
<1>11. UNCHANGED <<Doing, SlotOf, NameOf, KindOf, Refs, Nums, DiskTypes, DiskLinks, FileRefs,
                   FileSlots, Points, openFiles, entry, rootLinks, root, life>>
  BY <1>4, <1>8, <1>10, KeepDisk, KeepFile DEF fileVars, Points
<1>12. /\ CopyTypes' = [CopyTypes EXCEPT ![s] = DiskTypes[n]]
       /\ CopyLinks' = [CopyLinks EXCEPT ![s] = DiskLinks[n]]
  BY <1>5, <1>8
<1>13. Core'
  BY <1>2, <1>3, <1>4, <1>8, <1>10, <1>11, <1>12, LockCore
<1>14. Typed'
  BY <1>1, <1>4, <1>8, <1>9, <1>10 DEF Typed, fileVars, Panics
<1> QED
  BY <1>9, <1>13, <1>14, Continues

\* What a call has while it has the inode's lock.
LEMMA InBody ==
  ASSUME Running, NEW p \in Procs, Place[p] = "body", NEW s, NEW n, s = SlotOf[p], n = Nums[s]
  PROVE  /\ s \in Slots /\ n \in Inums /\ Refs[s] > 0 /\ Holders[s] = p
         /\ call[p].slot = s /\ table[s].inode_number = n
         /\ Type(p) = DiskTypes[n] /\ Links(p) = DiskLinks[n] /\ DiskLinks[n] \in Nat
         /\ DiskTypes[n] \in {"file", "directory"} /\ CopyTypes[s] = DiskTypes[n]
<1>1. s \in Slots /\ Refs[s] > 0 /\ n \in Inums
  BY Referring
<1>2. /\ Views /\ HolderExact /\ CopyExact /\ BodyValid /\ FreeRefs
  BY Parts
<1>3. Holders[s] = p /\ ~BeingFreed(s)
  BY <1>2 DEF HolderExact, Holding, BeingFreed
<1>4. Valids[s] /\ DiskTypes[n] # "free"
  BY <1>1, <1>2, <1>3 DEF BodyValid, FreeRefs
<1>5. CopyTypes[s] = DiskTypes[n] /\ CopyLinks[s] = DiskLinks[n]
  BY <1>1, <1>2, <1>3, <1>4 DEF CopyExact
<1>6. call[p].slot = s /\ table[s].inode_number = n /\ Type(p) = CopyTypes[s] /\ Links(p) = CopyLinks[s]
  BY <1>1, Values DEF Type, Links
<1> QED
  BY <1>1, <1>2, <1>3, <1>4, <1>5, <1>6 DEF Views

\* The link count of the call's inode is set, on disk and in the copy.
LEMMA Updates ==
  ASSUME Running, NEW p \in Procs, Place[p] = "body", NEW s, NEW n, s = SlotOf[p], n = Nums[s],
         NEW l \in Nat, UpdateAndRelease(call[p].slot, With(p, l))
  PROVE  /\ disk' \in [Inums -> DiskInodes] /\ table' \in [Slots -> TableEntries]
         /\ DiskLinks' = [DiskLinks EXCEPT ![n] = l] /\ CopyLinks' = [CopyLinks EXCEPT ![s] = l]
         /\ Holders' = [Holders EXCEPT ![s] = NoProc]
         /\ UNCHANGED <<DiskTypes, CopyTypes, Nums, Refs, Valids>>
<1> PICK r : r = With(p, l)
  OBVIOUS
<1>1. TypeOK /\ Views
  BY Parts DEF Running
<1>2. /\ s \in Slots /\ n \in Inums /\ call[p].slot = s /\ table[s].inode_number = n
      /\ Type(p) = DiskTypes[n] /\ DiskTypes[n] \in {"file", "directory"} /\ CopyTypes[s] = DiskTypes[n]
  BY InBody
<1>3. r \in DiskInodes /\ r.type = DiskTypes[n] /\ r.link_count = l
  BY <1>2 DEF With, DiskInodes
<1>4. /\ disk' = [disk EXCEPT ![n] = r]
      /\ table' = [table EXCEPT ![s].disk_inode = r, ![s].holder = NoProc]
  BY <1>2 DEF UpdateAndRelease
<1>5. /\ disk' \in [Inums -> DiskInodes] /\ DiskTypes' = [DiskTypes EXCEPT ![n] = r.type]
      /\ DiskLinks' = [DiskLinks EXCEPT ![n] = r.link_count]
  BY ONLY <1>1, <1>2, <1>3, <1>4, SetDisk, Zenon
<1>6. /\ table' \in [Slots -> TableEntries] /\ Holders' = [Holders EXCEPT ![s] = NoProc]
      /\ CopyTypes' = [CopyTypes EXCEPT ![s] = r.type]
      /\ CopyLinks' = [CopyLinks EXCEPT ![s] = r.link_count] /\ UNCHANGED <<Nums, Refs, Valids>>
  BY ONLY <1>1, <1>2, <1>3, <1>4, SetsCopyAndUnlocks, Zenon
<1>7. DiskTypes' = DiskTypes /\ CopyTypes' = CopyTypes
  BY <1>1, <1>2, <1>3, <1>5, <1>6 DEF Views
<1> QED
  BY <1>3, <1>5, <1>6, <1>7

\* The call gives up without a change: the inode is unlocked, and put.
LEMMA ReleaseStep ==
  ASSUME Running, panic = "none", NEW p \in Procs, Place[p] = "body", Doing[p] # "rollback",
         table' = Unlock(call[p].slot), Put(p),
         UNCHANGED <<disk, panic, entry, rootLinks, root, fileVars>>
  PROVE  IInv'
<1> PICK s, n : s = SlotOf[p] /\ n = Nums[s]
  OBVIOUS
<1>1. TypeOK /\ Views /\ Typed
  BY Parts, TypedIs DEF Running
<1>2. s \in Slots /\ call[p].slot = s
  BY InBody
<1>3. /\ table' \in [Slots -> TableEntries] /\ Holders' = [Holders EXCEPT ![s] = NoProc]
      /\ UNCHANGED <<Nums, Refs, Valids, CopyTypes, CopyLinks>>
  BY <1>1, <1>2, Unlocks
<1>4. /\ call' \in [Procs -> CallRecords]
      /\ Place' = [Place EXCEPT ![p] = "put"] /\ Doing' = [Doing EXCEPT ![p] = "none"]
      /\ NameOf' = [NameOf EXCEPT ![p] = None] /\ KindOf' = [KindOf EXCEPT ![p] = "none"]
      /\ UNCHANGED SlotOf
  BY <1>1, Puts
<1>5. UNCHANGED <<SlotOf, Refs, Nums, Valids, CopyTypes, CopyLinks, DiskTypes, DiskLinks,
                  FileRefs, FileSlots, Points, openFiles, entry, rootLinks, root, life>>
  BY <1>3, <1>4, KeepDisk, KeepFile DEF fileVars, Points
<1>6. Core'
  BY <1>2, <1>3, <1>4, <1>5, ReleaseCore
<1>7. Typed'
  BY <1>1, <1>3, <1>4 DEF Typed, fileVars
<1> QED
  BY <1>6, <1>7, Continues

\* open hands the reference of the call over to the file.
LEMMA OpenSucceedsStep ==
  ASSUME Running, panic = "none", NEW p \in Procs, openSucceeds(p)
  PROVE  IInv'
<1> PICK s, n : s = SlotOf[p] /\ n = Nums[s]
  OBVIOUS
<1>1. TypeOK /\ Views /\ Typed
  BY Parts, TypedIs DEF Running
<1>2. Place[p] = "body" /\ Doing[p] = "open"
  BY Values DEF openSucceeds, At
<1>3. s \in Slots /\ call[p].slot = s
  BY <1>2, InBody
<1>4. PICK f \in FreeFiles, d \in FreeFds(p) :
        /\ file' = [file EXCEPT ![f] = [reference_count |-> 1, slot |-> s]]
        /\ openFiles' = [openFiles EXCEPT ![p][d] = f]
  BY <1>3 DEF openSucceeds
<1>5. f \in Files /\ FileRefs[f] = 0 /\ d \in Fds /\ openFiles[p][d] = None
  BY Values DEF FreeFiles, FreeFds
<1>6. table' = Unlock(s) /\ Return(p) /\ UNCHANGED <<disk, panic, entry, rootLinks, life>>
  BY <1>3 DEF openSucceeds
<1>7. /\ file' \in [Files -> OpenRecords] /\ FileRefs' = [FileRefs EXCEPT ![f] = 1]
      /\ FileSlots' = [FileSlots EXCEPT ![f] = s]
  <2> PICK r : r = [reference_count |-> 1, slot |-> s]
    OBVIOUS
  <2>1. r \in OpenRecords /\ r.reference_count = 1 /\ r.slot = s
    BY <1>3 DEF OpenRecords
  <2>2. TypeOK /\ f \in Files /\ r \in OpenRecords /\ file' = [file EXCEPT ![f] = r]
    BY <1>1, <1>4, <1>5, <2>1
  <2>3. /\ file' \in [Files -> OpenRecords]
        /\ FileRefs' = [FileRefs EXCEPT ![f] = r.reference_count]
        /\ FileSlots' = [FileSlots EXCEPT ![f] = r.slot]
    BY ONLY <2>2, SetFile, Zenon
  <2> QED
    BY <2>1, <2>3
<1>8. /\ openFiles' \in [Procs -> [Fds -> Files \cup {None}]]
      /\ \A q \in Procs, e \in Fds :
           openFiles'[q][e] = IF q = p /\ e = d THEN f ELSE openFiles[q][e]
      /\ Points' = [Points EXCEPT ![<<p, d>>] = f]
  BY <1>1, <1>4, <1>5, SetPoint
<1>9. /\ table' \in [Slots -> TableEntries] /\ Holders' = [Holders EXCEPT ![s] = NoProc]
      /\ UNCHANGED <<Nums, Refs, Valids, CopyTypes, CopyLinks>>
  BY <1>1, <1>3, <1>6, Unlocks
<1>10. /\ call' \in [Procs -> CallRecords]
       /\ Place' = [Place EXCEPT ![p] = "idle"] /\ Doing' = [Doing EXCEPT ![p] = "none"]
       /\ SlotOf' = [SlotOf EXCEPT ![p] = None] /\ NameOf' = [NameOf EXCEPT ![p] = None]
       /\ KindOf' = [KindOf EXCEPT ![p] = "none"]
       /\ root' = (IF root = p THEN NoProc ELSE root) /\ root' \in Procs \cup {NoProc}
  BY <1>1, <1>6, Returns
<1>11. UNCHANGED <<Refs, Nums, Valids, CopyTypes, CopyLinks, DiskTypes, DiskLinks, entry,
                   rootLinks, life>>
  BY <1>6, <1>9, KeepDisk
<1>12. Core'
  BY <1>2, <1>3, <1>5, <1>7, <1>8, <1>9, <1>10, <1>11, OpenCore
<1>13. Typed'
  BY <1>1, <1>6, <1>7, <1>8, <1>9, <1>10 DEF Typed
<1> QED
  BY <1>6, <1>12, <1>13, Continues

\* A call that opens a file has a descriptor, so that only the early errors remain.
LEMMA OpenFailsStep ==
  ASSUME Running, panic = "none", NEW p \in Procs, openFails(p)
  PROVE  IInv'
<1>1. Place[p] = "body" /\ Doing[p] = "open"
  BY Values DEF openFails, At
<1>2. FreeFds(p) # {}
  <2>1. FdsLeft
    BY Parts
  <2> QED
    BY <1>1, <2>1 DEF FdsLeft, FreeFds
<1> PICK s : s = call[p].slot
  OBVIOUS
<1>3. /\ table' = [table EXCEPT ![s].holder = NoProc, ![s].reference_count = @]
      /\ Put(p) /\ UNCHANGED panic
      /\ UNCHANGED <<disk, entry, rootLinks, root, fileVars>>
  BY <1>2 DEF openFails
<1>4. s \in Slots
  BY <1>1, InBody
<1>5. table' = Unlock(s)
  <2>1. Typed
    BY TypedIs DEF Running
  <2>2. table[s] \in TableEntries
    BY <1>4, <2>1 DEF Typed
  <2>3. [[table[s] EXCEPT !.holder = NoProc] EXCEPT !.reference_count = @]
          = [table[s] EXCEPT !.holder = NoProc]
    BY <2>2 DEF TableEntries
  <2> QED
    BY <1>3, <1>4, <2>1, <2>2, <2>3 DEF Unlock, Typed, TableEntries
<1> QED
  BY <1>1, <1>3, <1>5, ReleaseStep

\* create of a name that exists becomes an open, or fails.
LEMMA CreateExistingStep ==
  ASSUME Running, panic = "none", NEW p \in Procs, createExisting(p)
  PROVE  IInv'
<1>1. TypeOK /\ Views /\ Typed
  BY Parts, TypedIs DEF Running
<1>2. /\ Place[p] = "body" /\ Doing[p] = "create" /\ call[p].kind = KindOf[p]
      /\ UNCHANGED <<disk, panic, entry, rootLinks, fileVars>>
  BY Values DEF createExisting, At
<1>3. CASE call[p].kind = "file" /\ Type(p) = "file"
  <2>1. call' = [call EXCEPT ![p].of = "open"] /\ root' = NoProc /\ UNCHANGED table
    BY <1>3 DEF createExisting
  <2>2. /\ call' \in [Procs -> CallRecords] /\ Doing' = [Doing EXCEPT ![p] = "open"]
        /\ UNCHANGED <<Place, SlotOf, NameOf, KindOf>>
    BY <1>1, <2>1, GoesOnToOpen
  <2>3. UNCHANGED <<Place, SlotOf, NameOf, KindOf, Refs, Nums, Valids, CopyTypes, CopyLinks,
                    Holders, DiskTypes, DiskLinks, FileRefs, FileSlots, Points, openFiles,
                    entry, rootLinks, life>>
    BY <1>2, <2>1, <2>2, KeepTable, KeepDisk, KeepFile DEF fileVars, Points
  <2>4. Core'
    BY <1>2, <1>3, <2>1, <2>2, <2>3, ReopenCore
  <2>5. Typed'
    BY <1>1, <1>2, <2>1, <2>2 DEF Typed, fileVars
  <2> QED
    BY <1>2, <2>4, <2>5, Continues
<1>4. CASE ~(call[p].kind = "file" /\ Type(p) = "file")
  <2>1. table' = Unlock(call[p].slot) /\ Put(p) /\ UNCHANGED root
    BY <1>4 DEF createExisting
  <2> QED
    BY <1>2, <2>1, ReleaseStep
<1> QED
  BY <1>3, <1>4

\* linkEntry fails before the link is on disk.
LEMMA CreateFailsStep ==
  ASSUME Running, panic = "none", NEW p \in Procs, createFails(p)
  PROVE  IInv'
<1> PICK s, n : s = SlotOf[p] /\ n = Nums[s]
  OBVIOUS
<1>1. TypeOK /\ Views /\ Typed /\ NewInode
  BY Parts, TypedIs DEF Running
<1>2. /\ Place[p] = "body" /\ Doing[p] = "new" /\ UpdateAndRelease(call[p].slot, With(p, 0)) /\ Put(p)
      /\ UNCHANGED <<panic, entry, rootLinks, root, fileVars>>
  BY Values DEF createFails, At
<1>3. /\ s \in Slots /\ n \in Inums /\ Refs[s] > 0 /\ Holders[s] = p /\ CopyTypes[s] = DiskTypes[n]
      /\ DiskLinks[n] = 0 /\ CopyLinks[s] = 0
  <2>1. /\ s \in Slots /\ n \in Inums /\ Refs[s] > 0 /\ Holders[s] = p /\ call[p].slot = s
        /\ CopyTypes[s] = DiskTypes[n] /\ Links(p) = DiskLinks[n]
    BY <1>2, InBody
  <2>2. Links(p) = CopyLinks[s]
    BY <2>1, Values DEF Links
  <2>3. DiskLinks[n] = 0
    BY <1>1, <1>2 DEF NewInode
  <2> QED
    BY <2>1, <2>2, <2>3
<1>4. /\ disk' \in [Inums -> DiskInodes] /\ table' \in [Slots -> TableEntries]
      /\ DiskLinks' = [DiskLinks EXCEPT ![n] = 0] /\ CopyLinks' = [CopyLinks EXCEPT ![s] = 0]
      /\ Holders' = [Holders EXCEPT ![s] = NoProc]
      /\ UNCHANGED <<DiskTypes, CopyTypes, Nums, Refs, Valids>>
  BY <1>2, Updates
<1>5. DiskLinks' = DiskLinks /\ CopyLinks' = CopyLinks
  BY <1>1, <1>3, <1>4 DEF Views
<1>6. /\ call' \in [Procs -> CallRecords]
      /\ Place' = [Place EXCEPT ![p] = "put"] /\ Doing' = [Doing EXCEPT ![p] = "none"]
      /\ NameOf' = [NameOf EXCEPT ![p] = None] /\ KindOf' = [KindOf EXCEPT ![p] = "none"]
      /\ UNCHANGED SlotOf
  BY <1>1, <1>2, Puts
<1>7. UNCHANGED <<SlotOf, Refs, Nums, Valids, CopyTypes, CopyLinks, DiskTypes, DiskLinks,
                  FileRefs, FileSlots, Points, openFiles, entry, rootLinks, root, life>>
  BY <1>2, <1>4, <1>5, <1>6, KeepFile DEF fileVars, Points
<1>8. Core'
  BY <1>2, <1>3, <1>4, <1>6, <1>7, ReleaseCore
<1>9. Typed'
  BY <1>1, <1>2, <1>4, <1>6 DEF Typed, fileVars
<1> QED
  BY <1>2, <1>8, <1>9, Continues

\* The new inode is given its link and its name.
LEMMA CreateNewStep ==
  ASSUME Running, panic = "none", NEW p \in Procs, createNew(p)
  PROVE  IInv'
<1> PICK s, n, x, r : s = SlotOf[p] /\ n = Nums[s] /\ x = NameOf[p] /\ r = With(p, 1)
  OBVIOUS
<1>1. TypeOK /\ Views /\ Typed /\ NewInode /\ CallShape
  BY Parts, TypedIs DEF Running
<1>2. /\ Place[p] = "body" /\ Doing[p] = "new" /\ call[p].kind = KindOf[p] /\ call[p].name = x
      /\ root' = NoProc /\ UNCHANGED <<panic, fileVars>>
  BY Values DEF createNew, At
<1>3. /\ s \in Slots /\ n \in Inums /\ call[p].slot = s /\ table[s].inode_number = n
      /\ Type(p) = DiskTypes[n] /\ DiskTypes[n] \in {"file", "directory"} /\ CopyTypes[s] = DiskTypes[n]
  BY <1>2, InBody
<1>4. KindOf[p] \in {"file", "directory"} /\ x \in Names
  BY <1>1, <1>2, Constants DEF CallShape
<1>5. r \in DiskInodes /\ r.type = DiskTypes[n] /\ r.link_count = 1
  BY <1>3 DEF With, DiskInodes
<1>6. disk' = [disk EXCEPT ![n] = r] /\ entry' = [entry EXCEPT ![x] = n]
  BY <1>2, <1>3 DEF createNew
<1>7. entry' \in [Names -> Inums \cup {None}]
  BY <1>1, <1>3, <1>6 DEF Typed
<1>8. /\ disk' \in [Inums -> DiskInodes] /\ DiskLinks' = [DiskLinks EXCEPT ![n] = 1]
      /\ UNCHANGED DiskTypes
  <2>1. /\ disk' \in [Inums -> DiskInodes] /\ DiskTypes' = [DiskTypes EXCEPT ![n] = r.type]
        /\ DiskLinks' = [DiskLinks EXCEPT ![n] = r.link_count]
    BY ONLY <1>1, <1>3, <1>5, <1>6, SetDisk, Zenon
  <2> QED
    BY <1>1, <1>3, <1>5, <2>1 DEF Views
<1>9. CASE KindOf[p] = "directory"
  <2>1. /\ rootLinks' = rootLinks + 1 /\ Put(p)
        /\ table' = [Unlock(s) EXCEPT ![s].disk_inode = r]
    BY <1>2, <1>3, <1>9 DEF createNew
  <2>2. table' = [table EXCEPT ![s].disk_inode = r, ![s].holder = NoProc]
    <3>1. table[s] \in TableEntries
      BY <1>1, <1>3 DEF Typed
    <3>2. [[table[s] EXCEPT !.holder = NoProc] EXCEPT !.disk_inode = r]
            = [[table[s] EXCEPT !.disk_inode = r] EXCEPT !.holder = NoProc]
      BY <3>1 DEF TableEntries
    <3> QED
      BY <1>1, <1>3, <2>1, <3>1, <3>2 DEF Unlock, Typed, TableEntries
  <2>3. /\ table' \in [Slots -> TableEntries] /\ Holders' = [Holders EXCEPT ![s] = NoProc]
        /\ CopyTypes' = [CopyTypes EXCEPT ![s] = r.type]
        /\ CopyLinks' = [CopyLinks EXCEPT ![s] = r.link_count] /\ UNCHANGED <<Nums, Refs, Valids>>
    BY ONLY <1>1, <1>3, <1>5, <2>2, SetsCopyAndUnlocks, Zenon
  <2>4. CopyTypes' = CopyTypes /\ CopyLinks' = [CopyLinks EXCEPT ![s] = 1]
    BY <1>1, <1>3, <1>5, <2>3 DEF Views
  <2>5. /\ call' \in [Procs -> CallRecords]
        /\ Place' = [Place EXCEPT ![p] = "put"] /\ Doing' = [Doing EXCEPT ![p] = "none"]
        /\ NameOf' = [NameOf EXCEPT ![p] = None] /\ KindOf' = [KindOf EXCEPT ![p] = "none"]
        /\ UNCHANGED SlotOf
    BY <1>1, <2>1, Puts
  <2>6. UNCHANGED <<SlotOf, Refs, Nums, Valids, CopyTypes, DiskTypes, FileRefs, FileSlots,
                    Points, openFiles, life>>
    BY <1>2, <1>8, <2>3, <2>4, <2>5, KeepFile DEF fileVars, Points
  <2>7. Core'
    BY <1>2, <1>3, <1>6, <1>8, <1>9, <2>1, <2>3, <2>4, <2>5, <2>6, CreateDirectoryCore
  <2>8. Typed'
    BY <1>1, <1>2, <1>7, <1>8, <2>1, <2>3, <2>5 DEF Typed, fileVars
  <2> QED
    BY <1>2, <2>7, <2>8, Continues
<1>10. CASE KindOf[p] = "file"
  <2>1. /\ rootLinks' = rootLinks /\ call' = [call EXCEPT ![p].of = "open"]
        /\ table' = [table EXCEPT ![s].disk_inode = r]
    BY <1>2, <1>3, <1>10 DEF createNew
  <2>2. /\ table' \in [Slots -> TableEntries] /\ CopyTypes' = [CopyTypes EXCEPT ![s] = r.type]
        /\ CopyLinks' = [CopyLinks EXCEPT ![s] = r.link_count]
        /\ UNCHANGED <<Nums, Refs, Valids, Holders>>
    BY ONLY <1>1, <1>3, <1>5, <2>1, SetsCopy, Zenon
  <2>3. CopyTypes' = CopyTypes /\ CopyLinks' = [CopyLinks EXCEPT ![s] = 1]
    BY <1>1, <1>3, <1>5, <2>2 DEF Views
  <2>4. /\ call' \in [Procs -> CallRecords] /\ Doing' = [Doing EXCEPT ![p] = "open"]
        /\ UNCHANGED <<Place, SlotOf, NameOf, KindOf>>
    BY <1>1, <2>1, GoesOnToOpen
  <2>5. UNCHANGED <<Place, SlotOf, NameOf, KindOf, Refs, Nums, Valids, CopyTypes, Holders,
                    DiskTypes, FileRefs, FileSlots, Points, openFiles, rootLinks, life>>
    BY <1>2, <1>8, <2>1, <2>2, <2>3, <2>4, KeepFile DEF fileVars, Points
  <2>6. Core'
    BY <1>2, <1>3, <1>6, <1>8, <1>10, <2>3, <2>4, <2>5, CreateFileCore
  <2>7. Typed'
    BY <1>1, <1>2, <1>7, <1>8, <2>1, <2>2, <2>4 DEF Typed, fileVars
  <2> QED
    BY <1>2, <2>6, <2>7, Continues
<1> QED
  BY <1>4, <1>9, <1>10

\* The name stands for the inode, so that there is a link to take.
LEMMA UnlinkStep ==
  ASSUME Running, panic = "none", NEW p \in Procs, unlink(p)
  PROVE  IInv'
<1> PICK s, n, x, l : s = SlotOf[p] /\ n = Nums[s] /\ x = NameOf[p] /\ l = DiskLinks[n] - 1
  OBVIOUS
<1>1. TypeOK /\ Views /\ Typed /\ UnlinkName /\ CallShape /\ DirectoryLinks
  BY Parts, TypedIs DEF Running
<1>2. /\ Place[p] = "body" /\ Doing[p] = "unlink" /\ call[p].name = x /\ UNCHANGED <<root, fileVars>>
  BY Values DEF unlink, At
<1>3. /\ s \in Slots /\ n \in Inums /\ call[p].slot = s /\ Type(p) = DiskTypes[n]
      /\ Links(p) = DiskLinks[n] /\ DiskLinks[n] \in Nat
  BY <1>2, InBody
<1>4. x \in Names /\ entry[x] = n /\ DiskLinks[n] > 0
  <2>1. x \in Names /\ entry[x] = n
    BY <1>1, <1>2 DEF CallShape, UnlinkName
  <2>2. entry[x] # None
    BY <1>3, <2>1, Constants
  <2> QED
    BY <2>1, <2>2, Referring
<1>5. l \in Nat
  BY <1>3, <1>4
<1>6. /\ entry' = [entry EXCEPT ![x] = None]
      /\ rootLinks' = (IF DiskTypes[n] = "directory" THEN rootLinks - 1 ELSE rootLinks)
      /\ UpdateAndRelease(call[p].slot, With(p, l)) /\ Put(p) /\ UNCHANGED panic
  <2>1. ~(Links(p) < 1) /\ Links(p) - 1 = l
    BY <1>3, <1>4
  <2>2. /\ entry' = [entry EXCEPT ![x] = None] /\ Put(p) /\ UNCHANGED panic
        /\ rootLinks' = (IF DiskTypes[n] = "directory" THEN rootLinks - 1 ELSE rootLinks)
    BY <1>2, <1>3, <2>1 DEF unlink
  <2>3. UpdateAndRelease(call[p].slot, With(p, Links(p) - 1))
    BY <2>1 DEF unlink
  <2> QED
    BY ONLY <2>1, <2>2, <2>3, Zenon
<1>7. /\ disk' \in [Inums -> DiskInodes] /\ table' \in [Slots -> TableEntries]
      /\ DiskLinks' = [DiskLinks EXCEPT ![n] = l] /\ CopyLinks' = [CopyLinks EXCEPT ![s] = l]
      /\ Holders' = [Holders EXCEPT ![s] = NoProc]
      /\ UNCHANGED <<DiskTypes, CopyTypes, Nums, Refs, Valids>>
  BY <1>2, <1>5, <1>6, Updates
<1>8. /\ call' \in [Procs -> CallRecords]
      /\ Place' = [Place EXCEPT ![p] = "put"] /\ Doing' = [Doing EXCEPT ![p] = "none"]
      /\ NameOf' = [NameOf EXCEPT ![p] = None] /\ KindOf' = [KindOf EXCEPT ![p] = "none"]
      /\ UNCHANGED SlotOf
  BY <1>1, <1>6, Puts
<1>9. UNCHANGED <<SlotOf, Refs, Nums, Valids, CopyTypes, DiskTypes, FileRefs, FileSlots,
                  Points, openFiles, root, life>>
  BY <1>2, <1>7, <1>8, KeepFile DEF fileVars, Points
<1>10. Core'
  BY <1>2, <1>3, <1>6, <1>7, <1>8, <1>9, UnlinkCore
<1>11. rootLinks' \in Nat
  <2>1. CASE DiskTypes[n] = "directory"
    <3>1. NameTypes[x] = "directory" /\ NameTypes \in [Names -> {"free", "file", "directory"}]
      BY <1>1, <1>3, <1>4, <2>1, Constants DEF NameTypes, Views
    <3>2. NameTypes \in [Names -> {"free", "file", "directory"}] /\ IsFiniteSet(Names)
      BY <3>1, Constants
    <3>3. Count(NameTypes, "directory") \in Nat
      BY <3>2, CountFacts, Zenon
    <3>4. Count(NameTypes, "directory") # 0
      <4>1. Count(NameTypes, "directory") = 0 => \A y \in Names : NameTypes[y] # "directory"
        BY <3>2, CountFacts, Zenon
      <4> QED
        BY <1>4, <3>1, <4>1
    <3> QED
      BY <1>1, <1>6, <2>1, <3>3, <3>4 DEF DirectoryLinks
  <2>2. CASE DiskTypes[n] # "directory"
    BY <1>1, <1>6, <2>2 DEF Typed
  <2> QED
    BY <2>1, <2>2
<1>12. Typed'
  <2>1. entry' \in [Names -> Inums \cup {None}]
    BY <1>1, <1>6 DEF Typed
  <2> QED
    BY <1>1, <1>2, <1>6, <1>7, <1>8, <1>11, <2>1 DEF Typed, fileVars
<1> QED
  BY <1>6, <1>10, <1>12, Continues

\* link counts the new name, except for a directory.
LEMMA LinkStep ==
  ASSUME Running, panic = "none", NEW p \in Procs, link(p)
  PROVE  IInv'
<1> PICK s, n, l : s = SlotOf[p] /\ n = Nums[s] /\ l = DiskLinks[n] + 1
  OBVIOUS
<1>1. TypeOK /\ Views /\ Typed
  BY Parts, TypedIs DEF Running
<1>2. /\ Place[p] = "body" /\ Doing[p] = "link"
      /\ UNCHANGED <<panic, entry, rootLinks, root, fileVars>>
  BY Values DEF link, At
<1>3. /\ s \in Slots /\ n \in Inums /\ call[p].slot = s /\ Type(p) = DiskTypes[n]
      /\ Links(p) = DiskLinks[n] /\ DiskLinks[n] \in Nat
  BY <1>2, InBody
<1>4. CASE DiskTypes[n] = "directory"
  <2>1. table' = Unlock(call[p].slot) /\ Put(p) /\ UNCHANGED disk
    BY <1>3, <1>4 DEF link
  <2> QED
    BY <1>2, <2>1, ReleaseStep
<1>5. CASE DiskTypes[n] # "directory"
  <2>1. UpdateAndRelease(call[p].slot, With(p, l)) /\ GoOn(p, "entry") /\ l \in Nat
    BY <1>3, <1>5 DEF link
  <2>2. /\ disk' \in [Inums -> DiskInodes] /\ table' \in [Slots -> TableEntries]
        /\ DiskLinks' = [DiskLinks EXCEPT ![n] = l] /\ CopyLinks' = [CopyLinks EXCEPT ![s] = l]
        /\ Holders' = [Holders EXCEPT ![s] = NoProc]
        /\ UNCHANGED <<DiskTypes, CopyTypes, Nums, Refs, Valids>>
    BY <1>2, <2>1, Updates
  <2>3. /\ call' \in [Procs -> CallRecords] /\ Place' = [Place EXCEPT ![p] = "entry"]
        /\ UNCHANGED <<Doing, SlotOf, NameOf, KindOf>>
    BY <1>1, <2>1, GoesOn DEF Places
  <2>4. UNCHANGED <<Doing, SlotOf, NameOf, KindOf, Refs, Nums, Valids, CopyTypes, DiskTypes,
                    FileRefs, FileSlots, Points, openFiles, entry, rootLinks, root, life>>
    BY <1>2, <2>2, <2>3, KeepFile DEF fileVars, Points
  <2>5. Core'
    BY <1>2, <1>3, <1>5, <2>2, <2>3, <2>4, LinkCore
  <2>6. Typed'
    BY <1>1, <1>2, <2>2, <2>3 DEF Typed, fileVars
  <2> QED
    BY <1>2, <2>5, <2>6, Continues
<1> QED
  BY <1>4, <1>5

\* link enters the name, or goes back to take the link off.
LEMMA LinkEntryStep ==
  ASSUME Running, panic = "none", NEW p \in Procs, linkEntry(p)
  PROVE  IInv'
<1> PICK s, n, x : s = SlotOf[p] /\ n = Nums[s] /\ x = NameOf[p]
  OBVIOUS
<1>1. TypeOK /\ Views /\ Typed /\ CallShape
  BY Parts, TypedIs DEF Running
<1>2. /\ Place[p] = "entry" /\ Doing[p] = "link" /\ root = NoProc /\ call[p].name = x
      /\ UNCHANGED <<inodeVars, panic, rootLinks, root, fileVars>>
  BY Values DEF linkEntry, At
<1>3. /\ s \in Slots /\ n \in Inums /\ call[p].slot = s /\ table[s].inode_number = n /\ x \in Names
  <2>1. s \in Slots /\ n \in Inums /\ x \in Names
    BY <1>1, <1>2, Referring DEF CallShape
  <2> QED
    BY <2>1, Values
<1>4. UNCHANGED <<Refs, Nums, Valids, CopyTypes, CopyLinks, Holders, DiskTypes, DiskLinks,
                  FileRefs, FileSlots, Points, openFiles, rootLinks, root, life, panic, disk, table,
                  file>>
  BY <1>2, KeepTable, KeepDisk, KeepFile DEF inodeVars, fileVars, Points
<1>5. CASE entry[x] = None /\ entry' = [entry EXCEPT ![x] = n] /\ Put(p)
  <2>1. /\ call' \in [Procs -> CallRecords]
        /\ Place' = [Place EXCEPT ![p] = "put"] /\ Doing' = [Doing EXCEPT ![p] = "none"]
        /\ NameOf' = [NameOf EXCEPT ![p] = None] /\ KindOf' = [KindOf EXCEPT ![p] = "none"]
        /\ UNCHANGED SlotOf
    BY <1>1, <1>5, Puts
  <2>2. Core'
    BY <1>2, <1>3, <1>4, <1>5, <2>1, LinkEntryCore
  <2>3. Typed'
    <3>1. entry' \in [Names -> Inums \cup {None}]
      BY <1>1, <1>3, <1>5 DEF Typed
    <3> QED
      BY <1>1, <1>4, <2>1, <3>1 DEF Typed
  <2> QED
    BY <1>4, <2>2, <2>3, Continues
<1>6. CASE call' = [call EXCEPT ![p].at = "lock", ![p].of = "rollback"] /\ UNCHANGED entry
  <2>1. "lock" \in Places /\ "rollback" \in Ofs
    BY DEF Places, Ofs
  <2>2. /\ call' \in [Procs -> CallRecords]
        /\ Place' = [Place EXCEPT ![p] = "lock"] /\ Doing' = [Doing EXCEPT ![p] = "rollback"]
        /\ UNCHANGED <<SlotOf, NameOf, KindOf>>
    BY <1>1, <1>6, <2>1, GoesOnAs
  <2>3. UNCHANGED <<SlotOf, NameOf, KindOf, Refs, Nums, Valids, CopyTypes, CopyLinks, Holders,
                    DiskTypes, DiskLinks, FileRefs, FileSlots, Points, openFiles,
                    entry, rootLinks, root, life>>
    BY <1>4, <1>6, <2>2
  <2>4. Core'
    BY <1>2, <2>2, <2>3, ToRollbackCore
  <2>5. Typed'
    BY <1>1, <1>4, <1>6, <2>2 DEF Typed
  <2> QED
    BY <1>4, <2>4, <2>5, Continues
<1> QED
  BY <1>2, <1>3, <1>5, <1>6 DEF linkEntry

\* The link that is taken back was counted.
LEMMA RollbackStep ==
  ASSUME Running, panic = "none", NEW p \in Procs, rollback(p)
  PROVE  IInv'
<1> PICK s, n, l : s = SlotOf[p] /\ n = Nums[s] /\ l = DiskLinks[n] - 1
  OBVIOUS
<1>1. TypeOK /\ Views /\ Typed /\ NameLinks
  BY Parts, TypedIs DEF Running
<1>2. /\ Place[p] = "body" /\ Doing[p] = "rollback" /\ Put(p)
      /\ UpdateAndRelease(call[p].slot, LinksBack(p))
      /\ UNCHANGED <<panic, entry, rootLinks, root, fileVars>>
  BY Values DEF rollback, At
<1>3. s \in Slots /\ n \in Inums /\ Links(p) = DiskLinks[n] /\ DiskLinks[n] \in Nat
  BY <1>2, InBody
<1>4. DiskLinks[n] > 0
  <2>1. Counted \in [Procs -> Inums \cup {None}] /\ Counted[p] = n
    BY <1>2, CountedType DEF Counted, HasCounted
  <2> PICK c, e : c = Count(Counted, n) /\ e = Count(entry, n)
    OBVIOUS
  <2>2. c \in Nat /\ c # 0
    BY <2>1, Constants, CountFacts
  <2>3. e \in Nat
    BY <1>1, <1>3, CountTypes
  <2> QED
    BY <1>1, <1>3, <2>2, <2>3 DEF NameLinks
<1>5. l \in Nat /\ UpdateAndRelease(call[p].slot, With(p, l))
  BY <1>2, <1>3, <1>4 DEF LinksBack
<1>6. /\ disk' \in [Inums -> DiskInodes] /\ table' \in [Slots -> TableEntries]
      /\ DiskLinks' = [DiskLinks EXCEPT ![n] = l] /\ CopyLinks' = [CopyLinks EXCEPT ![s] = l]
      /\ Holders' = [Holders EXCEPT ![s] = NoProc]
      /\ UNCHANGED <<DiskTypes, CopyTypes, Nums, Refs, Valids>>
  BY <1>2, <1>5, Updates
<1>7. /\ call' \in [Procs -> CallRecords]
      /\ Place' = [Place EXCEPT ![p] = "put"] /\ Doing' = [Doing EXCEPT ![p] = "none"]
      /\ NameOf' = [NameOf EXCEPT ![p] = None] /\ KindOf' = [KindOf EXCEPT ![p] = "none"]
      /\ UNCHANGED SlotOf
  BY <1>1, <1>2, Puts
<1>8. UNCHANGED <<SlotOf, Refs, Nums, Valids, CopyTypes, DiskTypes, FileRefs, FileSlots,
                  Points, openFiles, entry, rootLinks, root, life>>
  BY <1>2, <1>6, <1>7, KeepFile DEF fileVars, Points
<1>9. Core'
  BY <1>2, <1>3, <1>4, <1>6, <1>7, <1>8, RollbackCore
<1>10. Typed'
  BY <1>1, <1>2, <1>6, <1>7 DEF Typed, fileVars
<1> QED
  BY <1>2, <1>9, <1>10, Continues

\* The last reference is dropped, or one of several.
LEMMA DropStep ==
  ASSUME Running, panic = "none", NEW p \in Procs, Place[p] \in {"put", "drop"},
         table' = [table EXCEPT ![call[p].slot] = Dropped(call[p].slot)], Return(p),
         UNCHANGED <<disk, panic, entry, rootLinks, fileVars>>
  PROVE  IInv'
<1> PICK s : s = SlotOf[p]
  OBVIOUS
<1>1. TypeOK /\ Views /\ Typed
  BY Parts, TypedIs DEF Running
<1>2. s \in Slots /\ Refs[s] > 0 /\ call[p].slot = s
  <2>1. s \in Slots /\ Refs[s] > 0
    BY Referring
  <2> QED
    BY <2>1, Values
<1>3. /\ table' \in [Slots -> TableEntries]
      /\ Refs' = [Refs EXCEPT ![s] = Refs[s] - 1] /\ UNCHANGED <<Valids, Holders>>
      /\ Refs[s] # 1 => UNCHANGED <<Nums, CopyTypes, CopyLinks>>
      /\ \A t \in Slots \ {s} : /\ Nums'[t] = Nums[t] /\ CopyTypes'[t] = CopyTypes[t]
                                /\ CopyLinks'[t] = CopyLinks[t]
  BY <1>1, <1>2, Drops
<1>4. /\ call' \in [Procs -> CallRecords]
      /\ Place' = [Place EXCEPT ![p] = "idle"] /\ Doing' = [Doing EXCEPT ![p] = "none"]
      /\ SlotOf' = [SlotOf EXCEPT ![p] = None] /\ NameOf' = [NameOf EXCEPT ![p] = None]
      /\ KindOf' = [KindOf EXCEPT ![p] = "none"]
      /\ root' = (IF root = p THEN NoProc ELSE root) /\ root' \in Procs \cup {NoProc}
  BY <1>1, Returns
<1>5. UNCHANGED <<Valids, Holders, DiskTypes, DiskLinks, FileRefs, FileSlots, Points,
                  openFiles, entry, rootLinks, life>>
  BY <1>3, KeepDisk, KeepFile DEF fileVars, Points
<1>6. Core'
  BY <1>2, <1>3, <1>4, <1>5, DropCore
<1>7. Typed'
  BY <1>1, <1>3, <1>4 DEF Typed, fileVars
<1> QED
  BY <1>6, <1>7, Continues

\* put acquires the inode's lock without waiting: whoever held it would have a
\* reference of its own.
LEMMA PutStep ==
  ASSUME Running, panic = "none", NEW p \in Procs, put(p)
  PROVE  IInv'
<1> PICK s, n : s = SlotOf[p] /\ n = Nums[s]
  OBVIOUS
<1>1. TypeOK /\ Views /\ Typed /\ HolderExact
  BY Parts, TypedIs DEF Running
<1>2. Place[p] = "put" /\ UNCHANGED <<disk, entry, rootLinks, fileVars>>
  BY Values DEF put
<1>3. s \in Slots /\ n \in Inums /\ call[p].slot = s
  <2>1. s \in Slots /\ n \in Inums
    BY <1>2, Referring
  <2> QED
    BY <2>1, Values
<1>4. CASE Unused(s)
  <2>1. Refs[s] = 1 /\ CopyLinks[s] = 0
    BY <1>3, <1>4, Values DEF Unused
  <2>2. Valids[s]
    BY <1>3, <1>4, Values DEF Unused
  <2>3. Holders[s] = NoProc
    <3> SUFFICES ASSUME Holders[s] # NoProc PROVE FALSE
      OBVIOUS
    <3> PICK q : q = Holders[s]
      OBVIOUS
    <3>1. q \in Procs /\ SlotOf[q] = s /\ Place[q] \in {"body", "free", "freed"}
      BY <1>1, <1>3 DEF HolderExact, Holding, Views
    <3>2. q # p
      BY <1>2, <3>1
    <3> QED
      BY <1>2, <2>1, <3>1, <3>2, Referring
  <2>4. table' = [table EXCEPT ![s].holder = p] /\ UNCHANGED <<panic, root>> /\ GoOn(p, "free")
    <3>1. table[s].holder = NoProc
      BY <1>3, <2>3, Values
    <3> QED
      BY <1>3, <1>4, <3>1 DEF put, PutBegin
  <2>5. /\ table' \in [Slots -> TableEntries] /\ Holders' = [Holders EXCEPT ![s] = p]
        /\ UNCHANGED <<Nums, Refs, Valids, CopyTypes, CopyLinks>>
    BY <1>1, <1>3, <2>4, SetsHolder
  <2>6. /\ call' \in [Procs -> CallRecords] /\ Place' = [Place EXCEPT ![p] = "free"]
        /\ UNCHANGED <<Doing, SlotOf, NameOf, KindOf>>
    BY <1>1, <2>4, GoesOn DEF Places
  <2>7. UNCHANGED <<Doing, SlotOf, NameOf, KindOf, Refs, Nums, Valids, CopyTypes, CopyLinks,
                    DiskTypes, DiskLinks, FileRefs, FileSlots, Points, openFiles, entry,
                    rootLinks, root, life>>
    BY <1>2, <2>4, <2>5, <2>6, KeepDisk, KeepFile DEF fileVars, Points
  <2>8. Core'
    BY <1>2, <1>3, <2>1, <2>2, <2>3, <2>5, <2>6, <2>7, BeginFreeCore
  <2>9. Typed'
    BY <1>1, <1>2, <2>4, <2>5, <2>6 DEF Typed, fileVars
  <2> QED
    BY <2>4, <2>8, <2>9, Continues
<1>5. CASE ~Unused(s)
  <2>1. /\ table' = [table EXCEPT ![call[p].slot] = Dropped(call[p].slot)]
        /\ Return(p) /\ UNCHANGED panic
    BY <1>3, <1>5 DEF put, PutBegin
  <2> QED
    BY <1>2, <2>1, DropStep
<1> QED
  BY <1>4, <1>5

\* The three steps in which put frees an inode.
LEMMA PutFreeStep ==
  ASSUME Running, panic = "none", NEW p \in Procs, putFree(p)
  PROVE  IInv'
<1> PICK s, n, r : s = SlotOf[p] /\ n = Nums[s] /\ r = FreeInode
  OBVIOUS
<1>1. TypeOK /\ Views /\ Typed
  BY Parts, TypedIs DEF Running
<1>2. /\ Place[p] = "free" /\ PutFree(call[p].slot) /\ GoOn(p, "freed")
      /\ UNCHANGED <<panic, entry, rootLinks, root, fileVars>>
  BY Values DEF putFree
<1>3. s \in Slots /\ n \in Inums /\ call[p].slot = s /\ table[s].inode_number = n
  <2>1. s \in Slots /\ n \in Inums
    BY <1>2, Referring
  <2> QED
    BY <2>1, Values
<1>4. r \in DiskInodes /\ r.type = "free" /\ r.link_count = 0
  BY DEF FreeInode, DiskInodes
<1>5. disk' = [disk EXCEPT ![n] = r] /\ table' = [table EXCEPT ![s].disk_inode = r]
  BY <1>2, <1>3 DEF PutFree
<1>6. /\ disk' \in [Inums -> DiskInodes] /\ DiskTypes' = [DiskTypes EXCEPT ![n] = r.type]
      /\ DiskLinks' = [DiskLinks EXCEPT ![n] = r.link_count]
  BY ONLY <1>1, <1>3, <1>4, <1>5, SetDisk, Zenon
<1>7. /\ table' \in [Slots -> TableEntries] /\ CopyTypes' = [CopyTypes EXCEPT ![s] = r.type]
      /\ CopyLinks' = [CopyLinks EXCEPT ![s] = r.link_count]
      /\ UNCHANGED <<Nums, Refs, Valids, Holders>>
  BY ONLY <1>1, <1>3, <1>4, <1>5, SetsCopy, Zenon
<1>8. /\ call' \in [Procs -> CallRecords] /\ Place' = [Place EXCEPT ![p] = "freed"]
      /\ UNCHANGED <<Doing, SlotOf, NameOf, KindOf>>
  BY <1>1, <1>2, GoesOn DEF Places
<1>9. /\ UNCHANGED <<Doing, SlotOf, NameOf, KindOf, Refs, Nums, Valids, Holders, FileRefs,
                     FileSlots, Points, openFiles, entry, rootLinks, root, life>>
      /\ DiskTypes' = [DiskTypes EXCEPT ![n] = "free"] /\ DiskLinks' = [DiskLinks EXCEPT ![n] = 0]
      /\ CopyTypes' = [CopyTypes EXCEPT ![s] = "free"] /\ CopyLinks' = [CopyLinks EXCEPT ![s] = 0]
  BY <1>2, <1>4, <1>6, <1>7, <1>8, KeepFile DEF fileVars, Points
<1>10. Core'
  BY <1>2, <1>3, <1>8, <1>9, PutFreeCore
<1>11. Typed'
  BY <1>1, <1>2, <1>6, <1>7, <1>8 DEF Typed, fileVars
<1> QED
  BY <1>2, <1>10, <1>11, Continues

LEMMA PutReleaseStep ==
  ASSUME Running, panic = "none", NEW p \in Procs, putRelease(p)
  PROVE  IInv'
<1> PICK s : s = SlotOf[p]
  OBVIOUS
<1>1. TypeOK /\ Views /\ Typed
  BY Parts, TypedIs DEF Running
<1>2. /\ Place[p] = "freed" /\ PutRelease(call[p].slot) /\ GoOn(p, "drop")
      /\ UNCHANGED <<disk, panic, entry, rootLinks, root, fileVars>>
  BY Values DEF putRelease
<1>3. s \in Slots /\ PutRelease(s)
  <2>1. s \in Slots
    BY <1>2, Referring
  <2>2. call[p].slot = s
    BY Values
  <2> QED
    BY <1>2, <2>1, <2>2
<1>4. /\ table' \in [Slots -> TableEntries]
      /\ Valids' = [Valids EXCEPT ![s] = FALSE] /\ Holders' = [Holders EXCEPT ![s] = NoProc]
      /\ UNCHANGED <<Nums, Refs, CopyTypes, CopyLinks>>
  BY ONLY <1>1, <1>3, Releases, Zenon
<1>5. /\ call' \in [Procs -> CallRecords] /\ Place' = [Place EXCEPT ![p] = "drop"]
      /\ UNCHANGED <<Doing, SlotOf, NameOf, KindOf>>
  BY <1>1, <1>2, GoesOn DEF Places
<1>6. UNCHANGED <<Doing, SlotOf, NameOf, KindOf, Refs, Nums, CopyTypes, CopyLinks,
                  DiskTypes, DiskLinks, FileRefs, FileSlots, Points, openFiles,
                  entry, rootLinks, root, life>>
  BY <1>2, <1>4, <1>5, KeepDisk, KeepFile DEF fileVars, Points
<1>7. Core'
  BY <1>2, <1>3, <1>4, <1>5, <1>6, PutReleaseCore
<1>8. Typed'
  BY <1>1, <1>2, <1>4, <1>5 DEF Typed, fileVars
<1> QED
  BY <1>2, <1>7, <1>8, Continues

LEMMA PutEndStep ==
  ASSUME Running, panic = "none", NEW p \in Procs, putEnd(p)
  PROVE  IInv'
<1>1. /\ Place[p] = "drop" /\ table' = [table EXCEPT ![call[p].slot] = Dropped(call[p].slot)]
      /\ Return(p) /\ UNCHANGED <<disk, panic, entry, rootLinks, fileVars>>
  BY Values DEF putEnd, PutEnd
<1> QED
  BY <1>1, DropStep

\* A descriptor that is in use refers to a file that counts it.
LEMMA DescriptorCounted ==
  ASSUME Running, NEW p \in Procs, NEW d \in Fds, NEW f, f = openFiles[p][d], f # None
  PROVE  f \in Files /\ FileRefs[f] \in Nat /\ FileRefs[f] > 0 /\ FileSlots[f] \in Slots
<1>1. Views /\ Typed /\ DescriptorRefs /\ FileShape
  BY Parts, TypedIs DEF Running
<1>2. f \in Files
  BY <1>1 DEF Typed
<1>3. Points \in [Procs \X Fds -> Files \cup {None}] /\ IsFiniteSet(Procs \X Fds)
  BY <1>1, Constants, FS_Product DEF Views
<1>4. Count(Points, f) \in Nat
  BY <1>3, CountFacts, Zenon
<1>5. Count(Points, f) # 0
  <2> PICK D : D = Procs \X Fds
    OBVIOUS
  <2>1. Points \in [D -> Files \cup {None}] /\ IsFiniteSet(D)
    BY <1>3
  <2>2. Count(Points, f) = 0 => \A u \in D : Points[u] # f
    BY ONLY <2>1, CountFacts, Zenon
  <2>3. <<p, d>> \in D /\ Points[<<p, d>>] = f
    BY DEF Points
  <2> QED
    BY <2>2, <2>3
<1>6. FileRefs[f] \in Nat /\ FileRefs[f] > 0
  BY <1>1, <1>2, <1>4, <1>5 DEF DescriptorRefs
<1> QED
  BY <1>1, <1>2, <1>6 DEF FileShape, Views

\* close hands the reference of the last descriptor over to put.
LEMMA CloseStep ==
  ASSUME Running, panic = "none", NEW p \in Procs, NEW d \in Fds, close(p, d)
  PROVE  IInv'
<1> PICK f, s, c : f = openFiles[p][d] /\ s = FileSlots[f] /\ c = FileRefs[f]
  OBVIOUS
<1>1. TypeOK /\ Views /\ Typed /\ CallShape
  BY Parts, TypedIs DEF Running
<1>2. /\ Place[p] = "idle" /\ life[p] # "unused" /\ f # None
      /\ openFiles' = [openFiles EXCEPT ![p][d] = None]
      /\ UNCHANGED <<inodeVars, entry, rootLinks, root, life>>
  BY Values DEF close
<1>3. f \in Files /\ c \in Nat /\ c > 0 /\ s \in Slots
  BY <1>2, DescriptorCounted
<1>4. file[f].reference_count = c /\ file[f].slot = s
  BY <1>3, Values
<1>5. /\ openFiles' \in [Procs -> [Fds -> Files \cup {None}]]
      /\ \A q \in Procs, e \in Fds :
           openFiles'[q][e] = IF q = p /\ e = d THEN None ELSE openFiles[q][e]
      /\ Points' = [Points EXCEPT ![<<p, d>>] = None]
  <2> PICK g : g = None
    OBVIOUS
  <2>1. /\ TypeOK /\ p \in Procs /\ d \in Fds /\ (g \in Files \/ g = None)
        /\ openFiles' = [openFiles EXCEPT ![p][d] = g]
    BY <1>1, <1>2
  <2>2. /\ openFiles' \in [Procs -> [Fds -> Files \cup {None}]]
        /\ \A q \in Procs, e \in Fds :
             openFiles'[q][e] = IF q = p /\ e = d THEN g ELSE openFiles[q][e]
        /\ Points' = [Points EXCEPT ![<<p, d>>] = g]
    BY ONLY <2>1, SetPoint, ZenonT(40)
  <2> QED
    BY <2>2
<1>6. UNCHANGED <<Refs, Nums, Valids, CopyTypes, CopyLinks, Holders, DiskTypes, DiskLinks,
                  entry, rootLinks, root, life, disk, table>>
  BY <1>2, KeepTable, KeepDisk DEF inodeVars
<1>7. CASE c = 1
  <2>1. /\ file' = [file EXCEPT ![f] = [reference_count |-> 0, slot |-> None]]
        /\ call' = [call EXCEPT ![p] = [Idle EXCEPT !.at = "put", !.slot = s]]
        /\ UNCHANGED panic
    BY <1>4, <1>7 DEF close
  <2>2. /\ file' \in [Files -> OpenRecords] /\ FileRefs' = [FileRefs EXCEPT ![f] = 0]
        /\ FileSlots' = [FileSlots EXCEPT ![f] = None]
    <3> PICK r : r = [reference_count |-> 0, slot |-> None]
      OBVIOUS
    <3>1. r \in OpenRecords /\ r.reference_count = 0 /\ r.slot = None
      BY DEF OpenRecords
    <3>2. TypeOK /\ f \in Files /\ r \in OpenRecords /\ file' = [file EXCEPT ![f] = r]
      BY <1>1, <1>3, <2>1, <3>1
    <3>3. /\ file' \in [Files -> OpenRecords]
          /\ FileRefs' = [FileRefs EXCEPT ![f] = r.reference_count]
          /\ FileSlots' = [FileSlots EXCEPT ![f] = r.slot]
      BY ONLY <3>2, SetFile, Zenon
    <3> QED
      BY <3>1, <3>3
  <2>3. /\ call' \in [Procs -> CallRecords] /\ Place' = [Place EXCEPT ![p] = "put"]
        /\ Doing' = [Doing EXCEPT ![p] = "none"] /\ SlotOf' = [SlotOf EXCEPT ![p] = s]
        /\ NameOf' = [NameOf EXCEPT ![p] = None] /\ KindOf' = [KindOf EXCEPT ![p] = "none"]
    <3> PICK r : r = [Idle EXCEPT !.at = "put", !.slot = s]
      OBVIOUS
    <3>1. /\ r \in CallRecords /\ r.at = "put" /\ r.of = "none" /\ r.slot = s
          /\ r.name = None /\ r.kind = "none"
      BY <1>3 DEF CallRecords, Idle
    <3>2. TypeOK /\ p \in Procs /\ r \in CallRecords /\ call' = [call EXCEPT ![p] = r]
      BY <1>1, <2>1, <3>1
    <3>3. /\ call' \in [Procs -> CallRecords]
          /\ Place' = [Place EXCEPT ![p] = r.at] /\ Doing' = [Doing EXCEPT ![p] = r.of]
          /\ SlotOf' = [SlotOf EXCEPT ![p] = r.slot] /\ NameOf' = [NameOf EXCEPT ![p] = r.name]
          /\ KindOf' = [KindOf EXCEPT ![p] = r.kind]
      BY ONLY <3>2, SetCall, Zenon
    <3> QED
      BY <3>1, <3>3
  <2>4. Doing' = Doing
    BY <1>1, <1>2, <2>3 DEF CallShape, Views
  <2>5. Core'
    <3>1. FileRefs[f] = 1 /\ openFiles[p][d] = f /\ s = FileSlots[f]
      BY <1>7
    <3>2. UNCHANGED <<Doing, Refs, Nums, Valids, CopyTypes, CopyLinks, Holders, DiskTypes,
                      DiskLinks, entry, rootLinks, root, life>>
      BY <1>6, <2>4
    <3>3. s \in Slots /\ f \in Files /\ Place[p] = "idle" /\ life[p] # "unused"
      BY <1>2, <1>3
    <3> QED
      BY ONLY <1>5, <2>2, <2>3, <3>1, <3>2, <3>3, Running, p \in Procs, d \in Fds, CloseLastCore
  <2>6. Typed'
    BY <1>1, <1>5, <1>6, <2>1, <2>2, <2>3 DEF Typed
  <2> QED
    BY <2>1, <2>5, <2>6, Continues
<1>8. CASE c # 1
  <2>1. /\ file' = [file EXCEPT ![f].reference_count = @ - 1]
        /\ UNCHANGED <<call, panic>>
    <3>1. ~(file[f].reference_count < 1) /\ file[f].reference_count # 1
      BY <1>3, <1>4, <1>8
    <3> QED
      BY <3>1, Zenon DEF close
  <2>2. /\ file' \in [Files -> OpenRecords] /\ FileRefs' = [FileRefs EXCEPT ![f] = c - 1]
        /\ UNCHANGED FileSlots
    <3> PICK r : r = [file[f] EXCEPT !.reference_count = c - 1]
      OBVIOUS
    <3>1. file[f] \in OpenRecords
      BY <1>1, <1>3 DEF Typed
    <3>2. r \in OpenRecords /\ r.reference_count = c - 1 /\ r.slot = s
      BY <1>3, <1>4, <3>1 DEF OpenRecords
    <3>3. file' = [file EXCEPT ![f] = r]
      BY <1>4, <2>1
    <3>4. TypeOK /\ f \in Files /\ r \in OpenRecords /\ file' = [file EXCEPT ![f] = r]
      BY <1>1, <1>3, <3>2, <3>3
    <3>5. /\ file' \in [Files -> OpenRecords]
          /\ FileRefs' = [FileRefs EXCEPT ![f] = r.reference_count]
          /\ FileSlots' = [FileSlots EXCEPT ![f] = r.slot]
      BY ONLY <3>4, SetFile, Zenon
    <3> QED
      BY <1>1, <1>3, <3>2, <3>5 DEF Views
  <2>3. /\ FileRefs' = [FileRefs EXCEPT ![f] = FileRefs[f] - 1] /\ FileRefs[f] > 1
        /\ openFiles[p][d] = f
    BY <1>3, <1>8, <2>2
  <2>4. UNCHANGED <<Place, Doing, SlotOf, NameOf, KindOf, Refs, Nums, Valids, CopyTypes,
                    CopyLinks, Holders, DiskTypes, DiskLinks, FileSlots, entry,
                    rootLinks, root, life>>
    BY <1>6, <2>1, <2>2, KeepCall
  <2>5. Core'
    BY <1>3, <1>5, <2>3, <2>4, CloseCore
  <2>6. Typed'
    BY <1>1, <1>5, <1>6, <2>1, <2>2 DEF Typed
  <2> QED
    BY <2>1, <2>5, <2>6, Continues
<1> QED
  BY <1>7, <1>8

\* dup and fork count every descriptor they add.
LEMMA DupStep ==
  ASSUME Running, panic = "none", NEW p \in Procs, NEW d \in Fds, dup(p, d)
  PROVE  IInv'
<1> PICK f, c : f = openFiles[p][d] /\ c = FileRefs[f]
  OBVIOUS
<1>1. TypeOK /\ Views /\ Typed
  BY Parts, TypedIs DEF Running
<1>2. /\ Place[p] = "idle" /\ life[p] # "unused" /\ f # None
      /\ UNCHANGED <<inodeVars, panic, entry, rootLinks, root, life, call>>
  BY Values DEF dup, Ready
<1>3. f \in Files /\ c \in Nat /\ c > 0 /\ file[f].reference_count = c
  <2>1. f \in Files /\ c \in Nat /\ c > 0
    BY <1>2, DescriptorCounted
  <2> QED
    BY <2>1, Values
<1>4. PICK e \in FreeFds(p) : openFiles' = [openFiles EXCEPT ![p][e] = f]
  BY DEF dup
<1>5. e \in Fds /\ openFiles[p][e] = None
  BY DEF FreeFds
<1>6. /\ openFiles' \in [Procs -> [Fds -> Files \cup {None}]]
      /\ \A q \in Procs, i \in Fds :
           openFiles'[q][i] = IF q = p /\ i = e THEN f ELSE openFiles[q][i]
      /\ Points' = [Points EXCEPT ![<<p, e>>] = f]
  <2>1. /\ TypeOK /\ p \in Procs /\ e \in Fds /\ (f \in Files \/ f = None)
        /\ openFiles' = [openFiles EXCEPT ![p][e] = f]
    BY <1>1, <1>3, <1>4, <1>5
  <2> QED
    BY ONLY <2>1, SetPoint, ZenonT(40)
<1>7. /\ file' \in [Files -> OpenRecords] /\ FileRefs' = [FileRefs EXCEPT ![f] = FileRefs[f] + 1]
      /\ UNCHANGED FileSlots
  <2> PICK r : r = [file[f] EXCEPT !.reference_count = c + 1]
    OBVIOUS
  <2>1. file[f] \in OpenRecords
    BY <1>1, <1>3 DEF Typed
  <2>2. r \in OpenRecords /\ r.reference_count = c + 1 /\ r.slot = FileSlots[f]
    BY <1>3, <2>1, Values DEF OpenRecords
  <2>3. file' = [file EXCEPT ![f] = r]
    BY <1>3 DEF dup
  <2>4. TypeOK /\ f \in Files /\ r \in OpenRecords /\ file' = [file EXCEPT ![f] = r]
    BY <1>1, <1>3, <2>2, <2>3
  <2>5. /\ file' \in [Files -> OpenRecords]
        /\ FileRefs' = [FileRefs EXCEPT ![f] = r.reference_count]
        /\ FileSlots' = [FileSlots EXCEPT ![f] = r.slot]
    BY ONLY <2>4, SetFile, Zenon
  <2> QED
    BY <1>1, <1>3, <2>2, <2>5 DEF Views
<1>8. UNCHANGED <<Place, Doing, SlotOf, NameOf, KindOf, Refs, Nums, Valids, CopyTypes,
                  CopyLinks, Holders, DiskTypes, DiskLinks, FileSlots, entry,
                  rootLinks, root, life, disk, table>>
  BY <1>2, <1>7, KeepCall, KeepTable, KeepDisk DEF inodeVars
<1>9. Core'
  BY <1>2, <1>3, <1>5, <1>6, <1>7, <1>8, DupCore
<1>10. Typed'
  BY <1>1, <1>2, <1>6, <1>7, <1>8 DEF Typed
<1> QED
  BY <1>2, <1>9, <1>10, Continues

LEMMA ForkStep ==
  ASSUME Running, panic = "none", NEW p \in Procs, NEW q \in Procs, fork(p, q)
  PROVE  IInv'
<1>1. TypeOK /\ Views /\ Typed
  BY Parts, TypedIs DEF Running
<1>2. /\ Place[p] = "idle" /\ life[p] # "unused" /\ life[q] = "unused"
      /\ life' = [life EXCEPT ![q] = "running"]
      /\ openFiles' = [openFiles EXCEPT ![q] = openFiles[p]]
      /\ file' = [f \in Files |-> [file[f] EXCEPT !.reference_count = @ + Shared(p, f)]]
      /\ UNCHANGED <<inodeVars, panic, entry, rootLinks, root, call>>
  BY Values DEF fork, Ready
<1>3. \A f : Shared(p, f) \in Nat
  <2> TAKE f
  <2> PICK D : D = {d \in Fds : openFiles[p][d] = f}
    OBVIOUS
  <2>1. IsFiniteSet(D) /\ Cardinality(D) \in Nat
    BY Constants, FS_Subset, FS_CardinalityType
  <2> QED
    BY <2>1 DEF Shared, Uses
<1>4. \A f \in Files : file[f] \in OpenRecords
  BY <1>1 DEF Typed
<1>5. \A f \in Files : /\ file'[f] \in OpenRecords /\ file'[f].slot = file[f].slot
                       /\ file'[f].reference_count = file[f].reference_count + Shared(p, f)
  BY <1>2, <1>3, <1>4 DEF OpenRecords
<1>6. /\ file' \in [Files -> OpenRecords] /\ UNCHANGED FileSlots
      /\ FileRefs' = [f \in Files |-> FileRefs[f] + Shared(p, f)]
  BY <1>2, <1>5 DEF FileSlots, FileRefs
<1>7. /\ openFiles' \in [Procs -> [Fds -> Files \cup {None}]]
      /\ life' \in [Procs -> {"unused", "running", "exiting"}]
  BY <1>1, <1>2 DEF Typed
<1>8. Points' = [u \in Procs \X Fds |-> openFiles'[u[1]][u[2]]]
  BY DEF Points
<1>9. UNCHANGED <<Place, Doing, SlotOf, NameOf, KindOf, Refs, Nums, Valids, CopyTypes,
                  CopyLinks, Holders, DiskTypes, DiskLinks, FileSlots, entry,
                  rootLinks, root, disk, table>>
  BY <1>2, <1>6, KeepCall, KeepTable, KeepDisk DEF inodeVars
<1>10. /\ life \in [Procs -> {"unused", "running", "exiting"}]
       /\ openFiles \in [Procs -> [Fds -> Files \cup {None}]]
  BY <1>1 DEF Typed
<1>11. Core'
  BY <1>2, <1>6, <1>8, <1>9, <1>10, ForkCore
<1>12. Typed'
  BY <1>1, <1>2, <1>6, <1>7, <1>9 DEF Typed
<1> QED
  BY <1>2, <1>11, <1>12, Continues

\* Exit begins and ends without a call under way.
LEMMA ExitSteps ==
  ASSUME Running, panic = "none", NEW p \in Procs, exit(p) \/ exitEnd(p)
  PROVE  IInv'
<1>1. TypeOK /\ Views /\ Typed
  BY Parts, TypedIs DEF Running
<1>2. /\ Place[p] = "idle" /\ life[p] # "unused"
      /\ UNCHANGED <<inodeVars, panic, entry, rootLinks, root, file, openFiles, call>>
  BY Values DEF exit, exitEnd, Ready
<1>3. PICK l \in {"unused", "exiting"} :
        life' = [life EXCEPT ![p] = l] /\ (l = "unused" => \A d \in Fds : openFiles[p][d] = None)
  BY DEF exit, exitEnd, FreeFds
<1>4. UNCHANGED <<Place, Doing, SlotOf, NameOf, KindOf, Refs, Nums, Valids, CopyTypes,
                  CopyLinks, Holders, DiskTypes, DiskLinks, FileRefs, FileSlots,
                  Points, openFiles, entry, rootLinks, root, disk, table>>
  BY <1>2, KeepCall, KeepTable, KeepDisk, KeepFile DEF inodeVars, Points
<1>5. life \in [Procs -> {"unused", "running", "exiting"}]
  BY <1>1 DEF Typed
<1>6. Core'
  BY <1>2, <1>3, <1>4, <1>5, LifeCore
<1>7. Typed'
  BY <1>1, <1>2, <1>3, <1>4, <1>5 DEF Typed
<1> QED
  BY <1>2, <1>6, <1>7, Continues

-----------------------------------------------------------------------------
(* The theorems.                                                            *)

\* At the start nothing refers to anything.
LEMMA InitEstablishes == Init => panic = "none" /\ Running
<1> SUFFICES ASSUME Init PROVE panic = "none" /\ Running
  OBVIOUS
<1> USE Constants
<1>1. TypeOK /\ panic = "none"
  <2>1. FreeInode \in DiskInodes
    BY DEF FreeInode, DiskInodes
  <2>2. InodeTypeOK /\ panic = "none"
    BY <2>1 DEF Init, InodeInit, InodeTypeOK
  <2> QED
    BY <2>2 DEF Init, TypeOK, Idle
<1>2. /\ \A p \in Procs : /\ Place[p] = "idle" /\ Doing[p] = "none" /\ SlotOf[p] = None
                          /\ \A d \in Fds : openFiles[p][d] = None
      /\ \A s \in Slots : Refs[s] = 0 /\ Holders[s] = NoProc
      /\ \A n \in Inums : DiskTypes[n] = "free" /\ DiskLinks[n] = 0
      /\ \A f \in Files : FileRefs[f] = 0 /\ FileSlots[f] = None
      /\ \A x \in Names : entry[x] = None
      /\ rootLinks = 1
  BY DEF Init, InodeInit, FreeInode, Idle, Place, Doing, SlotOf, Refs, Holders, DiskTypes, DiskLinks,
         FileRefs, FileSlots
<1>3. /\ Views /\ \A u \in Procs \X Fds : Points[u] = None
      /\ \A p \in Procs : Counted[p] = None
      /\ \A x \in Names : NameTypes[x] = "free"
  BY <1>1, <1>2, ViewTypes DEF Points, Counted, HasCounted, NameTypes
<1>4. Calls
  BY <1>2 DEF Calls, CallShape, Unborn, RootHeld, FdsLeft, FileShape
<1>5. Table
  <2>1. HolderExact /\ OneEntry /\ CopyExact
    BY <1>2 DEF HolderExact, Holding, OneEntry, CopyExact
  <2>2. BodyValid
    BY <1>2 DEF BodyValid
  <2> QED
    BY <2>1, <2>2 DEF Table
<1>6. Disk
  BY <1>2 DEF Disk, FreeDisk, FreeRefs, Freeing, NewInode, UnlinkName, LinkedFile
<1>7. SlotRefs
  <2> SUFFICES ASSUME NEW s \in Slots PROVE Refs[s] = Count(FileSlots, s) + Count(SlotOf, s)
    BY DEF SlotRefs
  <2>1. Count(FileSlots, s) = 0
    <3>1. FileSlots \in [Files -> Slots \cup {None}] /\ \A f \in Files : FileSlots[f] # s
      BY <1>2, <1>3 DEF Views
    <3> QED
      BY <3>1, CountFacts
  <2>2. Count(SlotOf, s) = 0
    <3>1. SlotOf \in [Procs -> Slots \cup {None}] /\ \A p \in Procs : SlotOf[p] # s
      BY <1>2, <1>3 DEF Views
    <3> QED
      BY <3>1, CountFacts
  <2>3. Refs[s] = 0
    BY <1>2
  <2> QED
    BY ONLY <2>1, <2>2, <2>3
<1>8. DescriptorRefs
  <2> SUFFICES ASSUME NEW f \in Files PROVE FileRefs[f] = Count(Points, f)
    BY DEF DescriptorRefs
  <2> PICK D : D = Procs \X Fds
    OBVIOUS
  <2>1. /\ Points \in [D -> Files \cup {None}] /\ IsFiniteSet(D)
        /\ \A u \in D : Points[u] # f
    BY <1>3, FS_Product DEF Views
  <2>2. Count(Points, f) = 0
    BY <2>1, CountFacts
  <2> QED
    BY <1>2, <2>2
<1>9. NameLinks
  <2> SUFFICES ASSUME NEW n \in Inums PROVE DiskLinks[n] = Count(entry, n) + Count(Counted, n)
    BY DEF NameLinks
  <2>1. Count(entry, n) = 0
    <3>1. entry \in [Names -> Inums \cup {None}] /\ \A x \in Names : entry[x] # n
      BY <1>2, <1>3 DEF Views
    <3> QED
      BY <3>1, CountFacts
  <2>2. Count(Counted, n) = 0
    <3>1. Counted \in [Procs -> {None}] /\ \A p \in Procs : Counted[p] # n
      BY <1>3 DEF Counted
    <3> QED
      BY <3>1, CountFacts
  <2> QED
    BY <1>2, <2>1, <2>2
<1>10. DirectoryLinks
  <2>1. NameTypes \in [Names -> {"free"}] /\ \A x \in Names : NameTypes[x] # "directory"
    BY <1>3 DEF NameTypes
  <2>2. Count(NameTypes, "directory") = 0
    BY <2>1, CountFacts
  <2> QED
    BY <1>2, <2>2 DEF DirectoryLinks
<1> QED
  BY <1>1, <1>4, <1>5, <1>6, <1>7, <1>8, <1>9, <1>10 DEF Running, Core, Counts

\* A step of p.
StepOf(p) ==
  \/ \E n \in Names :
       \/ resolvePath(p, n, "open", None)
       \/ \E m \in Names : resolvePath(p, n, "link", m)
       \/ \E k \in Kinds : lookupChild(p, n, "create", k) \/ alloc(p, n, k)
       \/ lookupChild(p, n, "unlink", "none")
  \/ lock(p) \/ openSucceeds(p) \/ openFails(p)
  \/ createExisting(p) \/ createNew(p) \/ createFails(p)
  \/ unlink(p) \/ link(p) \/ linkEntry(p) \/ rollback(p)
  \/ put(p) \/ putFree(p) \/ putRelease(p) \/ putEnd(p)
  \/ \E d \in Fds : close(p, d) \/ dup(p, d)
  \/ \E q \in Procs : fork(p, q)
  \/ exit(p) \/ exitEnd(p)

\* Every action keeps the invariant.
LEMMA NextPreserves ==
  ASSUME ~OpenWhenFull, Running, panic = "none", Next
  PROVE  IInv'
<1> PICK p \in Procs : StepOf(p)
  BY Zenon DEF Next, StepOf
<1>1. ASSUME NEW n \in Names, resolvePath(p, n, "open", None) PROVE IInv'
  BY <1>1, ResolveStep
<1>2. ASSUME NEW n \in Names, NEW m \in Names, resolvePath(p, n, "link", m) PROVE IInv'
  BY <1>2, ResolveStep
<1>3. ASSUME NEW n \in Names, NEW k \in Kinds, lookupChild(p, n, "create", k) PROVE IInv'
  BY <1>3, LookupStep
<1>4. ASSUME NEW n \in Names, lookupChild(p, n, "unlink", "none") PROVE IInv'
  BY <1>4, LookupStep
<1>5. ASSUME NEW n \in Names, NEW k \in Kinds, alloc(p, n, k) PROVE IInv'
  BY <1>5, AllocStep
<1>6. lock(p) \/ openSucceeds(p) \/ openFails(p) => IInv'
  BY LockStep, OpenSucceedsStep, OpenFailsStep
<1>7. createExisting(p) \/ createNew(p) \/ createFails(p) => IInv'
  BY CreateExistingStep, CreateNewStep, CreateFailsStep
<1>8. unlink(p) \/ link(p) \/ linkEntry(p) \/ rollback(p) => IInv'
  BY UnlinkStep, LinkStep, LinkEntryStep, RollbackStep
<1>9. put(p) \/ putFree(p) \/ putRelease(p) \/ putEnd(p) => IInv'
  BY PutStep, PutFreeStep, PutReleaseStep, PutEndStep
<1>10. ASSUME NEW d \in Fds, close(p, d) \/ dup(p, d) PROVE IInv'
  BY <1>10, CloseStep, DupStep
<1>11. ASSUME NEW q \in Procs, fork(p, q) PROVE IInv'
  BY <1>11, ForkStep
<1>12. exit(p) \/ exitEnd(p) => IInv'
  BY ExitSteps
<1> QED
  BY <1>1, <1>2, <1>3, <1>4, <1>5, <1>6, <1>7, <1>8, <1>9, <1>10, <1>11, <1>12, Zenon DEF StepOf

\* After a panic the system takes no step.
LEMMA PanicStops == Next => panic = "none"
<1> SUFFICES ASSUME Next PROVE panic = "none"
  OBVIOUS
<1> PICK p \in Procs : StepOf(p)
  BY Zenon DEF Next, StepOf
<1> USE DEF Ready, At
<1>1. ASSUME NEW n \in Names, NEW of, NEW m, NEW k,
             resolvePath(p, n, of, m) \/ lookupChild(p, n, of, k) \/ alloc(p, n, k)
      PROVE  panic = "none"
  BY <1>1 DEF resolvePath, lookupChild, alloc
<1>2. lock(p) \/ openSucceeds(p) \/ openFails(p) => panic = "none"
  BY DEF lock, openSucceeds, openFails
<1>3. createExisting(p) \/ createNew(p) \/ createFails(p) => panic = "none"
  BY DEF createExisting, createNew, createFails
<1>4. unlink(p) \/ link(p) \/ linkEntry(p) \/ rollback(p) => panic = "none"
  BY DEF unlink, link, linkEntry, rollback
<1>5. put(p) \/ putFree(p) \/ putRelease(p) \/ putEnd(p) => panic = "none"
  BY DEF put, putFree, putRelease, putEnd
<1>6. exit(p) \/ exitEnd(p) => panic = "none"
  BY DEF exit, exitEnd
<1>7. ASSUME NEW d \in Fds, close(p, d) \/ dup(p, d) PROVE panic = "none"
  BY <1>7 DEF close, dup
<1>8. ASSUME NEW q \in Procs, fork(p, q) PROVE panic = "none"
  BY <1>8 DEF fork
<1> QED
  BY <1>1, <1>2, <1>3, <1>4, <1>5, <1>6, <1>7, <1>8, Zenon DEF StepOf

\* A step that changes nothing keeps it.
LEMMA StutterPreserves ==
  ASSUME IInv, UNCHANGED vars
  PROVE  IInv'
<1>1. UNCHANGED <<disk, table, panic, entry, rootLinks, root, file, openFiles, life, call>>
  BY DEF vars, inodeVars, fileVars
<1>2. UNCHANGED <<Place, Doing, SlotOf, NameOf, KindOf, Refs, Nums, Valids, CopyTypes, CopyLinks,
                  Holders, DiskTypes, DiskLinks, FileRefs, FileSlots, Points>>
  BY <1>1, KeepCall, KeepTable, KeepDisk, KeepFile DEF Points
<1>3. UNCHANGED <<Counted, NameTypes>>
  BY <1>1, <1>2 DEF Counted, HasCounted, NameTypes
<1>4. Counts' <=> Counts
  BY <1>1, <1>2, <1>3 DEF Counts, SlotRefs, DescriptorRefs, NameLinks, DirectoryLinks, Count
<1>5. Calls' <=> Calls
  BY <1>1, <1>2 DEF Calls, CallShape, Unborn, RootHeld, FdsLeft, FileShape
<1>6. Table' <=> Table
  BY <1>1, <1>2 DEF Table, HolderExact, Holding, OneEntry, CopyExact, BeingFreed, BodyValid
<1>7. Disk' <=> Disk
  BY <1>1, <1>2 DEF Disk, FreeDisk, FreeRefs, Freeing, NewInode, UnlinkName, LinkedFile
<1>8. TypeOK' <=> TypeOK
  BY <1>1 DEF TypeOK, InodeTypeOK
<1>9. CopyIsCurrent' <=> CopyIsCurrent
  BY <1>1 DEF CopyIsCurrent
<1>10. CallShape' <=> CallShape
  BY <1>1, <1>2 DEF CallShape
<1>11. Running' <=> Running
  BY <1>4, <1>5, <1>6, <1>7, <1>8 DEF Running, Core
<1>12. Stopped' <=> Stopped
  BY <1>1, <1>4, <1>8, <1>9, <1>10 DEF Stopped
<1> QED
  BY <1>1, <1>11, <1>12 DEF IInv

LEMMA StepPreserves == ~OpenWhenFull /\ IInv /\ [Next]_vars => IInv'
<1>1. IInv /\ Next => panic = "none" /\ Running
  BY PanicStops DEF IInv, Stopped
<1> QED
  BY <1>1, NextPreserves, StutterPreserves

\* The invariant holds at any time.
LEMMA Invariance == ~OpenWhenFull => (Spec => []IInv)
<1> SUFFICES ASSUME ~OpenWhenFull PROVE Spec => []IInv
  OBVIOUS
<1>1. Init => IInv
  BY InitEstablishes DEF IInv
<1>2. IInv /\ [Next]_vars => IInv'
  BY StepPreserves
<1> QED
  BY <1>1, <1>2, PTL DEF Spec

\* Every variable of the open files and inodes keeps its type: in particular
\* every name and every descriptor is that of an inode or a file, or of none.
THEOREM TypeCorrect == ~OpenWhenFull => (Spec => []TypeOK)
<1>1. IInv => TypeOK
  BY DEF IInv, Running, Stopped
<1> QED
  BY <1>1, Invariance, PTL

\* What the views say at any time, before and after a panic.
LEMMA Counting == IInv => TypeOK /\ Views /\ Counts /\ CallShape
BY ViewTypes DEF IInv, Running, Stopped, Core, Calls

\* Files and inode table entries count exactly what refers to them, whatever
\* calls of whatever processes are under way (file.zig, inode.zig:43-47).
THEOREM ReferencesAreExact == ~OpenWhenFull => (Spec => []ReferencesExact)
<1>1. ASSUME IInv PROVE ReferencesExact
  <2>1. TypeOK /\ Views /\ SlotRefs /\ DescriptorRefs
    BY <1>1, Counting DEF Counts
  <2>2. ASSUME NEW s \in Slots
        PROVE  table[s].reference_count =
                 Cardinality({f \in Files : file[f].slot = s}) + Cardinality(InCall(s))
    <3>1. Count(FileSlots, s) = Cardinality({f \in Files : file[f].slot = s})
      <4>1. {f \in DOMAIN FileSlots : FileSlots[f] = s} = {f \in Files : file[f].slot = s}
        BY DEF FileSlots
      <4> QED
        BY <4>1, Zenon DEF Count
    <3>2. Count(SlotOf, s) = Cardinality(InCall(s))
      <4>1. {p \in DOMAIN SlotOf : SlotOf[p] = s} = InCall(s)
        BY DEF SlotOf, InCall
      <4> QED
        BY <4>1, Zenon DEF Count
    <3>3. table[s].reference_count = Refs[s] /\ Refs[s] = Count(FileSlots, s) + Count(SlotOf, s)
      BY <2>1, Values DEF SlotRefs
    <3> QED
      BY <3>1, <3>2, <3>3
  <2>3. ASSUME NEW f \in Files
        PROVE  file[f].reference_count =
                 Cardinality({u \in Procs \X Fds : openFiles[u[1]][u[2]] = f})
    <3>1. Count(Points, f) = Cardinality({u \in Procs \X Fds : openFiles[u[1]][u[2]] = f})
      <4>1. {u \in DOMAIN Points : Points[u] = f} = {u \in Procs \X Fds : openFiles[u[1]][u[2]] = f}
        BY DEF Points
      <4> QED
        BY <4>1, Zenon DEF Count
    <3> QED
      BY <2>1, <3>1, Values DEF DescriptorRefs
  <2> QED
    BY <2>2, <2>3 DEF ReferencesExact
<1> QED
  BY <1>1, Invariance, PTL

\* A valid copy that nobody holds is the inode on disk, whatever put, alloc and
\* the recycling of table entries do to the inode meanwhile (inode.zig:49-53).
THEOREM CopiesAreCurrent == ~OpenWhenFull => (Spec => []CopyIsCurrent)
<1>1. ASSUME IInv PROVE CopyIsCurrent
  <2>1. CASE Running
    <3> SUFFICES ASSUME NEW s \in Slots, table[s].reference_count > 0, table[s].is_valid,
                        table[s].holder = NoProc
                 PROVE  table[s].disk_inode = disk[table[s].inode_number]
      BY DEF CopyIsCurrent
    <3>1. Refs[s] > 0 /\ Valids[s] /\ Holders[s] = NoProc /\ table[s].inode_number = Nums[s]
      BY Values
    <3> QED
      BY <2>1, <3>1, CopiesCurrent
  <2>2. CASE Stopped
    BY <2>2 DEF Stopped
  <2> QED
    BY <1>1, <2>1, <2>2 DEF IInv
<1> QED
  BY <1>1, Invariance, PTL

\* The link counts on disk are the names there are, and the links that link has
\* counted but not yet entered or not yet taken back (sysfile.zig:119-150).
THEOREM LinksAreExact == ~OpenWhenFull => (Spec => []LinksExact)
<1>1. ASSUME IInv PROVE LinksExact
  <2>1. TypeOK /\ Views /\ NameLinks /\ DirectoryLinks /\ CallShape
    BY <1>1, Counting DEF Counts
  <2>2. ASSUME NEW n \in Inums
        PROVE  disk[n].link_count =
                 Cardinality({x \in Names : entry[x] = n}) +
                 Cardinality({p \in Procs : /\ LinkUnderWay(p)
                                            /\ table[call[p].slot].inode_number = n})
    <3>1. Count(entry, n) = Cardinality({x \in Names : entry[x] = n})
      <4>1. {x \in DOMAIN entry : entry[x] = n} = {x \in Names : entry[x] = n}
        BY <2>1 DEF Views
      <4> QED
        BY <4>1, Zenon DEF Count
    <3>2. ASSUME NEW p \in Procs
          PROVE  Counted[p] = n <=> LinkUnderWay(p) /\ table[call[p].slot].inode_number = n
      <4>1. HasCounted(p) <=> LinkUnderWay(p)
        BY Values DEF HasCounted, LinkUnderWay
      <4>2. HasCounted(p) => SlotOf[p] \in Slots
        BY <2>1, Constants DEF HasCounted, CallShape, Views
      <4>3. HasCounted(p) => table[call[p].slot].inode_number = Nums[SlotOf[p]]
        BY <4>2, Values
      <4> QED
        BY <4>1, <4>3, Constants DEF Counted
    <3>3. Count(Counted, n) = Cardinality({p \in Procs : /\ LinkUnderWay(p)
                                                         /\ table[call[p].slot].inode_number = n})
      <4>1. {p \in DOMAIN Counted : Counted[p] = n}
              = {p \in Procs : LinkUnderWay(p) /\ table[call[p].slot].inode_number = n}
        BY <3>2 DEF Counted
      <4> QED
        BY <4>1, Zenon DEF Count
    <3>4. disk[n].link_count = DiskLinks[n] /\ DiskLinks[n] = Count(entry, n) + Count(Counted, n)
      BY <2>1, Values DEF NameLinks
    <3> QED
      BY <3>1, <3>3, <3>4
  <2>3. rootLinks = 1 + Cardinality({x \in Names : /\ entry[x] # None
                                                   /\ disk[entry[x]].type = "directory"})
    <3>1. ASSUME NEW x \in Names
          PROVE  NameTypes[x] = "directory" <=> entry[x] # None /\ disk[entry[x]].type = "directory"
      <4>1. entry[x] # None => DiskTypes[entry[x]] = disk[entry[x]].type
        BY <2>1 DEF Views, DiskTypes
      <4> QED
        BY <4>1 DEF NameTypes
    <3>2. {x \in DOMAIN NameTypes : NameTypes[x] = "directory"}
            = {x \in Names : entry[x] # None /\ disk[entry[x]].type = "directory"}
      BY <3>1 DEF NameTypes
    <3>3. Count(NameTypes, "directory")
            = Cardinality({x \in Names : entry[x] # None /\ disk[entry[x]].type = "directory"})
      BY <3>2, Zenon DEF Count
    <3> QED
      BY <2>1, <3>3 DEF DirectoryLinks
  <2> QED
    BY <2>2, <2>3 DEF LinksExact
<1> QED
  BY <1>1, Invariance, PTL

\* While get finds entries, nothing panics, and a free inode has neither a name
\* nor an open file.
LEMMA RunningKeeps == panic = "none" /\ Running => NothingDangles
<1> SUFFICES ASSUME panic = "none", Running PROVE NothingDangles
  OBVIOUS
<1>1. Views /\ FreeDisk /\ FreeRefs /\ FileShape
  BY Parts
<1>2. ASSUME NEW n \in FreeInums PROVE n \in Inums /\ DiskTypes[n] = "free" /\ DiskLinks[n] = 0
  <2>1. n \in Inums /\ DiskTypes[n] = "free"
    BY Values DEF FreeInums
  <2> QED
    BY <1>1, <2>1 DEF FreeDisk
<1>3. ASSUME NEW n \in FreeInums, NEW x \in Names PROVE entry[x] # n
  <2>1. n # None /\ DiskLinks[n] = 0
    BY <1>2, Constants
  <2>2. entry[x] # None => DiskLinks[entry[x]] > 0
    BY Referring
  <2> QED
    BY <2>1, <2>2
<1>4. ASSUME NEW n \in FreeInums, NEW f \in Files, file[f].reference_count > 0
      PROVE  table[file[f].slot].inode_number # n
  <2> PICK s : s = FileSlots[f]
    OBVIOUS
  <2>1. FileRefs[f] # 0 /\ file[f].slot = s
    BY <1>4, Values
  <2>2. s # None
    BY <1>1, <2>1 DEF FileShape
  <2>3. s \in Slots /\ DiskTypes[Nums[s]] # "free"
    BY <1>1, <2>2 DEF FreeRefs, Views
  <2>4. table[s].inode_number = Nums[s]
    BY <2>3, Values
  <2> QED
    BY <1>2, <2>1, <2>3, <2>4
<1> QED
  BY <1>3, <1>4 DEF NothingDangles

\* For a table of any size: no other panic is reachable than get's for a full
\* table, and until then put frees no inode that a name or an open file can
\* still reach (inode.zig:258-300), and its acquire of the inode's lock never
\* waits while it holds the table's.
THEOREM OnlyAFullTablePanics ==
  ~OpenWhenFull => (Spec => [](panic = "no inodes available" \/ NothingDangles))
<1>1. IInv => panic = "no inodes available" \/ NothingDangles
  BY RunningKeeps DEF IInv, Stopped
<1> QED
  BY <1>1, Invariance, PTL

\* An inode without an entry leaves one for it when there are as many entries
\* as inodes: each entry in use is that of another inode.
LEMMA SlotLeft ==
  ASSUME Running, Cardinality(Inums) <= Cardinality(Slots), NEW n \in Inums
  PROVE  ~NoSlotFor(n)
<1> SUFFICES ASSUME NoSlotFor(n) PROVE FALSE
  OBVIOUS
<1>1. Views /\ OneEntry
  BY Parts
<1>2. \A s \in Slots : Refs[s] > 0 /\ Nums[s] # n
  <2>1. \A s \in Slots : table[s].reference_count # 0
    BY DEF NoSlotFor, EmptySlots
  <2>2. \A s \in Slots : ~(table[s].reference_count > 0 /\ table[s].inode_number = n)
    BY DEF NoSlotFor, Referenced
  <2> QED
    BY <1>1, <2>1, <2>2, Values DEF Views
<1> PICK T : T = Inums \ {n}
  OBVIOUS
<1>3. Nums \in [Slots -> T] /\ \A s, t \in Slots : Nums[s] = Nums[t] => s = t
  BY <1>1, <1>2 DEF OneEntry, Views
<1>4. IsFiniteSet(T) /\ Cardinality(T) = Cardinality(Inums) - 1
  BY Constants, FS_RemoveElement
<1>5. IsFiniteSet(Slots) /\ Cardinality(Slots) \in Nat /\ Cardinality(Inums) \in Nat
  BY Constants, FS_CardinalityType
<1>6. Cardinality(T) < Cardinality(Slots)
  BY <1>4, <1>5
<1>7. \E s, t \in Slots : s # t /\ Nums[s] = Nums[t]
  BY <1>3, <1>4, <1>5, <1>6, FS_PigeonHole
<1> QED
  BY <1>3, <1>7

\* get does not find the table full.
LEMMA NeverFull ==
  ASSUME Running, panic = "none", Cardinality(Inums) <= Cardinality(Slots), Next
  PROVE  panic' # "no inodes available"
<1> PICK p \in Procs : StepOf(p)
  BY Zenon DEF Next, StepOf
<1> DEFINE Fine == panic' # "no inodes available"
<1>1. ASSUME NEW n \in Inums, NEW c, GetFor(p, n, c) PROVE Fine
  <2>1. ~NoSlotFor(n)
    BY SlotLeft
  <2> QED
    BY <1>1, <2>1 DEF GetFor
<1>2. ASSUME NEW x \in Names, NEW of, NEW m, NEW k,
             resolvePath(p, x, of, m) \/ lookupChild(p, x, of, k)
      PROVE  Fine
  <2>1. entry[x] # None /\ \E c : GetFor(p, entry[x], c)
    BY <1>2 DEF resolvePath, lookupChild
  <2>2. entry[x] \in Inums
    BY <2>1, Referring
  <2> QED
    BY <1>1, <2>1, <2>2, Zenon
<1>3. ASSUME NEW x \in Names, NEW k, alloc(p, x, k) PROVE Fine
  <2>1. FreeInums # {} /\ \E c : GetFor(p, Lowest(FreeInums), c)
    BY <1>3 DEF alloc
  <2>2. FreeInums \subseteq Inums /\ FreeInums \subseteq Nat
    BY Constants DEF FreeInums
  <2>3. Lowest(FreeInums) \in Inums
    BY <2>1, <2>2, LowestIsMember
  <2> QED
    BY <1>1, <2>1, <2>3, Zenon
<1>4. lock(p) \/ openSucceeds(p) \/ openFails(p) => Fine
  BY DEF lock, LockPanic, openSucceeds, openFails
<1>5. createExisting(p) \/ createNew(p) \/ createFails(p) => Fine
  BY DEF createExisting, createNew, createFails
<1>6. unlink(p) \/ link(p) \/ linkEntry(p) \/ rollback(p) => Fine
  BY DEF unlink, link, linkEntry, rollback
<1>7. put(p) \/ putFree(p) \/ putRelease(p) \/ putEnd(p) => Fine
  BY DEF put, PutBegin, putFree, putRelease, putEnd
<1>8. ASSUME NEW d \in Fds, close(p, d) \/ dup(p, d) PROVE Fine
  BY <1>8 DEF close, dup
<1>9. ASSUME NEW q \in Procs, fork(p, q) PROVE Fine
  BY <1>9 DEF fork
<1>10. exit(p) \/ exitEnd(p) => Fine
  BY DEF exit, exitEnd
<1> QED
  BY <1>2, <1>3, <1>4, <1>5, <1>6, <1>7, <1>8, <1>9, <1>10, Zenon DEF StepOf

\* With a table entry for every inode nothing panics at all, and no name and no
\* open file outlives its inode.
THEOREM NothingEverDangles ==
  ~OpenWhenFull /\ Cardinality(Inums) <= Cardinality(Slots) => (Spec => []NothingDangles)
<1> SUFFICES ASSUME ~OpenWhenFull, Cardinality(Inums) <= Cardinality(Slots)
             PROVE  Spec => []NothingDangles
  OBVIOUS
<1>1. Init => panic = "none" /\ Running
  BY InitEstablishes
<1>2. panic = "none" /\ Running /\ [Next]_vars => (panic = "none" /\ Running)'
  <2> SUFFICES ASSUME panic = "none", Running, [Next]_vars PROVE (panic = "none" /\ Running)'
    OBVIOUS
  <2>1. IInv'
    BY StepPreserves DEF IInv
  <2>2. panic' # "no inodes available"
    BY NeverFull DEF vars
  <2> QED
    BY <2>1, <2>2 DEF IInv, Stopped
<1> QED
  BY <1>1, <1>2, RunningKeeps, PTL DEF Spec
=============================================================================
