------------------------------ MODULE Ringbuf ------------------------------
(***************************************************************************)
(* The ring buffers two processes share by name:                           *)
(* src/kernel/datastructures/ringbuf.zig, with the part of process.zig and *)
(* exec.zig that frees the page table a ring buffer is mapped in.          *)
(*                                                                         *)
(* The manager's lock is held over a whole call, so a call is one step.    *)
(* Virtual addresses count in pages.  A page table is the function from    *)
(* the pages near the top of the address space that are mapped to the      *)
(* physical pages: page k of a slot's buffer, or its book (number          *)
(* BufPages).  A call that returns an error before it changed anything is  *)
(* no step.                                                                *)
(***************************************************************************)
EXTENDS Naturals, FiniteSets, Functions

CONSTANTS Procs, Names,
          MaxRingbufs,   \* MAX_RINGBUFS
          BufPages,      \* RINGBUF_SIZE
          TopPage,       \* where topFreeVirtualPage starts; bounds the address space
          MaxCount,      \* bound on ownedRingbufsCount, which failed opens only increase
          Faults,        \* what may fail: a subset of {"memory", "map", "copyOut"}
          ExecOwners,    \* whether programs call exec with a ring buffer open
          NoProc, NoName

ASSUME RingbufAssumption ==
  /\ MaxRingbufs \in Nat \ {0} /\ BufPages \in Nat \ {0} /\ TopPage \in Nat
  /\ MaxCount \in Nat
  /\ Faults \subseteq {"memory", "map", "copyOut"} /\ ExecOwners \in BOOLEAN
  /\ NoProc \notin Procs /\ NoName \notin Names

Slots == 1 .. MaxRingbufs
Sides == {1, 2}

VARIABLES
  refcount, owners, vbuf, name,  \* fields of Ringbuf; vbook is vbuf - 1
  pages,     \* whether the slot's buf_pages and book_page are allocated
  alive,     \* "live", "zombie" or "unused"
  count,     \* Process.ownedRingbufsCount
  topFree,   \* Process.topFreeVirtualPage
  mapped,    \* the ring buffer pages in the process's page table
  panic

slotVars == <<refcount, owners, vbuf, name, pages>>
procVars == <<alive, count, topFree, mapped>>
vars == <<slotVars, procVars, panic>>

TypeOK ==
  /\ refcount \in [Slots -> 0 .. 2]
  /\ owners \in [Slots -> [Sides -> Procs \cup {NoProc}]]
  /\ vbuf \in [Slots -> [Sides -> Nat]]
  /\ name \in [Slots -> Names \cup {NoName}]
  /\ pages \in [Slots -> BOOLEAN]
  /\ alive \in [Procs -> {"live", "zombie", "unused"}]
  /\ count \in [Procs -> Nat]
  /\ topFree \in [Procs -> 0 .. TopPage]
  /\ DOMAIN mapped = Procs
  /\ \A p \in Procs : /\ DOMAIN mapped[p] \subseteq 1 .. TopPage
                       /\ mapped[p] \in [DOMAIN mapped[p] -> Slots \X (0 .. BufPages)]
  /\ panic \in {"none", "ringbuf_has_owners", "uvmUnmap", "freewalk_leaf"}

\* No page is mapped.
NothingMapped == [a \in {} |-> 0]

Init ==
  /\ refcount = [s \in Slots |-> 0]
  /\ owners = [s \in Slots |-> [o \in Sides |-> NoProc]]
  /\ vbuf = [s \in Slots |-> [o \in Sides |-> 0]]
  /\ name = [s \in Slots |-> NoName]
  /\ pages = [s \in Slots |-> FALSE]
  /\ alive = [p \in Procs |-> "live"]
  /\ count = [p \in Procs |-> 0]
  /\ topFree = [p \in Procs |-> TopPage]
  /\ mapped = [p \in Procs |-> NothingMapped]
  /\ panic = "none"

-----------------------------------------------------------------------------
Owns(p, s) == \E o \in Sides : owners[s][o] = p

\* The pages one open takes from the address space: the buffer twice, its
\* book, and a guard page.
RegionSize == 2 * BufPages + 2

\* Mutant: the second mapping starts one page early.
ShiftedFrames(s, top, n) ==
  [a \in {top - j : j \in 0 .. n - 1} |->
     IF a = top - 2 * BufPages THEN <<s, BufPages>> ELSE <<s, (top - a + 1) % (BufPages + 1)>>]

\* The first n of the mappings an open makes, downwards from page top.
Frames(s, top, n) ==
  [a \in {top - j : j \in 0 .. n - 1} |->
     IF a = top - 2 * BufPages THEN <<s, BufPages>> ELSE <<s, (top - a) % BufPages>>]

\* f and g together, g for the arguments both have.
Extended(f, g) ==
  [a \in DOMAIN f \cup DOMAIN g |-> IF a \in DOMAIN g THEN g[a] ELSE f[a]]

\* The slot and side an open by p under the name n gets: the active ring buffer
\* of that name, if p does not own it already, or the first free slot.
Named(n)  == {s \in Slots : refcount[s] > 0 /\ name[s] = n}
Free      == {s \in Slots : refcount[s] = 0}
FirstFree == {s \in Free : \A t \in Free : s <= t}

\* Mutant: the first side, whoever has it.
FirstSide(s) == 1

FreeSide(s) == IF owners[s][2] = NoProc /\ refcount[s] > 0 THEN 2 ELSE 1

Candidates(p, n) ==
  IF Named(n) = {} THEN FirstFree
  ELSE {s \in Named(n) : ~Owns(p, s) /\ \E o \in Sides : owners[s][o] = NoProc}

\* topFreeVirtualPage after n pages were mapped and the guard page left.
BelowGuard(t, n) == t - n - 1

\* ringbuf(name, .open): the ring buffer is activated if need be, and mapped.
open(p, n) ==
  \E s \in Candidates(p, n) :
  LET o == FreeSide(s)  t == topFree[p]  both == 2 * BufPages IN
  /\ panic = "none" /\ alive[p] = "live" /\ t > RegionSize
  /\ owners' = [owners EXCEPT ![s][o] = p]
  /\ vbuf' = [vbuf EXCEPT ![s][o] = t - both + 1]
  /\ refcount' = [refcount EXCEPT ![s] = @ + 1]
  /\ name' = [name EXCEPT ![s] = n]
  /\ pages' = [pages EXCEPT ![s] = TRUE]
  /\ count' = [count EXCEPT ![p] = @ + 1]
  /\ mapped' = [mapped EXCEPT ![p] = Extended(@, Frames(s, t, both + 1))]
  /\ topFree' = [topFree EXCEPT ![p] = BelowGuard(@, both + 1)]
  /\ UNCHANGED <<alive, panic>>

\* Slot s as deactivate leaves it, given its owners at that moment.
Deactivated(s, left) ==
  /\ pages' = [pages EXCEPT ![s] = FALSE]
  /\ IF \E o \in Sides : left[o] # NoProc
     THEN /\ panic' = "ringbuf_has_owners"
          /\ UNCHANGED <<refcount, vbuf, name>>
     ELSE /\ refcount' = [refcount EXCEPT ![s] = 0]
          /\ vbuf' = [vbuf EXCEPT ![s] = [o \in Sides |-> 0]]
          /\ name' = [name EXCEPT ![s] = NoName]
          /\ UNCHANGED panic

\* An open that fails after k mappings, or with all of them made when the
\* address cannot be copied out.  The errdefer gives up the ownership and
\* deactivates the ring buffer; the mappings and ownedRingbufsCount stay.
openFails(p, n) ==
  \E s \in Candidates(p, n), k \in 0 .. 2 * BufPages + 1 :
  /\ panic = "none" /\ alive[p] = "live" /\ topFree[p] > RegionSize
  /\ count[p] < MaxCount
  /\ (IF k = 2 * BufPages + 1 THEN "copyOut" ELSE "map") \in Faults
  /\ Deactivated(s, owners[s])
  /\ count' = [count EXCEPT ![p] = @ + 1]
  /\ mapped' = [mapped EXCEPT ![p] = Extended(@, Frames(s, topFree[p], k))]
  /\ topFree' = [topFree EXCEPT ![p] = @ - k]
  /\ UNCHANGED <<owners, alive>>

\* activate runs out of pages and gives back those it got; only the name,
\* which is looked at in active slots only, has been written.
activateFails(p, n) ==
  /\ panic = "none" /\ alive[p] = "live" /\ "memory" \in Faults
  /\ Named(n) = {}
  /\ \E s \in FirstFree : name' = [name EXCEPT ![s] = n]
  /\ UNCHANGED <<refcount, owners, vbuf, pages, procVars, panic>>

-----------------------------------------------------------------------------
\* The pages that disownIfOwned unmaps for side o of slot s.
Region(s, o) == (vbuf[s][o] - 1) .. (vbuf[s][o] + 2 * BufPages - 1)

Regions(p, S) ==
  UNION {Region(x[1], x[2]) : x \in {y \in S \X Sides : owners[y[1]][y[2]] = p}}

\* Mutant: the ring buffer goes with its first owner.
LastOwnerOrFirst(s) == refcount[s] >= 1

LastOwner(s) == refcount[s] = 1

\* disownIfOwned for the slots of S, all owned by p; the last owner's call
\* deactivates the slot.
Disown(p, S) ==
  LET last == {s \in S : LastOwner(s)} IN
  /\ owners' = [s \in Slots |-> IF s \in S
                  THEN [o \in Sides |-> IF owners[s][o] = p THEN NoProc ELSE owners[s][o]]
                  ELSE owners[s]]
  /\ vbuf' = [s \in Slots |-> IF s \in S
                THEN [o \in Sides |-> IF owners[s][o] = p THEN 0 ELSE vbuf[s][o]]
                ELSE vbuf[s]]
  /\ refcount' = [s \in Slots |-> IF s \in S THEN refcount[s] - 1 ELSE refcount[s]]
  /\ name' = [s \in Slots |-> IF s \in last THEN NoName ELSE name[s]]
  /\ pages' = [s \in Slots |-> IF s \in last THEN FALSE ELSE pages[s]]
  /\ LET gone == Regions(p, S) IN
     /\ mapped' = [mapped EXCEPT ![p] = Restrict(@, DOMAIN @ \ gone)]
     /\ panic' = IF gone \subseteq DOMAIN mapped[p] THEN panic ELSE "uvmUnmap"

\* Mutant: the space is taken back whatever lies below it.
AlwaysTopmost(p, a) == TRUE

Lowest(p, a) == topFree[p] = a - 3

\* ringbuf(name, .close) by an owner that passes the right address.
close(p, n) ==
  \E s \in Named(n), o \in Sides :
  /\ panic = "none" /\ alive[p] = "live"
  /\ owners[s][o] = p
  /\ Disown(p, {s})
  /\ count' = [count EXCEPT ![p] = @ - 1]
  /\ topFree' = IF Lowest(p, vbuf[s][o])
                THEN [topFree EXCEPT ![p] = @ + RegionSize] ELSE topFree
  /\ UNCHANGED alive

-----------------------------------------------------------------------------
(* The process that owns ring buffers.                                      *)
exit(p) ==
  /\ panic = "none" /\ alive[p] = "live"
  /\ alive' = [alive EXCEPT ![p] = "zombie"]
  /\ UNCHANGED <<slotVars, count, topFree, mapped, panic>>

\* Process.free disowns what the process still owns, if it is said to own
\* anything; freePageTable must find no mapping left.
processFree(p) ==
  LET S == {s \in Slots : Owns(p, s)}
      unmapped == IF count[p] > 0 THEN Regions(p, S) ELSE {}
  IN
  /\ panic = "none" /\ alive[p] = "zombie"
  /\ IF DOMAIN mapped[p] \subseteq unmapped
     THEN /\ IF count[p] > 0 THEN Disown(p, S) ELSE UNCHANGED <<slotVars, mapped, panic>>
          /\ count' = [count EXCEPT ![p] = 0]
          /\ topFree' = [topFree EXCEPT ![p] = TopPage]
          /\ alive' = [alive EXCEPT ![p] = "unused"]
     ELSE /\ panic' = "freewalk_leaf"
          /\ UNCHANGED <<slotVars, procVars>>

\* fork gives the slot of the table to a new process, which owns nothing.
fork(p) ==
  /\ panic = "none" /\ alive[p] = "unused"
  /\ alive' = [alive EXCEPT ![p] = "live"]
  /\ UNCHANGED <<slotVars, count, topFree, mapped, panic>>

\* exec frees the old page table without asking for ring buffers.
exec(p) ==
  /\ panic = "none" /\ alive[p] = "live"
  /\ ExecOwners \/ count[p] = 0
  /\ mapped' = [mapped EXCEPT ![p] = NothingMapped]
  /\ panic' = IF mapped[p] = NothingMapped THEN "none" ELSE "freewalk_leaf"
  /\ UNCHANGED <<slotVars, alive, count, topFree>>

Next == \E p \in Procs :
  \/ \E n \in Names : open(p, n) \/ openFails(p, n) \/ activateFails(p, n) \/ close(p, n)
  \/ exit(p) \/ processFree(p) \/ fork(p) \/ exec(p)

Spec == Init /\ [][Next]_vars

-----------------------------------------------------------------------------
(* Properties.                                                              *)

Owned(p) == Cardinality({s \in Slots : Owns(p, s)})

\* A process whose opens have all succeeded sees no page that was freed, and
\* none of a ring buffer it does not own, whatever fails in the opens of the
\* other processes: pages go with the last owner, and mappings with the owner
\* (ringbuf.zig:110-122).
MappedIsOwned ==
  panic = "none" =>
    \A p \in Procs : count[p] = Owned(p) =>
      \A a \in DOMAIN mapped[p] :
        LET s == mapped[p][a][1] IN pages[s] /\ Owns(p, s)

\* refcount is the number of owners, and ownedRingbufsCount, which decides
\* whether Process.free looks for ring buffers at all (process.zig:219), is
\* never below the number of ring buffers the process owns.
CountsCover ==
  /\ \A s \in Slots : refcount[s] = Cardinality({o \in Sides : owners[s][o] # NoProc})
  /\ \A p \in Procs : count[p] >= Owned(p)

\* "map the ringbuf twice contiguously" (ringbuf.zig:151): the owner sees the
\* buffer's pages twice in a row, in the same order as the other owner, with
\* the book below and, below that, a page that is not mapped ("leave a guard
\* page", ringbuf.zig:225), wherever opens and closes have moved the region.
MirrorMapped ==
  \A s \in Slots, o \in Sides : panic = "none" /\ owners[s][o] # NoProc =>
    LET m == mapped[owners[s][o]]  v == vbuf[s][o] IN
    /\ Region(s, o) \subseteq DOMAIN m
    /\ m[v - 1] = <<s, BufPages>> /\ v - 2 \notin DOMAIN m
    /\ \A i \in 0 .. 2 * BufPages - 1 : m[v + i] = <<s, (BufPages - 1) - (i % BufPages)>>

\* The next open finds its pages unmapped: closing in any order, and opens
\* that fail half way, never leave topFreeVirtualPage at or above a page that
\* is still mapped (ringbuf.zig:205, 255-266).
NextRegionFree ==
  \A p \in Procs : \A a \in DOMAIN mapped[p] : a > topFree[p]

\* What the kernel decides by, the two counts and topFreeVirtualPage, covers
\* what is really owned and mapped.
BookkeepingCovers == CountsCover /\ NextRegionFree

\* The kernel never stops at "ringbuf has owners" (ringbuf.zig:93), "freewalk:
\* leaf" ("All leaf mappings must already have been removed.",
\* user_memory.zig:93) or in unmap.
NoPanic == panic = "none"
=============================================================================
