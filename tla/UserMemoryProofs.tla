-------------------------- MODULE UserMemoryProofs --------------------------
(***************************************************************************)
(* Proofs about what programs share and keep in their memory: the pages of  *)
(* the ring buffers that the kernel maps (module Ringbuf), for every number *)
(* of slots, processes and names, every size of a buffer and of the address *)
(* space, and whatever fails; the data path of the library over these pages *)
(* (module UserRingBuf), for every capacity and every stream; and the heap  *)
(* (module Umalloc), for every size and every sequence of requests.         *)
(*                                                                         *)
(* The kernel's argument is about one address space: its regions lie above *)
(* topFreeVirtualPage, each with an unmapped page below it, and the pages  *)
(* of a region say which slot they belong to, so no two regions overlap    *)
(* and closing one in any order leaves the others whole.                   *)
(*                                                                         *)
(* That of the heap is about two structures: the blocks that tile it       *)
(* (Fills) and the circle of those that are free (Circle). Each change is  *)
(* one of three of the tiling, a block more, a block split or two joined,  *)
(* and one of two of the circle, a block in or a block out.                *)
(***************************************************************************)
EXTENDS Ringbuf, UserRingBuf, Umalloc, FiniteSetTheorems, SequenceTheorems,
        WellFoundedInduction, TLAPS

\* A process owns at most one side of a slot.
OneSide == \A s \in Slots : owners[s][1] # NoProc => owners[s][1] # owners[s][2]

\* refcount counts the sides that have an owner.
Taken(s, o) == IF owners[s][o] = NoProc THEN 0 ELSE 1
RefcountExact == \A s \in Slots : refcount[s] = Taken(s, 1) + Taken(s, 2)

\* ownedRingbufsCount is never too small.
Covered == \A p \in Procs : count[p] >= Owned(p)

\* The pages of a slot are there while it has an owner.
PagesExact == \A s \in Slots : pages[s] <=> refcount[s] > 0

\* A region and its guard page lie above the next free page.
Placed ==
  \A p \in Procs, s \in Slots, o \in Sides :
    owners[s][o] = p => vbuf[s][o] >= topFree[p] + 3

\* What the owner of side o of slot s has in its page table.
Whole(p, s, o) ==
  /\ \A a \in Region(s, o) : a \in DOMAIN mapped[p] /\ mapped[p][a][1] = s
  /\ mapped[p][vbuf[s][o] - 1] = <<s, BufPages>>
  /\ vbuf[s][o] - 2 \notin DOMAIN mapped[p]
  /\ \A i \in 0 .. 2 * BufPages - 1 :
       mapped[p][vbuf[s][o] + i] = <<s, (BufPages - 1) - (i % BufPages)>>

Mirror == \A p \in Procs, s \in Slots, o \in Sides : owners[s][o] = p => Whole(p, s, o)

\* Nothing else is mapped unless an open has failed.
NoStray ==
  \A p \in Procs : count[p] = Owned(p) =>
    \A a \in DOMAIN mapped[p] :
      \E s \in Slots, o \in Sides : owners[s][o] = p /\ a \in Region(s, o)

\* What holds even when the kernel has stopped, and what holds until then.
Always == TypeOK /\ OneSide /\ RefcountExact /\ Covered /\ NextRegionFree
Running == PagesExact /\ Placed /\ Mirror /\ NoStray
IInv == Always /\ (panic = "none" => Running)

-----------------------------------------------------------------------------
(* Facts about constants, numbers and sets.                                 *)

LEMMA Constants ==
  /\ BufPages \in Nat /\ BufPages >= 1 /\ TopPage \in Nat
  /\ NoProc \notin Procs
  /\ IsFiniteSet(Slots) /\ Slots \subseteq Nat
<1>1. IsFiniteSet(1 .. MaxRingbufs)
  BY RingbufAssumption, FS_Interval
<1> QED
  BY <1>1, RingbufAssumption DEF Slots

\* The remainder of a number below twice the divisor.
LEMMA Remainder ==
  ASSUME NEW x \in Nat, x < 2 * BufPages
  PROVE  x % BufPages = IF x < BufPages THEN x ELSE x - BufPages
<1> DEFINE q == x \div BufPages
<1>1. BufPages \in Nat /\ BufPages >= 1
  BY Constants
<1>2. q \in Int /\ x = BufPages * q + (x % BufPages) /\ x % BufPages \in 0 .. BufPages - 1
  BY <1>1, SMT
<1> HIDE DEF q
<1>3. CASE q <= -1
  <2>1. BufPages * q <= -BufPages
    BY <1>1, <1>2, <1>3, SMT
  <2> QED
    BY <1>1, <1>2, <2>1, SMT
<1>4. CASE q = 0
  BY <1>1, <1>2, <1>4, SMT
<1>5. CASE q = 1
  BY <1>1, <1>2, <1>5, SMT
<1>6. CASE q >= 2
  <2>1. BufPages * q >= 2 * BufPages
    BY <1>1, <1>2, <1>6, SMT
  <2> QED
    BY <1>1, <1>2, <2>1, SMT
<1> QED
  BY <1>2, <1>3, <1>4, <1>5, <1>6, SMT

\* A slot more or less.
LEMMA OneMore ==
  ASSUME NEW S \in SUBSET Slots, NEW s \in Slots
  PROVE  /\ Cardinality(S) \in Nat
         /\ s \notin S => Cardinality(S \cup {s}) = Cardinality(S) + 1
         /\ s \in S => Cardinality(S \ {s}) = Cardinality(S) - 1
<1>1. IsFiniteSet(S)
  BY Constants, FS_Subset
<1> QED
  BY <1>1, FS_CardinalityType, FS_AddElement, FS_RemoveElement

\* The slots of which p has a side.
Having(p) == {s \in Slots : Owns(p, s)}

LEMMA OwnedIsNat ==
  ASSUME NEW p PROVE Owned(p) \in Nat /\ Owned(p) = Cardinality(Having(p))
<1>1. Having(p) \in SUBSET Slots /\ IsFiniteSet(Having(p))
  BY Constants, FS_Subset DEF Having
<1> QED
  BY <1>1, FS_CardinalityType DEF Having, Owned

\* The pages an open maps.
LEMMA Downwards ==
  ASSUME NEW t \in Int, NEW n \in Nat
  PROVE  {t - j : j \in 0 .. n - 1} = (t - n + 1) .. t
<1>1. ASSUME NEW a \in (t - n + 1) .. t PROVE a \in {t - j : j \in 0 .. n - 1}
  <2>1. t - a \in 0 .. n - 1 /\ a = t - (t - a)
    OBVIOUS
  <2> QED
    BY <2>1
<1> QED
  BY <1>1

Adds(f, g, s, t, low) ==
  /\ DOMAIN g = DOMAIN f \cup (low .. t)
  /\ \A a \in low .. t : g[a] = IF a = t - 2 * BufPages THEN <<s, BufPages>>
                               ELSE <<s, (t - a) % BufPages>>
  /\ \A a \in DOMAIN f : a \notin low .. t => g[a] = f[a]

LEMMA FramesAdded ==
  ASSUME NEW f, NEW s, NEW t \in Int, NEW n \in Nat, NEW low \in Int, low = t - n + 1
  PROVE  Adds(f, Extended(f, Frames(s, t, n)), s, t, low)
<1>1. DOMAIN Frames(s, t, n) = low .. t
  BY Downwards DEF Frames
<1>2. \A a \in low .. t :
        Frames(s, t, n)[a] = IF a = t - 2 * BufPages THEN <<s, BufPages>>
                             ELSE <<s, (t - a) % BufPages>>
  BY Downwards DEF Frames
<1> QED
  BY <1>1, <1>2 DEF Extended, Adds

\* The result is a function from its domain.
LEMMA ExtendedType ==
  ASSUME NEW f, NEW g, NEW h, NEW V, h = Extended(f, g), \A a \in DOMAIN h : h[a] \in V
  PROVE  h \in [DOMAIN h -> V]
BY DEF Extended

\* A page table of ring buffer pages.
Table(f) ==
  /\ DOMAIN f \subseteq 1 .. TopPage
  /\ \A a \in DOMAIN f : f[a] \in Slots \X (0 .. BufPages)

\* The pages from low to t are those of slot s.
Belong(f, s, low, t) == \A a \in low .. t : f[a][1] = s

LEMMA AddsType ==
  ASSUME NEW f, NEW g, NEW s \in Slots, NEW t \in Nat, NEW low \in Int,
         Adds(f, g, s, t, low), low >= 1, t <= TopPage, Table(f)
  PROVE  Table(g) /\ Belong(g, s, low, t)
<1>1. ASSUME NEW a \in low .. t
      PROVE  g[a] \in Slots \X (0 .. BufPages) /\ g[a][1] = s
  <2>1. (t - a) % BufPages \in 0 .. BufPages /\ BufPages \in 0 .. BufPages
    <3>1. t - a \in Nat
      OBVIOUS
    <3> QED
      BY <3>1, Constants
  <2>2. PICK k \in 0 .. BufPages : g[a] = <<s, k>>
    BY <2>1, Zenon DEF Adds
  <2>3. <<s, k>> \in Slots \X (0 .. BufPages) /\ <<s, k>>[1] = s
    OBVIOUS
  <2> QED
    BY ONLY <2>2, <2>3
<1>2. low .. t \subseteq 1 .. TopPage
  BY Constants
<1> QED
  BY <1>1, <1>2 DEF Adds, Table, Belong

\* What disowning the slots of S unmaps.
LEMMA RegionsMember ==
  ASSUME NEW p, NEW S, NEW a
  PROVE  a \in Regions(p, S) <=>
           \E r \in S, u \in Sides : owners[r][u] = p /\ a \in Region(r, u)
<1>1. ASSUME NEW r \in S, NEW u \in Sides, owners[r][u] = p, a \in Region(r, u)
      PROVE  a \in Regions(p, S)
  <2> DEFINE x == <<r, u>>
  <2>1. x \in {y \in S \X Sides : owners[y[1]][y[2]] = p} /\ x[1] = r /\ x[2] = u
    BY <1>1
  <2> QED
    BY <1>1, <2>1 DEF Regions
<1>2. ASSUME a \in Regions(p, S)
      PROVE  \E r \in S, u \in Sides : owners[r][u] = p /\ a \in Region(r, u)
  <2>1. PICK x \in {y \in S \X Sides : owners[y[1]][y[2]] = p} : a \in Region(x[1], x[2])
    BY <1>2 DEF Regions
  <2> QED
    BY <2>1
<1> QED
  BY <1>1, <1>2

-----------------------------------------------------------------------------
(* Facts about a state.                                                     *)

\* The slot and side an open gets are free, and its process has no side of it.
LEMMA CandidateFree ==
  ASSUME Always, NEW p \in Procs, NEW n \in Names, NEW s \in Candidates(p, n)
  PROVE  /\ s \in Slots /\ FreeSide(s) \in Sides
         /\ owners[s][FreeSide(s)] = NoProc
         /\ s \notin Having(p)
         /\ refcount[s] \in 0 .. 1
<1>1. CASE Named(n) = {}
  <2>1. s \in Slots /\ refcount[s] = 0
    BY <1>1 DEF Candidates, FirstFree, Free
  <2>2. owners[s][1] = NoProc /\ owners[s][2] = NoProc
    BY <2>1 DEF Always, RefcountExact, Taken
  <2> QED
    BY <2>1, <2>2, Constants DEF FreeSide, Having, Owns, Sides
<1>2. CASE Named(n) # {}
  <2>1. s \in Slots /\ refcount[s] > 0 /\ ~Owns(p, s)
        /\ (owners[s][1] = NoProc \/ owners[s][2] = NoProc)
    BY <1>2 DEF Candidates, Named, Sides
  <2>2. refcount[s] \in 0 .. 1
    BY <2>1 DEF Always, RefcountExact, Taken
  <2> QED
    BY <2>1, <2>2 DEF FreeSide, Having, Sides
<1> QED
  BY <1>1, <1>2

\* A page of a region, from its place in the region.
LEMMA RegionPages ==
  ASSUME Always, NEW s \in Slots, NEW o \in Sides
  PROVE  /\ vbuf[s][o] \in Nat
         /\ Region(s, o) = (vbuf[s][o] - 1) .. (vbuf[s][o] + 2 * BufPages - 1)
BY DEF Always, TypeOK, Region

\* Two regions of one process have no page in common.
LEMMA RegionsApart ==
  ASSUME Always, Mirror, NEW p \in Procs, NEW s \in Slots, NEW o \in Sides,
         NEW r \in Slots, NEW u \in Sides, owners[s][o] = p, owners[r][u] = p,
         NEW a \in Region(s, o), a \in Region(r, u)
  PROVE  s = r /\ o = u
<1>1. mapped[p][a][1] = s /\ mapped[p][a][1] = r
  BY DEF Mirror, Whole
<1>2. s = r
  BY <1>1
<1> QED
  BY <1>2, Constants DEF Always, OneSide, Sides

\* Nobody's region changes when neither its place nor its page table does.
LEMMA WholeFrame ==
  ASSUME NEW q \in Procs, NEW r \in Slots, NEW u \in Sides,
         vbuf'[r][u] = vbuf[r][u], mapped'[q] = mapped[q], Whole(q, r, u)
  PROVE  Whole(q, r, u)'
BY DEF Whole, Region

\* Nor when pages are added from the next free one downwards.
LEMMA WholeAbove ==
  ASSUME Always, Placed, NEW p \in Procs, NEW r \in Slots, NEW u \in Sides,
         NEW s, NEW low \in Int, owners[r][u] = p, Whole(p, r, u),
         vbuf'[r][u] = vbuf[r][u], Adds(mapped[p], mapped'[p], s, topFree[p], low)
  PROVE  Whole(p, r, u)'
<1> DEFINE new == low .. topFree[p]
<1>1. vbuf[r][u] \in Nat /\ topFree[p] \in Nat /\ vbuf[r][u] >= topFree[p] + 3
  BY Constants DEF Always, Placed, TypeOK
<1>2. \A a \in Region(r, u) : a \notin new
  BY <1>1, Constants DEF Region
<1>3. \A i \in 0 .. 2 * BufPages - 1 : vbuf[r][u] + i \in Region(r, u)
  BY <1>1, Constants DEF Region
<1>4. vbuf[r][u] - 1 \in Region(r, u) /\ vbuf[r][u] - 2 \notin new
  BY <1>1, Constants DEF Region
<1>5. Region(r, u)' = Region(r, u)
  BY DEF Region
<1>6. /\ DOMAIN mapped'[p] = DOMAIN mapped[p] \cup new
      /\ \A a \in DOMAIN mapped[p] : a \notin new => mapped'[p][a] = mapped[p][a]
  BY DEF Adds
<1> HIDE DEF new
<1> QED
  BY <1>2, <1>3, <1>4, <1>5, <1>6 DEF Whole

\* Steps that leave slots, counts and mappings alone.
LEMMA Frame ==
  ASSUME IInv, TypeOK', panic = "none",
         UNCHANGED <<refcount, owners, vbuf, pages, count, topFree>>,
         \A q \in Procs : mapped'[q] = mapped[q]
  PROVE  IInv'
<1>1. OneSide' /\ RefcountExact' /\ Covered'
  BY DEF IInv, Always, OneSide, RefcountExact, Taken, Covered, Owned, Owns
<1>2. NextRegionFree'
  BY DEF IInv, Always, NextRegionFree
<1>3. PagesExact' /\ Placed'
  BY DEF IInv, Running, PagesExact, Placed
<1>4. Mirror'
  BY WholeFrame DEF IInv, Running, Mirror
<1>5. NoStray'
  BY DEF IInv, Running, NoStray, Owned, Owns, Region
<1> QED
  BY <1>1, <1>2, <1>3, <1>4, <1>5 DEF IInv, Always, Running

-----------------------------------------------------------------------------
(* The invariant holds at first.                                            *)
LEMMA InitInv == Init => IInv
<1> SUFFICES ASSUME Init PROVE IInv
  OBVIOUS
<1>1. \A p \in Procs : ~\E s \in Slots : Owns(p, s)
  BY Constants DEF Init, Owns
<1>2. \A p \in Procs : Owned(p) = 0
  <2> TAKE p \in Procs
  <2>1. {s \in Slots : Owns(p, s)} = {}
    BY <1>1
  <2> QED
    BY <2>1, FS_EmptySet DEF Owned
<1>3. \A p \in Procs : DOMAIN mapped[p] = {}
  BY DEF Init, NothingMapped
<1>4. TypeOK
  BY <1>3, Constants DEF Init, TypeOK, NothingMapped
<1>5. OneSide /\ RefcountExact /\ PagesExact
  BY DEF Init, OneSide, RefcountExact, Taken, PagesExact, Sides
<1>6. Covered /\ NextRegionFree /\ NoStray
  BY <1>2, <1>3 DEF Init, Covered, NextRegionFree, NoStray
<1>7. Placed /\ Mirror
  BY <1>1 DEF Placed, Mirror, Owns
<1> QED
  BY <1>4, <1>5, <1>6, <1>7 DEF IInv, Always, Running

-----------------------------------------------------------------------------
(* Opening.                                                                 *)

\* An open maps the pages from t - 2 * BufPages to t and leaves the next below.
LEMMA OpenInv ==
  ASSUME IInv, NEW p \in Procs, NEW n \in Names, open(p, n)
  PROVE  IInv'
<1> PICK s, o, t :
      /\ s \in Candidates(p, n) /\ o = FreeSide(s) /\ t = topFree[p]
      /\ panic = "none" /\ alive[p] = "live" /\ t > RegionSize
      /\ owners' = [owners EXCEPT ![s][o] = p]
      /\ vbuf' = [vbuf EXCEPT ![s][o] = t - 2 * BufPages + 1]
      /\ refcount' = [refcount EXCEPT ![s] = @ + 1]
      /\ name' = [name EXCEPT ![s] = n]
      /\ pages' = [pages EXCEPT ![s] = TRUE]
      /\ count' = [count EXCEPT ![p] = @ + 1]
      /\ mapped' = [mapped EXCEPT ![p] = Extended(@, Frames(s, t, 2 * BufPages + 1))]
      /\ topFree' = [topFree EXCEPT ![p] = BelowGuard(@, 2 * BufPages + 1)]
      /\ UNCHANGED <<alive, panic>>
  BY DEF open
<1> DEFINE new == (t - 2 * BufPages) .. t
<1>1. /\ s \in Slots /\ o \in Sides /\ owners[s][o] = NoProc /\ s \notin Having(p)
      /\ refcount[s] \in 0 .. 1
  BY CandidateFree DEF IInv
<1>2. TypeOK /\ Running
  BY DEF IInv, Always
<1>3. t \in Nat /\ t > 2 * BufPages + 2 /\ t <= TopPage
  BY <1>2, Constants DEF TypeOK, RegionSize
<1>4. /\ \A r \in Slots, u \in Sides :
           owners'[r][u] = IF r = s /\ u = o THEN p ELSE owners[r][u]
      /\ \A r \in Slots, u \in Sides :
           vbuf'[r][u] = IF r = s /\ u = o THEN t - 2 * BufPages + 1 ELSE vbuf[r][u]
      /\ \A r \in Slots : refcount'[r] = IF r = s THEN refcount[r] + 1 ELSE refcount[r]
      /\ \A r \in Slots : pages'[r] <=> r = s \/ pages[r]
      /\ \A q \in Procs : count'[q] = IF q = p THEN count[q] + 1 ELSE count[q]
  BY <1>1, <1>2, SMTT(30) DEF TypeOK
<1>5. \A q \in Procs : topFree'[q] = IF q = p THEN t - 2 * BufPages - 2 ELSE topFree[q]
  BY <1>2, <1>3, Constants DEF TypeOK, BelowGuard
<1>6. /\ mapped'[p] = Extended(mapped[p], Frames(s, t, 2 * BufPages + 1))
      /\ \A q \in Procs : q # p => mapped'[q] = mapped[q]
      /\ DOMAIN mapped' = Procs
  BY <1>2 DEF TypeOK
<1>7. Adds(mapped[p], mapped'[p], s, t, t - 2 * BufPages)
  <2>1. PICK k \in Nat, low \in Int :
          k = 2 * BufPages + 1 /\ low = t - 2 * BufPages /\ low = t - k + 1
    BY <1>3, Constants
  <2>2. mapped'[p] = Extended(mapped[p], Frames(s, t, k)) /\ t \in Int
    BY <1>3, <1>6, <2>1
  <2>3. Adds(mapped[p], mapped'[p], s, t, low)
    BY <2>1, <2>2, FramesAdded
  <2> QED
    BY <2>1, <2>3
<1>8. /\ DOMAIN mapped'[p] = DOMAIN mapped[p] \cup new
      /\ \A a \in new : mapped'[p][a] = IF a = t - 2 * BufPages THEN <<s, BufPages>>
                                        ELSE <<s, (t - a) % BufPages>>
  BY <1>7 DEF Adds
<1>9. /\ DOMAIN mapped'[p] \subseteq 1 .. TopPage
      /\ \A a \in DOMAIN mapped'[p] : mapped'[p][a] \in Slots \X (0 .. BufPages)
      /\ \A a \in new : mapped'[p][a][1] = s
  <2>1. PICK low \in Int : low = t - 2 * BufPages /\ low >= 1
    BY <1>3, Constants
  <2>2. Table(mapped[p])
    BY <1>2 DEF TypeOK, Table
  <2>3. Adds(mapped[p], mapped'[p], s, t, low) /\ new = low .. t
    BY <1>7, <2>1
  <2>4. Table(mapped'[p]) /\ Belong(mapped'[p], s, low, t)
    BY <1>1, <1>3, <2>1, <2>2, <2>3, AddsType
  <2> QED
    BY <2>3, <2>4 DEF Table, Belong
<1>10. DOMAIN mapped[p] \subseteq 1 .. TopPage /\ \A a \in DOMAIN mapped[p] : a > t
  BY <1>2 DEF IInv, Always, NextRegionFree, TypeOK
<1>11. TypeOK'
  <2>1. refcount' \in [Slots -> 0 .. 2]
        /\ name' \in [Slots -> Names \cup {NoName}] /\ pages' \in [Slots -> BOOLEAN]
        /\ count' \in [Procs -> Nat] /\ alive' \in [Procs -> {"live", "zombie", "unused"}]
    BY <1>1, <1>2 DEF TypeOK
  <2>2. /\ vbuf' \in [Slots -> [Sides -> Nat]]
        /\ owners' \in [Slots -> [Sides -> Procs \cup {NoProc}]]
    <3>1. t - 2 * BufPages + 1 \in Nat
      BY <1>3, Constants
    <3> QED
      BY <1>1, <1>2, <3>1 DEF TypeOK
  <2>3. topFree' \in [Procs -> 0 .. TopPage]
    BY <1>2, <1>3, <1>5, Constants DEF TypeOK
  <2>4. mapped'[p] \in [DOMAIN mapped'[p] -> Slots \X (0 .. BufPages)]
    BY <1>6, <1>9, ExtendedType
  <2>5. \A q \in Procs : /\ DOMAIN mapped'[q] \subseteq 1 .. TopPage
                         /\ mapped'[q] \in [DOMAIN mapped'[q] -> Slots \X (0 .. BufPages)]
    BY <1>2, <1>6, <1>9, <2>4 DEF TypeOK
  <2> QED
    BY <1>2, <1>6, <2>1, <2>2, <2>3, <2>5 DEF TypeOK
<1>12. OneSide'
  BY <1>1, <1>4, Constants DEF IInv, Always, OneSide, Having, Owns, Sides
<1>13. RefcountExact'
  BY <1>1, <1>4, Constants DEF IInv, Always, RefcountExact, Taken, Sides
<1>14. Having(p)' = Having(p) \cup {s} /\ \A q \in Procs : q # p => Having(q)' = Having(q)
  BY <1>1, <1>4, Constants DEF Having, Owns
<1>15. \A q \in Procs : Owned(q)' = IF q = p THEN Owned(q) + 1 ELSE Owned(q)
  <2>1. \A q : Owned(q) = Cardinality(Having(q)) /\ Owned(q)' = Cardinality(Having(q)')
    BY DEF Owned, Having
  <2>2. Having(p) \in SUBSET Slots
    BY DEF Having
  <2> QED
    BY <1>1, <1>14, <2>1, <2>2, OneMore
<1>16. Covered'
  BY <1>2, <1>4, <1>15, OwnedIsNat DEF IInv, Always, Covered, TypeOK
<1>17. NextRegionFree'
  BY <1>3, <1>5, <1>6, <1>8, <1>10, Constants DEF IInv, Always, NextRegionFree
<1>18. PagesExact'
  BY <1>1, <1>2, <1>4 DEF Running, PagesExact, TypeOK
<1>19. Placed'
  BY <1>1, <1>2, <1>3, <1>4, <1>5, Constants DEF Running, Placed, TypeOK
<1>20. Mirror'
  <2> SUFFICES ASSUME NEW q \in Procs, NEW r \in Slots, NEW u \in Sides, owners'[r][u] = q
               PROVE  Whole(q, r, u)'
    BY DEF Mirror
  <2>1. CASE r = s /\ u = o
    <3>1. q = p /\ vbuf'[r][u] = t - 2 * BufPages + 1
      BY <1>4, <2>1
    <3>2. Region(r, u)' = new
      BY <1>3, <3>1, Constants DEF Region
    <3>3. \A i \in 0 .. 2 * BufPages - 1 :
            mapped'[p][vbuf'[r][u] + i] = <<r, (BufPages - 1) - (i % BufPages)>>
      <4> TAKE i \in 0 .. 2 * BufPages - 1
      <4>1. vbuf'[r][u] + i \in new /\ vbuf'[r][u] + i # t - 2 * BufPages
            /\ t - (vbuf'[r][u] + i) = 2 * BufPages - 1 - i
        BY <1>3, <3>1, Constants
      <4>2. (2 * BufPages - 1 - i) % BufPages = (BufPages - 1) - (i % BufPages)
        <5>1. 2 * BufPages - 1 - i \in Nat /\ 2 * BufPages - 1 - i < 2 * BufPages
              /\ i \in Nat /\ i < 2 * BufPages
          BY Constants
        <5>2. i % BufPages = IF i < BufPages THEN i ELSE i - BufPages
          BY <5>1, Remainder
        <5>3. (2 * BufPages - 1 - i) % BufPages =
                IF 2 * BufPages - 1 - i < BufPages THEN 2 * BufPages - 1 - i
                ELSE 2 * BufPages - 1 - i - BufPages
          BY <5>1, Remainder
        <5> QED
          BY <5>1, <5>2, <5>3, Constants
      <4> QED
        BY <1>8, <2>1, <4>1, <4>2
    <3>4. mapped'[p][vbuf'[r][u] - 1] = <<r, BufPages>>
      <4>1. vbuf'[r][u] - 1 = t - 2 * BufPages /\ t - 2 * BufPages \in new
        BY <1>3, <3>1, Constants
      <4> QED
        BY <1>8, <2>1, <4>1
    <3>5. vbuf'[r][u] - 2 \notin DOMAIN mapped'[p]
      BY <1>3, <1>8, <1>10, <3>1, Constants
    <3> QED
      BY <1>8, <1>9, <2>1, <3>1, <3>2, <3>3, <3>4, <3>5 DEF Whole
  <2>2. CASE ~(r = s /\ u = o)
    <3>1. owners[r][u] = q /\ vbuf'[r][u] = vbuf[r][u] /\ Whole(q, r, u)
      BY <1>2, <1>4, <2>2 DEF Running, Mirror
    <3>2. CASE q # p
      BY <1>6, <3>1, <3>2, WholeFrame
    <3>3. CASE q = p
      <4>1. t - 2 * BufPages \in Int /\ topFree[p] = t
        BY <1>3, Constants
      <4> PICK low : low = t - 2 * BufPages
        OBVIOUS
      <4>2. low \in Int /\ Adds(mapped[p], mapped'[p], s, topFree[p], low)
        BY <1>7, <4>1
      <4>3. Always /\ Placed /\ owners[r][u] = p /\ Whole(p, r, u) /\ vbuf'[r][u] = vbuf[r][u]
        BY <1>2, <3>1, <3>3 DEF IInv, Running
      <4>4. Whole(p, r, u)'
        BY <4>2, <4>3, WholeAbove
      <4> QED
        BY <3>3, <4>4
    <3> QED
      BY <3>2, <3>3
  <2> QED
    BY <2>1, <2>2
<1>21. NoStray'
  <2> SUFFICES ASSUME NEW q \in Procs, count'[q] = Owned(q)', NEW a \in DOMAIN mapped'[q]
               PROVE  \E r \in Slots, u \in Sides : owners'[r][u] = q /\ a \in Region(r, u)'
    BY DEF NoStray
  <2>1. count[q] = Owned(q)
    BY <1>2, <1>4, <1>15, OwnedIsNat DEF TypeOK
  <2>2. CASE a \in DOMAIN mapped[q]
    <3>1. PICK r \in Slots, u \in Sides : owners[r][u] = q /\ a \in Region(r, u)
      BY <1>2, <2>1, <2>2 DEF Running, NoStray
    <3>2. ~(r = s /\ u = o)
      BY <1>1, <3>1, Constants
    <3> QED
      BY <1>4, <3>1, <3>2 DEF Region
  <2>3. CASE a \notin DOMAIN mapped[q]
    <3>1. q = p /\ a \in new
      BY <1>6, <1>8, <2>3
    <3>2. owners'[s][o] = p /\ vbuf'[s][o] = t - 2 * BufPages + 1
      BY <1>1, <1>4
    <3>3. a \in Region(s, o)'
      BY <1>3, <3>1, <3>2, Constants DEF Region
    <3> QED
      BY <1>1, <3>1, <3>2, <3>3
  <2> QED
    BY <2>2, <2>3
<1> QED
  BY <1>11, <1>12, <1>13, <1>16, <1>17, <1>18, <1>19, <1>20, <1>21 DEF IInv, Always, Running

\* A failed open leaves its mappings and its count behind.  The kernel goes on
\* only if the slot had no other owner.
LEMMA OpenFailsInv ==
  ASSUME IInv, NEW p \in Procs, NEW n \in Names, openFails(p, n)
  PROVE  IInv'
<1> PICK s, k, t :
      /\ s \in Candidates(p, n) /\ k \in 0 .. 2 * BufPages + 1 /\ t = topFree[p]
      /\ panic = "none" /\ t > RegionSize
      /\ Deactivated(s, owners[s])
      /\ count' = [count EXCEPT ![p] = @ + 1]
      /\ mapped' = [mapped EXCEPT ![p] = Extended(@, Frames(s, t, k))]
      /\ topFree' = [topFree EXCEPT ![p] = @ - k]
      /\ UNCHANGED <<owners, alive>>
  BY DEF openFails
<1> DEFINE empty == \A o \in Sides : owners[s][o] = NoProc
<1>1. s \in Slots
  BY CandidateFree DEF IInv
<1>2. TypeOK /\ Running /\ Always
  BY DEF IInv, Always
<1>3. t \in Nat /\ k \in Nat /\ t - k >= 1 /\ t <= TopPage
  BY <1>2, Constants DEF TypeOK, RegionSize
<1>4. /\ \A r \in Slots : refcount'[r] = IF r = s /\ empty THEN 0 ELSE refcount[r]
      /\ \A r \in Slots, u \in Sides :
           vbuf'[r][u] = IF r = s /\ empty THEN 0 ELSE vbuf[r][u]
      /\ \A r \in Slots : pages'[r] <=> r # s /\ pages[r]
      /\ panic' = IF empty THEN "none" ELSE "ringbuf_has_owners"
  BY <1>1, <1>2 DEF TypeOK, Deactivated
<1>5. /\ refcount' \in [Slots -> 0 .. 2] /\ vbuf' \in [Slots -> [Sides -> Nat]]
      /\ name' \in [Slots -> Names \cup {NoName}] /\ pages' \in [Slots -> BOOLEAN]
  <2>1. [o \in Sides |-> 0] \in [Sides -> Nat]
    OBVIOUS
  <2>2. pages' \in [Slots -> BOOLEAN]
    BY <1>2 DEF TypeOK, Deactivated
  <2>3. CASE empty
    <3>1. /\ refcount' = [refcount EXCEPT ![s] = 0]
          /\ vbuf' = [vbuf EXCEPT ![s] = [o \in Sides |-> 0]]
          /\ name' = [name EXCEPT ![s] = NoName]
      BY <2>3 DEF Deactivated
    <3>2. refcount' \in [Slots -> 0 .. 2]
      <4>1. refcount \in [Slots -> 0 .. 2] /\ 0 \in 0 .. 2
        BY <1>2 DEF TypeOK
      <4> QED
        BY ONLY <3>1, <4>1
    <3>3. name' \in [Slots -> Names \cup {NoName}]
      BY <1>2, <3>1 DEF TypeOK
    <3>4. PICK none \in [Sides -> Nat] : vbuf' = [vbuf EXCEPT ![s] = none]
      BY <2>1, <3>1
    <3>5. vbuf' \in [Slots -> [Sides -> Nat]]
      BY <1>2, <3>4 DEF TypeOK
    <3> QED
      BY <2>2, <3>2, <3>3, <3>5
  <2>4. CASE ~empty
    BY <1>2, <2>2, <2>4 DEF TypeOK, Deactivated
  <2> QED
    BY <2>3, <2>4
<1>6. /\ \A q \in Procs : count'[q] = IF q = p THEN count[q] + 1 ELSE count[q]
      /\ \A q \in Procs : topFree'[q] = IF q = p THEN t - k ELSE topFree[q]
      /\ count' \in [Procs -> Nat] /\ topFree' \in [Procs -> 0 .. TopPage]
  BY <1>2, <1>3, Constants DEF TypeOK
<1>7. /\ mapped'[p] = Extended(mapped[p], Frames(s, t, k))
      /\ \A q \in Procs : q # p => mapped'[q] = mapped[q]
      /\ DOMAIN mapped' = Procs
  BY <1>2 DEF TypeOK
<1>8. PICK low \in Int : low = t - k + 1 /\ low >= 1
  BY <1>3
<1>9. Adds(mapped[p], mapped'[p], s, t, low)
  BY <1>3, <1>7, <1>8, FramesAdded
<1>10. Table(mapped[p])
  BY <1>2 DEF TypeOK, Table
<1>11. Table(mapped'[p])
  BY <1>1, <1>3, <1>8, <1>9, <1>10, AddsType
<1>12. TypeOK'
  <2>1. mapped'[p] \in [DOMAIN mapped'[p] -> Slots \X (0 .. BufPages)]
    BY <1>7, <1>11, ExtendedType DEF Table
  <2>2. \A q \in Procs : /\ DOMAIN mapped'[q] \subseteq 1 .. TopPage
                         /\ mapped'[q] \in [DOMAIN mapped'[q] -> Slots \X (0 .. BufPages)]
    BY <1>2, <1>7, <1>11, <2>1 DEF TypeOK, Table
  <2> QED
    BY <1>2, <1>4, <1>5, <1>6, <1>7, <2>2 DEF TypeOK
<1>13. OneSide' /\ RefcountExact'
  BY <1>2, <1>4 DEF Always, OneSide, RefcountExact, Taken, Sides
<1>14. \A q \in Procs : Owned(q)' = Owned(q)
  BY DEF Owned, Owns
<1>15. Covered'
  BY <1>2, <1>6, <1>14, OwnedIsNat DEF Always, Covered, TypeOK
<1>16. NextRegionFree'
  <2>1. \A a \in DOMAIN mapped[p] : a \in Int /\ a > t
    BY <1>2 DEF Always, NextRegionFree, TypeOK
  <2>2. \A a \in DOMAIN mapped'[p] : a > t - k
    BY <1>3, <1>8, <1>9, <2>1 DEF Adds
  <2> QED
    BY <1>2, <1>6, <1>7, <2>2 DEF Always, NextRegionFree
<1>17. ASSUME empty PROVE Running'
  <2>1. PagesExact'
    BY <1>2, <1>4, <1>17 DEF Running, PagesExact, TypeOK
  <2>2. \A r \in Slots, u \in Sides, q \in Procs :
          owners[r][u] = q => r # s /\ vbuf'[r][u] = vbuf[r][u]
    BY <1>4, <1>17, Constants
  <2>3. Placed'
    <3> SUFFICES ASSUME NEW q \in Procs, NEW r \in Slots, NEW u \in Sides, owners'[r][u] = q
                 PROVE  vbuf'[r][u] >= topFree'[q] + 3
      BY DEF Placed
    <3>1. vbuf[r][u] \in Nat /\ topFree[q] \in Nat /\ topFree'[q] \in Nat
          /\ topFree'[q] <= topFree[q]
      BY <1>2, <1>3, <1>6, Constants DEF TypeOK
    <3>2. owners[r][u] = q /\ vbuf'[r][u] = vbuf[r][u] /\ vbuf[r][u] >= topFree[q] + 3
      BY <1>2, <2>2 DEF Running, Placed
    <3> QED
      BY <3>1, <3>2
  <2>4. Mirror'
    <3> SUFFICES ASSUME NEW q \in Procs, NEW r \in Slots, NEW u \in Sides, owners'[r][u] = q
                 PROVE  Whole(q, r, u)'
      BY DEF Mirror
    <3>1. owners[r][u] = q /\ vbuf'[r][u] = vbuf[r][u] /\ Whole(q, r, u)
      BY <1>2, <2>2 DEF Running, Mirror
    <3>2. CASE q # p
      BY <1>7, <3>1, <3>2, WholeFrame
    <3>3. CASE q = p
      BY <1>2, <1>9, <3>1, <3>3, WholeAbove DEF Running
    <3> QED
      BY <3>2, <3>3
  <2>5. NoStray'
    <3> SUFFICES ASSUME NEW q \in Procs, count'[q] = Owned(q)', NEW a \in DOMAIN mapped'[q]
                 PROVE  \E r \in Slots, u \in Sides : owners'[r][u] = q /\ a \in Region(r, u)'
      BY DEF NoStray
    <3>1. q # p /\ count[q] = Owned(q)
      BY <1>2, <1>6, <1>14, OwnedIsNat DEF TypeOK, Always, Covered
    <3>2. PICK r \in Slots, u \in Sides : owners[r][u] = q /\ a \in Region(r, u)
      BY <1>2, <1>7, <3>1 DEF Running, NoStray
    <3> QED
      BY <2>2, <3>2 DEF Region
  <2> QED
    BY <2>1, <2>3, <2>4, <2>5 DEF Running
<1> QED
  BY <1>4, <1>12, <1>13, <1>15, <1>16, <1>17 DEF IInv, Always

\* Running out of pages changes nothing but a name.
LEMMA ActivateFailsInv ==
  ASSUME IInv, NEW p \in Procs, NEW n \in Names, activateFails(p, n)
  PROVE  IInv'
<1>1. /\ panic = "none" /\ UNCHANGED <<refcount, owners, vbuf, pages, procVars, panic>>
      /\ \E s \in Slots : name' = [name EXCEPT ![s] = n]
  BY DEF activateFails, FirstFree, Free
<1>2. TypeOK'
  BY <1>1 DEF IInv, Always, TypeOK, procVars
<1> QED
  BY <1>1, <1>2, Frame DEF procVars

-----------------------------------------------------------------------------
(* Closing.                                                                 *)

\* The page table without the pages of some regions.
LEMMA DisownEffects ==
  ASSUME IInv, panic = "none", NEW p \in Procs, NEW S \in SUBSET Slots,
         \A s \in S : Owns(p, s), Disown(p, S)
  PROVE  /\ \A r \in Slots, u \in Sides :
              owners'[r][u] = IF r \in S /\ owners[r][u] = p THEN NoProc ELSE owners[r][u]
         /\ \A r \in Slots, u \in Sides :
              vbuf'[r][u] = IF r \in S /\ owners[r][u] = p THEN 0 ELSE vbuf[r][u]
         /\ \A r \in Slots : refcount'[r] = IF r \in S THEN refcount[r] - 1 ELSE refcount[r]
         /\ \A r \in Slots : pages'[r] <=> pages[r] /\ ~(r \in S /\ refcount[r] = 1)
         /\ \A q \in Procs : q # p => mapped'[q] = mapped[q]
         /\ DOMAIN mapped' = Procs
         /\ DOMAIN mapped'[p] = DOMAIN mapped[p] \ Regions(p, S)
         /\ \A a \in DOMAIN mapped'[p] : mapped'[p][a] = mapped[p][a]
         /\ panic' = "none"
<1>1. TypeOK /\ Mirror
  BY DEF IInv, Always, Running
<1>2. /\ \A r \in Slots, u \in Sides :
           owners'[r][u] = IF r \in S /\ owners[r][u] = p THEN NoProc ELSE owners[r][u]
      /\ \A r \in Slots, u \in Sides :
           vbuf'[r][u] = IF r \in S /\ owners[r][u] = p THEN 0 ELSE vbuf[r][u]
  BY <1>1 DEF Disown, TypeOK
<1>3. /\ \A r \in Slots : refcount'[r] = IF r \in S THEN refcount[r] - 1 ELSE refcount[r]
      /\ \A r \in Slots : pages'[r] <=> pages[r] /\ ~(r \in S /\ refcount[r] = 1)
  BY <1>1 DEF Disown, LastOwner, TypeOK
<1>4. mapped' = [mapped EXCEPT ![p] = Restrict(@, DOMAIN @ \ Regions(p, S))]
  BY DEF Disown
<1>5. Regions(p, S) \subseteq DOMAIN mapped[p]
  BY <1>1, RegionsMember DEF Mirror, Whole
<1>6. panic' = "none"
  BY <1>5 DEF Disown
<1> QED
  BY <1>1, <1>2, <1>3, <1>4, <1>6 DEF TypeOK, Restrict

\* What disowning slots does to the tables, whatever becomes of the count and
\* of the next free page.
LEMMA DisownTables ==
  ASSUME IInv, panic = "none", NEW p \in Procs, NEW S \in SUBSET Slots,
         \A s \in S : Owns(p, s), Disown(p, S)
  PROVE  /\ refcount' \in [Slots -> 0 .. 2]
         /\ owners' \in [Slots -> [Sides -> Procs \cup {NoProc}]]
         /\ vbuf' \in [Slots -> [Sides -> Nat]]
         /\ name' \in [Slots -> Names \cup {NoName}] /\ pages' \in [Slots -> BOOLEAN]
         /\ DOMAIN mapped' = Procs
         /\ \A q \in Procs : /\ DOMAIN mapped'[q] \subseteq 1 .. TopPage
                             /\ mapped'[q] \in [DOMAIN mapped'[q] -> Slots \X (0 .. BufPages)]
         /\ OneSide' /\ RefcountExact' /\ PagesExact' /\ Mirror'
<1>1. TypeOK /\ OneSide /\ RefcountExact /\ PagesExact /\ Mirror /\ Always
  BY DEF IInv, Always, Running
<1>2. /\ \A r \in Slots, u \in Sides :
           owners'[r][u] = IF r \in S /\ owners[r][u] = p THEN NoProc ELSE owners[r][u]
      /\ \A r \in Slots, u \in Sides :
           vbuf'[r][u] = IF r \in S /\ owners[r][u] = p THEN 0 ELSE vbuf[r][u]
      /\ \A r \in Slots : refcount'[r] = IF r \in S THEN refcount[r] - 1 ELSE refcount[r]
      /\ \A r \in Slots : pages'[r] <=> pages[r] /\ ~(r \in S /\ refcount[r] = 1)
      /\ \A q \in Procs : q # p => mapped'[q] = mapped[q]
      /\ DOMAIN mapped' = Procs
      /\ DOMAIN mapped'[p] = DOMAIN mapped[p] \ Regions(p, S)
      /\ \A a \in DOMAIN mapped'[p] : mapped'[p][a] = mapped[p][a]
  BY DisownEffects
<1>3. \A s \in S : /\ s \in Slots
                   /\ (owners[s][1] = p /\ owners[s][2] # p) \/ (owners[s][1] # p /\ owners[s][2] = p)
  BY <1>1, Constants DEF Owns, Sides, OneSide
<1>4. RefcountExact'
  BY <1>1, <1>2, <1>3, Constants DEF RefcountExact, Taken, Sides
<1>5. OneSide'
  BY <1>1, <1>2 DEF OneSide, Sides
<1>6. \A r \in Slots : refcount'[r] \in 0 .. 2
  BY <1>4 DEF RefcountExact, Taken
<1>7. PagesExact'
  <2>1. \A r \in Slots : refcount[r] \in 0 .. 2 /\ (pages[r] <=> refcount[r] > 0)
    BY <1>1 DEF PagesExact, TypeOK
  <2>2. ASSUME NEW r \in S PROVE refcount[r] >= 1
    <3>1. r \in Slots /\ (owners[r][1] # NoProc \/ owners[r][2] # NoProc)
      BY <1>1, <1>3, Constants
    <3> QED
      BY <1>1, <3>1 DEF RefcountExact, Taken
  <2> QED
    BY <1>2, <2>1, <2>2 DEF PagesExact
<1>8. refcount' \in [Slots -> 0 .. 2]
  BY <1>6 DEF Disown
<1>9. owners' \in [Slots -> [Sides -> Procs \cup {NoProc}]]
  BY <1>1 DEF Disown, TypeOK
<1>10. vbuf' \in [Slots -> [Sides -> Nat]]
  BY <1>1 DEF Disown, TypeOK
<1>11. name' \in [Slots -> Names \cup {NoName}] /\ pages' \in [Slots -> BOOLEAN]
  BY <1>1 DEF Disown, TypeOK
<1>12. mapped'[p] \in [DOMAIN mapped'[p] -> Slots \X (0 .. BufPages)]
  BY <1>1, <1>2 DEF Disown, Restrict, TypeOK
<1>13. \A q \in Procs : /\ DOMAIN mapped'[q] \subseteq 1 .. TopPage
                        /\ mapped'[q] \in [DOMAIN mapped'[q] -> Slots \X (0 .. BufPages)]
  BY <1>1, <1>2, <1>12 DEF TypeOK
<1>14. Mirror'
  <2> SUFFICES ASSUME NEW q \in Procs, NEW r \in Slots, NEW u \in Sides, owners'[r][u] = q
               PROVE  Whole(q, r, u)'
    BY DEF Mirror
  <2>1. owners[r][u] = q /\ vbuf'[r][u] = vbuf[r][u] /\ ~(q = p /\ r \in S)
    BY <1>2, Constants
  <2>2. Whole(q, r, u)
    BY <1>1, <2>1 DEF Mirror
  <2>3. CASE q # p
    BY <1>2, <2>1, <2>2, <2>3, WholeFrame
  <2>4. CASE q = p
    <3>1. r \notin S
      BY <2>1, <2>4
    <3>2. \A a \in Region(r, u) : a \notin Regions(p, S)
      <4> SUFFICES ASSUME NEW a \in Region(r, u), a \in Regions(p, S) PROVE FALSE
        OBVIOUS
      <4>1. PICK w \in S, x \in Sides : owners[w][x] = p /\ a \in Region(w, x)
        BY RegionsMember
      <4>2. w = r
        BY <1>1, <2>1, <2>4, <4>1, RegionsApart
      <4> QED
        BY <3>1, <4>2
    <3>3. vbuf[r][u] \in Nat /\ Region(r, u) = (vbuf[r][u] - 1) .. (vbuf[r][u] + 2 * BufPages - 1)
      BY <1>1, RegionPages
    <3>4. vbuf[r][u] - 1 \in Region(r, u)
          /\ \A i \in 0 .. 2 * BufPages - 1 : vbuf[r][u] + i \in Region(r, u)
      BY <3>3, Constants
    <3>5. Region(r, u)' = Region(r, u)
      BY <2>1 DEF Region
    <3> QED
      BY <1>2, <2>1, <2>2, <2>4, <3>2, <3>4, <3>5 DEF Whole
  <2> QED
    BY <2>3, <2>4
<1> QED
  BY <1>2, <1>4, <1>5, <1>7, <1>8, <1>9, <1>10, <1>11, <1>13, <1>14

\* Closing the lowest region moves topFreeVirtualPage up to below the next one;
\* closing another leaves a hole.
LEMMA CloseInv ==
  ASSUME IInv, NEW p \in Procs, NEW n \in Names, close(p, n)
  PROVE  IInv'
<1> PICK s \in Named(n), o \in Sides :
      /\ panic = "none" /\ owners[s][o] = p
      /\ Disown(p, {s})
      /\ count' = [count EXCEPT ![p] = @ - 1]
      /\ topFree' = IF Lowest(p, vbuf[s][o])
                    THEN [topFree EXCEPT ![p] = @ + RegionSize] ELSE topFree
      /\ UNCHANGED alive
  BY DEF close
<1>1. s \in Slots /\ Owns(p, s)
  BY DEF Named, Owns
<1>2. TypeOK /\ Running /\ Always /\ Mirror
  BY DEF IInv, Always, Running
<1>3. /\ \A r \in Slots, u \in Sides :
           owners'[r][u] = IF r = s /\ owners[r][u] = p THEN NoProc ELSE owners[r][u]
      /\ \A r \in Slots, u \in Sides :
           vbuf'[r][u] = IF r = s /\ owners[r][u] = p THEN 0 ELSE vbuf[r][u]
      /\ \A q \in Procs : q # p => mapped'[q] = mapped[q]
      /\ DOMAIN mapped'[p] = DOMAIN mapped[p] \ Regions(p, {s})
      /\ panic' = "none"
  <2>1. {s} \in SUBSET Slots /\ \A r \in {s} : Owns(p, r)
    BY <1>1
  <2>2. \A r : r \in {s} <=> r = s
    OBVIOUS
  <2> QED
    BY <2>1, <2>2, DisownEffects
<1>4. /\ refcount' \in [Slots -> 0 .. 2]
      /\ owners' \in [Slots -> [Sides -> Procs \cup {NoProc}]]
      /\ vbuf' \in [Slots -> [Sides -> Nat]]
      /\ name' \in [Slots -> Names \cup {NoName}] /\ pages' \in [Slots -> BOOLEAN]
      /\ DOMAIN mapped' = Procs
      /\ \A q \in Procs : /\ DOMAIN mapped'[q] \subseteq 1 .. TopPage
                          /\ mapped'[q] \in [DOMAIN mapped'[q] -> Slots \X (0 .. BufPages)]
      /\ OneSide' /\ RefcountExact' /\ PagesExact' /\ Mirror'
  <2>1. {s} \in SUBSET Slots /\ \A r \in {s} : Owns(p, r)
    BY <1>1
  <2> QED
    BY <2>1, DisownTables
<1>5. Whole(p, s, o)
  BY <1>1, <1>2 DEF Mirror
<1>6. \A u \in Sides : owners[s][u] = p => u = o
  BY <1>1, <1>2, Constants DEF Always, OneSide, Sides
<1>7. \A a : a \in Regions(p, {s}) <=> a \in Region(s, o)
  <2>1. \A a : a \in Regions(p, {s}) <=>
               \E r \in {s}, u \in Sides : owners[r][u] = p /\ a \in Region(r, u)
    BY RegionsMember
  <2> QED
    BY <1>6, <2>1
<1> PICK v \in Nat, t \in Nat : v = vbuf[s][o] /\ t = topFree[p]
  BY <1>1, <1>2, Constants DEF TypeOK
<1>8. Region(s, o) = (v - 1) .. (v + 2 * BufPages - 1)
  BY DEF Region
<1>9. /\ (v - 1) .. (v + 2 * BufPages - 1) \subseteq DOMAIN mapped[p]
      /\ v - 2 \notin DOMAIN mapped[p]
      /\ DOMAIN mapped[p] \subseteq 1 .. TopPage
      /\ \A a \in DOMAIN mapped[p] : a > t
      /\ v >= t + 3
  BY <1>1, <1>2, <1>5, <1>8 DEF Whole, TypeOK, Always, NextRegionFree, Running, Placed
<1>10. v + 2 * BufPages - 1 \in DOMAIN mapped[p] /\ v + 2 * BufPages - 1 \in 1 .. TopPage
  BY <1>9, Constants
<1>11. \A q \in Procs : topFree'[q] = IF q = p /\ t = v - 3 THEN v + 2 * BufPages - 1 ELSE topFree[q]
  BY <1>2, Constants DEF TypeOK, Lowest, RegionSize
<1>12. topFree' \in [Procs -> 0 .. TopPage]
  <2>1. CASE Lowest(p, v)
    <3>1. t + RegionSize \in 0 .. TopPage
      BY <1>10, <2>1, Constants DEF Lowest, RegionSize
    <3> QED
      BY <1>2, <2>1, <3>1 DEF TypeOK
  <2>2. CASE ~Lowest(p, v)
    BY <1>2, <2>2 DEF TypeOK
  <2> QED
    BY <2>1, <2>2
<1>13. Having(p)' = Having(p) \ {s} /\ \A q \in Procs : q # p => Having(q)' = Having(q)
  <2>1. \A r \in Slots : r \in Having(p)' <=> r \in Having(p) /\ r # s
    BY <1>1, <1>3, Constants DEF Having, Owns
  <2>2. \A q \in Procs, r \in Slots : q # p => (r \in Having(q)' <=> r \in Having(q))
    BY <1>1, <1>3, Constants DEF Having, Owns
  <2>3. \A q : (\A r \in Having(q) : r \in Slots) /\ (\A r \in Having(q)' : r \in Slots)
    BY DEF Having
  <2> QED
    BY <2>1, <2>2, <2>3, ZenonT(30)
<1>14. \A q \in Procs : Owned(q)' = IF q = p THEN Owned(q) - 1 ELSE Owned(q)
  <2>1. \A q : Owned(q) = Cardinality(Having(q)) /\ Owned(q)' = Cardinality(Having(q)')
    BY DEF Owned, Having
  <2>2. Having(p) \in SUBSET Slots /\ s \in Having(p)
    BY <1>1 DEF Having
  <2> QED
    BY <1>1, <1>13, <2>1, <2>2, OneMore
<1>15. Owned(p) >= 1
  <2>1. Having(p) \in SUBSET Slots /\ s \in Having(p) /\ Having(p) \ {s} \in SUBSET Slots
    BY <1>1 DEF Having
  <2>2. Cardinality(Having(p) \ {s}) = Cardinality(Having(p)) - 1
        /\ Cardinality(Having(p) \ {s}) \in Nat
    BY <1>1, <2>1, OneMore
  <2> QED
    BY <2>2, OwnedIsNat
<1>16. /\ \A q \in Procs : count'[q] = IF q = p THEN count[q] - 1 ELSE count[q]
       /\ count[p] >= 1
  BY <1>2, <1>15, OwnedIsNat DEF TypeOK, Always, Covered
<1>17. TypeOK'
  <2>1. count' \in [Procs -> Nat]
    <3>1. count \in [Procs -> Nat] /\ count[p] - 1 \in Nat
      BY <1>2, <1>16 DEF TypeOK
    <3> QED
      BY <3>1
  <2> QED
    BY <1>2, <1>3, <1>4, <1>12, <2>1 DEF TypeOK
<1>18. Covered'
  BY <1>2, <1>14, <1>16, OwnedIsNat DEF TypeOK, Always, Covered
<1>19. NextRegionFree'
  <2>1. \A a \in DOMAIN mapped'[p] :
          a \in DOMAIN mapped[p] /\ a \notin (v - 1) .. (v + 2 * BufPages - 1)
    BY <1>3, <1>7, <1>8
  <2>2. \A a \in DOMAIN mapped'[p] : a > topFree'[p]
    <3> TAKE a \in DOMAIN mapped'[p]
    <3>1. a \in Int /\ a > t /\ a # v - 2 /\ a \notin (v - 1) .. (v + 2 * BufPages - 1)
      BY <1>9, <2>1
    <3> QED
      BY <1>11, <3>1, Constants
  <2> QED
    BY <1>2, <1>3, <1>11, <2>2 DEF Always, NextRegionFree
<1>20. Placed'
  <2> SUFFICES ASSUME NEW q \in Procs, NEW r \in Slots, NEW u \in Sides, owners'[r][u] = q
               PROVE  vbuf'[r][u] >= topFree'[q] + 3
    BY DEF Placed
  <2>1. owners[r][u] = q /\ vbuf'[r][u] = vbuf[r][u] /\ ~(q = p /\ r = s)
    BY <1>3, Constants
  <2>2. vbuf[r][u] \in Nat /\ vbuf[r][u] >= topFree[q] + 3
    BY <1>2, <2>1 DEF Running, Placed, TypeOK
  <2>3. CASE q = p /\ t = v - 3
    <3> PICK w \in Nat : w = vbuf[r][u]
      BY <2>2
    <3>1. Whole(p, r, u) /\ Region(r, u) = (w - 1) .. (w + 2 * BufPages - 1)
      BY <1>2, <2>1, <2>3 DEF Mirror, Region
    <3>2. w - 1 \notin (v - 1) .. (v + 2 * BufPages - 1)
      <4>1. w - 1 \in Region(r, u)
        <5>1. w - 1 \in (w - 1) .. (w + 2 * BufPages - 1)
          BY Constants
        <5> QED
          BY <3>1, <5>1
      <4>2. w - 1 \notin Region(s, o)
        BY <1>1, <1>2, <2>1, <2>3, <4>1, RegionsApart
      <4> QED
        BY <1>8, <4>2
    <3>3. w - 2 \notin DOMAIN mapped[p]
      BY <3>1 DEF Whole
    <3>4. w - 2 # v + 2 * BufPages - 1
      BY <1>10, <3>3
    <3> QED
      BY <1>11, <2>1, <2>2, <2>3, <3>2, <3>4, Constants
  <2>4. CASE ~(q = p /\ t = v - 3)
    BY <1>11, <2>1, <2>2, <2>4
  <2> QED
    BY <2>3, <2>4
<1>21. NoStray'
  <2> SUFFICES ASSUME NEW q \in Procs, count'[q] = Owned(q)', NEW a \in DOMAIN mapped'[q]
               PROVE  \E r \in Slots, u \in Sides : owners'[r][u] = q /\ a \in Region(r, u)'
    BY DEF NoStray
  <2>1. count[q] = Owned(q)
    BY <1>2, <1>14, <1>16, OwnedIsNat DEF TypeOK
  <2>2. a \in DOMAIN mapped[q] /\ (q = p => a \notin Region(s, o))
    BY <1>3, <1>7
  <2>3. PICK r \in Slots, u \in Sides : owners[r][u] = q /\ a \in Region(r, u)
    BY <1>2, <2>1, <2>2 DEF Running, NoStray
  <2>4. ~(r = s /\ owners[r][u] = p)
    BY <1>6, <2>2, <2>3
  <2> QED
    BY <1>3, <2>3, <2>4 DEF Region
<1> QED
  BY <1>3, <1>4, <1>17, <1>18, <1>19, <1>20, <1>21 DEF IInv, Always, Running

-----------------------------------------------------------------------------
(* The process that owns ring buffers.                                      *)

\* Once p owns nothing and has nothing mapped, its count and its next free page
\* may be reset.
LEMMA ResetInv ==
  ASSUME IInv, panic = "none", NEW p \in Procs, TypeOK', OneSide', RefcountExact',
         PagesExact', Mirror',
         \A r \in Slots, u \in Sides :
           owners'[r][u] = IF owners[r][u] = p THEN NoProc ELSE owners[r][u],
         \A r \in Slots, u \in Sides : owners[r][u] # p => vbuf'[r][u] = vbuf[r][u],
         \A q \in Procs : q # p => mapped'[q] = mapped[q],
         DOMAIN mapped'[p] = {},
         \A q \in Procs : count'[q] = IF q = p THEN 0 ELSE count[q],
         \A q \in Procs : q # p => topFree'[q] = topFree[q]
  PROVE  IInv'
<1>1. TypeOK /\ Running /\ Always
  BY DEF IInv, Always
<1>2. Having(p)' = {} /\ \A q \in Procs : q # p => Having(q)' = Having(q)
  <2>1. \A r \in Slots : ~Owns(p, r)'
    BY Constants DEF Owns
  <2>2. \A q \in Procs, r \in Slots : q # p => (Owns(q, r)' <=> Owns(q, r))
    BY Constants DEF Owns
  <2> QED
    BY <2>1, <2>2 DEF Having
<1>3. \A q \in Procs : Owned(q)' = IF q = p THEN 0 ELSE Owned(q)
  <2>1. \A q : Owned(q) = Cardinality(Having(q)) /\ Owned(q)' = Cardinality(Having(q)')
    BY DEF Owned, Having
  <2> QED
    BY <1>2, <2>1, FS_EmptySet
<1>4. Covered'
  BY <1>1, <1>3 DEF Always, Covered
<1>5. NextRegionFree'
  BY <1>1 DEF Always, NextRegionFree
<1>6. \A q \in Procs, r \in Slots, u \in Sides :
        owners'[r][u] = q => q # p /\ owners[r][u] = q /\ vbuf'[r][u] = vbuf[r][u]
  BY Constants
<1>7. Placed'
  BY <1>1, <1>6 DEF Running, Placed
<1>8. NoStray'
  <2> SUFFICES ASSUME NEW q \in Procs, count'[q] = Owned(q)', NEW a \in DOMAIN mapped'[q]
               PROVE  \E r \in Slots, u \in Sides : owners'[r][u] = q /\ a \in Region(r, u)'
    BY DEF NoStray
  <2>1. q # p
    OBVIOUS
  <2>2. PICK r \in Slots, u \in Sides : owners[r][u] = q /\ a \in Region(r, u)
    BY <1>1, <1>3, <2>1 DEF Running, NoStray
  <2> QED
    BY <2>1, <2>2 DEF Region
<1> QED
  BY <1>4, <1>5, <1>7, <1>8 DEF IInv, Always, Running

\* Process.free does not look for ring buffers if the count is zero; then there
\* are none.
LEMMA FreeInv ==
  ASSUME IInv, NEW p \in Procs, processFree(p)
  PROVE  IInv'
<1> DEFINE S == Having(p)
           unmapped == IF count[p] > 0 THEN Regions(p, S) ELSE {}
<1>1. /\ panic = "none"
      /\ IF DOMAIN mapped[p] \subseteq unmapped
         THEN /\ IF count[p] > 0 THEN Disown(p, S) ELSE UNCHANGED <<slotVars, mapped, panic>>
              /\ count' = [count EXCEPT ![p] = 0]
              /\ topFree' = [topFree EXCEPT ![p] = TopPage]
              /\ alive' = [alive EXCEPT ![p] = "unused"]
         ELSE panic' = "freewalk_leaf" /\ UNCHANGED <<slotVars, procVars>>
  BY DEF processFree, Having
<1>2. TypeOK /\ Running /\ Always
  BY <1>1 DEF IInv, Always
<1> HIDE DEF S
<1>3. CASE ~(DOMAIN mapped[p] \subseteq unmapped)
  <2>1. panic' = "freewalk_leaf" /\ UNCHANGED <<refcount, owners, vbuf, name, pages, alive, count,
                                                topFree, mapped>>
    BY <1>1, <1>3 DEF slotVars, procVars
  <2>2. TypeOK'
    BY <1>2, <2>1 DEF TypeOK
  <2>3. OneSide' /\ RefcountExact' /\ Covered' /\ NextRegionFree'
    BY <1>2, <2>1 DEF Always, OneSide, RefcountExact, Taken, Covered, NextRegionFree, Owned, Owns
  <2> QED
    BY <2>1, <2>2, <2>3 DEF IInv, Always
<1>4. CASE DOMAIN mapped[p] \subseteq unmapped
  <2>1. /\ \A q \in Procs : count'[q] = IF q = p THEN 0 ELSE count[q]
        /\ \A q \in Procs : q # p => topFree'[q] = topFree[q]
        /\ count' \in [Procs -> Nat] /\ topFree' \in [Procs -> 0 .. TopPage]
        /\ alive' \in [Procs -> {"live", "zombie", "unused"}]
    <3>1. TopPage \in 0 .. TopPage
      BY Constants
    <3> QED
      BY <1>1, <1>2, <1>4, <3>1 DEF TypeOK
  <2>2. CASE count[p] > 0
    <3>1. S \in SUBSET Slots /\ (\A s \in S : Owns(p, s)) /\ Disown(p, S)
      BY <1>1, <1>4, <2>2 DEF S, Having
    <3>2. \A r \in Slots, u \in Sides : owners[r][u] = p => r \in S
      BY DEF S, Having, Owns
    <3>3. /\ \A r \in Slots, u \in Sides :
               owners'[r][u] = IF r \in S /\ owners[r][u] = p THEN NoProc ELSE owners[r][u]
          /\ \A r \in Slots, u \in Sides :
               vbuf'[r][u] = IF r \in S /\ owners[r][u] = p THEN 0 ELSE vbuf[r][u]
          /\ \A q \in Procs : q # p => mapped'[q] = mapped[q]
          /\ DOMAIN mapped'[p] = DOMAIN mapped[p] \ Regions(p, S)
          /\ panic' = "none"
      BY <1>1, <3>1, DisownEffects
    <3>4. /\ refcount' \in [Slots -> 0 .. 2]
          /\ owners' \in [Slots -> [Sides -> Procs \cup {NoProc}]]
          /\ vbuf' \in [Slots -> [Sides -> Nat]]
          /\ name' \in [Slots -> Names \cup {NoName}] /\ pages' \in [Slots -> BOOLEAN]
          /\ DOMAIN mapped' = Procs
          /\ \A q \in Procs : /\ DOMAIN mapped'[q] \subseteq 1 .. TopPage
                              /\ mapped'[q] \in [DOMAIN mapped'[q] -> Slots \X (0 .. BufPages)]
          /\ OneSide' /\ RefcountExact' /\ PagesExact' /\ Mirror'
      BY <1>1, <3>1, DisownTables
    <3>5. TypeOK'
      BY <2>1, <3>3, <3>4 DEF TypeOK
    <3>6. DOMAIN mapped'[p] = {}
      BY <1>4, <2>2, <3>3
    <3>7. \A r \in Slots, u \in Sides :
            /\ owners'[r][u] = IF owners[r][u] = p THEN NoProc ELSE owners[r][u]
            /\ owners[r][u] # p => vbuf'[r][u] = vbuf[r][u]
      BY <3>2, <3>3
    <3> QED
      BY <1>1, <2>1, <3>3, <3>4, <3>5, <3>6, <3>7, ResetInv
  <2>3. CASE ~(count[p] > 0)
    <3>1. UNCHANGED <<refcount, owners, vbuf, name, pages, mapped, panic>>
      BY <1>1, <1>4, <2>3 DEF slotVars
    <3>2. DOMAIN mapped'[p] = {}
      BY <1>4, <2>3, <3>1
    <3>3. \A r \in Slots, u \in Sides : owners[r][u] # p
      <4>1. Owned(p) = 0
        BY <1>2, <2>3, OwnedIsNat DEF Always, Covered, TypeOK
      <4>2. IsFiniteSet(Having(p)) /\ Cardinality(Having(p)) = 0
        BY <4>1, OwnedIsNat, Constants, FS_Subset DEF Having
      <4>3. Having(p) = {}
        BY <4>2, FS_EmptySet
      <4> QED
        BY <4>3 DEF Having, Owns
    <3>4. TypeOK'
      BY <1>2, <2>1, <3>1 DEF TypeOK
    <3>5. OneSide' /\ RefcountExact' /\ PagesExact'
      BY <1>2, <3>1 DEF Always, Running, OneSide, RefcountExact, Taken, PagesExact
    <3>6. Mirror'
      BY <1>2, <3>1, WholeFrame DEF Running, Mirror
    <3>7. \A r \in Slots, u \in Sides :
            /\ owners'[r][u] = IF owners[r][u] = p THEN NoProc ELSE owners[r][u]
            /\ owners[r][u] # p => vbuf'[r][u] = vbuf[r][u]
      BY <3>1, <3>3
    <3>8. \A q \in Procs : q # p => mapped'[q] = mapped[q]
      BY <3>1
    <3> QED
      BY <1>1, <2>1, <3>2, <3>4, <3>5, <3>6, <3>7, <3>8, ResetInv
  <2> QED
    BY <2>2, <2>3
<1> QED
  BY <1>3, <1>4

LEMMA ExitForkInv ==
  ASSUME IInv, NEW p \in Procs, exit(p) \/ fork(p)
  PROVE  IInv'
<1>1. /\ panic = "none" /\ UNCHANGED <<refcount, owners, vbuf, name, pages, count, topFree, mapped, panic>>
      /\ \E v \in {"live", "zombie"} : alive' = [alive EXCEPT ![p] = v]
  BY DEF exit, fork, slotVars
<1>2. TypeOK'
  BY <1>1 DEF IInv, Always, TypeOK
<1> QED
  BY <1>1, <1>2, Frame

\* exec either has nothing to unmap or stops the kernel.
LEMMA ExecInv ==
  ASSUME IInv, NEW p \in Procs, exec(p)
  PROVE  IInv'
<1>1. /\ panic = "none"
      /\ UNCHANGED <<refcount, owners, vbuf, name, pages, alive, count, topFree>>
      /\ mapped' = [mapped EXCEPT ![p] = NothingMapped]
      /\ panic' = IF mapped[p] = NothingMapped THEN "none" ELSE "freewalk_leaf"
  BY DEF exec, slotVars
<1>2. TypeOK /\ Always
  BY DEF IInv, Always
<1>3. NothingMapped \in [DOMAIN NothingMapped -> Slots \X (0 .. BufPages)] /\ DOMAIN NothingMapped = {}
  BY DEF NothingMapped
<1>4. mapped'[p] = NothingMapped /\ \A q \in Procs : q # p => mapped'[q] = mapped[q]
  BY <1>1, <1>2 DEF TypeOK
<1>5. TypeOK'
  <2>1. \A q \in Procs : /\ DOMAIN mapped'[q] \subseteq 1 .. TopPage
                         /\ mapped'[q] \in [DOMAIN mapped'[q] -> Slots \X (0 .. BufPages)]
    BY <1>2, <1>3, <1>4 DEF TypeOK
  <2> QED
    BY <1>1, <1>2, <2>1 DEF TypeOK
<1>6. CASE mapped[p] = NothingMapped
  BY <1>1, <1>4, <1>5, <1>6, Frame
<1>7. CASE mapped[p] # NothingMapped
  <2>1. OneSide' /\ RefcountExact' /\ Covered'
    BY <1>1, <1>2 DEF Always, OneSide, RefcountExact, Taken, Covered, Owned, Owns
  <2>2. NextRegionFree'
    BY <1>1, <1>2, <1>3, <1>4 DEF Always, NextRegionFree
  <2> QED
    BY <1>1, <1>5, <1>7, <2>1, <2>2 DEF IInv, Always
<1> QED
  BY <1>6, <1>7

LEMMA NextInv == IInv /\ [Next]_vars => IInv'
<1> SUFFICES ASSUME IInv, [Next]_vars PROVE IInv'
  OBVIOUS
<1>1. ASSUME NEW p \in Procs, NEW n \in Names,
             open(p, n) \/ openFails(p, n) \/ activateFails(p, n) \/ close(p, n)
      PROVE  IInv'
  BY <1>1, OpenInv, OpenFailsInv, ActivateFailsInv, CloseInv
<1>2. ASSUME NEW p \in Procs, exit(p) \/ processFree(p) \/ fork(p) \/ exec(p)
      PROVE  IInv'
  BY <1>2, ExitForkInv, FreeInv, ExecInv
<1>3. CASE UNCHANGED vars
  <2>1. UNCHANGED <<refcount, owners, vbuf, name, pages, alive, count, topFree, mapped, panic>>
    BY <1>3 DEF vars, slotVars, procVars
  <2>2. TypeOK'
    BY <2>1 DEF IInv, Always, TypeOK
  <2>3. OneSide' /\ RefcountExact' /\ Covered' /\ NextRegionFree'
    BY <2>1 DEF IInv, Always, OneSide, RefcountExact, Taken, Covered, Owned, Owns, NextRegionFree
  <2>4. CASE panic = "none"
    BY <2>1, <2>2, <2>4, Frame
  <2>5. CASE panic # "none"
    BY <2>1, <2>2, <2>3, <2>5 DEF IInv, Always
  <2> QED
    BY <2>4, <2>5
<1> QED
  BY <1>1, <1>2, <1>3 DEF Next

LEMMA Invariant == Spec => []IInv
BY InitInv, NextInv, PTL DEF Spec

-----------------------------------------------------------------------------
(* The theorems.                                                            *)

\* The tables keep their types: a slot never has more than two references,
\* topFreeVirtualPage stays in the address space, and ownedRingbufsCount never
\* goes below zero (ringbuf.zig:119, 120, 192, 193).
THEOREM TypeCorrect == Spec => []TypeOK
<1>1. IInv => TypeOK
  BY DEF IInv, Always
<1> QED
  BY <1>1, Invariant, PTL

\* Counts and topFreeVirtualPage cover what is owned and mapped, in every order
\* of opens and closes, whichever of them fail (ringbuf.zig:119, 192, 263-266).
THEOREM BooksAreKept == Spec => []BookkeepingCovers
<1>1. IInv => BookkeepingCovers
  <2> SUFFICES ASSUME IInv PROVE CountsCover /\ NextRegionFree
    BY DEF BookkeepingCovers
  <2>1. ASSUME NEW s \in Slots
        PROVE  refcount[s] = Cardinality({o \in Sides : owners[s][o] # NoProc})
    <3>1. refcount[s] = Taken(s, 1) + Taken(s, 2)
      BY DEF IInv, Always, RefcountExact
    <3>2. /\ Cardinality({}) = 0 /\ Cardinality({1}) = 1 /\ Cardinality({2}) = 1
          /\ Cardinality({1, 2}) = 2
      <4>1. IsFiniteSet({1}) /\ Cardinality({1}) = 1 /\ Cardinality({2}) = 1 /\ Cardinality({}) = 0
        BY FS_Singleton, FS_EmptySet
      <4>2. Cardinality({1} \cup {2}) = 2
        BY <4>1, FS_AddElement
      <4>3. {1} \cup {2} = {1, 2}
        OBVIOUS
      <4> QED
        BY <4>1, <4>2, <4>3
    <3>3. CASE owners[s][1] = NoProc /\ owners[s][2] = NoProc
      <4>1. {o \in Sides : owners[s][o] # NoProc} = {}
        BY <3>3 DEF Sides
      <4> QED
        BY <3>1, <3>2, <3>3, <4>1 DEF Taken
    <3>4. CASE owners[s][1] # NoProc /\ owners[s][2] = NoProc
      <4>1. {o \in Sides : owners[s][o] # NoProc} = {1}
        BY <3>4 DEF Sides
      <4> QED
        BY <3>1, <3>2, <3>4, <4>1 DEF Taken
    <3>5. CASE owners[s][1] = NoProc /\ owners[s][2] # NoProc
      <4>1. {o \in Sides : owners[s][o] # NoProc} = {2}
        BY <3>5 DEF Sides
      <4> QED
        BY <3>1, <3>2, <3>5, <4>1 DEF Taken
    <3>6. CASE owners[s][1] # NoProc /\ owners[s][2] # NoProc
      <4>1. {o \in Sides : owners[s][o] # NoProc} = {1, 2}
        BY <3>6 DEF Sides
      <4> QED
        BY <3>1, <3>2, <3>6, <4>1 DEF Taken
    <3> QED
      BY <3>3, <3>4, <3>5, <3>6
  <2> QED
    BY <2>1 DEF CountsCover, IInv, Always, Covered
<1> QED
  BY <1>1, Invariant, PTL

\* Each owner sees its ring buffer twice in a row with the book and a guard page
\* below, for every size of the buffer and wherever opens and closes have moved
\* the region (ringbuf.zig:199-226, 255-266).
THEOREM MirrorIsMapped == Spec => []MirrorMapped
<1>1. IInv => MirrorMapped
  <2> SUFFICES ASSUME IInv, NEW s \in Slots, NEW o \in Sides, panic = "none",
                      owners[s][o] # NoProc
               PROVE  LET m == mapped[owners[s][o]]  v == vbuf[s][o] IN
                      /\ Region(s, o) \subseteq DOMAIN m
                      /\ m[v - 1] = <<s, BufPages>> /\ v - 2 \notin DOMAIN m
                      /\ \A i \in 0 .. 2 * BufPages - 1 :
                           m[v + i] = <<s, (BufPages - 1) - (i % BufPages)>>
    BY DEF MirrorMapped
  <2>1. owners[s][o] \in Procs
    BY DEF IInv, Always, TypeOK
  <2>2. Whole(owners[s][o], s, o)
    BY <2>1 DEF IInv, Running, Mirror
  <2> QED
    BY <2>2 DEF Whole
<1> QED
  BY <1>1, Invariant, PTL

\* No process whose opens all succeeded has a freed page, or a page of a ring
\* buffer it does not own, in its page table, whatever the opens and closes of
\* the others (ringbuf.zig:100-123).
THEOREM MappingsAreOwned == Spec => []MappedIsOwned
<1>1. IInv => MappedIsOwned
  <2> SUFFICES ASSUME IInv, panic = "none", NEW p \in Procs, count[p] = Owned(p),
                      NEW a \in DOMAIN mapped[p]
               PROVE  pages[mapped[p][a][1]] /\ Owns(p, mapped[p][a][1])
    BY Zenon DEF MappedIsOwned
  <2>1. PICK s \in Slots, o \in Sides : owners[s][o] = p /\ a \in Region(s, o)
    BY DEF IInv, Running, NoStray
  <2>2. mapped[p][a][1] = s
    BY <2>1 DEF IInv, Running, Mirror, Whole
  <2>3. refcount[s] > 0
    BY <2>1, Constants DEF IInv, Always, RefcountExact, Taken, Sides
  <2> QED
    BY <2>1, <2>2, <2>3 DEF IInv, Running, PagesExact, Owns
<1> QED
  BY <1>1, Invariant, PTL

-----------------------------------------------------------------------------
(* The user library's data path.                                            *)
(*                                                                          *)
(* Both sides work with counters that may be old.  The inductive invariant  *)
(* says how old: each side's own counter is exact, since nobody else moves  *)
(* it, and the other side's counter can only have grown, which makes the    *)
(* slice computed from it smaller than it could be, never larger.           *)

\* Never more than Capacity bytes are published and not consumed.
Bounded == read_done <= write_done /\ write_done <= read_done + Capacity

WriterView ==
  /\ wpc = "loaded" => wSeen <= read_done /\ write_done <= wSeen + Capacity
  /\ Filling => /\ wStart = write_done
                /\ wStart + wLen <= read_done + Capacity
                /\ filled <= wLen

ReaderView ==
  /\ rpc = "loaded" => rSeen = read_done
  /\ Reading => /\ rStart = read_done
                /\ rStart + rLen <= write_done
                /\ Len(copy) <= rLen
  /\ ~Reading => Len(copy) = 0

StreamInv == RingTypeOK /\ NoAssertFails /\ Bounded /\ WriterView /\ ReaderView /\ CopyIsIntact

\* Positions less than a capacity apart are different bytes of the buffer.
LEMMA DifferentBytes ==
  ASSUME NEW a \in Nat, NEW b \in Nat, a < b, b < a + Capacity
  PROVE  a % Capacity # b % Capacity
<1>1. Capacity \in Nat \ {0}
  BY UserRingBufAssumption
<1> DEFINE q == a \div Capacity
           r == b \div Capacity
<1>2. q \in Int /\ r \in Int /\ a = Capacity * q + (a % Capacity)
                             /\ b = Capacity * r + (b % Capacity)
  BY <1>1, SMT
<1> SUFFICES ASSUME a % Capacity = b % Capacity PROVE FALSE
  OBVIOUS
<1> HIDE DEF q, r
<1>3. b - a = Capacity * (r - q)
  BY <1>1, <1>2, SMT
<1>4. r - q >= 1
  BY <1>1, <1>2, <1>3, SMT
<1>5. Capacity * (r - q) >= Capacity
  BY <1>1, <1>2, <1>4, SMT
<1> QED
  BY <1>1, <1>3, <1>5, SMT

LEMMA RingInitEstablishes == RingInit => StreamInv
<1> SUFFICES ASSUME RingInit PROVE StreamInv
  OBVIOUS
<1>1. RingTypeOK
  <2>1. copy \in Seq(Bytes)
    BY EmptySeq DEF RingInit
  <2>2. failed \in BOOLEAN
    BY DEF RingInit
  <2> QED
    BY <2>1, <2>2 DEF RingInit, RingTypeOK
<1>2. Bounded /\ WriterView /\ ReaderView
  BY UserRingBufAssumption DEF RingInit, Bounded, WriterView, ReaderView, Filling, Reading
<1>3. CopyIsIntact
  BY DEF RingInit, CopyIsIntact
<1> QED
  BY <1>1, <1>2, <1>3 DEF RingInit, StreamInv, NoAssertFails

\* The writer's steps.
LEMMA WriterPreserves == StreamInv /\ Writer => StreamInv'
<1> SUFFICES ASSUME StreamInv, Writer PROVE StreamInv'
  OBVIOUS
<1> USE UserRingBufAssumption
<1>0. RingTypeOK /\ NoAssertFails /\ Bounded /\ WriterView /\ ReaderView /\ CopyIsIntact
  BY DEF StreamInv
<1>1. CASE startWrite
  <2>1. RingTypeOK' /\ NoAssertFails' /\ Bounded'
    BY <1>0, <1>1 DEF startWrite, RingTypeOK, NoAssertFails, Bounded, shared, reader
  <2>2. WriterView' /\ ReaderView'
    BY <1>0, <1>1 DEF startWrite, RingTypeOK, Bounded, WriterView, ReaderView, Filling, Reading,
                      shared, reader
  <2>3. CopyIsIntact'
    BY <1>0, <1>1 DEF startWrite, CopyIsIntact, shared, reader
  <2> QED
    BY <2>1, <2>2, <2>3 DEF StreamInv
<1>2. CASE startWriteReturn
  <2>1. write_done >= wSeen /\ write_done - wSeen <= Capacity
    BY <1>0, <1>2 DEF startWriteReturn, RingTypeOK, Bounded, WriterView
  <2>2. /\ wStart' = write_done /\ wLen' = Capacity - (write_done - wSeen)
        /\ failed' = failed /\ wpc' = "filling" /\ filled' = 0
        /\ UNCHANGED <<data, read_done, write_done, wSeen, rpc, rSeen, rStart, rLen, copy>>
    BY <1>2, <2>1 DEF startWriteReturn, Room, shared, reader
  <2>3. RingTypeOK' /\ NoAssertFails' /\ Bounded'
    BY <1>0, <2>1, <2>2 DEF RingTypeOK, NoAssertFails, Bounded
  <2>4. WriterView'
    BY <1>0, <1>2, <2>1, <2>2 DEF startWriteReturn, RingTypeOK, WriterView, Filling
  <2>5. ReaderView' /\ CopyIsIntact'
    BY <1>0, <2>2 DEF ReaderView, Reading, CopyIsIntact
  <2> QED
    BY <2>3, <2>4, <2>5 DEF StreamInv
<1>3. CASE \E b \in Bytes : put(b)
  <2> PICK b \in Bytes : put(b)
    BY <1>3
  <2>1. /\ wpc = "filling" /\ filled < wLen
        /\ data' = [data EXCEPT ![(wStart + filled) % Capacity] = b]
        /\ filled' = filled + 1
        /\ UNCHANGED <<read_done, write_done, wpc, wSeen, wStart, wLen, rpc, rSeen, rStart,
                       rLen, copy, failed>>
    BY DEF put, reader
  <2>2. RingTypeOK'
    BY <1>0, <2>1 DEF RingTypeOK
  <2>3. NoAssertFails' /\ Bounded' /\ ReaderView'
    BY <1>0, <2>1 DEF NoAssertFails, Bounded, ReaderView, Reading
  <2>4. WriterView'
    BY <1>0, <2>1 DEF RingTypeOK, WriterView, Filling
  <2>5. CopyIsIntact'
    <3> SUFFICES ASSUME NEW i \in 1 .. Len(copy)
                 PROVE  copy[i] = data'[(rStart + i - 1) % Capacity]
      BY <2>1 DEF CopyIsIntact
    <3>1. Len(copy) \in Nat /\ rStart \in Nat /\ wStart \in Nat /\ filled \in Nat
      BY <1>0 DEF RingTypeOK
    <3>2. Reading
      BY <1>0, <3>1 DEF ReaderView
    <3>3. rStart + i - 1 < wStart + filled /\ wStart + filled < rStart + i - 1 + Capacity
      BY <1>0, <2>1, <3>1, <3>2 DEF RingTypeOK, WriterView, ReaderView, Filling
    <3>4. (rStart + i - 1) % Capacity # (wStart + filled) % Capacity
      <4>1. rStart + i - 1 \in Nat /\ wStart + filled \in Nat
        BY <3>1
      <4> QED
        BY ONLY <3>3, <4>1, DifferentBytes
    <3>5. copy[i] = data[(rStart + i - 1) % Capacity]
      BY <1>0 DEF CopyIsIntact
    <3>6. (rStart + i - 1) % Capacity \in 0 .. Capacity - 1
      BY <3>1
    <3> QED
      BY <1>0, <2>1, <3>4, <3>5, <3>6 DEF RingTypeOK
  <2> QED
    BY <2>2, <2>3, <2>4, <2>5 DEF StreamInv
<1>4. CASE finishWrite
  <2>1. write_done + filled >= read_done /\ write_done + filled - read_done <= Capacity
    BY <1>0, <1>4 DEF finishWrite, RingTypeOK, Bounded, WriterView, Filling
  <2>2. /\ failed' = FALSE /\ wpc = "filling" /\ wpc' = "commit"
        /\ UNCHANGED <<data, read_done, write_done, wSeen, wStart, wLen, filled, rpc, rSeen,
                       rStart, rLen, copy>>
    BY <1>4, <2>1 DEF finishWrite, shared, reader
  <2>3. RingTypeOK' /\ NoAssertFails' /\ Bounded'
    BY <1>0, <2>2 DEF RingTypeOK, NoAssertFails, Bounded
  <2>4. WriterView' /\ ReaderView' /\ CopyIsIntact'
    BY <1>0, <2>2 DEF WriterView, ReaderView, Filling, Reading, CopyIsIntact
  <2> QED
    BY <2>3, <2>4 DEF StreamInv
<1>5. CASE finishWriteAdd
  <2>1. /\ wpc = "commit" /\ wpc' = "idle" /\ write_done' = write_done + filled
        /\ UNCHANGED <<data, read_done, wSeen, wStart, wLen, filled, rpc, rSeen, rStart,
                       rLen, copy, failed>>
    BY <1>5 DEF finishWriteAdd, reader
  <2>2. RingTypeOK' /\ NoAssertFails'
    BY <1>0, <2>1 DEF RingTypeOK, NoAssertFails
  <2>3. Bounded' /\ WriterView'
    BY <1>0, <2>1 DEF RingTypeOK, Bounded, WriterView, Filling
  <2>4. ReaderView'
    BY <1>0, <2>1 DEF RingTypeOK, ReaderView, Reading
  <2>5. CopyIsIntact'
    BY <1>0, <2>1 DEF CopyIsIntact
  <2> QED
    BY <2>2, <2>3, <2>4, <2>5 DEF StreamInv
<1> QED
  BY <1>1, <1>2, <1>3, <1>4, <1>5 DEF Writer

\* The reader's steps.
LEMMA ReaderPreserves == StreamInv /\ Reader => StreamInv'
<1> SUFFICES ASSUME StreamInv, Reader PROVE StreamInv'
  OBVIOUS
<1> USE UserRingBufAssumption
<1>0. RingTypeOK /\ NoAssertFails /\ Bounded /\ WriterView /\ ReaderView /\ CopyIsIntact
  BY DEF StreamInv
<1>1. CASE startRead
  <2>1. /\ rpc = "idle" /\ rpc' = "loaded" /\ rSeen' = read_done
        /\ UNCHANGED <<data, read_done, write_done, wpc, wSeen, wStart, wLen, filled,
                       rStart, rLen, copy, failed>>
    BY <1>1 DEF startRead, shared, writer
  <2>2. RingTypeOK' /\ NoAssertFails' /\ Bounded'
    BY <1>0, <2>1 DEF RingTypeOK, NoAssertFails, Bounded
  <2>3. WriterView' /\ ReaderView' /\ CopyIsIntact'
    BY <1>0, <2>1 DEF WriterView, ReaderView, Filling, Reading, CopyIsIntact
  <2> QED
    BY <2>2, <2>3 DEF StreamInv
<1>2. CASE startReadReturn
  <2>1. rSeen = read_done /\ write_done >= rSeen
    BY <1>0, <1>2 DEF startReadReturn, RingTypeOK, Bounded, ReaderView
  <2>2. /\ rStart' = read_done /\ rLen' = write_done - read_done
        /\ copy' = <<>> /\ rpc' = "reading"
        /\ UNCHANGED <<data, read_done, write_done, wpc, wSeen, wStart, wLen, filled, rSeen,
                       failed>>
    BY <1>2, <2>1 DEF startReadReturn, Available, shared, writer
  <2>3. RingTypeOK' /\ NoAssertFails' /\ Bounded'
    BY <1>0, <2>1, <2>2 DEF RingTypeOK, NoAssertFails, Bounded
  <2>4. WriterView'
    BY <1>0, <2>2 DEF WriterView, Filling
  <2>5. ReaderView' /\ CopyIsIntact'
    BY <1>0, <2>1, <2>2 DEF RingTypeOK, ReaderView, Reading, CopyIsIntact
  <2> QED
    BY <2>3, <2>4, <2>5 DEF StreamInv
<1>3. CASE get
  <2> DEFINE x == data[(rStart + Len(copy)) % Capacity]
  <2>1. /\ rpc = "reading" /\ Len(copy) < rLen /\ copy' = Append(copy, x)
        /\ UNCHANGED <<data, read_done, write_done, wpc, wSeen, wStart, wLen, filled, rpc,
                       rSeen, rStart, rLen, failed>>
    BY <1>3 DEF get, shared, writer
  <2>2. copy \in Seq(Bytes) /\ Len(copy) \in Nat /\ rStart \in Nat /\ rLen \in Nat
    BY <1>0 DEF RingTypeOK
  <2>3. x \in Bytes
    <3>1. (rStart + Len(copy)) % Capacity \in 0 .. Capacity - 1
      BY <2>2
    <3> QED
      BY <1>0, <3>1 DEF RingTypeOK
  <2> HIDE DEF x
  <2>4. /\ copy' \in Seq(Bytes) /\ Len(copy') = Len(copy) + 1
        /\ \A i \in 1 .. Len(copy) : copy'[i] = copy[i]
        /\ copy'[Len(copy) + 1] = x
    BY <2>1, <2>2, <2>3
  <2>5. RingTypeOK' /\ NoAssertFails' /\ Bounded'
    BY <1>0, <2>1, <2>4 DEF RingTypeOK, NoAssertFails, Bounded
  <2>6. WriterView'
    BY <1>0, <2>1 DEF WriterView, Filling
  <2>7. ReaderView'
    BY <1>0, <2>1, <2>2, <2>4 DEF ReaderView, Reading
  <2>8. CopyIsIntact'
    <3> SUFFICES ASSUME NEW i \in 1 .. Len(copy) + 1
                 PROVE  copy'[i] = data[(rStart + i - 1) % Capacity]
      BY <2>1, <2>4 DEF CopyIsIntact
    <3>1. CASE i \in 1 .. Len(copy)
      BY <1>0, <2>4, <3>1 DEF CopyIsIntact
    <3>2. CASE i = Len(copy) + 1
      <4>1. rStart + i - 1 = rStart + Len(copy)
        BY <2>2, <3>2
      <4> QED
        BY <2>4, <3>2, <4>1 DEF x
    <3> QED
      BY <2>2, <3>1, <3>2
  <2> QED
    BY <2>5, <2>6, <2>7, <2>8 DEF StreamInv
<1>4. CASE finishRead
  <2>1. write_done >= read_done /\ write_done - read_done >= Len(copy)
    <3>1. Len(copy) \in Nat
      BY <1>0 DEF RingTypeOK
    <3> QED
      BY <1>0, <1>4, <3>1 DEF finishRead, RingTypeOK, Bounded, ReaderView, Reading
  <2>2. /\ failed' = FALSE /\ rpc = "reading" /\ rpc' = "commit"
        /\ UNCHANGED <<data, read_done, write_done, wpc, wSeen, wStart, wLen, filled, rSeen,
                       rStart, rLen, copy>>
    BY <1>4, <2>1 DEF finishRead, shared, writer
  <2>3. RingTypeOK' /\ NoAssertFails' /\ Bounded'
    BY <1>0, <2>2 DEF RingTypeOK, NoAssertFails, Bounded
  <2>4. WriterView' /\ ReaderView' /\ CopyIsIntact'
    BY <1>0, <2>2 DEF WriterView, ReaderView, Filling, Reading, CopyIsIntact
  <2> QED
    BY <2>3, <2>4 DEF StreamInv
<1>5. CASE finishReadAdd
  <2>1. /\ rpc = "commit" /\ rpc' = "idle" /\ read_done' = read_done + Len(copy)
        /\ copy' = <<>>
        /\ UNCHANGED <<data, write_done, wpc, wSeen, wStart, wLen, filled, rSeen, rStart,
                       rLen, failed>>
    BY <1>5 DEF finishReadAdd, writer
  <2>2. Len(copy) \in Nat
    BY <1>0 DEF RingTypeOK
  <2>3. RingTypeOK' /\ NoAssertFails'
    BY <1>0, <2>1, <2>2 DEF RingTypeOK, NoAssertFails
  <2>4. Bounded' /\ WriterView'
    BY <1>0, <2>1, <2>2 DEF RingTypeOK, Bounded, WriterView, ReaderView, Filling, Reading
  <2>5. ReaderView' /\ CopyIsIntact'
    BY <2>1 DEF ReaderView, Reading, CopyIsIntact
  <2> QED
    BY <2>3, <2>4, <2>5 DEF StreamInv
<1> QED
  BY <1>1, <1>2, <1>3, <1>4, <1>5 DEF Reader

LEMMA StutterPreserves == StreamInv /\ UNCHANGED ringVars => StreamInv'
<1> SUFFICES ASSUME StreamInv, UNCHANGED ringVars PROVE StreamInv'
  OBVIOUS
<1>1. UNCHANGED <<data, read_done, write_done, wpc, wSeen, wStart, wLen, filled, rpc, rSeen,
                  rStart, rLen, copy, failed>>
  BY DEF ringVars, shared, writer, reader
<1>2. RingTypeOK' /\ NoAssertFails' /\ Bounded'
  BY <1>1 DEF StreamInv, RingTypeOK, NoAssertFails, Bounded
<1>3. WriterView' /\ ReaderView' /\ CopyIsIntact'
  BY <1>1 DEF StreamInv, WriterView, ReaderView, Filling, Reading, CopyIsIntact
<1> QED
  BY <1>2, <1>3 DEF StreamInv

\* The inductive invariant holds in every reachable state, for every
\* interleaving of startRead, startWrite, finishRead and finishWrite
\* (uringbuf.zig:39-56).
THEOREM StreamInvariance == RingSpec => []StreamInv
<1>1. StreamInv /\ [RingNext]_ringVars => StreamInv'
  BY WriterPreserves, ReaderPreserves, StutterPreserves DEF RingNext
<1> QED
  BY RingInitEstablishes, <1>1, PTL DEF RingSpec

\* No assertion of finishRead or finishWrite fails and no subtraction of the
\* counters overflows (uringbuf.zig:42, 45, 51, 54).
THEOREM AssertionsHold == RingSpec => []NoAssertFails
<1>1. StreamInv => NoAssertFails
  BY DEF StreamInv
<1> QED
  BY StreamInvariance, <1>1, PTL

\* The slices of startRead and startWrite never share a byte
\* (uringbuf.zig:42, 51).
THEOREM SlicesNeverOverlap == RingSpec => []SlicesApart
<1>1. StreamInv => SlicesApart
  BY UserRingBufAssumption
     DEF StreamInv, RingTypeOK, WriterView, ReaderView, SlicesApart
<1> QED
  BY StreamInvariance, <1>1, PTL

\* Bytes the reader has copied are not overwritten before finishRead gives
\* them back (uringbuf.zig:44-47, 53-56).
THEOREM ReaderUndisturbed == RingSpec => []CopyIsIntact
<1>1. StreamInv => CopyIsIntact
  BY DEF StreamInv
<1> QED
  BY StreamInvariance, <1>1, PTL

-----------------------------------------------------------------------------
(* The ring buffer implements ByteStream.                                   *)

\* What is published, position by position.
PublishedFacts ==
  /\ Len(Published) = write_done - read_done /\ Published \in Seq(Bytes)
  /\ Len(Published) \in Nat /\ Len(Published) <= Capacity
  /\ \A i \in 1 .. Len(Published) : Published[i] = data[(read_done + i - 1) % Capacity]

LEMMA PublishedIsSeq == StreamInv => PublishedFacts
<1> SUFFICES ASSUME StreamInv PROVE PublishedFacts
  OBVIOUS
<1> PICK n : n = write_done - read_done
  OBVIOUS
<1>1. n \in Nat /\ n <= Capacity /\ read_done \in Nat
  BY UserRingBufAssumption DEF StreamInv, RingTypeOK, Bounded
<1>2. \A i \in 1 .. n : data[(read_done + i - 1) % Capacity] \in Bytes
  <2> TAKE i \in 1 .. n
  <2> PICK k : k = (read_done + i - 1) % Capacity
    OBVIOUS
  <2>1. k \in 0 .. Capacity - 1
    BY <1>1, UserRingBufAssumption
  <2> QED
    BY <2>1 DEF StreamInv, RingTypeOK
<1>3. Published = [i \in 1 .. n |-> data[(read_done + i - 1) % Capacity]]
  BY DEF Published
<1> HIDE DEF Published
<1>4. Published \in Seq(Bytes) /\ Len(Published) = n
  BY <1>1, <1>2, <1>3
<1> QED
  BY <1>1, <1>3, <1>4 DEF PublishedFacts

LEMMA PublishedIsSeqAfter == StreamInv' => PublishedFacts'
BY PublishedIsSeq, PTL

\* Steps that move no counter and store no byte.
LEMMA PublishedFrame ==
  ASSUME UNCHANGED shared
  PROVE  Published' = Published
BY DEF shared, Published

\* A byte the writer stores lies behind the published ones and less than a
\* capacity away from the first of them.
LEMMA PutRefines ==
  ASSUME StreamInv, NEW b \in Bytes, put(b)
  PROVE  Published' = Published
<1> PICK w : w = wStart + filled
  OBVIOUS
<1>1. /\ data' = [data EXCEPT ![w % Capacity] = b]
      /\ UNCHANGED <<read_done, write_done>>
  BY DEF put
<1>2. /\ read_done \in Nat /\ write_done \in Nat /\ w \in Nat /\ Capacity \in Nat \ {0}
      /\ write_done <= w /\ w < read_done + Capacity
      /\ data \in [0 .. Capacity - 1 -> Bytes]
  BY UserRingBufAssumption DEF StreamInv, RingTypeOK, WriterView, Filling, put
<1>3. \A i \in 1 .. write_done - read_done :
        data'[(read_done + i - 1) % Capacity] = data[(read_done + i - 1) % Capacity]
  <2> TAKE i \in 1 .. write_done - read_done
  <2> PICK a : a = read_done + i - 1
    OBVIOUS
  <2>1. a \in Nat /\ a < w /\ w < a + Capacity
    BY <1>2
  <2>2. a % Capacity # w % Capacity
    BY <1>2, <2>1, DifferentBytes
  <2>3. a % Capacity \in 0 .. Capacity - 1
    BY <1>2, <2>1
  <2> QED
    BY <1>1, <1>2, <2>2, <2>3
<1> QED
  BY <1>1, <1>3 DEF Published

\* finishWrite's fetchAdd publishes what was stored, all at once.
LEMMA PublishRefines ==
  ASSUME StreamInv, StreamInv', finishWriteAdd
  PROVE  Stream!Write \/ Published' = Published
<1> PICK n, m : n = filled /\ m = write_done - read_done
  OBVIOUS
<1>1. /\ write_done' = write_done + n /\ UNCHANGED <<data, read_done>>
      /\ n \in Nat /\ m \in Nat /\ read_done \in Nat /\ write_done \in Nat
      /\ m + n <= Capacity /\ Capacity \in Nat
  BY UserRingBufAssumption
     DEF finishWriteAdd, StreamInv, RingTypeOK, Bounded, WriterView, Filling
<1>2. CASE n = 0
  <2>1. write_done' = write_done
    BY <1>1, <1>2
  <2> QED
    BY <1>1, <2>1 DEF Published
<1>3. CASE n # 0
  <2> DEFINE chunk == [i \in 1 .. n |-> Published'[m + i]]
  <2>1. /\ Len(Published) = m /\ Published \in Seq(Bytes)
        /\ Len(Published') = m + n /\ Published' \in Seq(Bytes)
    <3>1. write_done' - read_done' = m + n
      BY <1>1
    <3> QED
      BY <1>1, <3>1, PublishedIsSeq, PublishedIsSeqAfter DEF PublishedFacts
  <2>2. \A i \in 1 .. m : Published'[i] = Published[i]
    <3>1. \A i \in 1 .. m : Published[i] = data[(read_done + i - 1) % Capacity]
      BY <2>1, PublishedIsSeq, PublishedIsSeqAfter DEF PublishedFacts
    <3>2. \A i \in 1 .. m + n : Published'[i] = data[(read_done + i - 1) % Capacity]
      BY <1>1, <2>1, PublishedIsSeq, PublishedIsSeqAfter DEF PublishedFacts
    <3> QED
      BY <1>1, <3>1, <3>2
  <2>3. chunk \in [1 .. n -> Bytes] /\ chunk \in Seq(Bytes) /\ Len(chunk) = n
    BY <1>1, <2>1
  <2>4. \A i \in 1 .. n : chunk[i] = Published'[m + i]
    OBVIOUS
  <2> HIDE DEF chunk
  <2>5. /\ Published \o chunk \in Seq(Bytes) /\ Len(Published \o chunk) = m + n
        /\ \A i \in 1 .. m + n :
             (Published \o chunk)[i] = IF i <= m THEN Published[i] ELSE chunk[i - m]
    <3>1. Len(Published) + Len(chunk) = m + n
      BY <1>1, <2>1, <2>3
    <3>2. PICK p : p = Published
      OBVIOUS
    <3>3. p \in Seq(Bytes) /\ Len(p) = m
      BY <2>1, <3>2
    <3>4. /\ p \o chunk \in Seq(Bytes) /\ Len(p \o chunk) = Len(p) + Len(chunk)
          /\ \A i \in 1 .. Len(p) + Len(chunk) :
               (p \o chunk)[i] = IF i <= Len(p) THEN p[i] ELSE chunk[i - Len(p)]
      BY ONLY <2>3, <3>3, ConcatProperties, ZenonT(30)
    <3>5. Len(p) + Len(chunk) = m + n /\ Len(p) = m
      BY <3>1, <3>2, <3>3
    <3>6. /\ p \o chunk \in Seq(Bytes) /\ Len(p \o chunk) = m + n
          /\ \A i \in 1 .. m + n : (p \o chunk)[i] = IF i <= m THEN p[i] ELSE chunk[i - m]
      BY ONLY <3>4, <3>5, Zenon
    <3> QED
      BY ONLY <3>2, <3>6, Zenon
  <2>6. \A i \in 1 .. m + n : Published'[i] = (Published \o chunk)[i]
    <3> TAKE i \in 1 .. m + n
    <3>1. CASE i <= m
      BY <1>1, <2>2, <2>5, <3>1
    <3>2. CASE ~(i <= m)
      <4> PICK j : j = i - m
        OBVIOUS
      <4>1. j \in 1 .. n /\ m + j = i
        BY <1>1, <3>2
      <4>2. chunk[j] = Published'[i]
        BY <2>4, <4>1
      <4> QED
        BY <2>5, <3>2, <4>2
    <3> QED
      BY <3>1, <3>2
  <2>7. Published' = Published \o chunk
    BY <1>1, <2>1, <2>5, <2>6, SeqEqual
  <2>8. n \in 1 .. Capacity - Len(Published)
    BY <1>1, <1>3, <2>1
  <2> QED
    BY <2>3, <2>7, <2>8 DEF Stream!Write
<1> QED
  BY <1>2, <1>3

\* finishRead's fetchAdd consumes what was copied, all at once.
LEMMA ConsumeRefines ==
  ASSUME StreamInv, StreamInv', finishReadAdd
  PROVE  Stream!Read \/ Published' = Published
<1> PICK n, m : n = Len(copy) /\ m = write_done - read_done
  OBVIOUS
<1>1. /\ read_done' = read_done + n /\ UNCHANGED <<data, write_done>>
      /\ n \in Nat /\ m \in Nat /\ read_done \in Nat /\ write_done \in Nat /\ n <= m
  <2>1. n \in Nat
    BY DEF StreamInv, RingTypeOK
  <2> QED
    BY <2>1, UserRingBufAssumption DEF finishReadAdd, StreamInv, RingTypeOK, Bounded, ReaderView, Reading
<1>2. CASE n = 0
  <2>1. read_done' = read_done
    BY <1>1, <1>2
  <2> QED
    BY <1>1, <2>1 DEF Published
<1>3. CASE n # 0
  <2>1. /\ Len(Published) = m /\ Published \in Seq(Bytes)
        /\ Len(Published') = m - n /\ Published' \in Seq(Bytes)
    <3>1. write_done' - read_done' = m - n
      BY <1>1
    <3> QED
      BY <1>1, <3>1, PublishedIsSeq, PublishedIsSeqAfter DEF PublishedFacts
  <2> DEFINE rest == SubSeq(Published, n + 1, m)
  <2>2. /\ rest \in Seq(Bytes) /\ Len(rest) = m - n
        /\ \A i \in 1 .. m - n : rest[i] = Published[n + i]
    <3>1. /\ rest \in Seq(Bytes)
          /\ Len(rest) = IF n + 1 <= m THEN m - (n + 1) + 1 ELSE 0
          /\ \A i \in 1 .. m - (n + 1) + 1 : rest[i] = Published[n + 1 + i - 1]
      <4> PICK p : p = Published
        OBVIOUS
      <4>1. p \in Seq(Bytes) /\ Len(p) = m
        BY <2>1
      <4>2. n + 1 \in Int /\ m \in Int /\ \A i \in n + 1 .. m : p[i] \in Bytes
        BY ONLY <1>1, <4>1
      <4> QED
        BY ONLY <4>2, SubSeqProperties, p = Published, SMTT(30) DEF rest
    <3>2. Len(rest) = m - n
      BY <1>1, <3>1
    <3>3. ASSUME NEW i \in 1 .. m - n PROVE rest[i] = Published[n + i]
      <4>1. i \in 1 .. m - (n + 1) + 1 /\ n + 1 + i - 1 = n + i
        BY <1>1
      <4> QED
        BY <3>1, <4>1
    <3> QED
      BY <3>1, <3>2, <3>3
  <2> HIDE DEF rest
  <2>3. \A i \in 1 .. m - n : Published'[i] = rest[i]
    <3> TAKE i \in 1 .. m - n
    <3>1. Published'[i] = data[(read_done + n + i - 1) % Capacity]
      BY <1>1, <2>1, PublishedIsSeq, PublishedIsSeqAfter DEF PublishedFacts
    <3> PICK j : j = n + i
      OBVIOUS
    <3>2. j \in 1 .. m /\ read_done + n + i - 1 = read_done + j - 1
      BY <1>1
    <3>3. Published[j] = data[(read_done + j - 1) % Capacity]
      BY <2>1, <3>2, PublishedIsSeq, PublishedIsSeqAfter DEF PublishedFacts
    <3> QED
      BY <2>2, <3>1, <3>2, <3>3
  <2>4. Published' = rest
    BY <1>1, <2>1, <2>2, <2>3, SeqEqual
  <2>5. n \in 1 .. Len(Published)
    BY <1>1, <1>3, <2>1
  <2> QED
    BY <2>1, <2>4, <2>5 DEF Stream!Read, rest
<1> QED
  BY <1>2, <1>3

\* The ring buffer is a byte stream, for every capacity and every interleaving
\* of the two sides: bytes come out in the order finishWrite published them,
\* none is lost, repeated or seen before it is published, and never more than
\* Capacity are waiting (uringbuf.zig:39-57).
THEOREM RingIsByteStream == RingSpec => IsByteStream
<1>1. RingInit => Stream!Init
  <2> SUFFICES ASSUME RingInit PROVE Stream!Init
    OBVIOUS
  <2>1. StreamInv
    BY RingInitEstablishes
  <2>2. write_done - read_done = 0
    BY DEF RingInit
  <2>3. Len(Published) = 0 /\ Published \in Seq(Bytes)
    BY <2>1, <2>2, PublishedIsSeq, PublishedIsSeqAfter DEF PublishedFacts
  <2>4. Published = <<>>
    BY <2>3, EmptySeq
  <2> QED
    BY <2>4 DEF Stream!Init
<1>2. StreamInv /\ StreamInv' /\ [RingNext]_ringVars => [Stream!Next]_Published
  <2> SUFFICES ASSUME StreamInv, StreamInv', [RingNext]_ringVars PROVE Stream!Next \/ Published' = Published
    OBVIOUS
  <2>1. CASE \E b \in Bytes : put(b)
    BY <2>1, PutRefines
  <2>2. CASE finishWriteAdd
    BY <2>2, PublishRefines DEF Stream!Next
  <2>3. CASE finishReadAdd
    BY <2>3, ConsumeRefines DEF Stream!Next
  <2>4. CASE \/ startWrite \/ startWriteReturn \/ finishWrite \/ UNCHANGED ringVars
             \/ startRead \/ startReadReturn \/ get \/ finishRead
    <3>1. UNCHANGED shared
      BY <2>4 DEF startWrite, startWriteReturn, finishWrite, startRead, startReadReturn, get,
                  finishRead, ringVars
    <3> QED
      BY <3>1, PublishedFrame
  <2> QED
    BY <2>1, <2>2, <2>3, <2>4 DEF RingNext, Writer, Reader
<1> QED
  BY StreamInvariance, <1>1, <1>2, PTL DEF RingSpec, IsByteStream, Stream!Spec

-----------------------------------------------------------------------------
(* The heap.                                                                *)

\* The blocks B with their sizes sz fill the heap up to e, and none twice.
Fills(B, sz, e) ==
  /\ e \in Nat /\ e >= HeapStart
  /\ \A a \in B : a \in Nat /\ a >= HeapStart /\ sz[a] \in Nat /\ sz[a] >= 1 /\ a + sz[a] <= e
  /\ \A a, b \in B : a < b => a + sz[a] <= b
  /\ \A u \in HeapStart .. (e - 1) : \E a \in B : a <= u /\ u < a + sz[a]

\* b is the next of S behind a, or base.
NextIn(S, b, a) ==
  \/ b \in S /\ b > a /\ \A c \in S : c <= a \/ c >= b
  \/ b = base /\ \A c \in S : c <= a

\* The pointers nx go through S in order and back to base.
Circle(S, nx) == \A a \in S \cup {base} : NextIn(S, nx[a], a)

\* No two blocks of S touch.
Separate(S, sz) == \A a, b \in S : a + sz[a] # b

\* A block of s units has room for n bytes.
RoomFor(s, n) == (s - 1) * HeaderSize >= n

Loops ==
  [at : {"none", "room", "place"}, of : {"program", "morecore"}, p : Nat, prevp : Nat,
   bp : Nat, nbytes : Nat]

HeapShape ==
  /\ DOMAIN ptr = DOMAIN size /\ base \in DOMAIN size /\ size[base] = 0
  /\ DOMAIN held \cup Loose \subseteq Blocks /\ Loose \cap DOMAIN held = {}
  /\ \A a \in DOMAIN held : held[a] \in Nat /\ RoomFor(size[a], held[a])
  /\ freep # NULL => freep \in List
  /\ loop \in Loops

\* Before the first malloc there is no block, and no list.
Unused == freep = NULL => loop.at = "none" /\ Blocks = {}

Searches ==
  /\ loop.at # "none" => freep # NULL /\ loop.p \in List
  /\ loop.at = "room" => loop.prevp \in List /\ ptr[loop.prevp] = loop.p

HeapInv ==
  /\ HeapShape /\ Unused /\ Searches
  /\ Fills(Blocks, size, brk)
  /\ freep # NULL => Circle(FreeBlocks, ptr)
  /\ Separate(FreeBlocks, size)

-----------------------------------------------------------------------------
\* Rounding up gives room for what is asked for.
LEMMA UnitsAreEnough ==
  ASSUME NEW n \in Nat
  PROVE  nunits(n) \in Nat /\ nunits(n) >= 1 /\ RoomFor(nunits(n), n)
<1> DEFINE q == (n + HeaderSize - 1) \div HeaderSize
           r == (n + HeaderSize - 1) % HeaderSize
<1>1. HeaderSize \in Nat /\ HeaderSize >= 1
  BY HeapAssumption
<1>2. q \in Nat /\ r \in Nat /\ r <= HeaderSize - 1 /\ n + HeaderSize - 1 = q * HeaderSize + r
  BY <1>1, Z3
<1>3. nunits(n) = q + 1
  BY DEF nunits
<1> HIDE DEF q, r
<1> QED
  BY <1>1, <1>2, <1>3 DEF RoomFor

\* A new block at the end of the heap.
LEMMA FillsGrow ==
  ASSUME NEW B, NEW sz, NEW e, Fills(B, sz, e), NEW n \in Nat, n >= 1,
         NEW tz, \A a \in B : tz[a] = sz[a], tz[e] = n
  PROVE  e \notin B /\ Fills(B \cup {e}, tz, e + n)
<1>1. e \notin B
  BY DEF Fills
<1>2. ASSUME NEW u \in HeapStart .. (e + n - 1)
      PROVE  \E a \in B \cup {e} : a <= u /\ u < a + tz[a]
  BY <1>2 DEF Fills
<1> QED
  BY <1>1, <1>2 DEF Fills, HeapStart

\* A block is split.
LEMMA FillsSplit ==
  ASSUME NEW B, NEW sz, NEW e, Fills(B, sz, e), NEW x \in B, NEW n \in Nat, n >= 1, n < sz[x],
         NEW t, t = x + sz[x] - n,
         NEW tz, \A a \in B : a # x => tz[a] = sz[a], tz[x] = sz[x] - n, tz[t] = n
  PROVE  t \notin B /\ Fills(B \cup {t}, tz, e)
<1>1. t \notin B
  BY DEF Fills
<1>2. ASSUME NEW u \in HeapStart .. (e - 1)
      PROVE  \E a \in B \cup {t} : a <= u /\ u < a + tz[a]
  <2>1. PICK a \in B : a <= u /\ u < a + sz[a]
    BY DEF Fills
  <2> QED
    BY <2>1 DEF Fills
<1>3. \A a \in B \cup {t} : a \in Nat /\ a >= HeapStart /\ tz[a] \in Nat /\ tz[a] >= 1 /\ a + tz[a] <= e
  BY DEF Fills, HeapStart
<1>4. ASSUME NEW a \in B \cup {t}, NEW b \in B \cup {t}, a < b PROVE a + tz[a] <= b
  BY <1>4 DEF Fills
<1> QED
  BY <1>1, <1>2, <1>3, <1>4 DEF Fills

\* Two neighbours become one block.
LEMMA FillsJoin ==
  ASSUME NEW B, NEW sz, NEW e, Fills(B, sz, e), NEW x \in B, NEW y \in B, x + sz[x] = y,
         NEW tz, \A a \in B \ {y} : a # x => tz[a] = sz[a], tz[x] = sz[x] + sz[y]
  PROVE  x \in B \ {y} /\ Fills(B \ {y}, tz, e)
<1>1. x # y
  BY DEF Fills
<1>2. ASSUME NEW u \in HeapStart .. (e - 1)
      PROVE  \E a \in B \ {y} : a <= u /\ u < a + tz[a]
  <2>1. PICK a \in B : a <= u /\ u < a + sz[a]
    BY DEF Fills
  <2>2. CASE a = y
    <3>1. x <= u /\ u < x + tz[x]
      BY <2>1, <2>2 DEF Fills
    <3> QED
      BY <1>1, <3>1
  <2> QED
    BY <2>1, <2>2, <1>1 DEF Fills
<1>3. \A a \in B \ {y} : a \in Nat /\ a >= HeapStart /\ tz[a] \in Nat /\ tz[a] >= 1 /\ a + tz[a] <= e
  BY <1>1 DEF Fills
<1>4. ASSUME NEW a \in B \ {y}, NEW b \in B \ {y}, a < b PROVE a + tz[a] <= b
  <2>1. CASE a = x
    <3>1. x + sz[x] <= b /\ y < b
      BY <1>4, <2>1 DEF Fills
    <3> QED
      BY <2>1, <3>1 DEF Fills
  <2> QED
    BY <1>4, <2>1 DEF Fills
<1> QED
  BY <1>1, <1>2, <1>3, <1>4 DEF Fills

\* A block comes into the list between p and the one that followed p.
LEMMA CircleInsert ==
  ASSUME NEW S, S \subseteq Nat, \A a \in S : a > base, NEW f, Circle(S, f),
         NEW p \in S \cup {base}, NEW x \in Nat \ S, x > p, f[p] = base \/ f[p] > x,
         NEW g, g[p] = x, g[x] = f[p], \A a \in S \cup {base} : a # p => g[a] = f[a]
  PROVE  Circle(S \cup {x}, g)
<1>1. NextIn(S, f[p], p) /\ p \in Nat /\ p >= base
  BY DEF Circle, base
<1>2. PICK e : e = f[p]
  OBVIOUS
<1>3. \A c \in S : c <= p \/ c > x
  <2>1. CASE e = base
    <3>1. \A c \in S : c <= p
      BY <1>1, <1>2, <2>1 DEF NextIn, base
    <3> QED
      BY <3>1
  <2>2. CASE e # base
    <3>1. e \in S /\ e > x /\ \A c \in S : c <= p \/ c >= e
      BY <1>1, <1>2, <2>2 DEF NextIn
    <3> QED
      BY <3>1
  <2> QED
    BY <2>1, <2>2
<1>4. NextIn(S \cup {x}, x, p)
  BY <1>1, <1>3 DEF NextIn, base
<1>5. NextIn(S \cup {x}, e, x)
  <2>1. CASE e = base
    <3>1. \A c \in S : c <= p
      BY <1>1, <1>2, <2>1 DEF NextIn, base
    <3> QED
      BY <1>1, <2>1, <3>1 DEF NextIn
  <2>2. CASE e # base
    <3>1. e \in S /\ e > x /\ \A c \in S : c <= p \/ c >= e
      BY <1>1, <1>2, <2>2 DEF NextIn
    <3> QED
      BY <1>1, <3>1 DEF NextIn
  <2> QED
    BY <2>1, <2>2
<1>6. ASSUME NEW a \in S \cup {base}, a # p PROVE NextIn(S \cup {x}, f[a], a)
  <2>1. NextIn(S, f[a], a) /\ a \in Nat /\ a >= base
    BY DEF Circle, base
  <2>2. PICK b : b = f[a]
    OBVIOUS
  <2>3. CASE a < p
    <3>1. b \in S /\ b > a /\ b <= p /\ \A c \in S : c <= a \/ c >= b
      BY <2>1, <2>2, <2>3, <1>1 DEF NextIn, base
    <3> QED
      BY <2>1, <2>2, <3>1, <1>1 DEF NextIn
  <2>4. CASE a > p
    <3>1. a > x
      BY <1>3, <1>6, <2>1, <2>4, <1>1 DEF base
    <3>2. CASE b = base
      BY <2>1, <2>2, <3>1, <3>2 DEF NextIn, base
    <3>3. CASE b # base
      BY <2>1, <2>2, <3>1, <3>3 DEF NextIn
    <3> QED
      BY <3>2, <3>3
  <2> QED
    BY <1>1, <1>6, <2>1, <2>3, <2>4
<1> QED
  BY <1>2, <1>4, <1>5, <1>6 DEF Circle

\* The block x behind q leaves the list.
LEMMA CircleRemove ==
  ASSUME NEW S, S \subseteq Nat, \A a \in S : a > base, NEW f, Circle(S, f),
         NEW q \in S \cup {base}, NEW x \in S, f[q] = x,
         NEW g, g[q] = f[x], \A a \in (S \cup {base}) \ {x} : a # q => g[a] = f[a]
  PROVE  q # x /\ Circle(S \ {x}, g)
<1>1. NextIn(S, x, q) /\ NextIn(S, f[x], x) /\ q \in Nat /\ q >= base
  BY DEF Circle, base
<1>2. q < x /\ NextIn(S \ {x}, f[x], q)
  <2>1. q < x /\ \A c \in S : c <= q \/ c >= x
    BY <1>1 DEF NextIn, base
  <2>2. PICK e : e = f[x]
    OBVIOUS
  <2>3. CASE e = base
    <3>1. \A c \in S \ {x} : c <= q
      BY <1>1, <2>1, <2>2, <2>3 DEF NextIn, base
    <3> QED
      BY <2>1, <2>2, <2>3, <3>1 DEF NextIn
  <2>4. CASE e # base
    <3>1. e \in S /\ e > x /\ \A c \in S : c <= x \/ c >= e
      BY <1>1, <2>2, <2>4 DEF NextIn
    <3>2. \A c \in S \ {x} : c <= q \/ c >= e
      BY <2>1, <3>1
    <3>3. e \in S \ {x} /\ e > q
      BY <1>1, <2>1, <3>1
    <3>4. NextIn(S \ {x}, e, q)
      BY <3>2, <3>3 DEF NextIn
    <3> QED
      BY <2>1, <2>2, <3>4
  <2> QED
    BY <2>1, <2>3, <2>4
<1>3. ASSUME NEW a \in (S \cup {base}) \ {x}, a # q PROVE NextIn(S \ {x}, f[a], a)
  <2>1. NextIn(S, f[a], a) /\ a \in Nat /\ a >= base
    BY DEF Circle, base
  <2>2. f[a] # x
    BY <1>1, <1>3, <2>1 DEF NextIn, base
  <2> QED
    BY <2>1, <2>2 DEF NextIn, base
<1> QED
  BY <1>2, <1>3 DEF Circle

-----------------------------------------------------------------------------
\* Where the blocks lie, and what the loops work on.
LEMMA HeapFacts ==
  ASSUME HeapInv
  PROVE  /\ FreeBlocks \subseteq Blocks /\ FreeBlocks \subseteq Nat
         /\ \A a \in Blocks : a \in Nat /\ a >= HeapStart /\ a > base /\ a # NULL /\ size[a] \in Nat
         /\ List \subseteq DOMAIN size /\ base \notin FreeBlocks
         /\ brk \in Nat /\ brk >= HeapStart /\ brk \notin DOMAIN size
         /\ loop.p \in Nat /\ loop.prevp \in Nat /\ loop.bp \in Nat /\ loop.nbytes \in Nat
<1>1. FreeBlocks \subseteq Blocks /\ base \notin FreeBlocks /\ base \in DOMAIN size
  BY DEF FreeBlocks, Blocks, HeapInv, HeapShape
<1>2. \A a \in Blocks : a \in Nat /\ a >= HeapStart /\ size[a] \in Nat /\ size[a] >= 1 /\ a + size[a] <= brk
  BY DEF HeapInv, Fills
<1>3. brk \in Nat /\ brk >= HeapStart
  BY DEF HeapInv, Fills
<1>4. brk \notin DOMAIN size
  BY <1>2, <1>3 DEF Blocks, base, HeapStart
<1>5. loop.p \in Nat /\ loop.prevp \in Nat /\ loop.bp \in Nat /\ loop.nbytes \in Nat
  BY DEF HeapInv, HeapShape, Loops
<1> QED
  BY <1>1, <1>2, <1>3, <1>4, <1>5 DEF List, Blocks, base, HeapStart, NULL

\* A new process has no heap.
LEMMA HeapInitHolds == HeapInit => HeapInv
<1> SUFFICES ASSUME HeapInit PROVE HeapInv
  OBVIOUS
<1>1. Blocks = {} /\ Loose = {} /\ FreeBlocks = {}
  BY DEF HeapInit, NoLoop, Blocks, Loose, FreeBlocks
<1>2. loop \in Loops /\ loop.at = "none" /\ freep = NULL
  BY DEF HeapInit, NoLoop, Loops, NULL
<1>3. HeapShape
  BY <1>1, <1>2 DEF HeapInit, HeapShape
<1>4. Fills(Blocks, size, brk)
  BY <1>1 DEF HeapInit, Fills, HeapStart
<1>5. Separate(FreeBlocks, size)
  BY <1>1 DEF Separate
<1> QED
  BY <1>1, <1>2, <1>3, <1>4, <1>5 DEF HeapInv, Unused, Searches

\* malloc starts to search behind the free block its last search ended at.
LEMMA MallocKeeps ==
  ASSUME HeapInv, NEW n \in Requests, malloc(n)
  PROVE  HeapInv'
<1>1. n \in Nat
  BY HeapAssumption
<1>2. /\ loop.at = "none" /\ loop' \in Loops /\ loop'.at = "room"
      /\ loop'.prevp = freep' /\ loop'.p = ptr'[freep']
      /\ UNCHANGED <<size, brk, held>>
  <2>1. freep' \in Nat /\ ptr'[freep'] \in Nat
    <3>1. CASE freep = NULL
      <4>1. freep' = base /\ ptr'[base] = base
        BY <3>1 DEF malloc, HeapInv, HeapShape
      <4> QED
        BY <4>1 DEF base
    <3>2. CASE freep # NULL
      <4>1. freep' = freep /\ ptr' = ptr /\ freep \in List /\ NextIn(FreeBlocks, ptr[freep], freep)
        BY <3>2 DEF malloc, HeapInv, HeapShape, Circle, List
      <4>2. freep \in Nat /\ ptr[freep] \in Nat
        BY <4>1, HeapFacts DEF NextIn, List, base
      <4> QED
        BY <4>1, <4>2
    <3> QED
      BY <3>1, <3>2
  <2> QED
    BY <1>1, <2>1 DEF malloc, NoLoop, Loops, NULL
<1>3. Blocks' = Blocks /\ Loose = {} /\ Loose' = {} /\ FreeBlocks' = FreeBlocks /\ List' = List
  BY <1>2 DEF Blocks, Loose, FreeBlocks, List
<1>4. freep' # NULL /\ freep' \in List /\ Circle(FreeBlocks, ptr') /\ DOMAIN ptr' = DOMAIN ptr
  <2>1. CASE freep = NULL
    <3>1. freep' = base /\ ptr'[base] = base /\ DOMAIN ptr' = DOMAIN ptr
      BY <2>1 DEF malloc, HeapInv, HeapShape
    <3>2. FreeBlocks = {}
      BY <2>1, HeapFacts DEF HeapInv, Unused
    <3> QED
      BY <3>1, <3>2 DEF Circle, NextIn, List, base, NULL
  <2>2. CASE freep # NULL
    BY <2>2 DEF malloc, HeapInv, HeapShape
  <2> QED
    BY <2>1, <2>2
<1>5. loop'.p \in List
  BY <1>2, <1>4 DEF Circle, NextIn, List
<1>6. HeapShape'
  BY <1>2, <1>3, <1>4 DEF HeapInv, HeapShape
<1>7. Searches'
  BY <1>2, <1>3, <1>4, <1>5 DEF Searches
<1> QED
  BY <1>2, <1>3, <1>4, <1>6, <1>7 DEF HeapInv, Unused

\* What a search for room has found.
LEMMA RoomFacts ==
  ASSUME HeapInv, loop.at = "room"
  PROVE  /\ freep # NULL /\ loop.p \in List /\ loop.prevp \in List /\ ptr[loop.prevp] = loop.p
         /\ Circle(FreeBlocks, ptr) /\ ptr[loop.p] \in List /\ Loose = {}
         /\ FreeBlocks = Blocks \ DOMAIN held
         /\ Wanted \in Nat /\ Wanted >= 1 /\ RoomFor(Wanted, loop.nbytes)
         /\ size[loop.p] >= Wanted => loop.p \in FreeBlocks
<1>1. freep # NULL /\ loop.p \in List /\ loop.prevp \in List /\ ptr[loop.prevp] = loop.p /\ Loose = {}
  BY DEF HeapInv, Searches, Loose
<1>2. Circle(FreeBlocks, ptr)
  BY <1>1 DEF HeapInv
<1>3. ptr[loop.p] \in List
  BY <1>1, <1>2 DEF Circle, NextIn, List
<1>4. Wanted \in Nat /\ Wanted >= 1 /\ RoomFor(Wanted, loop.nbytes)
  BY HeapFacts, UnitsAreEnough DEF Wanted
<1>5. size[loop.p] >= Wanted => loop.p \in FreeBlocks
  <2>1. size[base] = 0
    BY DEF HeapInv, HeapShape
  <2> QED
    BY <1>1, <1>4, <2>1 DEF List
<1> QED
  BY <1>1, <1>2, <1>3, <1>4, <1>5 DEF FreeBlocks

\* The program runs again.
LEMMA IdleLoop == NoLoop \in Loops /\ NoLoop.at = "none"
BY DEF NoLoop, Loops, NULL

\* A block of just the size wanted goes from the list to the program.
LEMMA TakeBlockKeeps ==
  ASSUME HeapInv, takeBlock
  PROVE  HeapInv'
<1> DEFINE p == loop.p
           q == loop.prevp
<1>1. loop.at = "room" /\ size[p] = Wanted
  BY DEF takeBlock
<1>2. /\ freep # NULL /\ p \in FreeBlocks /\ q \in List /\ ptr[q] = p
      /\ Circle(FreeBlocks, ptr) /\ FreeBlocks = Blocks \ DOMAIN held
      /\ RoomFor(size[p], loop.nbytes) /\ loop.nbytes \in Nat /\ size[p] \in Nat /\ size[p] >= 1
  BY <1>1, RoomFacts, HeapFacts
<1>3. /\ UNCHANGED <<size, brk>> /\ freep' = q /\ loop' = NoLoop
      /\ ptr' = [ptr EXCEPT ![q] = ptr[p], ![p] = NULL]
      /\ held' = With(held, p, loop.nbytes)
  BY DEF takeBlock
<1>4. Blocks' = Blocks /\ Loose' = {} /\ DOMAIN held' = DOMAIN held \cup {p}
  BY <1>3, IdleLoop DEF Blocks, Loose, With
<1>5. FreeBlocks' = FreeBlocks \ {p}
  BY <1>2, <1>4 DEF FreeBlocks
<1>6. q # p
  BY <1>2, HeapFacts, CircleRemove DEF List
<1>7. DOMAIN ptr = DOMAIN size /\ List \subseteq DOMAIN ptr
  BY HeapFacts DEF HeapInv, HeapShape
<1>8. ptr'[q] = ptr[p] /\ \A a \in List \ {p} : a # q => ptr'[a] = ptr[a]
  BY <1>2, <1>3, <1>6, <1>7
<1>9. Circle(FreeBlocks \ {p}, ptr')
  BY <1>2, <1>8, HeapFacts, CircleRemove DEF List
<1>10. \A a \in DOMAIN held' : held'[a] \in Nat /\ RoomFor(size[a], held'[a])
  BY <1>2, <1>3, <1>4 DEF HeapInv, HeapShape, With
<1>11. q \in List' /\ q # NULL
  BY <1>2, <1>5, <1>6, HeapFacts DEF List, base, NULL
<1>12. HeapShape'
  <2>1. DOMAIN ptr' = DOMAIN size' /\ base \in DOMAIN size' /\ size'[base] = 0
    BY <1>3, <1>7 DEF HeapInv, HeapShape
  <2>2. DOMAIN held' \cup Loose' \subseteq Blocks'
    BY <1>2, <1>4 DEF HeapInv, HeapShape
  <2> QED
    BY <1>3, <1>4, <1>10, <1>11, <2>1, <2>2, IdleLoop DEF HeapShape
<1>13. Separate(FreeBlocks', size')
  BY <1>3, <1>5 DEF HeapInv, Separate
<1> QED
  BY <1>3, <1>4, <1>5, <1>9, <1>11, <1>12, <1>13, IdleLoop DEF HeapInv, Unused, Searches

\* The tail of a larger block becomes a block of the program's.
LEMMA TakeTailKeeps ==
  ASSUME HeapInv, takeTail
  PROVE  HeapInv'
<1> DEFINE p == loop.p
           q == loop.prevp
           left == size[p] - Wanted
           tail == p + left
<1>1. loop.at = "room" /\ size[p] > Wanted
  BY DEF takeTail
<1>2. /\ freep # NULL /\ p \in List /\ q \in List /\ Wanted \in Nat /\ Wanted >= 1
      /\ Circle(FreeBlocks, ptr) /\ FreeBlocks = Blocks \ DOMAIN held
      /\ RoomFor(Wanted, loop.nbytes) /\ loop.nbytes \in Nat
  BY <1>1, RoomFacts, HeapFacts
<1>3. p \in Nat /\ size[p] \in Nat /\ p \in FreeBlocks /\ p \in Blocks
  <2>1. p \in FreeBlocks
    <3>1. size[base] = 0
      BY DEF HeapInv, HeapShape
    <3> QED
      BY <1>1, <1>2, <3>1 DEF List
  <2> QED
    BY <2>1, HeapFacts
<1>4. left \in Nat /\ left >= 1 /\ tail = p + size[p] - Wanted /\ tail \in Nat
  BY <1>1, <1>2, <1>3
<1>5. /\ freep' = q /\ loop' = NoLoop /\ brk' = brk
      /\ size' = With([size EXCEPT ![p] = left], tail, Wanted)
      /\ ptr' = With(ptr, tail, NULL)
      /\ held' = With(held, tail, loop.nbytes)
  BY DEF takeTail
<1> HIDE DEF left, tail
<1>6. \A a \in Blocks : a # tail /\ a # p => size'[a] = size[a]
  BY <1>5 DEF With, Blocks
<1>7. size'[tail] = Wanted /\ DOMAIN size' = DOMAIN size \cup {tail}
  BY <1>5 DEF With
<1>8. tail \notin Blocks
  BY <1>1, <1>2, <1>3, <1>4 DEF HeapInv, Fills
<1>9. tail \notin DOMAIN size /\ tail # base
  <2>1. p > base /\ tail > p /\ base \in Nat
    BY <1>3, <1>4, HeapFacts DEF tail, base
  <2>2. tail # base
    BY <1>3, <1>4, <2>1
  <2> QED
    BY <1>8, <2>2 DEF Blocks
<1>10. size'[p] = left /\ p # tail /\ size'[base] = 0
  BY <1>3, <1>5, <1>8, <1>9 DEF With, Blocks, HeapInv, HeapShape
<1>11. Fills(Blocks \cup {tail}, size', brk)
  <2>1. /\ Fills(Blocks, size, brk) /\ Wanted < size[p] /\ size'[p] = size[p] - Wanted
        /\ \A a \in Blocks : a # p => size'[a] = size[a]
    BY <1>1, <1>6, <1>8, <1>10 DEF HeapInv, left
  <2> QED
    BY <1>2, <1>3, <1>4, <1>7, <2>1, FillsSplit
<1>12. Blocks' = Blocks \cup {tail} /\ Loose' = {} /\ DOMAIN held' = DOMAIN held \cup {tail}
  BY <1>5, <1>7, <1>9, IdleLoop DEF Blocks, Loose, With
<1>13. FreeBlocks' = FreeBlocks /\ List' = List
  BY <1>2, <1>8, <1>12 DEF FreeBlocks, List
<1>14. DOMAIN ptr' = DOMAIN size' /\ \A a \in List : ptr'[a] = ptr[a]
  BY <1>5, <1>7, <1>9, HeapFacts DEF With, HeapInv, HeapShape
<1>15. Circle(FreeBlocks, ptr')
  BY <1>2, <1>14 DEF Circle, List
<1>16. Separate(FreeBlocks, size')
  <2> SUFFICES ASSUME NEW a \in FreeBlocks, NEW b \in FreeBlocks PROVE a + size'[a] # b
    BY DEF Separate
  <2>1. CASE a = p
    BY <1>4, <1>8, <1>10, <2>1, HeapFacts DEF tail
  <2>2. CASE a # p
    BY <1>6, <1>8, <2>2, HeapFacts DEF HeapInv, Separate
  <2> QED
    BY <2>1, <2>2
<1>17. q # NULL /\ q \in List
  BY <1>2, HeapFacts DEF List, base, NULL
<1>18. \A a \in DOMAIN held' : held'[a] \in Nat /\ RoomFor(size'[a], held'[a])
  <2> SUFFICES ASSUME NEW a \in DOMAIN held' PROVE held'[a] \in Nat /\ RoomFor(size'[a], held'[a])
    OBVIOUS
  <2>1. CASE a = tail
    BY <1>2, <1>5, <1>7, <2>1 DEF With
  <2>2. CASE a # tail
    <3>1. a \in DOMAIN held /\ held'[a] = held[a] /\ a \in Blocks /\ a # p
      BY <1>2, <1>3, <1>5, <1>12, <2>2 DEF With, HeapInv, HeapShape
    <3> QED
      BY <1>6, <2>2, <3>1 DEF HeapInv, HeapShape
  <2> QED
    BY <2>1, <2>2
<1>19. HeapShape'
  <2>1. DOMAIN held' \cup Loose' \subseteq Blocks' /\ base \in DOMAIN size'
    BY <1>7, <1>12 DEF HeapInv, HeapShape
  <2> QED
    BY <1>5, <1>10, <1>12, <1>13, <1>14, <1>17, <1>18, <2>1, IdleLoop DEF HeapShape
<1> QED
  BY <1>5, <1>11, <1>12, <1>13, <1>15, <1>16, <1>17, <1>19, IdleLoop DEF HeapInv, Unused, Searches

\* malloc looks at the next block of the list.
LEMMA NextKeeps ==
  ASSUME HeapInv, next
  PROVE  HeapInv'
<1>1. /\ loop.at = "room" /\ loop' = [loop EXCEPT !.prevp = loop.p, !.p = ptr[loop.p]]
      /\ UNCHANGED <<ptr, size, freep, brk, held>>
  BY DEF next
<1>2. loop.p \in List /\ ptr[loop.p] \in List /\ freep # NULL /\ Loose = {}
  BY <1>1, RoomFacts
<1>3. ptr[loop.p] \in Nat /\ loop \in Loops
  BY <1>2, HeapFacts DEF List, base, HeapInv, HeapShape
<1>4. loop' \in Loops /\ loop'.at = "room" /\ loop'.prevp = loop.p /\ loop'.p = ptr[loop.p]
  BY <1>1, <1>3 DEF Loops
<1>5. Blocks' = Blocks /\ Loose' = {} /\ FreeBlocks' = FreeBlocks /\ List' = List
  BY <1>1, <1>2, <1>4 DEF Blocks, Loose, FreeBlocks, List
<1>6. HeapShape'
  BY <1>1, <1>2, <1>4, <1>5 DEF HeapInv, HeapShape
<1>7. Searches'
  BY <1>1, <1>2, <1>4, <1>5 DEF Searches
<1> QED
  BY <1>1, <1>2, <1>5, <1>6, <1>7 DEF HeapInv, Unused

\* sbrk refuses, or the heap grows by a block that belongs to nobody yet.
LEMMA MorecoreKeeps ==
  ASSUME HeapInv, morecore
  PROVE  HeapInv'
<1>1. loop.at = "room" /\ loop.p = freep /\ UNCHANGED <<freep, held>>
  BY DEF morecore
<1>2. /\ freep # NULL /\ freep \in List /\ Loose = {} /\ Circle(FreeBlocks, ptr)
      /\ FreeBlocks = Blocks \ DOMAIN held /\ Wanted \in Nat /\ Wanted >= 1
  BY <1>1, RoomFacts
<1>3. CASE loop' = NoLoop /\ UNCHANGED <<ptr, size, brk>>
  <2>1. Blocks' = Blocks /\ Loose' = {} /\ FreeBlocks' = FreeBlocks /\ List' = List
    BY <1>1, <1>2, <1>3, IdleLoop DEF Blocks, Loose, FreeBlocks, List
  <2>2. HeapShape'
    BY <1>1, <1>2, <1>3, <2>1, IdleLoop DEF HeapInv, HeapShape
  <2> QED
    BY <1>1, <1>2, <1>3, <2>1, <2>2, IdleLoop DEF HeapInv, Unused, Searches
<1>4. ASSUME NEW n, n = Larger(Wanted, ChunkUnits),
             ptr' = With(ptr, brk, NULL), size' = With(size, brk, n), brk' = brk + n,
             loop' = [loop EXCEPT !.at = "place", !.of = "morecore", !.bp = brk, !.p = freep]
      PROVE  HeapInv'
  <2>1. n \in Nat /\ n >= 1
    BY <1>2, <1>4, HeapAssumption DEF Larger
  <2>2. brk \in Nat /\ brk \notin DOMAIN size /\ brk # base /\ loop \in Loops /\ freep \in Nat
    BY <1>2, HeapFacts DEF HeapInv, HeapShape, List, base, HeapStart
  <2>3. /\ DOMAIN size' = DOMAIN size \cup {brk} /\ DOMAIN ptr' = DOMAIN ptr \cup {brk}
        /\ size'[brk] = n /\ \A a \in DOMAIN size : size'[a] = size[a]
        /\ \A a \in DOMAIN ptr : ptr'[a] = ptr[a]
    BY <1>4, <2>2 DEF With, HeapInv, HeapShape
  <2>4. /\ loop' \in Loops /\ loop'.at = "place" /\ loop'.bp = brk /\ loop'.p = freep
    BY <1>4, <2>2 DEF Loops
  <2>5. Blocks' = Blocks \cup {brk} /\ Loose' = {brk}
    BY <2>2, <2>3, <2>4 DEF Blocks, Loose
  <2>6. brk \notin Blocks /\ brk \notin DOMAIN held /\ DOMAIN held \subseteq Blocks
    BY <2>2 DEF Blocks, HeapInv, HeapShape
  <2>7. FreeBlocks' = FreeBlocks /\ List' = List
    BY <1>1, <1>2, <2>5, <2>6 DEF FreeBlocks, List
  <2>8. Fills(Blocks', size', brk')
    <3>1. Fills(Blocks, size, brk) /\ \A a \in Blocks : size'[a] = size[a]
      BY <2>3 DEF HeapInv, Blocks
    <3> QED
      BY <1>4, <2>1, <2>3, <2>5, <3>1, FillsGrow
  <2>9. Circle(FreeBlocks, ptr')
    BY <1>2, <2>3, HeapFacts DEF Circle, List, HeapInv, HeapShape
  <2>10. Separate(FreeBlocks, size')
    BY <2>3, HeapFacts DEF HeapInv, Separate, List
  <2>11. HeapShape'
    <3>1. DOMAIN ptr' = DOMAIN size' /\ base \in DOMAIN size' /\ size'[base] = 0
      BY <2>3 DEF HeapInv, HeapShape
    <3>2. DOMAIN held' \cup Loose' \subseteq Blocks' /\ Loose' \cap DOMAIN held' = {}
      BY <1>1, <2>5, <2>6
    <3>3. \A a \in DOMAIN held' : held'[a] \in Nat /\ RoomFor(size'[a], held'[a])
      BY <1>1, <2>3, <2>6 DEF HeapInv, HeapShape, Blocks
    <3> QED
      BY <1>1, <1>2, <2>4, <2>7, <3>1, <3>2, <3>3 DEF HeapShape
  <2> QED
    BY <1>1, <1>2, <2>4, <2>7, <2>8, <2>9, <2>10, <2>11 DEF HeapInv, Unused, Searches
<1> QED
  BY <1>3, <1>4 DEF morecore

\* The program's block belongs to nobody while free looks for its place.
LEMMA FreeKeeps ==
  ASSUME HeapInv, NEW b \in DOMAIN held, free(b)
  PROVE  HeapInv'
<1>1. /\ loop.at = "none" /\ held' = Only(held, DOMAIN held \ {b})
      /\ loop' = [NoLoop EXCEPT !.at = "place", !.bp = b, !.p = freep]
      /\ UNCHANGED <<ptr, size, freep, brk>>
  BY DEF free
<1>2. b \in Blocks /\ freep # NULL /\ freep \in List /\ Loose = {} /\ b \in Nat /\ freep \in Nat
  <2>1. b \in Blocks
    BY DEF HeapInv, HeapShape
  <2>2. freep # NULL
    BY <2>1 DEF HeapInv, Unused
  <2> QED
    BY <1>1, <2>1, <2>2, HeapFacts DEF HeapInv, HeapShape, Loose, List, base
<1>3. /\ DOMAIN held' = DOMAIN held \ {b}
      /\ \A a \in DOMAIN held' : held'[a] = held[a]
  BY <1>1 DEF Only
<1>4. loop' \in Loops /\ loop'.at = "place" /\ loop'.bp = b /\ loop'.p = freep
  BY <1>1, <1>2 DEF NoLoop, Loops, NULL
<1>5. Blocks' = Blocks /\ Loose' = {b}
  BY <1>1, <1>4 DEF Blocks, Loose
<1>6. FreeBlocks' = FreeBlocks /\ List' = List
  BY <1>2, <1>3, <1>5 DEF FreeBlocks, List
<1>7. HeapShape'
  <2>1. DOMAIN held' \cup Loose' \subseteq Blocks' /\ Loose' \cap DOMAIN held' = {}
    BY <1>2, <1>3, <1>5 DEF HeapInv, HeapShape
  <2> QED
    BY <1>1, <1>2, <1>3, <1>4, <1>6, <2>1 DEF HeapInv, HeapShape
<1> QED
  BY <1>1, <1>2, <1>4, <1>5, <1>6, <1>7 DEF HeapInv, Unused, Searches

\* What a search for a place has to work with.
LEMMA PlaceFacts ==
  ASSUME HeapInv, loop.at = "place"
  PROVE  /\ freep # NULL /\ loop.p \in List /\ ptr[loop.p] \in List /\ Circle(FreeBlocks, ptr)
         /\ loop.bp \in Blocks /\ loop.bp \notin DOMAIN held /\ loop.bp \notin FreeBlocks
         /\ FreeBlocks = (Blocks \ DOMAIN held) \ {loop.bp}
<1>1. Loose = {loop.bp} /\ freep # NULL /\ loop.p \in List
  BY DEF HeapInv, Searches, Loose
<1>2. Circle(FreeBlocks, ptr)
  BY <1>1 DEF HeapInv
<1>3. ptr[loop.p] \in List
  BY <1>1, <1>2 DEF Circle, NextIn, List
<1>4. loop.bp \in Blocks /\ loop.bp \notin DOMAIN held
  BY <1>1 DEF HeapInv, HeapShape
<1> QED
  BY <1>1, <1>2, <1>3, <1>4 DEF FreeBlocks

\* free looks at the next place.
LEMMA OnwardKeeps ==
  ASSUME HeapInv, onward
  PROVE  HeapInv'
<1>1. /\ loop.at = "place" /\ loop' = [loop EXCEPT !.p = ptr[loop.p]]
      /\ UNCHANGED <<ptr, size, freep, brk, held>>
  BY DEF onward
<1>2. ptr[loop.p] \in List /\ freep # NULL
  BY <1>1, PlaceFacts
<1>3. ptr[loop.p] \in Nat /\ loop \in Loops
  BY <1>2, HeapFacts DEF List, base, HeapInv, HeapShape
<1>4. loop' \in Loops /\ loop'.at = "place" /\ loop'.bp = loop.bp /\ loop'.p = ptr[loop.p]
  BY <1>1, <1>3 DEF Loops
<1>5. Blocks' = Blocks /\ Loose' = Loose /\ FreeBlocks' = FreeBlocks /\ List' = List
  BY <1>1, <1>4 DEF Blocks, Loose, FreeBlocks, List
<1>6. HeapShape'
  BY <1>1, <1>2, <1>4, <1>5 DEF HeapInv, HeapShape
<1>7. Searches'
  BY <1>1, <1>2, <1>4, <1>5 DEF Searches
<1> QED
  BY <1>1, <1>2, <1>5, <1>6, <1>7 DEF HeapInv, Unused

\* The place the search stops at: bp lies between p and the block behind p.
LEMMA PlaceIsRight ==
  ASSUME HeapInv, NEW p \in List, NEW b \in Blocks, Circle(FreeBlocks, ptr)
  PROVE  InPlace(p, b) <=> b > p /\ (ptr[p] = base \/ ptr[p] > b)
<1>1. p \in Nat /\ p >= base /\ b \in Nat /\ b > base /\ base \in Nat
  BY HeapFacts DEF List, base
<1>2. PICK e : e = ptr[p]
  OBVIOUS
<1>3. (e \in Nat /\ e > p) \/ e = base
  BY <1>2, HeapFacts DEF Circle, NextIn, List
<1>4. CASE e = base
  BY <1>1, <1>2, <1>4 DEF InPlace
<1>5. CASE e \in Nat /\ e > p
  BY <1>1, <1>2, <1>5 DEF InPlace
<1> QED
  BY <1>3, <1>4, <1>5

\* The block comes into the list and joins its neighbours, one, both or none of them.
LEMMA InsertKeeps ==
  ASSUME HeapInv, insert
  PROVE  HeapInv' /\ \A a \in DOMAIN held : size'[a] = size[a]
<1> DEFINE p == loop.p
           bp == loop.bp
           e == ptr[p]
           upper == bp + size[bp] = e
           lower == p + size[p] = bp
           joined == IF upper THEN size[bp] + size[e] ELSE size[bp]
           behind == IF upper THEN ptr[e] ELSE e
           U == IF upper THEN {e} ELSE {}
           L == IF lower THEN {bp} ELSE {}
           S == FreeBlocks
           N == (S \cup {bp}) \ U
           z == [size EXCEPT ![bp] = joined]
           f == [ptr EXCEPT ![p] = bp, ![bp] = behind]
<1>1. /\ loop.at = "place" /\ InPlace(p, bp) /\ freep' = p /\ UNCHANGED <<brk, held>>
      /\ loop' = IF loop.of = "program" THEN NoLoop
                 ELSE [NoLoop EXCEPT !.at = "room", !.prevp = p, !.p = ptr'[p], !.nbytes = loop.nbytes]
      /\ IF lower
         THEN /\ size' = Only([size EXCEPT ![p] = @ + joined], DOMAIN size \ (U \cup L))
              /\ ptr' = Only([ptr EXCEPT ![p] = behind], DOMAIN size \ (U \cup L))
         ELSE /\ size' = Only(z, DOMAIN size \ (U \cup L)) /\ ptr' = Only(f, DOMAIN size \ (U \cup L))
  BY DEF insert
<1>2. /\ freep # NULL /\ p \in List /\ e \in List /\ Circle(S, ptr)
      /\ bp \in Blocks /\ bp \notin DOMAIN held /\ bp \notin S /\ S = (Blocks \ DOMAIN held) \ {bp}
  BY <1>1, PlaceFacts
<1>3. /\ S \subseteq Nat /\ (\A a \in S : a > base) /\ S \subseteq Blocks /\ base \in Nat /\ base \notin S
      /\ \A a \in Blocks : a \in Nat /\ a > base /\ size[a] \in Nat /\ size[a] >= 1
      /\ DOMAIN ptr = DOMAIN size /\ base \in DOMAIN size /\ size[base] = 0
  BY HeapFacts DEF HeapInv, HeapShape, Fills, base
<1>4. bp > p /\ (e = base \/ e > bp)
  BY <1>1, <1>2, PlaceIsRight
<1>5. p \in Nat /\ e \in Nat /\ size[p] \in Nat /\ p # bp /\ e # bp /\ bp \in Nat
  <2>1. p \in S \/ p = base
    BY <1>2 DEF List
  <2>2. e \in S \/ e = base
    BY <1>2 DEF List
  <2>3. p \in Nat /\ size[p] \in Nat
    <3>1. CASE p \in S
      BY <1>3, <3>1
    <3>2. CASE p = base
      <4>1. size[p] = 0
        BY <1>3, <3>2
      <4> QED
        BY <1>3, <3>2, <4>1
    <3> QED
      BY <2>1, <3>1, <3>2
  <2>4. e \in Nat /\ bp \in Nat /\ bp > base
    BY <1>2, <1>3, <2>2
  <2> QED
    BY <1>3, <1>4, <2>3, <2>4
<1>6. \A c \in S : c <= p \/ (e # base /\ c >= e)
  <2>1. NextIn(S, e, p)
    BY <1>2 DEF Circle, List
  <2> QED
    BY <1>3, <2>1 DEF NextIn
<1>7. upper => e \in S /\ e > bp /\ e # p
  <2> SUFFICES ASSUME upper PROVE e \in S /\ e > bp /\ e # p
    OBVIOUS
  <2>1. size[bp] \in Nat /\ size[bp] >= 1 /\ bp > base
    BY <1>2, <1>3
  <2>2. e > bp
    BY <1>5, <2>1
  <2>3. e # base
    BY <1>3, <1>5, <2>1, <2>2
  <2> QED
    BY <1>2, <1>4, <1>5, <2>2, <2>3 DEF List
<1>8. lower => p \in S
  BY <1>2, <1>3 DEF List
<1>9. joined \in Nat /\ joined >= 1
  <2>1. size[bp] \in Nat /\ size[bp] >= 1
    BY <1>2, <1>3
  <2>2. upper => size[e] \in Nat
    BY <1>3, <1>7
  <2> QED
    BY <2>1, <2>2
<1>10. Separate(S, size) /\ Fills(Blocks, size, brk)
  BY DEF HeapInv
<1>11. p \in DOMAIN size /\ bp \in DOMAIN size
  BY <1>2, <1>3 DEF List, Blocks
<1>12. z[bp] = joined /\ \A a \in DOMAIN size : a # bp => z[a] = size[a]
  BY <1>11
<1>13. f[p] = bp /\ f[bp] = behind /\ \A a \in DOMAIN size : a # p /\ a # bp => f[a] = ptr[a]
  BY <1>3, <1>5, <1>11
<1>14. S \cup {base} \subseteq DOMAIN size
  BY <1>3 DEF Blocks
<1>15. Circle(N, f)
  <2> DEFINE g == [ptr EXCEPT ![p] = bp, ![bp] = e]
  <2>1. g[p] = bp /\ g[bp] = e /\ \A a \in DOMAIN size : a # p /\ a # bp => g[a] = ptr[a]
    BY <1>3, <1>5, <1>11
  <2>2. \A a \in S \cup {base} : a # p => g[a] = ptr[a]
    BY <1>2, <1>3, <1>14, <2>1
  <2> HIDE DEF g
  <2>3. Circle(S \cup {bp}, g)
    <3>1. bp \in Nat \ S /\ p \in S \cup {base}
      BY <1>2, <1>3 DEF List
    <3> QED
      BY <1>2, <1>3, <1>4, <2>1, <2>2, <3>1, CircleInsert
  <2>4. CASE ~upper
    <3>1. N = S \cup {bp} /\ \A a \in N \cup {base} : f[a] = g[a]
      BY <1>13, <1>14, <2>1, <2>4
    <3> QED
      BY <2>3, <3>1 DEF Circle
  <2>5. CASE upper
    <3>1. e \in S \cup {bp} /\ g[bp] = e /\ f[bp] = g[e] /\ g[e] = ptr[e]
      <4>1. e \in S /\ e # p /\ e # bp /\ behind = ptr[e]
        BY <1>5, <1>7, <2>5
      <4>2. e \in DOMAIN size
        BY <1>14, <4>1
      <4> QED
        BY <1>13, <2>1, <4>1, <4>2
    <3>2. \A a \in ((S \cup {bp}) \cup {base}) \ {e} : a # bp => f[a] = g[a]
      BY <1>13, <1>14, <2>1
    <3>3. S \cup {bp} \subseteq Nat /\ \A a \in S \cup {bp} : a > base
      BY <1>2, <1>3
    <3>4. bp \in (S \cup {bp}) \cup {base}
      OBVIOUS
    <3>5. Circle((S \cup {bp}) \ {e}, f)
      <4> HIDE DEF f, S
      <4> QED
        BY <2>3, <3>1, <3>2, <3>3, <3>4, CircleRemove
    <3> QED
      BY <2>5, <3>5
  <2> QED
    BY <2>4, <2>5
<1>16. Fills(Blocks \ U, z, brk) /\ bp \in Blocks \ U
  <2>1. CASE ~upper
    <3>1. U = {} /\ joined = size[bp]
      BY <2>1
    <3>2. \A a \in Blocks : z[a] = size[a]
      BY <1>12, <3>1 DEF Blocks
    <3> QED
      BY <1>2, <1>10, <3>1, <3>2 DEF Fills
  <2>2. CASE upper
    <3>1. U = {e} /\ z[bp] = size[bp] + size[e] /\ e \in Blocks
      BY <1>3, <1>7, <1>12, <2>2
    <3>2. \A a \in Blocks : a # bp => z[a] = size[a]
      BY <1>12 DEF Blocks
    <3>3. bp \in Blocks \ {e} /\ Fills(Blocks \ {e}, z, brk)
      <4> HIDE DEF z, e
      <4> QED
        BY <1>2, <1>10, <2>2, <3>1, <3>2, FillsJoin
    <3> QED
      BY <3>1, <3>3
  <2> QED
    BY <2>1, <2>2
\* Only p and bp can touch, once bp has joined its upper neighbour.
<1>17. ASSUME NEW a \in N, NEW b \in N, a + z[a] = b
       PROVE  a = p /\ b = bp /\ lower
  <2>1. a \in Blocks /\ b \in Blocks /\ a \in Nat /\ b \in Nat
    BY <1>2, <1>3
  <2>2. CASE a = bp /\ upper
    <3>1. z[bp] = size[bp] + size[e] /\ size[e] \in Nat /\ size[e] >= 1 /\ size[bp] \in Nat
      BY <1>2, <1>3, <1>7, <1>12, <2>2
    <3>2. b = e + size[e] /\ b # bp
      BY <1>5, <1>7, <1>17, <2>2, <3>1
    <3>3. b \in S /\ e \in S
      BY <1>7, <2>2, <3>2
    <3> QED
      BY <1>10, <3>2, <3>3 DEF Separate
  <2>3. CASE a = bp /\ ~upper
    <3>1. b = bp + size[bp] /\ size[bp] \in Nat /\ size[bp] >= 1
      BY <1>2, <1>3, <1>12, <1>17, <2>3, <1>11
    <3>2. b \in S /\ b > p /\ b # e
      BY <1>4, <1>5, <2>1, <2>3, <3>1
    <3>3. e # base /\ b >= e
      BY <1>5, <1>6, <2>1, <3>2
    <3>4. e \in Blocks /\ bp + size[bp] <= e
      <4>1. e \in Blocks /\ bp < e
        BY <1>2, <1>3, <1>4, <3>3 DEF List
      <4> QED
        BY <1>2, <1>10, <4>1 DEF Fills
    <3> QED
      BY <1>5, <2>1, <3>1, <3>2, <3>3, <3>4
  <2>4. CASE a # bp
    <3>1. a \in S /\ z[a] = size[a] /\ size[a] \in Nat /\ size[a] >= 1
      BY <1>3, <1>12, <1>14, <2>1, <2>4
    <3>2. b = bp
      BY <1>10, <1>17, <3>1 DEF Separate
    <3>3. a <= p
      BY <1>4, <1>5, <1>6, <1>17, <2>1, <3>1, <3>2
    <3>4. a = p
      <4>1. SUFFICES ASSUME a # p PROVE FALSE
        OBVIOUS
      <4>2. p \in Blocks /\ a < p
        BY <1>2, <1>3, <1>5, <2>1, <3>3, <4>1 DEF List
      <4>3. a + size[a] <= p
        BY <1>10, <2>1, <4>2 DEF Fills
      <4> QED
        BY <1>4, <1>5, <1>17, <2>1, <3>1, <3>2, <4>3
    <3> QED
      BY <1>17, <3>1, <3>2, <3>4
  <2> QED
    BY <2>2, <2>3, <2>4
<1>18. /\ DOMAIN size' = DOMAIN size \ (U \cup L) /\ DOMAIN ptr' = DOMAIN size'
       /\ \A a \in DOMAIN size' : size'[a] = IF lower /\ a = p THEN size[p] + joined ELSE z[a]
       /\ \A a \in DOMAIN size' : ptr'[a] = IF lower /\ a = p THEN behind ELSE f[a]
  <2>1. CASE lower
    <3>1. L = {bp}
      BY <2>1
    <3>2. \A a \in DOMAIN size : a # p /\ a # bp => z[a] = size[a] /\ f[a] = ptr[a]
      BY <1>12, <1>13
    <3>3. /\ size' = Only([size EXCEPT ![p] = size[p] + joined], DOMAIN size \ (U \cup L))
          /\ ptr' = Only([ptr EXCEPT ![p] = behind], DOMAIN size \ (U \cup L))
      BY <1>1, <2>1
    <3> HIDE DEF f, z, joined, behind, U, e
    <3> QED
      BY <1>3, <1>11, <2>1, <3>1, <3>2, <3>3 DEF Only
  <2>2. CASE ~lower
    <3>1. /\ size' = Only(z, DOMAIN size \ (U \cup L)) /\ ptr' = Only(f, DOMAIN size \ (U \cup L))
          /\ DOMAIN z = DOMAIN size /\ DOMAIN f = DOMAIN size
      BY <1>1, <1>3, <2>2
    <3> HIDE DEF f, z, joined, behind, U, L, e
    <3> QED
      BY <2>2, <3>1 DEF Only
  <2> QED
    BY <2>1, <2>2
<1>19. Loose' = {}
  <2>1. loop'.at # "place"
    BY <1>1 DEF NoLoop
  <2> QED
    BY <2>1 DEF Loose
<1>20. U \cap DOMAIN held = {} /\ L \cap DOMAIN held = {} /\ base \notin U \cup L
  BY <1>2, <1>3, <1>7
<1>21. Blocks' = Blocks \ (U \cup L) /\ FreeBlocks' = N \ L
  <2>1. Blocks' = Blocks \ (U \cup L)
    BY <1>18 DEF Blocks
  <2>2. FreeBlocks' = (Blocks \ (U \cup L)) \ DOMAIN held
    BY <1>1, <1>19, <2>1 DEF FreeBlocks
  <2> QED
    BY <1>2, <2>1, <2>2
<1>22. p \in (N \ L) \cup {base} /\ p \notin U \cup L
  BY <1>2, <1>5, <1>7 DEF List
<1>23. Fills(Blocks', size', brk')
  <2>1. CASE lower
    <3>1. p \in Blocks \ U /\ p + z[p] = bp /\ size'[p] = z[p] + z[bp]
      BY <1>3, <1>5, <1>8, <1>11, <1>12, <1>18, <1>22, <2>1
    <3>2. \A a \in Blocks' : a # p => size'[a] = z[a]
      BY <1>18 DEF Blocks
    <3>3. Blocks' = (Blocks \ U) \ {bp}
      BY <1>21, <2>1
    <3> HIDE DEF z, U, p, bp
    <3> QED
      BY <1>1, <1>16, <3>1, <3>2, <3>3, FillsJoin
  <2>2. CASE ~lower
    <3>1. Blocks' = Blocks \ U /\ \A a \in Blocks' : size'[a] = z[a]
      BY <1>18, <1>21, <2>2 DEF Blocks
    <3> HIDE DEF z, U
    <3> QED
      BY <1>1, <1>16, <3>1 DEF Fills
  <2> QED
    BY <2>1, <2>2
<1>24. Circle(FreeBlocks', ptr')
  <2>1. CASE lower
    <3>1. FreeBlocks' = N \ {bp} /\ p \in N \cup {base} /\ bp \in N /\ f[p] = bp
      BY <1>5, <1>13, <1>21, <1>22, <2>1
    <3>2. ptr'[p] = f[bp]
      BY <1>11, <1>13, <1>18, <1>22, <2>1
    <3>3. \A a \in (N \cup {base}) \ {bp} : a # p => ptr'[a] = f[a]
      <4>1. \A a \in (N \cup {base}) \ {bp} : a \in DOMAIN size'
        BY <1>14, <1>18, <1>20, <2>1
      <4> QED
        BY <1>18, <4>1
    <3>4. N \subseteq Nat /\ \A a \in N : a > base
      BY <1>2, <1>3
    <3> HIDE DEF N, f, p, bp
    <3> QED
      BY <1>15, <3>1, <3>2, <3>3, <3>4, CircleRemove
  <2>2. CASE ~lower
    <3>1. FreeBlocks' = N
      BY <1>21, <2>2
    <3>2. \A a \in N \cup {base} : a \in DOMAIN size'
      BY <1>11, <1>14, <1>18, <1>20, <2>2
    <3>3. \A a \in N \cup {base} : ptr'[a] = f[a]
      BY <1>18, <2>2, <3>2
    <3> HIDE DEF N, f
    <3> QED
      BY <1>15, <3>1, <3>3 DEF Circle
  <2> QED
    BY <2>1, <2>2
<1>25. Separate(FreeBlocks', size')
  <2> SUFFICES ASSUME NEW a \in FreeBlocks', NEW b \in FreeBlocks', a + size'[a] = b PROVE FALSE
    BY DEF Separate
  <2>1. a \in N /\ b \in N /\ (lower => a # bp /\ b # bp) /\ a \in DOMAIN size'
    <3>1. a \in DOMAIN size'
      BY <1>11, <1>14, <1>18, <1>20, <1>21
    <3> QED
      BY <1>21, <3>1
  <2>2. CASE lower /\ a = p
    <3>1. size'[a] = size[p] + joined /\ z[bp] = joined
      BY <1>12, <1>11, <1>18, <2>1, <2>2
    <3>2. bp + z[bp] = b
      BY <1>5, <1>9, <2>2, <3>1
    <3> QED
      BY <1>5, <1>17, <2>1, <3>2
  <2>3. CASE ~(lower /\ a = p)
    <3>1. a + z[a] = b
      BY <1>18, <2>1, <2>3
    <3> QED
      BY <1>17, <2>1, <2>3, <3>1
  <2> QED
    BY <2>2, <2>3
<1>26. freep' # NULL /\ freep' \in List'
  BY <1>1, <1>2, <1>21, <1>22, HeapFacts DEF List, base, NULL
<1>27. ptr'[p] \in List' /\ ptr'[p] \in Nat
  <2>1. NextIn(FreeBlocks', ptr'[p], p)
    BY <1>21, <1>22, <1>24 DEF Circle
  <2>2. ptr'[p] \in List'
    BY <2>1 DEF NextIn, List
  <2>3. List' \subseteq Nat
    BY <1>2, <1>3, <1>21 DEF List
  <2> QED
    BY <2>2, <2>3
<1>28. loop' \in Loops /\ (loop'.at = "none" \/ (loop'.at = "room" /\ loop'.prevp = p /\ loop'.p = ptr'[p]))
  <2>1. loop.nbytes \in Nat
    BY HeapFacts
  <2>2. CASE loop.of = "program"
    BY <1>1, <2>2, IdleLoop
  <2>3. CASE loop.of # "program"
    BY <1>1, <1>5, <1>27, <2>1, <2>3 DEF NoLoop, Loops, NULL
  <2> QED
    BY <2>2, <2>3
<1>29. ASSUME NEW a \in DOMAIN held PROVE size'[a] = size[a]
  <2>1. a \in Blocks /\ a # bp /\ a \in DOMAIN size
    BY <1>2 DEF HeapInv, HeapShape, Blocks
  <2>2. lower => a # p
    BY <1>2, <1>8
  <2>3. a \in DOMAIN size'
    BY <1>18, <1>20, <2>1
  <2> QED
    BY <1>12, <1>18, <2>1, <2>2, <2>3
<1>30. HeapShape'
  <2>1. base \in DOMAIN size' /\ size'[base] = 0
    <3>1. base \in DOMAIN size'
      BY <1>3, <1>18, <1>20
    <3>2. base # bp /\ (lower => base # p)
      BY <1>2, <1>3, <1>8
    <3> QED
      BY <1>3, <1>12, <1>18, <3>1, <3>2
  <2>2. DOMAIN held' \cup Loose' \subseteq Blocks'
    BY <1>1, <1>19, <1>20, <1>21 DEF HeapInv, HeapShape
  <2>3. \A a \in DOMAIN held' : held'[a] \in Nat /\ RoomFor(size'[a], held'[a])
    BY <1>1, <1>29 DEF HeapInv, HeapShape
  <2> QED
    BY <1>18, <1>19, <1>26, <1>28, <2>1, <2>2, <2>3 DEF HeapShape
<1>31. Searches'
  BY <1>1, <1>26, <1>27, <1>28 DEF Searches
<1> QED
  BY <1>23, <1>24, <1>25, <1>26, <1>29, <1>30, <1>31 DEF HeapInv, Unused

-----------------------------------------------------------------------------
\* Every step of malloc and of free keeps the invariant.
LEMMA HeapInvariance == HeapSpec => []HeapInv
<1>1. HeapInv /\ [HeapNext]_heapVars => HeapInv'
  <2> SUFFICES ASSUME HeapInv, [HeapNext]_heapVars PROVE HeapInv'
    OBVIOUS
  <2>1. ASSUME NEW n \in Requests, malloc(n) PROVE HeapInv'
    BY <2>1, MallocKeeps
  <2>2. CASE takeBlock
    BY <2>2, TakeBlockKeeps
  <2>3. CASE takeTail
    BY <2>3, TakeTailKeeps
  <2>4. CASE next
    BY <2>4, NextKeeps
  <2>5. CASE morecore
    BY <2>5, MorecoreKeeps
  <2>6. ASSUME NEW b \in DOMAIN held, free(b) PROVE HeapInv'
    BY <2>6, FreeKeeps
  <2>7. CASE onward
    BY <2>7, OnwardKeeps
  <2>8. CASE insert
    BY <2>8, InsertKeeps
  <2>9. CASE UNCHANGED heapVars
    BY <2>9 DEF heapVars, HeapInv, HeapShape, Unused, Searches, Blocks, FreeBlocks, List, Loose,
                Circle, NextIn, Separate, Fills
  <2> QED
    BY <2>1, <2>2, <2>3, <2>4, <2>5, <2>6, <2>7, <2>8, <2>9 DEF HeapNext
<1> QED
  BY <1>1, HeapInitHolds, PTL DEF HeapSpec

\* The last of a set of numbers below a bound.
LEMMA LastBelow ==
  ASSUME NEW S, S \subseteq Nat, NEW m \in Nat, NEW x \in S, x < m
  PROVE  \E q \in S : q < m /\ \A c \in S : c < m => c <= q
<1> DEFINE D == {m - c : c \in {c \in S : c < m}}
<1>1. D \subseteq Nat /\ m - x \in D
  OBVIOUS
<1>2. PICK d \in D : \A y \in D : ~(<<y, d>> \in OpToRel(<, Nat))
  BY <1>1, NatLessThanWellFounded, WFMin
<1>3. PICK q \in S : q < m /\ d = m - q
  BY <1>2
<1>4. ASSUME NEW c \in S, c < m PROVE c <= q
  <2>1. m - c \in D /\ m - c \in Nat /\ d \in Nat
    BY <1>1, <1>2, <1>4
  <2>2. ~(m - c < d)
    BY <1>2, <2>1 DEF OpToRel
  <2> QED
    BY <1>3, <2>1, <2>2
<1> QED
  BY <1>3, <1>4

\* For every size of header, chunk and heap, every sequence of requests and
\* however often sbrk refuses: the blocks tile the heap, the free list is in
\* order and joined, a search for a place has one, and a block has room for
\* what was asked for (umalloc.c:24-90).
THEOREM HeapStaysIntact == HeapSpec => []HeapIsIntact
<1>1. ASSUME HeapInv PROVE HeapIsIntact
  <2>1. Tiled
    <3>1. DOMAIN held \cup Loose \subseteq Blocks
      BY <1>1 DEF HeapInv, HeapShape
    <3>2. Fills(Blocks, size, brk)
      BY <1>1 DEF HeapInv
    <3>3. \A a \in Blocks : Extent(a) \subseteq HeapStart .. (brk - 1)
      BY <3>2 DEF Extent, Fills, HeapStart
    <3>4. ASSUME NEW u \in HeapStart .. (brk - 1)
          PROVE  Cardinality({a \in Blocks : u \in Extent(a)}) = 1
      <4>1. u \in Nat
        BY <3>2 DEF Fills, HeapStart
      <4>2. \A a \in Blocks : u \in Extent(a) <=> a <= u /\ u < a + size[a]
        BY <3>2, <4>1 DEF Fills, Extent
      <4>3. PICK b \in Blocks : b <= u /\ u < b + size[b]
        BY <3>2 DEF Fills
      <4>4. ASSUME NEW a \in Blocks, a <= u, u < a + size[a] PROVE a = b
        <5>1. a \in Nat /\ b \in Nat /\ size[a] \in Nat /\ size[b] \in Nat
          BY <3>2 DEF Fills
        <5>2. ~(a < b) /\ ~(b < a)
          BY <3>2, <4>1, <4>3, <4>4, <5>1 DEF Fills
        <5> QED
          BY <5>1, <5>2
      <4>5. {a \in Blocks : u \in Extent(a)} = {b}
        BY <4>2, <4>3, <4>4
      <4> QED
        BY <4>5, FS_Singleton
    <3> QED
      BY <3>1, <3>3, <3>4 DEF Tiled
  <2>2. Ordered
    BY <1>1 DEF HeapInv, HeapShape, Ordered, Circle, NextIn, Follows, List
  <2>3. Coalesced
    BY <1>1 DEF HeapInv, Separate, Coalesced
  <2>4. SearchEnds
    <3> SUFFICES ASSUME loop.at = "place" PROVE \E q \in List : InPlace(q, loop.bp)
      BY <1>1 DEF HeapInv, Searches, SearchEnds
    <3>1. loop.bp \in Blocks /\ loop.bp \notin FreeBlocks /\ Circle(FreeBlocks, ptr)
      BY <1>1, PlaceFacts
    <3>2. loop.bp \in Nat /\ base < loop.bp /\ List \subseteq Nat /\ base \in List
      BY <1>1, <3>1, HeapFacts DEF List, base
    <3>3. PICK q \in List : q < loop.bp /\ \A c \in List : c < loop.bp => c <= q
      BY <3>2, LastBelow
    <3>4. ptr[q] = base \/ ptr[q] > loop.bp
      <4>1. NextIn(FreeBlocks, ptr[q], q)
        BY <3>1, <3>3 DEF Circle, List
      <4>2. CASE ptr[q] \in FreeBlocks /\ ptr[q] > q
        <5>1. ptr[q] \in List /\ ptr[q] \in Nat /\ ptr[q] # loop.bp /\ q \in Nat
          BY <3>1, <3>2, <3>3, <4>2 DEF List
        <5>2. ~(ptr[q] < loop.bp)
          BY <3>3, <4>2, <5>1
        <5> QED
          BY <3>2, <5>1, <5>2
      <4> QED
        BY <4>1, <4>2 DEF NextIn
    <3>5. loop.bp > q
      BY <3>2, <3>3
    <3> QED
      BY <1>1, <3>1, <3>3, <3>4, <3>5, PlaceIsRight
  <2>5. \A a \in DOMAIN held : (size[a] - 1) * HeaderSize >= held[a]
    BY <1>1 DEF HeapInv, HeapShape, RoomFor
  <2> QED
    BY <2>1, <2>2, <2>3, <2>4, <2>5 DEF HeapIsIntact
<1> QED
  BY <1>1, HeapInvariance, PTL

\* What malloc has handed out is handed out once: whatever else is asked for or
\* given back, and while the heap grows, a block keeps its place and its size until
\* the program frees it (umalloc.c:33-42, 75-82).
THEOREM HeldBlocksStay ==
  HeapSpec => [][\A a \in DOMAIN held :
                   free(a) \/ (a \in DOMAIN held' /\ held'[a] = held[a] /\ size'[a] = size[a])]_heapVars
<1> DEFINE Stays == \A a \in DOMAIN held :
                      free(a) \/ (a \in DOMAIN held' /\ held'[a] = held[a] /\ size'[a] = size[a])
<1>1. HeapInv /\ HeapNext => Stays
  <2> SUFFICES ASSUME HeapInv, HeapNext, NEW a \in DOMAIN held
               PROVE  free(a) \/ (a \in DOMAIN held' /\ held'[a] = held[a] /\ size'[a] = size[a])
    OBVIOUS
  <2>1. a \in Blocks /\ a \in DOMAIN size
    BY DEF HeapInv, HeapShape, Blocks
  <2>2. CASE takeBlock
    <3>1. loop.p \in FreeBlocks /\ FreeBlocks = Blocks \ DOMAIN held
      BY <2>2, RoomFacts DEF takeBlock
    <3> QED
      BY <2>2, <3>1 DEF takeBlock, With
  <2>3. CASE takeTail
    <3>1. /\ loop.p \in FreeBlocks /\ FreeBlocks = Blocks \ DOMAIN held
          /\ Wanted \in Nat /\ Wanted >= 1 /\ size[loop.p] > Wanted
      <4>1. size[loop.p] > Wanted /\ Wanted \in Nat /\ loop.p \in List /\ FreeBlocks \subseteq Blocks
        BY <2>3, RoomFacts, HeapFacts DEF takeTail
      <4>2. size[loop.p] \in Nat
        BY <4>1, HeapFacts DEF List, HeapInv, HeapShape
      <4>3. size[loop.p] >= Wanted
        BY <4>1, <4>2
      <4> QED
        BY <2>3, <4>1, <4>3, RoomFacts DEF takeTail
    <3> PICK t : t = loop.p + (size[loop.p] - Wanted)
      OBVIOUS
    <3>2. /\ held' = With(held, t, loop.nbytes)
          /\ size' = With([size EXCEPT ![loop.p] = size[loop.p] - Wanted], t, Wanted)
      BY <2>3 DEF takeTail
    <3>3. t \notin Blocks
      BY <3>1, HeapFacts DEF HeapInv, Fills
    <3>4. a # t /\ a # loop.p
      BY <2>1, <3>1, <3>3
    <3> QED
      BY <2>1, <3>2, <3>4 DEF With
  <2>4. CASE morecore
    <3>1. held' = held /\ (size' = size \/ \E n : size' = With(size, brk, n))
      BY <2>4 DEF morecore
    <3>2. a # brk
      BY <2>1, HeapFacts
    <3> QED
      BY <2>1, <3>1, <3>2 DEF With
  <2>5. ASSUME NEW b \in DOMAIN held, free(b)
        PROVE  free(a) \/ (a \in DOMAIN held' /\ held'[a] = held[a] /\ size'[a] = size[a])
    <3>1. CASE a = b
      BY <2>5, <3>1
    <3>2. CASE a # b
      BY <2>5, <3>2 DEF free, Only
    <3> QED
      BY <3>1, <3>2
  <2>6. CASE insert
    <3>1. held' = held
      BY <2>6 DEF insert
    <3> QED
      BY <2>6, <3>1, InsertKeeps
  <2>7. CASE next \/ onward \/ \E n \in Requests : malloc(n)
    BY <2>7 DEF next, onward, malloc
  <2> QED
    BY <2>2, <2>3, <2>4, <2>5, <2>6, <2>7 DEF HeapNext
<1> QED
  BY <1>1, HeapInvariance, PTL DEF HeapSpec
=============================================================================
