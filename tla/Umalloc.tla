------------------------------ MODULE Umalloc ------------------------------
(***************************************************************************)
(* malloc and free, src/user/ulib/umalloc.c: a circular list of free       *)
(* blocks in address order. An address counts headers; a block is its      *)
(* header and the units behind it. A step is a turn of a loop. Each        *)
(* process has its own heap and one thread, so a call follows another. The *)
(* units of a block that the program holds are the program's: only headers *)
(* are kept, and the pointer in the header of a held block, never read, is *)
(* NULL.                                                                   *)
(***************************************************************************)
EXTENDS Integers, FiniteSets

CONSTANTS
  HeaderSize,   \* bytes of a header
  ChunkUnits,   \* the least that morecore asks for
  MaxUnits,     \* units the heap can grow to
  Requests      \* the sizes that are asked for, in bytes

ASSUME HeapAssumption ==
  /\ HeaderSize \in Nat \ {0} /\ ChunkUnits \in Nat \ {0} /\ MaxUnits \in Nat
  /\ Requests \subseteq Nat

VARIABLES
  ptr,    \* of the header at an address: the next free block,
  size,   \* and the units of the block
  freep,  \* where the searches start
  brk,    \* the end of the heap
  held,   \* the blocks the program holds, with the bytes it asked for
  loop    \* the loop that is running, with its variables

heapVars == <<ptr, size, freep, brk, held, loop>>

NULL == 0
base == 1
HeapStart == 3      \* static data is below the heap, base among it

Only(f, S) == [x \in DOMAIN f \cap S |-> f[x]]
With(f, a, v) == [x \in DOMAIN f \cup {a} |-> IF x = a THEN v ELSE f[x]]
Larger(m, n) == IF m > n THEN m ELSE n

\* The program runs; malloc looks for a block; free looks for the place of
\* bp, for the program or (of = "morecore") for malloc.
NoLoop == [at |-> "none", of |-> "program", p |-> NULL, prevp |-> NULL, bp |-> NULL, nbytes |-> 0]

HeapInit ==
  /\ ptr = [a \in {base} |-> NULL] /\ size = [a \in {base} |-> 0]
  /\ freep = NULL /\ brk = HeapStart
  /\ held = [a \in {} |-> 0]
  /\ loop = NoLoop

-----------------------------------------------------------------------------
(* malloc                                                                   *)

nunits(nbytes) == (nbytes + HeaderSize - 1) \div HeaderSize + 1

malloc(nbytes) ==
  /\ loop.at = "none"
  /\ IF freep # NULL THEN UNCHANGED <<ptr, freep>>
     ELSE ptr' = [ptr EXCEPT ![base] = base] /\ freep' = base
  /\ loop' = [NoLoop EXCEPT !.at = "room", !.prevp = freep', !.p = ptr'[freep'], !.nbytes = nbytes]
  /\ UNCHANGED <<size, brk, held>>

Wanted == nunits(loop.nbytes)

\* A block of just this size leaves the list.
takeBlock ==
  /\ loop.at = "room" /\ size[loop.p] = Wanted
  /\ ptr' = [ptr EXCEPT ![loop.prevp] = ptr[loop.p], ![loop.p] = NULL]
  /\ held' = With(held, loop.p, loop.nbytes)
  /\ freep' = loop.prevp
  /\ loop' = NoLoop
  /\ UNCHANGED <<size, brk>>

\* A larger one gives its tail.
takeTail ==
  /\ loop.at = "room" /\ size[loop.p] > Wanted
  /\ LET left == size[loop.p] - Wanted
         tail == loop.p + left
     IN /\ size' = With([size EXCEPT ![loop.p] = left], tail, Wanted)
        /\ ptr' = With(ptr, tail, NULL)
        /\ held' = With(held, tail, loop.nbytes)
  /\ freep' = loop.prevp
  /\ loop' = NoLoop
  /\ UNCHANGED brk

next ==
  /\ loop.at = "room" /\ size[loop.p] < Wanted /\ loop.p # freep
  /\ loop' = [loop EXCEPT !.prevp = loop.p, !.p = ptr[loop.p]]
  /\ UNCHANGED <<ptr, size, freep, brk, held>>

\* The whole list is too small. sbrk may refuse at any time, for other
\* processes use the memory too; else the new block is freed.
morecore ==
  /\ loop.at = "room" /\ size[loop.p] < Wanted /\ loop.p = freep
  /\ \/ /\ loop' = NoLoop
        /\ UNCHANGED <<ptr, size, brk>>
     \/ LET nu == Larger(Wanted, ChunkUnits)
        IN /\ brk + nu <= HeapStart + MaxUnits
           /\ ptr' = With(ptr, brk, NULL) /\ size' = With(size, brk, nu)
           /\ brk' = brk + nu
           /\ loop' = [loop EXCEPT !.at = "place", !.of = "morecore", !.bp = brk, !.p = freep]
  /\ UNCHANGED <<freep, held>>

-----------------------------------------------------------------------------
(* free                                                                     *)

free(bp) ==
  /\ loop.at = "none" /\ bp \in DOMAIN held
  /\ held' = Only(held, DOMAIN held \ {bp})
  /\ loop' = [NoLoop EXCEPT !.at = "place", !.bp = bp, !.p = freep]
  /\ UNCHANGED <<ptr, size, freep, brk>>

\* Mutant: the block behind p is not looked at.
BehindLower(p, bp) == bp > p

\* bp comes behind p: between two blocks, or at the end of the list.
InPlace(p, bp) ==
  \/ bp > p /\ bp < ptr[p]
  \/ p >= ptr[p] /\ (bp > p \/ bp < ptr[p])

onward ==
  /\ loop.at = "place" /\ ~InPlace(loop.p, loop.bp)
  /\ loop' = [loop EXCEPT !.p = ptr[loop.p]]
  /\ UNCHANGED <<ptr, size, freep, brk, held>>

\* bp joins its upper and its lower neighbour. A header inside a block is no more.
insert ==
  LET p == loop.p
      bp == loop.bp
      above == ptr[p]
      upper == bp + size[bp] = above
      lower == p + size[p] = bp
      joined == IF upper THEN size[bp] + size[above] ELSE size[bp]
      behind == IF upper THEN ptr[above] ELSE above
      stay == DOMAIN size \ ((IF upper THEN {above} ELSE {}) \cup (IF lower THEN {bp} ELSE {}))
  IN /\ loop.at = "place" /\ InPlace(p, bp)
     /\ IF lower
        THEN /\ size' = Only([size EXCEPT ![p] = @ + joined], stay)
             /\ ptr' = Only([ptr EXCEPT ![p] = behind], stay)
        ELSE /\ size' = Only([size EXCEPT ![bp] = joined], stay)
             /\ ptr' = Only([ptr EXCEPT ![p] = bp, ![bp] = behind], stay)
     /\ freep' = p
     /\ loop' = IF loop.of = "program" THEN NoLoop
                ELSE [NoLoop EXCEPT !.at = "room", !.prevp = p, !.p = ptr'[p], !.nbytes = loop.nbytes]
     /\ UNCHANGED <<brk, held>>

HeapNext ==
  \/ \E n \in Requests : malloc(n)
  \/ takeBlock \/ takeTail \/ next \/ morecore
  \/ \E bp \in DOMAIN held : free(bp)
  \/ onward \/ insert

HeapSpec == HeapInit /\ [][HeapNext]_heapVars

-----------------------------------------------------------------------------
Blocks == DOMAIN size \ {base}
Loose == IF loop.at = "place" THEN {loop.bp} ELSE {}
FreeBlocks == (Blocks \ DOMAIN held) \ Loose
List == FreeBlocks \cup {base}
Extent(a) == a .. (a + size[a] - 1)

\* Every unit of the heap is in exactly one block, free or held or on its way.
Tiled ==
  /\ DOMAIN held \cup Loose \subseteq Blocks
  /\ \A u \in HeapStart .. (brk - 1) : Cardinality({a \in Blocks : u \in Extent(a)}) = 1
  /\ \A a \in Blocks : Extent(a) \subseteq HeapStart .. (brk - 1)

\* b is the free block after a, or base if there is none.
Follows(b, a) ==
  \/ b \in FreeBlocks /\ b > a /\ \A c \in FreeBlocks : c <= a \/ c >= b
  \/ b = base /\ \A c \in FreeBlocks : c <= a

\* The list goes through the free blocks in address order and back to base.
Ordered == freep # NULL => freep \in List /\ \A a \in List : Follows(ptr[a], a)

\* Neighbours are joined, so freeing everything gives the whole heap back.
Coalesced == \A a, b \in FreeBlocks : a + size[a] # b

\* A search is in the list, and free's comes to a place for the block.
SearchEnds ==
  /\ loop.at # "none" => freep # NULL /\ loop.p \in List
  /\ loop.at = "place" => \E q \in List : InPlace(q, loop.bp)

\* Whatever the order of malloc and free: no unit belongs to two blocks and
\* none is lost, the free list is in address order and fully joined, every
\* search ends, and a block has room for what was asked for (umalloc.c:30, 33,
\* 38, 69, 79).
HeapIsIntact ==
  /\ Tiled
  /\ Ordered
  /\ Coalesced
  /\ SearchEnds
  /\ \A a \in DOMAIN held : (size[a] - 1) * HeaderSize >= held[a]
=============================================================================
