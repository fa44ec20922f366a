------------------------- MODULE BufferCacheProofs -------------------------
(***************************************************************************)
(* Proofs about the buffer cache on the disk driver, for every number of   *)
(* processes, buffers, blocks and descriptors.                             *)
(*                                                                         *)
(* The sleep lock of a buffer is the thread through the argument: only its *)
(* holder has a request for the buffer, so every chain of descriptors      *)
(* belongs to one process that waits for it, and what the device writes    *)
(* into a buffer, or takes from it, is the block its holder works with.    *)
(***************************************************************************)
EXTENDS BufferCache, FiniteSetTheorems, TLAPS

\* The fields of a process's request, of a descriptor, and of the records
\* indexed by the head of a chain.
At(p)    == request[p].at
Head(p)  == request[p].head
Buf(p)   == request[p].buffer
Wr(p)    == request[p].write
Link(d)  == descriptor[d].next
DBuf(d)  == descriptor[d].buffer
IBuf(h)  == info[h].buffer
Done(h)  == info[h].ok
OpWr(h)  == operations[h].write
OpBlk(h) == operations[h].block

\* The steps at which a process holds the sleep lock of its buffer.
Holding == {"read", "use", "write", "release"}

Users ==
  \A p \in Procs :
    /\ pc[p] = "idle" <=> mine[p] = NoBuffer
    /\ mine[p] # NoBuffer => block[mine[p]] \in Blocks

Holders ==
  \A p \in Procs, i \in Buffers : holder[i] = p <=> mine[p] = i /\ pc[p] \in Holding

\* A block is in one buffer.
Distinct ==
  \A i, j \in Buffers : block[i] = block[j] /\ block[i] \in Blocks => i = j

\* A process in Buffer.read or Buffer.write has a request for its buffer.
Calls ==
  \A p \in Procs :
    /\ At(p) = "none" <=> pc[p] \notin {"read", "write"}
    /\ At(p) # "none" => Buf(p) = mine[p] /\ (Wr(p) <=> pc[p] = "write")

Busy(p) == At(p) \in {"wait", "finish"}

\* The chain of a request the device has got, or has completed.
Chained(p) ==
  LET h == Head(p)  d == Link(h)  e == Link(d) IN
  /\ h \in Descriptors /\ d \in Descriptors /\ e \in Descriptors
  /\ h # d /\ h # e /\ d # e
  /\ ~free[h] /\ ~free[d] /\ ~free[e]
  /\ DBuf(d) = Buf(p) /\ IBuf(h) = Buf(p)
  /\ (OpWr(h) <=> Wr(p)) /\ OpBlk(h) = block[Buf(p)]

Chains == \A p \in Procs : Busy(p) => Chained(p)

\* No descriptor is in two chains, and none that is in no chain is taken.
Apart ==
  \A p, q \in Procs : Busy(p) /\ Busy(q) /\ p # q => Chain(Head(p)) \cap Chain(Head(q)) = {}

Taken == \A d \in Descriptors : ~free[d] => \E p \in Procs : Busy(p) /\ d \in Chain(Head(p))

\* The rings hold the heads of the requests that wait, each once.
Rings ==
  /\ available \cap used = {}
  /\ \A h \in available \cup used : \E p \in Procs : At(p) = "wait" /\ Head(p) = h
  /\ \A p \in Procs : At(p) = "wait" => Head(p) \in available \cup used
  /\ \A h \in used : Done(h)

OwnedByDisk ==
  \A i \in Buffers : disk_owned[i] <=> \E p \in Procs : At(p) = "wait" /\ Buf(p) = i

\* A write the device has not carried out.
ToWrite(p) ==
  /\ pc[p] = "write"
  /\ At(p) \in {"submit", "asleep"} \/ (At(p) = "wait" /\ Head(p) \in available)

\* The contents: of valid buffers, of buffers the device has filled, and of the
\* disk but for the writes to come.
Contents ==
  /\ \A i \in Buffers : is_valid[i] => block[i] \in Blocks /\ data[i] = latest[block[i]]
  /\ \A p \in Procs : pc[p] \in {"use", "write"} => is_valid[mine[p]]
  /\ \A p \in Procs : pc[p] = "read" /\ Busy(p) /\ Head(p) \notin available =>
       data[mine[p]] = latest[block[mine[p]]]
  /\ \A b \in Blocks : platter[b] = latest[b] \/
       \E p \in Procs : ToWrite(p) /\ block[mine[p]] = b

\* The cache can run out of buffers; no other panic is reachable.
NoPanic == diskPanic = "none" /\ cachePanic \in {"none", "get_buffer_no_buffers"}

Disk == Chains /\ Apart /\ Taken /\ Rings /\ OwnedByDisk /\ DescriptorsAccounted
Cache == Users /\ Holders /\ Distinct /\ ReferencesExact

IInv == TypeOK /\ NoPanic /\ Cache /\ Calls /\ Disk /\ Contents /\ NobodyWaitsInVain

-----------------------------------------------------------------------------
(* Facts about constants, counting and records.                             *)

LEMMA Constants ==
  /\ NoBuffer \notin Buffers /\ NoBlock \notin Blocks /\ NoProc \notin Procs
  /\ IsFiniteSet(Procs) /\ IsFiniteSet(Buffers) /\ IsFiniteSet(Descriptors)
  /\ MaxChanges \in Nat /\ Blocks \subseteq Values /\ 1 .. MaxChanges \subseteq Values
  /\ QueueSize \in Nat /\ QueueSize >= 3 /\ Cardinality(Descriptors) = QueueSize
  /\ NoNext \notin Descriptors
<1>1. QueueSize \in Nat /\ QueueSize >= 3
  BY DiskAssumption DEF ChainLength
<1>2. IsFiniteSet(1 .. QueueSize) /\ Cardinality(1 .. QueueSize) = QueueSize
  BY <1>1, FS_Interval
<1> QED
  BY <1>1, <1>2, DiskAssumption, CacheAssumption DEF Descriptors, NoNext

\* A process more or less.
LEMMA OneProcess ==
  ASSUME NEW S \in SUBSET Procs, NEW p \in Procs
  PROVE  /\ Cardinality(S) \in Nat
         /\ p \notin S => Cardinality(S \cup {p}) = Cardinality(S) + 1
         /\ p \in S => Cardinality(S \ {p}) = Cardinality(S) - 1
<1>1. IsFiniteSet(S)
  BY Constants, FS_Subset
<1> QED
  BY <1>1, FS_CardinalityType, FS_AddElement, FS_RemoveElement

\* A chain more.
LEMMA ThreeDescriptors ==
  ASSUME NEW S \in SUBSET Descriptors, NEW d \in Descriptors, NEW e \in Descriptors,
         NEW f \in Descriptors, d \notin S, e \notin S, f \notin S, d # e, d # f, e # f
  PROVE  /\ Cardinality(S) \in Nat
         /\ Cardinality(S \cup {d, e, f}) = Cardinality(S) + 3
<1>1. IsFiniteSet(S) /\ Cardinality(S) \in Nat
  BY Constants, FS_Subset, FS_CardinalityType
<1>2. IsFiniteSet(S \cup {d}) /\ Cardinality(S \cup {d}) = Cardinality(S) + 1
  BY <1>1, FS_AddElement
<1>3. /\ IsFiniteSet((S \cup {d}) \cup {e})
      /\ Cardinality((S \cup {d}) \cup {e}) = Cardinality(S) + 1 + 1
  BY <1>2, FS_AddElement
<1>4. Cardinality(((S \cup {d}) \cup {e}) \cup {f}) = Cardinality(S) + 1 + 1 + 1
  BY <1>3, FS_AddElement
<1>5. ((S \cup {d}) \cup {e}) \cup {f} = S \cup {d, e, f}
  OBVIOUS
<1> QED
  BY <1>1, <1>4, <1>5

LEMMA Fields ==
  ASSUME TypeOK
  PROVE  /\ \A p \in Procs : /\ At(p) \in {"none", "submit", "asleep", "wait", "finish"}
                             /\ Wr(p) \in BOOLEAN /\ Buf(p) \in Buffers \cup {NoBuffer}
                             /\ Head(p) \in {NoNext} \cup Descriptors
         /\ \A d \in Descriptors : /\ Link(d) \in {NoNext} \cup Descriptors
                                   /\ DBuf(d) \in Buffers \cup {NoBuffer}
                                   /\ IBuf(d) \in Buffers \cup {NoBuffer}
                                   /\ Done(d) \in BOOLEAN /\ OpWr(d) \in BOOLEAN
                                   /\ OpBlk(d) \in Blocks \cup {NoBlock}
BY DEF TypeOK, DiskTypeOK, Requests, At, Wr, Buf, Head, Link, DBuf, IBuf, Done, OpWr, OpBlk

LEMMA CallFields ==
  ASSUME NEW i \in Buffers, NEW w \in BOOLEAN
  PROVE  /\ Call(i, w) \in Requests
         /\ Call(i, w).at = "submit" /\ Call(i, w).buffer = i /\ Call(i, w).write = w
BY DEF Call, NoRequest, Requests

\* A process that sleeps for descriptors, and one that waits for its buffer,
\* go on; nothing else changes.
LEMMA RetryFields ==
  ASSUME request \in [Procs -> Requests]
  PROVE  /\ Retry(request) \in [Procs -> Requests]
         /\ \A q \in Procs :
              /\ Retry(request)[q].at = IF At(q) = "asleep" THEN "submit" ELSE At(q)
              /\ Retry(request)[q].write = Wr(q) /\ Retry(request)[q].buffer = Buf(q)
              /\ Retry(request)[q].head = Head(q)
BY DEF Retry, Requests, At, Wr, Buf, Head

LEMMA WokenFields ==
  ASSUME request \in [Procs -> Requests], NEW i
  PROVE  /\ Woken(request, i) \in [Procs -> Requests]
         /\ \A q \in Procs :
              /\ Woken(request, i)[q].at =
                   IF At(q) = "wait" /\ Buf(q) = i THEN "finish" ELSE At(q)
              /\ Woken(request, i)[q].write = Wr(q) /\ Woken(request, i)[q].buffer = Buf(q)
              /\ Woken(request, i)[q].head = Head(q)
BY DEF Woken, Requests, At, Wr, Buf, Head

-----------------------------------------------------------------------------
(* Facts about a state.                                                     *)

\* Only the holder of a buffer has a request for it.
LEMMA Requester ==
  ASSUME IInv, NEW p \in Procs, At(p) # "none"
  PROVE  /\ mine[p] \in Buffers /\ Buf(p) = mine[p] /\ holder[mine[p]] = p
         /\ pc[p] \in {"read", "write"} /\ (Wr(p) <=> pc[p] = "write")
         /\ block[mine[p]] \in Blocks
<1>1. pc[p] \in {"read", "write"} /\ Buf(p) = mine[p] /\ (Wr(p) <=> pc[p] = "write")
  BY DEF IInv, Calls
<1>2. mine[p] \in Buffers /\ block[mine[p]] \in Blocks
  BY <1>1 DEF IInv, Cache, Users, TypeOK
<1> QED
  BY <1>1, <1>2 DEF IInv, Cache, Holders, Holding

LEMMA OneHolder ==
  ASSUME IInv, NEW p \in Procs, NEW q \in Procs, pc[p] \in Holding, pc[q] \in Holding,
         mine[p] = mine[q]
  PROVE  p = q
<1>1. mine[p] \in Buffers
  BY DEF IInv, Cache, Users, TypeOK, Holding
<1> QED
  BY <1>1 DEF IInv, Cache, Holders

LEMMA OneRequest ==
  ASSUME IInv, NEW p \in Procs, NEW q \in Procs, At(p) # "none", At(q) # "none",
         Buf(p) = Buf(q)
  PROVE  p = q
BY Requester, OneHolder DEF Holding

LEMMA OneHead ==
  ASSUME IInv, NEW p \in Procs, NEW q \in Procs, Busy(p), Busy(q), Head(p) = Head(q)
  PROVE  p = q
BY DEF IInv, Disk, Apart, Chain

\* Nobody works with a buffer without references.
LEMMA Unused ==
  ASSUME IInv, NEW i \in Buffers, reference_count[i] = 0, NEW p \in Procs
  PROVE  mine[p] # i
<1> DEFINE U == {q \in Procs : mine[q] = i}
<1>1. Cardinality(U) = 0 /\ IsFiniteSet(U)
  BY Constants, FS_Subset DEF IInv, Cache, ReferencesExact
<1>2. U = {}
  BY <1>1, FS_EmptySet
<1> QED
  BY <1>2

-----------------------------------------------------------------------------
(* What a step preserves because it changes nothing of it.                  *)

LEMMA CacheFrame ==
  ASSUME IInv, UNCHANGED <<block, reference_count, holder, mine>>,
         \A q \in Procs : /\ pc'[q] \in Holding <=> pc[q] \in Holding
                          /\ pc'[q] = "idle" <=> pc[q] = "idle"
  PROVE  Cache'
<1>1. Users'
  BY DEF IInv, Cache, Users
<1>2. Holders' /\ Distinct' /\ ReferencesExact'
  BY DEF IInv, Cache, Holders, Distinct, ReferencesExact
<1> QED
  BY <1>1, <1>2 DEF Cache

\* The chains stay as they are when no request begins or ends.
LEMMA ChainsFrame ==
  ASSUME IInv, UNCHANGED <<free, descriptor, operations>>,
         \A h \in Descriptors : IBuf(h)' = IBuf(h),
         \A q \in Procs : Busy(q)' <=> Busy(q),
         \A q \in Procs : Busy(q) =>
           /\ Head(q)' = Head(q) /\ Buf(q)' = Buf(q) /\ Wr(q)' = Wr(q)
           /\ block'[Buf(q)] = block[Buf(q)]
  PROVE  Chains' /\ Apart' /\ Taken' /\ DescriptorsAccounted'
<1>1. Chains'
  <2> SUFFICES ASSUME NEW q \in Procs, Busy(q) PROVE Chained(q)'
    BY DEF Chains
  <2>1. Chained(q)
    BY DEF IInv, Disk, Chains
  <2>2. \A h : Link(h)' = Link(h) /\ DBuf(h)' = DBuf(h)
               /\ OpWr(h)' = OpWr(h) /\ OpBlk(h)' = OpBlk(h)
    BY DEF Link, DBuf, OpWr, OpBlk
  <2> QED
    BY <2>1, <2>2 DEF Chained
<1>2. \A q \in Procs : Busy(q) => Chain(Head(q))' = Chain(Head(q))
  BY DEF Chain
<1>3. Apart' /\ Taken'
  BY <1>2 DEF IInv, Disk, Apart, Taken
<1>4. DescriptorsAccounted'
  <2>1. {q \in Procs : request'[q].at \in {"wait", "finish"}} =
        {q \in Procs : request[q].at \in {"wait", "finish"}}
    BY DEF Busy, At
  <2> QED
    BY <2>1 DEF IInv, Disk, DescriptorsAccounted, FreeDescriptors
<1> QED
  BY <1>1, <1>3, <1>4

LEMMA DiskFrame ==
  ASSUME IInv, UNCHANGED <<free, descriptor, operations, info, available, used, disk_owned>>,
         \A q \in Procs : At(q)' = At(q) \/ (~Busy(q) /\ ~Busy(q)'),
         \A q \in Procs : Busy(q) =>
           /\ Head(q)' = Head(q) /\ Buf(q)' = Buf(q) /\ Wr(q)' = Wr(q)
           /\ block'[Buf(q)] = block[Buf(q)]
  PROVE  Disk'
<1>1. \A q \in Procs : (Busy(q)' <=> Busy(q)) /\ (At(q)' = "wait" <=> At(q) = "wait")
  BY DEF Busy
<1>2. Chains' /\ Apart' /\ Taken' /\ DescriptorsAccounted'
  <2>1. \A h \in Descriptors : IBuf(h)' = IBuf(h)
    BY DEF IBuf
  <2> QED
    BY <1>1, <2>1, ChainsFrame
<1>3. Rings'
  BY <1>1 DEF IInv, Disk, Rings, Busy, Done
<1>4. OwnedByDisk'
  BY <1>1 DEF IInv, Disk, OwnedByDisk, Busy
<1> QED
  BY <1>2, <1>3, <1>4 DEF Disk

LEMMA WaitFrame ==
  ASSUME IInv, UNCHANGED <<used, pending, handler>>,
         \A q \in Procs : At(q)' = At(q) \/ At(q)' \in {"submit", "wait", "finish"} \/ At(q) = "none",
         \A q \in Procs : At(q)' = "asleep" => At(q) = "asleep",
         \A q \in Procs : At(q)' = "none" => At(q) = "none"
  PROVE  NobodyWaitsInVain'
<1>1. CompletionNoticed'
  BY DEF IInv, NobodyWaitsInVain, CompletionNoticed
<1>2. SleepersHaveWaker'
  BY DEF IInv, NobodyWaitsInVain, SleepersHaveWaker, At
<1> QED
  BY <1>1, <1>2 DEF NobodyWaitsInVain

LEMMA InitInv == Init => IInv
<1> SUFFICES ASSUME Init PROVE IInv
  OBVIOUS
<1>1. \A p \in Procs : At(p) = "none" /\ pc[p] = "idle" /\ mine[p] = NoBuffer
  BY DEF Init, DiskInit, NoRequest, At
<1>2. TypeOK
  <2>1. NoRequest \in Requests
    BY DEF NoRequest, Requests
  <2>2. platter \in [Blocks -> Values] /\ latest \in [Blocks -> Values]
    BY Constants DEF Init
  <2>3. DiskTypeOK
    BY <2>1, <2>2, Constants DEF Init, DiskInit, DiskTypeOK
  <2> QED
    BY <2>2, <2>3, Constants DEF Init, TypeOK
<1>3. Users /\ Holders /\ Distinct
  BY <1>1, Constants DEF Init, Users, Holders, Distinct, Holding
<1>4. ReferencesExact
  <2> SUFFICES ASSUME NEW i \in Buffers
               PROVE  reference_count[i] = Cardinality({p \in Procs : mine[p] = i})
    BY DEF ReferencesExact
  <2>1. {p \in Procs : mine[p] = i} = {}
    BY <1>1, Constants
  <2> QED
    BY <2>1, FS_EmptySet DEF Init
<1>5. Calls
  BY <1>1 DEF Calls
<1>6. DescriptorsAccounted
  <2>1. {p \in Procs : request[p].at \in {"wait", "finish"}} = {}
    BY <1>1 DEF At
  <2>2. Descriptors \ FreeDescriptors = {}
    BY DEF Init, DiskInit, FreeDescriptors
  <2> QED
    BY <2>1, <2>2, FS_EmptySet DEF DescriptorsAccounted, ChainLength
<1>7. Chains /\ Apart /\ Taken /\ Rings /\ OwnedByDisk
  BY <1>1 DEF Init, DiskInit, Chains, Apart, Taken, Rings, OwnedByDisk, Busy
<1>8. Contents
  BY <1>1 DEF Init, DiskInit, Contents
<1>9. NobodyWaitsInVain /\ NoPanic
  BY <1>1 DEF Init, DiskInit, NobodyWaitsInVain, CompletionNoticed, SleepersHaveWaker, At, NoPanic
<1> QED
  BY <1>2, <1>3, <1>4, <1>5, <1>6, <1>7, <1>8, <1>9 DEF IInv, Cache, Disk

-----------------------------------------------------------------------------
(* The cache.                                                               *)

\* A cached buffer gets one more user; a recycled one had none, so nobody sees
\* its block change.
LEMMA GetBufferInv ==
  ASSUME IInv, NEW p \in Procs, NEW b \in Blocks, get_buffer(p, b)
  PROVE  IInv'
<1>1. /\ Running /\ pc[p] = "idle"
      /\ UNCHANGED <<platter, free, descriptor, operations, info, available, used, pending, handler,
                     request, disk_owned, data, diskPanic, holder, changes, latest>>
  BY DEF get_buffer, diskVars, ring
<1>2. TypeOK /\ Cache /\ Calls /\ Contents /\ NoPanic
  BY DEF IInv
<1>3. CASE Cached(b) = {} /\ Recyclable = {}
  <2>1. cachePanic' = "get_buffer_no_buffers"
        /\ UNCHANGED <<block, is_valid, reference_count, mine, pc>>
    BY <1>3 DEF get_buffer
  <2>2. TypeOK' /\ NoPanic'
    BY <1>1, <1>2, <2>1 DEF TypeOK, DiskTypeOK, NoPanic
  <2>3. \A q \in Procs : At(q)' = At(q) /\ Head(q)' = Head(q) /\ Buf(q)' = Buf(q) /\ Wr(q)' = Wr(q)
    BY <1>1 DEF At, Head, Buf, Wr
  <2>4. Disk' /\ Cache' /\ NobodyWaitsInVain'
    BY <1>1, <2>1, <2>3, DiskFrame, CacheFrame, WaitFrame
  <2>5. Calls' /\ Contents'
    BY <1>1, <1>2, <2>1, <2>3 DEF Calls, Contents, ToWrite, Busy
  <2> QED
    BY <2>2, <2>4, <2>5 DEF IInv
<1>4. CASE ~(Cached(b) = {} /\ Recyclable = {})
  <2>1. PICK i \in Buffers :
          /\ reference_count' = [reference_count EXCEPT ![i] = reference_count[i] + 1]
          /\ mine' = [mine EXCEPT ![p] = i]
          /\ pc' = [pc EXCEPT ![p] = "lock"]
          /\ UNCHANGED cachePanic
          /\ block' \in [Buffers -> Blocks \cup {NoBlock}] /\ is_valid' \in [Buffers -> BOOLEAN]
          /\ \A j \in Buffers : block'[j] = IF j = i THEN b ELSE block[j]
          /\ \A j \in Buffers : is_valid'[j] <=> is_valid[j] /\ (j # i \/ block[i] = b)
          /\ \A q \in Procs : mine[q] = i => block[i] = b
          /\ \A j \in Buffers : j # i => block[j] # b
    <3>1. CASE \E i \in Cached(b) :
                 /\ reference_count' = [reference_count EXCEPT ![i] = @ + 1]
                 /\ mine' = [mine EXCEPT ![p] = i]
                 /\ UNCHANGED <<block, is_valid>>
      <4>1. PICK i \in Cached(b) :
                 /\ reference_count' = [reference_count EXCEPT ![i] = @ + 1]
                 /\ mine' = [mine EXCEPT ![p] = i]
                 /\ UNCHANGED <<block, is_valid>>
        BY <3>1
      <4>2. i \in Buffers /\ block[i] = b
        BY <4>1 DEF Cached
      <4>3. pc' = [pc EXCEPT ![p] = "lock"] /\ UNCHANGED cachePanic
        BY <1>4 DEF get_buffer, Goto
      <4>4. \A j \in Buffers : j # i => block[j] # b
        BY <1>2, <4>2 DEF Cache, Distinct
      <4> QED
        BY <1>2, <4>1, <4>2, <4>3, <4>4 DEF TypeOK
    <3>2. CASE \E i \in Recyclable :
                 /\ Cached(b) = {}
                 /\ block' = [block EXCEPT ![i] = b]
                 /\ Invalidated(i)
                 /\ reference_count' = [reference_count EXCEPT ![i] = 1]
                 /\ mine' = [mine EXCEPT ![p] = i]
      <4>1. PICK i \in Recyclable :
                 /\ Cached(b) = {}
                 /\ block' = [block EXCEPT ![i] = b]
                 /\ Invalidated(i)
                 /\ reference_count' = [reference_count EXCEPT ![i] = 1]
                 /\ mine' = [mine EXCEPT ![p] = i]
        BY <3>2
      <4>2. i \in Buffers /\ reference_count[i] = 0 /\ \A j \in Buffers : block[j] # b
        BY <4>1 DEF Recyclable, Cached
      <4>3. pc' = [pc EXCEPT ![p] = "lock"] /\ UNCHANGED cachePanic
        BY <1>4 DEF get_buffer, Goto
      <4>4. \A q \in Procs : mine[q] # i
        BY <4>2, Unused
      <4>5. is_valid' = [is_valid EXCEPT ![i] = FALSE]
        BY <4>1 DEF Invalidated
      <4>6. block' \in [Buffers -> Blocks \cup {NoBlock}] /\ is_valid' \in [Buffers -> BOOLEAN]
            /\ \A j \in Buffers : block'[j] = IF j = i THEN b ELSE block[j]
        BY <1>2, <4>1, <4>5 DEF TypeOK
      <4>7. \A j \in Buffers : is_valid'[j] <=> is_valid[j] /\ (j # i \/ block[i] = b)
        BY <1>2, <4>2, <4>5 DEF TypeOK
      <4>8. reference_count' = [reference_count EXCEPT ![i] = reference_count[i] + 1]
        BY <4>1, <4>2
      <4> QED
        BY <4>1, <4>2, <4>3, <4>4, <4>6, <4>7, <4>8
    <3> QED
      BY <1>4, <3>1, <3>2 DEF get_buffer
  <2>2. mine[p] = NoBuffer /\ At(p) = "none"
    BY <1>1, <1>2 DEF Cache, Users, Calls
  <2>3. /\ \A q \in Procs : mine'[q] = IF q = p THEN i ELSE mine[q]
        /\ \A q \in Procs : pc'[q] = IF q = p THEN "lock" ELSE pc[q]
        /\ \A j \in Buffers : reference_count'[j] =
             IF j = i THEN reference_count[j] + 1 ELSE reference_count[j]
    BY <1>2, <2>1 DEF TypeOK
  <2>4. TypeOK' /\ NoPanic'
    BY <1>1, <1>2, <2>1 DEF TypeOK, DiskTypeOK, NoPanic
  <2>5. \A q \in Procs : mine[q] \in Buffers => block'[mine[q]] = block[mine[q]]
    BY <2>1
  <2>6. Users'
    BY <1>1, <1>2, <2>1, <2>2, <2>3, <2>5, Constants DEF Cache, Users, TypeOK
  <2>7. Holders'
    BY <1>1, <1>2, <2>2, <2>3, Constants DEF Cache, Holders, Holding
  <2>8. Distinct'
    BY <1>2, <2>1 DEF Cache, Distinct
  <2>9. ReferencesExact'
    <3> SUFFICES ASSUME NEW j \in Buffers
                 PROVE  reference_count'[j] = Cardinality({q \in Procs : mine'[q] = j})
      BY DEF ReferencesExact
    <3> DEFINE U == {q \in Procs : mine[q] = j}
    <3>1. reference_count[j] = Cardinality(U)
      BY <1>2 DEF Cache, ReferencesExact
    <3>2. CASE j = i
      <4>1. {q \in Procs : mine'[q] = j} = U \cup {p} /\ p \notin U /\ U \in SUBSET Procs
        BY <2>2, <2>3, <3>2, Constants
      <4>2. Cardinality(U \cup {p}) = Cardinality(U) + 1
        BY <4>1, OneProcess
      <4> QED
        BY <2>3, <3>1, <3>2, <4>1, <4>2
    <3>3. CASE j # i
      <4>1. {q \in Procs : mine'[q] = j} = U
        BY <2>2, <2>3, <3>3, Constants
      <4> QED
        BY <2>3, <3>1, <3>3, <4>1
    <3> QED
      BY <3>2, <3>3
  <2>10. \A q \in Procs : At(q)' = At(q) /\ Head(q)' = Head(q) /\ Buf(q)' = Buf(q) /\ Wr(q)' = Wr(q)
    BY <1>1 DEF At, Head, Buf, Wr
  <2>11. Calls'
    BY <1>1, <1>2, <2>2, <2>3, <2>10 DEF Calls
  <2>12. \A q \in Procs : Busy(q) => block'[Buf(q)] = block[Buf(q)]
    BY <2>5, Requester DEF Busy
  <2>13. Disk' /\ NobodyWaitsInVain'
    BY <1>1, <2>10, <2>12, DiskFrame, WaitFrame
  <2>14. Contents'
    <3>1. \A j \in Buffers : is_valid'[j] => block'[j] \in Blocks /\ data'[j] = latest'[block'[j]]
      BY <1>1, <1>2, <2>1 DEF Contents
    <3>2. \A q \in Procs : pc'[q] \in {"use", "write"} => is_valid'[mine'[q]]
      BY <1>2, <2>1, <2>3, Constants DEF Contents, Cache, Users, TypeOK
    <3>3. \A q \in Procs : pc'[q] = "read" /\ Busy(q)' /\ Head(q)' \notin available' =>
            data'[mine'[q]] = latest'[block'[mine'[q]]]
      BY <1>1, <1>2, <2>3, <2>5, <2>10, Requester DEF Contents, Busy
    <3>4. \A c \in Blocks : platter'[c] = latest'[c] \/
            \E q \in Procs : ToWrite(q)' /\ block'[mine'[q]] = c
      <4> TAKE c \in Blocks
      <4>1. \A q \in Procs : ToWrite(q) => /\ ToWrite(q)' /\ mine'[q] = mine[q]
                                           /\ block'[mine[q]] = block[mine[q]]
        BY <1>1, <2>3, <2>5, <2>10, Requester DEF ToWrite
      <4> QED
        BY <1>1, <1>2, <4>1 DEF Contents
    <3> QED
      BY <3>1, <3>2, <3>3, <3>4 DEF Contents
  <2> QED
    BY <2>4, <2>6, <2>7, <2>8, <2>9, <2>11, <2>13, <2>14 DEF IInv, Cache
<1> QED
  BY <1>3, <1>4

LEMMA LockInv ==
  ASSUME IInv, NEW p \in Procs, lock(p)
  PROVE  IInv'
<1> PICK i : i = mine[p]
  OBVIOUS
<1>1. /\ Running /\ pc[p] = "lock" /\ holder[i] = NoProc
      /\ holder' = [holder EXCEPT ![i] = p]
      /\ UNCHANGED <<platter, free, descriptor, operations, info, available, used, pending, handler,
                     disk_owned, data, diskPanic, block, is_valid, reference_count, mine, changes,
                     latest, cachePanic>>
      /\ IF is_valid[i] THEN pc' = [pc EXCEPT ![p] = "use"] /\ UNCHANGED request
         ELSE pc' = [pc EXCEPT ![p] = "read"]
              /\ request' = [request EXCEPT ![p] = Call(i, FALSE)]
  BY DEF lock, Unlocked, Goto, diskVars, ring
<1>2. TypeOK /\ Cache /\ Calls /\ Contents /\ NoPanic
  BY DEF IInv
<1>3. i \in Buffers /\ At(p) = "none"
  BY <1>1, <1>2 DEF Cache, Users, Calls, TypeOK
<1>4. Call(i, FALSE) \in Requests /\ Call(i, FALSE).at = "submit" /\ Call(i, FALSE).buffer = i
      /\ Call(i, FALSE).write = FALSE
  BY <1>3, CallFields
<1>5. TypeOK' /\ NoPanic'
  BY <1>1, <1>2, <1>4 DEF TypeOK, DiskTypeOK, NoPanic
<1>6. /\ \A q \in Procs : pc'[q] = IF q = p THEN (IF is_valid[i] THEN "use" ELSE "read") ELSE pc[q]
      /\ \A j \in Buffers : holder'[j] = IF j = i THEN p ELSE holder[j]
  BY <1>1, <1>2, <1>3 DEF TypeOK
<1>7. /\ \A q \in Procs : q # p => /\ At(q)' = At(q) /\ Head(q)' = Head(q)
                                   /\ Buf(q)' = Buf(q) /\ Wr(q)' = Wr(q)
      /\ is_valid[i] => At(p)' = "none"
      /\ ~is_valid[i] => At(p)' = "submit" /\ Buf(p)' = i /\ Wr(p)' = FALSE
  BY <1>1, <1>2, <1>3, <1>4 DEF TypeOK, DiskTypeOK, At, Head, Buf, Wr
<1>8. Users'
  BY <1>1, <1>2, <1>6 DEF Cache, Users
<1>9. Holders'
  BY <1>1, <1>2, <1>6, Constants DEF Cache, Holders, Holding
<1>10. Distinct' /\ ReferencesExact'
  BY <1>1, <1>2 DEF Cache, Distinct, ReferencesExact
<1>11. Calls'
  BY <1>1, <1>2, <1>6, <1>7 DEF Calls
<1>12. Disk' /\ NobodyWaitsInVain'
  BY <1>1, <1>3, <1>7, DiskFrame, WaitFrame DEF Busy
<1>13. Contents'
  <2>1. \A q \in Procs : pc'[q] \in {"use", "write"} => is_valid'[mine'[q]]
    BY <1>1, <1>2, <1>6 DEF Contents
  <2>2. \A q \in Procs : pc'[q] = "read" /\ Busy(q)' => q # p /\ pc[q] = "read" /\ Busy(q)
    BY <1>6, <1>7 DEF Busy
  <2>3. \A q \in Procs : ToWrite(q) => ToWrite(q)'
    BY <1>1, <1>6, <1>7 DEF ToWrite
  <2> QED
    BY <1>1, <1>2, <1>7, <2>1, <2>2, <2>3 DEF Contents
<1> QED
  BY <1>5, <1>8, <1>9, <1>10, <1>11, <1>12, <1>13 DEF IInv, Cache

\* The holder changes the block in the one buffer that has it.
LEMMA WriteInv ==
  ASSUME IInv, NEW p \in Procs, write(p)
  PROVE  IInv'
<1> PICK i : i = mine[p]
  OBVIOUS
<1>2. TypeOK /\ Cache /\ Calls /\ Contents /\ NoPanic
  BY DEF IInv
<1>3. pc[p] = "use" /\ i \in Buffers /\ At(p) = "none" /\ holder[i] = p /\ block[i] \in Blocks
      /\ is_valid[i]
  BY <1>2 DEF write, Cache, Users, Holders, Holding, Calls, TypeOK, Contents
<1>1. /\ Running /\ pc[p] = "use" /\ changes < MaxChanges
      /\ changes' = changes + 1
      /\ data' = [data EXCEPT ![i] = changes']
      /\ latest' = [latest EXCEPT ![block[i]] = changes']
      /\ request' = [request EXCEPT ![p] = Call(i, TRUE)]
      /\ pc' = [pc EXCEPT ![p] = "write"]
      /\ UNCHANGED <<platter, free, descriptor, operations, info, available, used, pending, handler,
                     disk_owned, diskPanic, block, is_valid, reference_count, holder, mine, cachePanic>>
  BY <1>3 DEF write, Goto, ring
<1>4. Call(i, TRUE) \in Requests /\ Call(i, TRUE).at = "submit" /\ Call(i, TRUE).buffer = i
      /\ Call(i, TRUE).write = TRUE
  BY <1>3, CallFields
<1>5. TypeOK' /\ NoPanic'
  <2>1. changes' \in 0 .. MaxChanges /\ changes' \in Values
    BY <1>1, <1>2, Constants DEF TypeOK
  <2> QED
    BY <1>1, <1>2, <1>4, <2>1 DEF TypeOK, DiskTypeOK, NoPanic
<1>6. /\ \A q \in Procs : pc'[q] = IF q = p THEN "write" ELSE pc[q]
      /\ \A j \in Buffers : data'[j] = IF j = i THEN changes' ELSE data[j]
      /\ \A b \in Blocks : latest'[b] = IF b = block[i] THEN changes' ELSE latest[b]
  BY <1>1, <1>2, <1>3 DEF TypeOK, DiskTypeOK
<1>7. /\ \A q \in Procs : q # p => /\ At(q)' = At(q) /\ Head(q)' = Head(q)
                                   /\ Buf(q)' = Buf(q) /\ Wr(q)' = Wr(q)
      /\ At(p)' = "submit" /\ Buf(p)' = i /\ Wr(p)' = TRUE
  BY <1>1, <1>2, <1>3, <1>4 DEF TypeOK, DiskTypeOK, At, Head, Buf, Wr
<1>8. Cache'
  <2>1. \A q \in Procs : /\ pc'[q] \in Holding <=> pc[q] \in Holding
                         /\ pc'[q] = "idle" <=> pc[q] = "idle"
    BY <1>3, <1>6 DEF Holding
  <2> QED
    BY <1>1, <2>1, CacheFrame
<1>9. Calls'
  BY <1>1, <1>2, <1>6, <1>7 DEF Calls
<1>10. Disk' /\ NobodyWaitsInVain'
  BY <1>1, <1>3, <1>7, DiskFrame, WaitFrame DEF Busy
<1>11. Contents'
  <2>1. \A j \in Buffers : is_valid[j] /\ j # i => block[j] # block[i]
    BY <1>2, <1>3 DEF Cache, Distinct
  <2>2. \A j \in Buffers : is_valid'[j] => block'[j] \in Blocks /\ data'[j] = latest'[block'[j]]
    BY <1>1, <1>2, <1>3, <1>6, <2>1 DEF Contents
  <2>3. \A q \in Procs : pc'[q] \in {"use", "write"} => is_valid'[mine'[q]]
    BY <1>1, <1>2, <1>3, <1>6 DEF Contents
  <2>4. ASSUME NEW q \in Procs, pc'[q] = "read", Busy(q)', Head(q)' \notin available'
        PROVE  data'[mine'[q]] = latest'[block'[mine'[q]]]
    <3>1. q # p /\ pc[q] = "read" /\ Busy(q) /\ Head(q) \notin available
      BY <1>1, <1>6, <1>7, <2>4 DEF Busy
    <3>2. mine[q] \in Buffers /\ block[mine[q]] \in Blocks /\ mine[q] # i
      BY <1>3, <3>1, Requester, OneHolder DEF Busy, Holding
    <3>3. block[mine[q]] # block[i]
      BY <1>2, <1>3, <3>2 DEF Cache, Distinct
    <3> QED
      BY <1>1, <1>2, <1>6, <3>1, <3>2, <3>3 DEF Contents
  <2>5. ASSUME NEW b \in Blocks
        PROVE  platter'[b] = latest'[b] \/ \E q \in Procs : ToWrite(q)' /\ block'[mine'[q]] = b
    <3>1. ToWrite(p)'
      BY <1>6, <1>7 DEF ToWrite
    <3>2. CASE b = block[i]
      BY <1>1, <3>1, <3>2
    <3>3. CASE b # block[i]
      <4>1. \A q \in Procs : ToWrite(q) => ToWrite(q)'
        BY <1>1, <1>6, <1>7, <3>1 DEF ToWrite
      <4> QED
        BY <1>1, <1>2, <1>6, <3>3, <4>1 DEF Contents
    <3> QED
      BY <3>2, <3>3
  <2> QED
    BY <2>2, <2>3, <2>4, <2>5 DEF Contents
<1> QED
  BY <1>5, <1>8, <1>9, <1>10, <1>11 DEF IInv

LEMMA UnlockInv ==
  ASSUME IInv, NEW p \in Procs, unlock(p)
  PROVE  IInv'
<1> PICK i : i = mine[p]
  OBVIOUS
<1>2. TypeOK /\ Cache /\ Calls /\ Contents /\ NoPanic
  BY DEF IInv
<1>3. pc[p] \in {"use", "release"} /\ i \in Buffers /\ holder[i] = p
  BY <1>2 DEF unlock, Cache, Users, Holders, Holding, TypeOK
<1>1. /\ holder' = [holder EXCEPT ![i] = NoProc]
      /\ pc' = [pc EXCEPT ![p] = "drop"]
      /\ UNCHANGED <<platter, free, descriptor, operations, info, available, used, pending, handler,
                     request, disk_owned, data, diskPanic, block, is_valid, reference_count, mine,
                     changes, latest, cachePanic>>
  BY <1>3 DEF unlock, Goto, ring, diskVars
<1>4. TypeOK' /\ NoPanic'
  BY <1>1, <1>2 DEF TypeOK, DiskTypeOK, NoPanic
<1>5. /\ \A q \in Procs : pc'[q] = IF q = p THEN "drop" ELSE pc[q]
      /\ \A j \in Buffers : holder'[j] = IF j = i THEN NoProc ELSE holder[j]
  BY <1>1, <1>2, <1>3 DEF TypeOK
<1>6. \A q \in Procs : At(q)' = At(q) /\ Head(q)' = Head(q) /\ Buf(q)' = Buf(q) /\ Wr(q)' = Wr(q)
  BY <1>1 DEF At, Head, Buf, Wr
<1>7. Users'
  BY <1>1, <1>2, <1>3, <1>5 DEF Cache, Users
<1>8. Holders'
  BY <1>1, <1>2, <1>3, <1>5, Constants DEF Cache, Holders, Holding
<1>9. Distinct' /\ ReferencesExact'
  BY <1>1, <1>2 DEF Cache, Distinct, ReferencesExact
<1>10. Calls'
  BY <1>1, <1>2, <1>3, <1>5, <1>6 DEF Calls
<1>11. Disk' /\ NobodyWaitsInVain'
  BY <1>1, <1>6, DiskFrame, WaitFrame
<1>12. Contents'
  <2>1. \A q \in Procs : pc'[q] \in {"use", "write", "read"} => pc[q] = pc'[q]
    BY <1>5
  <2>2. \A q \in Procs : (Busy(q)' <=> Busy(q)) /\ (ToWrite(q) => ToWrite(q)')
    BY <1>1, <1>3, <1>5, <1>6 DEF ToWrite, Busy
  <2> QED
    BY <1>1, <1>2, <1>6, <2>1, <2>2 DEF Contents
<1> QED
  BY <1>4, <1>7, <1>8, <1>9, <1>10, <1>11, <1>12 DEF IInv, Cache

LEMMA DropInv ==
  ASSUME IInv, NEW p \in Procs, drop(p)
  PROVE  IInv'
<1> PICK i : i = mine[p]
  OBVIOUS
<1>1. /\ pc[p] = "drop"
      /\ reference_count' = [reference_count EXCEPT ![i] = reference_count[i] - 1]
      /\ mine' = [mine EXCEPT ![p] = NoBuffer]
      /\ pc' = [pc EXCEPT ![p] = "idle"]
      /\ UNCHANGED <<platter, free, descriptor, operations, info, available, used, pending, handler,
                     request, disk_owned, data, diskPanic, block, is_valid, holder,
                     changes, latest, cachePanic>>
  BY DEF drop, Goto, ring, diskVars, Dropped
<1>2. TypeOK /\ Cache /\ Calls /\ Contents /\ NoPanic
  BY DEF IInv
<1>3. i \in Buffers /\ At(p) = "none"
  BY <1>1, <1>2 DEF Cache, Users, TypeOK, Calls
<1>4. /\ \A q \in Procs : pc'[q] = IF q = p THEN "idle" ELSE pc[q]
      /\ \A q \in Procs : mine'[q] = IF q = p THEN NoBuffer ELSE mine[q]
      /\ \A j \in Buffers : reference_count'[j] =
           IF j = i THEN reference_count[j] - 1 ELSE reference_count[j]
  BY <1>1, <1>2, <1>3 DEF TypeOK
<1>5. \A q \in Procs : At(q)' = At(q) /\ Head(q)' = Head(q) /\ Buf(q)' = Buf(q) /\ Wr(q)' = Wr(q)
  BY <1>1 DEF At, Head, Buf, Wr
<1>6. ReferencesExact'
  <2> SUFFICES ASSUME NEW j \in Buffers
               PROVE  reference_count'[j] = Cardinality({q \in Procs : mine'[q] = j})
    BY DEF ReferencesExact
  <2> DEFINE U == {q \in Procs : mine[q] = j}
  <2>1. reference_count[j] = Cardinality(U)
    BY <1>2 DEF Cache, ReferencesExact
  <2>2. CASE j = i
    <3>1. {q \in Procs : mine'[q] = j} = U \ {p} /\ p \in U /\ U \in SUBSET Procs
      BY <1>3, <1>4, <2>2, Constants
    <3>2. Cardinality(U \ {p}) = Cardinality(U) - 1
      BY <3>1, OneProcess
    <3> QED
      BY <1>4, <2>1, <2>2, <3>1, <3>2
  <2>3. CASE j # i
    <3>1. {q \in Procs : mine'[q] = j} = U
      BY <1>4, <2>3, Constants
    <3> QED
      BY <1>4, <2>1, <2>3, <3>1
  <2> QED
    BY <2>2, <2>3
<1>7. reference_count[i] - 1 \in Nat
  <2> DEFINE V == {q \in Procs : mine'[q] = i}
  <2>1. V \in SUBSET Procs
    OBVIOUS
  <2>2. Cardinality(V) \in Nat
    BY <2>1, OneProcess
  <2> QED
    BY <1>3, <1>4, <1>6, <2>2 DEF ReferencesExact
<1>8. TypeOK' /\ NoPanic'
  BY <1>1, <1>2, <1>7 DEF TypeOK, DiskTypeOK, NoPanic
<1>9. Users'
  BY <1>1, <1>2, <1>4 DEF Cache, Users
<1>10. Holders'
  BY <1>1, <1>2, <1>4, Constants DEF Cache, Holders, Holding
<1>11. Distinct'
  BY <1>1, <1>2 DEF Cache, Distinct
<1>12. Calls'
  BY <1>2, <1>3, <1>4, <1>5 DEF Calls
<1>13. Disk' /\ NobodyWaitsInVain'
  BY <1>1, <1>5, DiskFrame, WaitFrame
<1>14. Contents'
  <2>1. \A q \in Procs : pc'[q] \in {"use", "write", "read"} => pc[q] = pc'[q] /\ mine'[q] = mine[q]
    BY <1>4
  <2>2. \A q \in Procs : (Busy(q)' <=> Busy(q)) /\ (ToWrite(q) => ToWrite(q)' /\ mine'[q] = mine[q])
    BY <1>1, <1>4, <1>5 DEF ToWrite, Busy
  <2> QED
    BY <1>1, <1>2, <1>5, <2>1, <2>2 DEF Contents
<1> QED
  BY <1>6, <1>8, <1>9, <1>10, <1>11, <1>12, <1>13, <1>14 DEF IInv, Cache

-----------------------------------------------------------------------------
(* The driver.                                                              *)

\* Too few descriptors are free, so some request has the others: it will free
\* them and wake the process that goes to sleep here.
LEMMA SubmitFailsInv ==
  ASSUME IInv, NEW p \in Procs, submitFails(p), UNCHANGED cacheVars
  PROVE  IInv'
<1> DEFINE R == IF FreeDescriptors = {} THEN request ELSE Retry(request)
<1>1. /\ At(p) = "submit" /\ Cardinality(FreeDescriptors) < 3
      /\ request' = [R EXCEPT ![p].at = "asleep"]
      /\ UNCHANGED <<platter, free, descriptor, operations, info, available, used, pending, handler,
                     disk_owned, data, diskPanic, block, is_valid, reference_count, holder, pc, mine,
                     changes, latest, cachePanic>>
  BY DEF submitFails, cacheVars, ring, ChainLength, At
<1>2. TypeOK /\ Cache /\ Calls /\ Disk /\ Contents /\ NoPanic /\ NobodyWaitsInVain
  BY DEF IInv
<1>3. request \in [Procs -> Requests]
  BY <1>2 DEF TypeOK, DiskTypeOK
<1>4. /\ R \in [Procs -> Requests]
      /\ \A q \in Procs : /\ R[q].at = At(q) \/ (At(q) = "asleep" /\ R[q].at = "submit")
                          /\ R[q].write = Wr(q) /\ R[q].buffer = Buf(q) /\ R[q].head = Head(q)
  <2>1. CASE FreeDescriptors = {}
    BY <1>3, <2>1 DEF At, Wr, Buf, Head
  <2>2. CASE FreeDescriptors # {}
    BY <1>3, <2>2, RetryFields
  <2> QED
    BY <2>1, <2>2
<1> HIDE DEF R
<1>5. /\ request' \in [Procs -> Requests]
      /\ At(p)' = "asleep"
      /\ \A q \in Procs : /\ q # p => At(q)' = At(q) \/ (At(q) = "asleep" /\ At(q)' = "submit")
                          /\ Wr(q)' = Wr(q) /\ Buf(q)' = Buf(q) /\ Head(q)' = Head(q)
  BY <1>1, <1>4 DEF Requests, At, Wr, Buf, Head
<1>6. TypeOK' /\ NoPanic'
  BY <1>1, <1>2, <1>5 DEF TypeOK, DiskTypeOK, NoPanic
<1>7. Cache'
  BY <1>1, CacheFrame
<1>8. Disk'
  BY <1>1, <1>5, DiskFrame DEF Busy
<1>9. Calls'
  BY <1>1, <1>2, <1>5 DEF Calls
<1>10. Contents'
  <2>1. \A q \in Procs : (Busy(q)' <=> Busy(q)) /\ (ToWrite(q) => ToWrite(q)')
    BY <1>1, <1>5 DEF ToWrite, Busy
  <2> QED
    BY <1>1, <1>2, <1>5, <2>1 DEF Contents
<1>11. PICK q \in Procs : Busy(q)
  <2>1. FreeDescriptors # Descriptors
    BY <1>1, Constants
  <2>2. PICK d \in Descriptors : ~free[d]
    BY <2>1 DEF FreeDescriptors
  <2> QED
    BY <1>2, <2>2 DEF Disk, Taken
<1>12. At(q)' \in {"wait", "finish"}
  BY <1>1, <1>5, <1>11 DEF Busy
<1>13. NobodyWaitsInVain'
  BY <1>1, <1>2, <1>12 DEF NobodyWaitsInVain, CompletionNoticed, SleepersHaveWaker, At
<1> QED
  BY <1>2, <1>6, <1>7, <1>8, <1>9, <1>10, <1>13 DEF IInv

\* The chain is made of free descriptors, and those of the chains under way are
\* not free.
LEMMA SubmitInv ==
  ASSUME IInv, NEW p \in Procs, submit(p, block[mine[p]]), UNCHANGED cacheVars
  PROVE  IInv'
<1> PICK i : i = request[p].buffer
  OBVIOUS
<1>0. PICK d0, d1, d2 \in Descriptors :
        /\ request[p].at = "submit" /\ handler = "none"
        /\ IsNext(d0, {}) /\ IsNext(d1, {d0}) /\ IsNext(d2, {d0, d1})
        /\ free' = [free EXCEPT ![d0] = FALSE, ![d1] = FALSE, ![d2] = FALSE]
        /\ operations' = [operations EXCEPT ![d0] = [write |-> request[p].write,
                                                     block |-> block[mine[p]]]]
        /\ descriptor' = [descriptor EXCEPT ![d0].next = d1,
                                            ![d1] = [next |-> d2, buffer |-> i],
                                            ![d2].next = NoNext]
        /\ info' = [info EXCEPT ![d0] = [buffer |-> i, ok |-> FALSE]]
        /\ disk_owned' = [disk_owned EXCEPT ![i] = TRUE]
        /\ available' = available \cup {d0}
        /\ request' = [request EXCEPT ![p].at = "wait", ![p].head = d0]
  BY ZenonT(90) DEF submit
<1>1. /\ At(p) = "submit"
      /\ free[d0] /\ free[d1] /\ free[d2] /\ d1 # d0 /\ d2 # d0 /\ d2 # d1
  BY <1>0 DEF IsNext, At
<1>2. UNCHANGED <<platter, used, pending, handler, data, diskPanic, block, is_valid,
                  reference_count, holder, pc, mine, changes, latest, cachePanic>>
  BY DEF submit, cacheVars
<1>3. TypeOK /\ Cache /\ Calls /\ Disk /\ Contents /\ NoPanic /\ NobodyWaitsInVain
  BY DEF IInv
<1>4. i \in Buffers /\ i = mine[p] /\ Buf(p) = i /\ pc[p] \in {"read", "write"}
      /\ (Wr(p) <=> pc[p] = "write") /\ block[i] \in Blocks
  BY <1>1, Requester DEF Buf
<1>5. /\ free' \in [Descriptors -> BOOLEAN] /\ disk_owned' \in [Buffers -> BOOLEAN]
      /\ \A d \in Descriptors : free'[d] <=> free[d] /\ d \notin {d0, d1, d2}
      /\ \A j \in Buffers : disk_owned'[j] <=> disk_owned[j] \/ j = i
  BY <1>0, <1>1, <1>3, <1>4 DEF TypeOK, DiskTypeOK
<1>6. /\ descriptor' \in [Descriptors -> [next : {NoNext} \cup Descriptors,
                                          buffer : Buffers \cup {NoBuffer}]]
      /\ Link(d0)' = d1 /\ Link(d1)' = d2 /\ DBuf(d1)' = i
      /\ \A d \in Descriptors : d \notin {d0, d1, d2} => Link(d)' = Link(d) /\ DBuf(d)' = DBuf(d)
  <2>1. descriptor \in [Descriptors -> [next : {NoNext} \cup Descriptors,
                                        buffer : Buffers \cup {NoBuffer}]]
    BY <1>3 DEF TypeOK, DiskTypeOK
  <2> QED
    BY <1>0, <1>1, <1>4, <2>1 DEF Link, DBuf
<1>7. /\ info' \in [Descriptors -> [buffer : Buffers \cup {NoBuffer}, ok : BOOLEAN]]
      /\ IBuf(d0)' = i
      /\ \A d \in Descriptors : d # d0 => IBuf(d)' = IBuf(d) /\ Done(d)' = Done(d)
  BY <1>0, <1>3, <1>4 DEF TypeOK, DiskTypeOK, IBuf, Done
<1>8. /\ operations' \in [Descriptors -> [write : BOOLEAN, block : Blocks \cup {NoBlock}]]
      /\ OpWr(d0)' = Wr(p) /\ OpBlk(d0)' = block[i]
      /\ \A d \in Descriptors : d # d0 => OpWr(d)' = OpWr(d) /\ OpBlk(d)' = OpBlk(d)
  <2>1. Wr(p) \in BOOLEAN
    BY <1>3, Fields
  <2> QED
    BY <1>0, <1>3, <1>4, <2>1 DEF TypeOK, DiskTypeOK, OpWr, OpBlk, Wr
<1>9. /\ request' \in [Procs -> Requests]
      /\ At(p)' = "wait" /\ Head(p)' = d0
      /\ \A q \in Procs : /\ q # p => At(q)' = At(q) /\ Head(q)' = Head(q)
                          /\ Wr(q)' = Wr(q) /\ Buf(q)' = Buf(q)
  <2>1. request \in [Procs -> Requests] /\ request[p] \in Requests
    BY <1>3 DEF TypeOK, DiskTypeOK
  <2> DEFINE r == [[request[p] EXCEPT !.at = "wait"] EXCEPT !.head = d0]
  <2>2. /\ r \in Requests /\ r.at = "wait" /\ r.head = d0
        /\ r.write = request[p].write /\ r.buffer = request[p].buffer
    BY <2>1 DEF Requests
  <2>3. request' = [request EXCEPT ![p] = r]
    BY <1>0, <2>1
  <2> HIDE DEF r
  <2> QED
    BY <2>1, <2>2, <2>3 DEF At, Wr, Buf, Head
<1>10. TypeOK' /\ NoPanic'
  <2>1. available' \subseteq Descriptors
    BY <1>0, <1>3 DEF TypeOK, DiskTypeOK
  <2> QED
    BY <1>2, <1>3, <1>5, <1>6, <1>7, <1>8, <1>9, <2>1 DEF TypeOK, DiskTypeOK, NoPanic
<1>11. Cache'
  BY <1>2, CacheFrame
<1>12. Calls'
  BY <1>1, <1>2, <1>3, <1>9 DEF Calls
<1>13. /\ ~Busy(p) /\ Busy(p)'
       /\ \A q \in Procs : q # p => (Busy(q)' <=> Busy(q))
  BY <1>1, <1>9 DEF Busy
<1>14. \A q \in Procs : Busy(q) =>
         /\ Chained(q) /\ Head(q) \in Descriptors /\ d0 \notin Chain(Head(q))
         /\ d1 \notin Chain(Head(q)) /\ d2 \notin Chain(Head(q))
         /\ Chain(Head(q)) \subseteq Descriptors
  BY <1>1, <1>3 DEF Disk, Chains, Chained, Chain, Link
<1>15. \A q \in Procs : Busy(q) => Chain(Head(q))' = Chain(Head(q)) /\ Chained(q)'
  <2> SUFFICES ASSUME NEW q \in Procs, Busy(q)
               PROVE  Chain(Head(q))' = Chain(Head(q)) /\ Chained(q)'
    OBVIOUS
  <2>1. PICK h, d, e : h = Head(q) /\ d = Link(h) /\ e = Link(d)
    OBVIOUS
  <2>2. /\ Chained(q) /\ q # p
        /\ h \in Descriptors /\ d \in Descriptors /\ e \in Descriptors
        /\ h \notin {d0, d1, d2} /\ d \notin {d0, d1, d2} /\ e \notin {d0, d1, d2}
    BY <1>13, <1>14, <2>1 DEF Chained, Chain, Link
  <2>3. Head(q)' = h /\ Link(h)' = d /\ Link(d)' = e
    BY <1>6, <1>9, <2>1, <2>2
  <2>4. Chain(Head(q))' = {h, d, e} /\ Chain(Head(q)) = {h, d, e}
    BY <2>1, <2>3 DEF Chain, Link
  <2>5. Chained(q)'
    BY <1>2, <1>5, <1>6, <1>7, <1>8, <1>9, <2>1, <2>2, <2>3 DEF Chained
  <2> QED
    BY <2>4, <2>5
<1>16. Chain(Head(p))' = {d0, d1, d2} /\ Chained(p)'
  <2>1. Chain(Head(p))' = {d0, d1, d2}
    BY <1>6, <1>9 DEF Chain, Link
  <2>2. Buf(p)' = i /\ (Wr(p)' <=> Wr(p)) /\ block'[i] = block[i]
    BY <1>2, <1>4, <1>9
  <2> QED
    BY <1>1, <1>5, <1>6, <1>7, <1>8, <1>9, <2>1, <2>2 DEF Chained
<1>17. Chains'
  BY <1>13, <1>15, <1>16 DEF Chains
<1>18. Apart'
  BY <1>3, <1>13, <1>14, <1>15, <1>16 DEF Disk, Apart
<1>19. Taken'
  BY <1>3, <1>5, <1>13, <1>15, <1>16 DEF Disk, Taken
<1>20. d0 \notin available /\ d0 \notin used
  <2>1. \A q \in Procs : At(q) = "wait" => Head(q) # d0
    BY <1>14 DEF Busy, Chain
  <2> QED
    BY <1>3, <2>1 DEF Disk, Rings
<1>21. Rings'
  <2>1. \A h \in used : h \in Descriptors /\ Done(h)'
    BY <1>3, <1>7, <1>20 DEF Disk, Rings, TypeOK, DiskTypeOK
  <2>2. \A h \in available \cup used : \E q \in Procs : q # p /\ At(q) = "wait" /\ Head(q) = h
    BY <1>1, <1>3 DEF Disk, Rings
  <2> QED
    BY <1>0, <1>2, <1>3, <1>9, <1>20, <2>1, <2>2 DEF Disk, Rings
<1>22. OwnedByDisk'
  BY <1>1, <1>3, <1>4, <1>5, <1>9 DEF Disk, OwnedByDisk
<1>23. DescriptorsAccounted'
  <2> DEFINE S == Descriptors \ FreeDescriptors
             B == {q \in Procs : Busy(q)}
  <2>1. Cardinality(S) = 3 * Cardinality(B) /\ B \in SUBSET Procs /\ S \in SUBSET Descriptors
    BY <1>3 DEF Disk, DescriptorsAccounted, ChainLength, Busy, At
  <2>2. (Descriptors \ FreeDescriptors)' = S \cup {d0, d1, d2}
    BY <1>1, <1>5 DEF FreeDescriptors
  <2>3. {q \in Procs : request[q].at \in {"wait", "finish"}}' = B \cup {p} /\ p \notin B
    BY <1>13 DEF Busy, At
  <2>4. d0 \notin S /\ d1 \notin S /\ d2 \notin S
    BY <1>1 DEF FreeDescriptors
  <2> HIDE DEF S, B
  <2>5. Cardinality(S \cup {d0, d1, d2}) = Cardinality(S) + 3
    BY <1>1, <2>1, <2>4, ThreeDescriptors
  <2>6. Cardinality(B \cup {p}) = Cardinality(B) + 1 /\ Cardinality(B) \in Nat
    BY <2>1, <2>3, OneProcess
  <2>7. Cardinality(S) + 3 = 3 * (Cardinality(B) + 1)
    BY <2>1, <2>6
  <2> QED
    BY <2>2, <2>3, <2>5, <2>6, <2>7 DEF DescriptorsAccounted, ChainLength
<1>24. Contents'
  <2>1. \A q \in Procs : ToWrite(q) => ToWrite(q)'
    BY <1>0, <1>1, <1>2, <1>9 DEF ToWrite
  <2>2. \A q \in Procs : Busy(q)' /\ Head(q)' \notin available' => Busy(q) /\ Head(q) \notin available
    BY <1>0, <1>9, <1>13
  <2> QED
    BY <1>2, <1>3, <2>1, <2>2 DEF Contents
<1>25. NobodyWaitsInVain'
  BY <1>1, <1>2, <1>9, WaitFrame
<1> QED
  BY <1>10, <1>11, <1>12, <1>17, <1>18, <1>19, <1>21, <1>22, <1>23, <1>24, <1>25 DEF IInv, Disk

\* A process that was woken finds its buffer no longer owned by the disk, since
\* nobody else has a request for it; the chain it frees is its own, and none of
\* the descriptors was free.
LEMMA DiskReturnInv ==
  ASSUME IInv, NEW p \in Procs, diskReturn(p)
  PROVE  IInv'
<1> PICK i : i = request[p].buffer
  OBVIOUS
<1> PICK h : h = request[p].head
  OBVIOUS
<1>1. request[p].at = "finish" /\ At(p) = "finish" /\ Busy(p)
  BY DEF diskReturn, finish, At, Busy
<1>2. TypeOK /\ Cache /\ Calls /\ Disk /\ Contents /\ NoPanic /\ NobodyWaitsInVain
  BY DEF IInv
<1>3. i \in Buffers /\ i = mine[p] /\ Buf(p) = i /\ pc[p] \in {"read", "write"}
      /\ (Wr(p) <=> pc[p] = "write") /\ block[i] \in Blocks /\ Head(p) = h
  BY <1>1, Requester DEF Buf, Head
<1>4. ~disk_owned[i]
  <2> SUFFICES ASSUME disk_owned[i] PROVE FALSE
    OBVIOUS
  <2>1. PICK q \in Procs : At(q) = "wait" /\ Buf(q) = i
    BY <1>2, <1>3 DEF Disk, OwnedByDisk
  <2> QED
    BY <1>1, <1>3, <2>1, OneRequest
<1>5. PICK d, e : d = Link(h) /\ e = Link(d)
  OBVIOUS
<1>6. /\ h \in Descriptors /\ d \in Descriptors /\ e \in Descriptors
      /\ h # d /\ h # e /\ d # e /\ ~free[h] /\ ~free[d] /\ ~free[e]
      /\ Chain(h) = {h, d, e}
  BY <1>1, <1>2, <1>3, <1>5 DEF Disk, Chains, Chained, Chain, Link
<1>7. /\ info' = [info EXCEPT ![h] = [buffer |-> NoBuffer, ok |-> FALSE]]
      /\ operations' = [operations EXCEPT ![h] = [write |-> FALSE, block |-> NoBlock]]
      /\ free' = [c \in Descriptors |-> free[c] \/ c \in Chain(h)]
      /\ descriptor' = [c \in Descriptors |->
                          IF c \in Chain(h) THEN [next |-> NoNext, buffer |-> NoBuffer]
                          ELSE descriptor[c]]
      /\ diskPanic' = IF \E c \in Chain(h) : free[c] THEN "freeDescriptor_already_free"
                      ELSE diskPanic
      /\ request' = [Retry(request) EXCEPT ![p] = NoRequest]
  BY <1>4, Zenon DEF diskReturn, finish
<1>8. /\ UNCHANGED <<platter, available, used, pending, handler, disk_owned, data, diskPanic, block,
                     reference_count, holder, mine, changes, latest, cachePanic>>
  BY <1>6, <1>7 DEF diskReturn, finish, ring
<1>9. /\ request' \in [Procs -> Requests]
      /\ At(p)' = "none"
      /\ \A q \in Procs : q # p => /\ At(q)' = IF At(q) = "asleep" THEN "submit" ELSE At(q)
                                   /\ Wr(q)' = Wr(q) /\ Buf(q)' = Buf(q) /\ Head(q)' = Head(q)
  <2>1. NoRequest \in Requests /\ NoRequest.at = "none"
    BY DEF NoRequest, Requests
  <2>2. /\ Retry(request) \in [Procs -> Requests]
        /\ \A q \in Procs :
             /\ Retry(request)[q].at = IF At(q) = "asleep" THEN "submit" ELSE At(q)
             /\ Retry(request)[q].write = Wr(q) /\ Retry(request)[q].buffer = Buf(q)
             /\ Retry(request)[q].head = Head(q)
    BY <1>2, RetryFields DEF TypeOK, DiskTypeOK
  <2> QED
    BY <1>7, <2>1, <2>2 DEF At, Wr, Buf, Head
<1>10. /\ pc' = [pc EXCEPT ![p] = IF pc[p] = "read" THEN "use" ELSE "release"]
       /\ is_valid' = IF pc[p] = "read" THEN [is_valid EXCEPT ![i] = TRUE] ELSE is_valid
  BY <1>3, <1>9 DEF diskReturn, Goto, At
<1>11. /\ \A q \in Procs : pc'[q] = IF q # p THEN pc[q]
                                    ELSE IF pc[p] = "read" THEN "use" ELSE "release"
       /\ \A j \in Buffers : is_valid'[j] <=> is_valid[j] \/ (j = i /\ pc[p] = "read")
  BY <1>2, <1>3, <1>10 DEF TypeOK
<1>12. /\ free' \in [Descriptors -> BOOLEAN]
       /\ \A c \in Descriptors : free'[c] <=> free[c] \/ c \in {h, d, e}
  BY <1>2, <1>6, <1>7 DEF TypeOK, DiskTypeOK
<1>13. /\ descriptor' \in [Descriptors -> [next : {NoNext} \cup Descriptors,
                                           buffer : Buffers \cup {NoBuffer}]]
       /\ \A c \in Descriptors : c \notin {h, d, e} => Link(c)' = Link(c) /\ DBuf(c)' = DBuf(c)
  BY <1>2, <1>6, <1>7 DEF TypeOK, DiskTypeOK, Link, DBuf
<1>14. /\ info' \in [Descriptors -> [buffer : Buffers \cup {NoBuffer}, ok : BOOLEAN]]
       /\ operations' \in [Descriptors -> [write : BOOLEAN, block : Blocks \cup {NoBlock}]]
       /\ \A c \in Descriptors : c # h => /\ IBuf(c)' = IBuf(c) /\ Done(c)' = Done(c)
                                          /\ OpWr(c)' = OpWr(c) /\ OpBlk(c)' = OpBlk(c)
  BY <1>2, <1>6, <1>7 DEF TypeOK, DiskTypeOK, IBuf, Done, OpWr, OpBlk
<1>15. TypeOK' /\ NoPanic'
  <2>1. /\ pc' \in [Procs -> {"idle", "lock", "read", "use", "write", "release", "drop"}]
        /\ is_valid' \in [Buffers -> BOOLEAN]
    BY <1>2, <1>10 DEF TypeOK
  <2> QED
    BY <1>2, <1>8, <1>9, <1>12, <1>13, <1>14, <2>1 DEF TypeOK, DiskTypeOK, NoPanic
<1>16. Cache'
  <2>1. \A q \in Procs : /\ pc'[q] \in Holding <=> pc[q] \in Holding
                         /\ pc'[q] = "idle" <=> pc[q] = "idle"
    BY <1>3, <1>11 DEF Holding
  <2> QED
    BY <1>8, <2>1, CacheFrame
<1>17. Calls'
  BY <1>2, <1>8, <1>9, <1>11 DEF Calls
<1>18. ~Busy(p)' /\ \A q \in Procs : q # p => (Busy(q)' <=> Busy(q))
  BY <1>9 DEF Busy
<1>19. \A q \in Procs : q # p /\ Busy(q) =>
         /\ Chained(q) /\ Head(q) \in Descriptors /\ h \notin Chain(Head(q))
         /\ d \notin Chain(Head(q)) /\ e \notin Chain(Head(q))
  BY <1>1, <1>2, <1>3, <1>6 DEF Disk, Chains, Apart, Chained
<1>20. \A q \in Procs : q # p /\ Busy(q) => Chain(Head(q))' = Chain(Head(q)) /\ Chained(q)'
  <2> SUFFICES ASSUME NEW q \in Procs, q # p, Busy(q)
               PROVE  Chain(Head(q))' = Chain(Head(q)) /\ Chained(q)'
    OBVIOUS
  <2>1. PICK a, b, c : a = Head(q) /\ b = Link(a) /\ c = Link(b)
    OBVIOUS
  <2>2. /\ Chained(q)
        /\ a \in Descriptors /\ b \in Descriptors /\ c \in Descriptors
        /\ a \notin {h, d, e} /\ b \notin {h, d, e} /\ c \notin {h, d, e}
    BY <1>19, <2>1 DEF Chained, Chain, Link
  <2>3. Head(q)' = a /\ Link(a)' = b /\ Link(b)' = c
    BY <1>9, <1>13, <2>1, <2>2
  <2>4. Chain(Head(q))' = {a, b, c} /\ Chain(Head(q)) = {a, b, c}
    BY <2>1, <2>3 DEF Chain, Link
  <2>5. Chained(q)'
    BY <1>8, <1>9, <1>12, <1>13, <1>14, <2>1, <2>2, <2>3 DEF Chained
  <2> QED
    BY <2>4, <2>5
<1>21. Chains' /\ Apart'
  BY <1>2, <1>18, <1>20 DEF Disk, Chains, Apart
<1>22. Taken'
  <2> SUFFICES ASSUME NEW c \in Descriptors, ~free'[c]
               PROVE  \E q \in Procs : Busy(q)' /\ c \in Chain(Head(q))'
    BY DEF Taken
  <2>1. PICK q \in Procs : Busy(q) /\ c \in Chain(Head(q))
    BY <1>2, <1>12 DEF Disk, Taken
  <2>2. q # p
    BY <1>3, <1>6, <1>12, <2>1
  <2> QED
    BY <1>18, <1>20, <2>1, <2>2
<1>23. h \notin available /\ h \notin used
  BY <1>1, <1>2, <1>3, OneHead DEF Disk, Rings, Busy
<1>24. \A q \in Procs : At(q)' = "wait" <=> At(q) = "wait"
  BY <1>1, <1>9
<1>25. Rings'
  <2>1. \A c \in used : Done(c)'
    BY <1>2, <1>14, <1>23 DEF Disk, Rings, TypeOK, DiskTypeOK
  <2>2. \A q \in Procs : At(q) = "wait" => Head(q)' = Head(q)
    BY <1>1, <1>9
  <2> QED
    BY <1>2, <1>8, <1>24, <2>1, <2>2 DEF Disk, Rings
<1>26. OwnedByDisk'
  <2>1. \A q \in Procs : At(q) = "wait" => Buf(q)' = Buf(q)
    BY <1>1, <1>9
  <2> QED
    BY <1>2, <1>8, <1>24, <2>1 DEF Disk, OwnedByDisk
<1>27. DescriptorsAccounted'
  <2> DEFINE S == Descriptors \ FreeDescriptors
             B == {q \in Procs : Busy(q)}
             T == {c \in Descriptors : ~free'[c]}
  <2>1. Cardinality(S) = 3 * Cardinality(B) /\ B \in SUBSET Procs /\ S \in SUBSET Descriptors
    BY <1>2 DEF Disk, DescriptorsAccounted, ChainLength, Busy, At
  <2>2. (Descriptors \ FreeDescriptors)' = T
    BY DEF FreeDescriptors
  <2>3. {q \in Procs : request[q].at \in {"wait", "finish"}}' = B \ {p} /\ p \in B
    BY <1>1, <1>18 DEF Busy, At
  <2>4. h \notin T /\ d \notin T /\ e \notin T /\ S = T \cup {h, d, e} /\ T \in SUBSET Descriptors
    BY <1>6, <1>12 DEF FreeDescriptors
  <2> HIDE DEF S, B, T
  <2>5. Cardinality(S) = Cardinality(T) + 3 /\ Cardinality(T) \in Nat
    BY <1>6, <2>4, ThreeDescriptors
  <2>6. Cardinality(B \ {p}) = Cardinality(B) - 1 /\ Cardinality(B) \in Nat
    BY <2>1, <2>3, OneProcess
  <2>7. Cardinality(T) = 3 * (Cardinality(B) - 1)
    BY <2>1, <2>5, <2>6
  <2> QED
    BY <2>2, <2>3, <2>6, <2>7 DEF DescriptorsAccounted, ChainLength
<1>28. Contents'
  <2>1. pc[p] = "read" => data[i] = latest[block[i]]
    BY <1>1, <1>2, <1>3, <1>23 DEF Contents
  <2>2. \A j \in Buffers : is_valid'[j] => block'[j] \in Blocks /\ data'[j] = latest'[block'[j]]
    BY <1>2, <1>3, <1>8, <1>11, <2>1 DEF Contents
  <2>3. \A q \in Procs : pc[q] \in {"use", "write"} => mine[q] \in Buffers
    BY <1>2 DEF Cache, Users, TypeOK
  <2>4. \A q \in Procs : pc'[q] \in {"use", "write"} => is_valid'[mine'[q]]
    BY <1>2, <1>3, <1>8, <1>11, <2>3 DEF Contents
  <2>5. \A q \in Procs : pc'[q] = "read" /\ Busy(q)' =>
          q # p /\ pc[q] = "read" /\ Busy(q) /\ Head(q)' = Head(q)
    BY <1>9, <1>11, <1>18
  <2>6. \A q \in Procs : ToWrite(q) => ToWrite(q)'
    BY <1>1, <1>8, <1>9, <1>11 DEF ToWrite
  <2> QED
    BY <1>2, <1>8, <2>2, <2>4, <2>5, <2>6 DEF Contents
<1>29. NobodyWaitsInVain'
  <2>1. CompletionNoticed'
    BY <1>2, <1>8 DEF NobodyWaitsInVain, CompletionNoticed
  <2>2. SleepersHaveWaker'
    BY <1>9 DEF SleepersHaveWaker, At
  <2> QED
    BY <2>1, <2>2 DEF NobodyWaitsInVain
<1> QED
  BY <1>15, <1>16, <1>17, <1>21, <1>22, <1>25, <1>26, <1>27, <1>28, <1>29 DEF IInv, Disk

-----------------------------------------------------------------------------
(* The device and the interrupt handler.                                    *)

\* The device works for the process that holds the buffer: what it writes is the
\* latest contents of the block, and nobody is about to write what it reads.
LEMMA DeviceInv ==
  ASSUME IInv, Device
  PROVE  IInv'
<1>0. PICK h \in available :
        LET op == operations[h]  i == descriptor[descriptor[h].next].buffer IN
        /\ IF op.write
           THEN platter' = [platter EXCEPT ![op.block] = data[i]] /\ UNCHANGED data
           ELSE data' = [data EXCEPT ![i] = platter[op.block]] /\ UNCHANGED platter
        /\ info' = [info EXCEPT ![h].ok = TRUE]
        /\ available' = available \ {h}
        /\ used' = used \cup {h}
        /\ pending' = TRUE
        /\ UNCHANGED <<free, descriptor, operations, handler, request, disk_owned, diskPanic>>
  BY Zenon DEF Device, deviceComplete
<1>1. UNCHANGED <<block, is_valid, reference_count, holder, pc, mine, changes, latest, cachePanic>>
  BY DEF Device, cacheVars
<1>2. TypeOK /\ Cache /\ Calls /\ Disk /\ Contents /\ NoPanic /\ NobodyWaitsInVain
  BY DEF IInv
<1>3. PICK p \in Procs : At(p) = "wait" /\ Head(p) = h
  BY <1>2 DEF Disk, Rings
<1>4. PICK i : i = mine[p]
  OBVIOUS
<1>5. /\ h \in Descriptors /\ i \in Buffers /\ Buf(p) = i /\ block[i] \in Blocks
      /\ pc[p] \in {"read", "write"} /\ Busy(p)
      /\ descriptor[descriptor[h].next].buffer = i /\ operations[h].block = block[i]
      /\ (operations[h].write <=> pc[p] = "write")
  <2>1. i \in Buffers /\ Buf(p) = i /\ block[i] \in Blocks /\ pc[p] \in {"read", "write"}
        /\ (Wr(p) <=> pc[p] = "write") /\ Busy(p)
    BY <1>3, <1>4, Requester DEF Busy
  <2> QED
    BY <1>2, <1>3, <2>1 DEF Disk, Chains, Chained, Link, DBuf, OpWr, OpBlk
<1>6. /\ pc[p] = "write" => platter' = [platter EXCEPT ![block[i]] = data[i]] /\ UNCHANGED data
      /\ pc[p] = "read" => data' = [data EXCEPT ![i] = platter[block[i]]] /\ UNCHANGED platter
  BY <1>0, <1>5
<1>7. /\ available' = available \ {h} /\ used' = used \cup {h} /\ pending' = TRUE
      /\ UNCHANGED <<free, descriptor, operations, handler, request, disk_owned, diskPanic>>
  BY <1>0
<1>8. /\ info' \in [Descriptors -> [buffer : Buffers \cup {NoBuffer}, ok : BOOLEAN]]
      /\ Done(h)' /\ \A c \in Descriptors : IBuf(c)' = IBuf(c) /\ (Done(c) => Done(c)')
  <2>1. /\ info' = [info EXCEPT ![h].ok = TRUE]
        /\ info \in [Descriptors -> [buffer : Buffers \cup {NoBuffer}, ok : BOOLEAN]]
    BY <1>0, <1>2 DEF TypeOK, DiskTypeOK
  <2>2. \A c \in Descriptors : /\ c # h => info'[c] = info[c]
                               /\ info'[h].ok = TRUE /\ info'[h].buffer = info[h].buffer
    BY <1>5, <2>1
  <2>3. info' \in [Descriptors -> [buffer : Buffers \cup {NoBuffer}, ok : BOOLEAN]]
    BY <1>5, <2>1
  <2> QED
    BY <1>5, <2>2, <2>3 DEF IBuf, Done
<1>9. \A q \in Procs : /\ At(q)' = At(q) /\ Wr(q)' = Wr(q) /\ Buf(q)' = Buf(q)
                       /\ Head(q)' = Head(q) /\ (Busy(q)' <=> Busy(q))
  BY <1>7 DEF At, Wr, Buf, Head, Busy
<1>10. /\ pc[p] = "write" => data[i] = latest[block[i]]
       /\ pc[p] = "read" => platter[block[i]] = latest[block[i]]
  <2>1. ASSUME pc[p] = "read", NEW q \in Procs, ToWrite(q), block[mine[q]] = block[i]
        PROVE  FALSE
    <3>1. mine[q] \in Buffers /\ pc[q] = "write"
      BY <1>2, <2>1 DEF ToWrite, Cache, Users, TypeOK
    <3>2. mine[q] = i
      BY <1>2, <1>5, <2>1, <3>1 DEF Cache, Distinct
    <3> QED
      BY <1>4, <2>1, <3>1, <3>2, OneHolder DEF Holding
  <2> QED
    BY <1>2, <1>4, <1>5, <2>1 DEF Contents
<1>11. /\ platter' \in [Blocks -> Values] /\ data' \in [Buffers -> Values \cup {garbage}]
       /\ \A b \in Blocks : /\ platter'[b] = platter[b] \/ platter'[b] = latest[b]
                            /\ b = block[i] => platter'[b] = latest[b]
       /\ \A j \in Buffers : data'[j] = data[j] \/ (j = i /\ data'[j] = latest[block[j]])
       /\ data'[i] = latest[block[i]]
  <2>1. latest[block[i]] \in Values
    BY <1>2, <1>5 DEF TypeOK
  <2> QED
    BY <1>2, <1>5, <1>6, <1>10, <2>1, ZenonT(60) DEF TypeOK, DiskTypeOK
<1>12. TypeOK' /\ NoPanic'
  <2>1. available' \subseteq Descriptors /\ used' \subseteq Descriptors /\ pending' \in BOOLEAN
    BY <1>2, <1>5, <1>7 DEF TypeOK, DiskTypeOK
  <2> QED
    BY <1>1, <1>2, <1>7, <1>8, <1>11, <2>1 DEF TypeOK, DiskTypeOK, NoPanic
<1>13. Cache'
  BY <1>1, CacheFrame
<1>14. Calls'
  BY <1>1, <1>2, <1>9 DEF Calls
<1>15. Chains' /\ Apart' /\ Taken' /\ DescriptorsAccounted'
  BY <1>1, <1>7, <1>8, <1>9, ChainsFrame
<1>16. Rings'
  <2>1. \A c \in used' : Done(c)'
    BY <1>2, <1>7, <1>8 DEF Disk, Rings, TypeOK, DiskTypeOK
  <2>2. available' \cup used' = available \cup used /\ available' \cap used' = {}
    BY <1>2, <1>7 DEF Disk, Rings
  <2> QED
    BY <1>2, <1>9, <2>1, <2>2 DEF Disk, Rings
<1>17. OwnedByDisk'
  BY <1>2, <1>7, <1>9 DEF Disk, OwnedByDisk
<1>18. \A q \in Procs : q # p /\ Busy(q) => Head(q) # h
  BY <1>3, <1>5, OneHead
<1>19. Contents'
  <2>1. \A j \in Buffers : is_valid'[j] => block'[j] \in Blocks /\ data'[j] = latest'[block'[j]]
    BY <1>1, <1>2, <1>11 DEF Contents
  <2>2. \A q \in Procs : pc'[q] \in {"use", "write"} => is_valid'[mine'[q]]
    BY <1>1, <1>2 DEF Contents
  <2>3. ASSUME NEW q \in Procs, pc'[q] = "read", Busy(q)', Head(q)' \notin available'
        PROVE  data'[mine'[q]] = latest'[block'[mine'[q]]]
    <3>1. pc[q] = "read" /\ Busy(q) /\ mine[q] \in Buffers
      BY <1>1, <1>9, <2>3, Requester DEF Busy
    <3>2. CASE q = p
      BY <1>1, <1>4, <1>11, <3>2
    <3>3. CASE q # p
      <4>1. Head(q) \notin available
        BY <1>7, <1>9, <1>18, <2>3, <3>1, <3>3
      <4>2. data[mine[q]] = latest[block[mine[q]]]
        BY <1>2, <3>1, <4>1 DEF Contents
      <4> QED
        BY <1>1, <1>11, <3>1, <4>2
    <3> QED
      BY <3>2, <3>3
  <2>4. ASSUME NEW b \in Blocks
        PROVE  platter'[b] = latest'[b] \/ \E q \in Procs : ToWrite(q)' /\ block'[mine'[q]] = b
    <3>1. CASE b = block[i]
      BY <1>1, <1>11, <3>1
    <3>2. CASE b # block[i]
      <4>1. \A q \in Procs : q # p /\ ToWrite(q) => ToWrite(q)'
        BY <1>1, <1>7, <1>9, <1>18 DEF ToWrite, Busy
      <4> QED
        BY <1>1, <1>2, <1>4, <1>11, <3>2, <4>1 DEF Contents
    <3> QED
      BY <3>1, <3>2
  <2> QED
    BY <2>1, <2>2, <2>3, <2>4 DEF Contents
<1>20. NobodyWaitsInVain'
  BY <1>2, <1>7 DEF NobodyWaitsInVain, CompletionNoticed, SleepersHaveWaker
<1> QED
  BY <1>12, <1>13, <1>14, <1>15, <1>16, <1>17, <1>19, <1>20 DEF IInv, Disk

\* A completion that is seen wakes the one process that waits for it.
LEMMA InterruptLoopInv ==
  ASSUME IInv, interruptLoop, UNCHANGED cacheVars
  PROVE  IInv'
<1>0. PICK h \in used : LET i == info[h].buffer IN
        /\ handler = "loop"
        /\ diskPanic' = CASE ~info[h].ok     -> "virtio_disk_interrupt_status"
                          [] i = NoBuffer    -> "virtio_null_completion_buffer"
                          [] OTHER           -> diskPanic
        /\ disk_owned' = [j \in Buffers |-> disk_owned[j] /\ j # i]
        /\ request' = Woken(request, i)
        /\ used' = used \ {h}
        /\ UNCHANGED <<platter, free, descriptor, operations, info, available, pending,
                       handler, data>>
  BY Zenon DEF interruptLoop
<1>1. UNCHANGED <<block, is_valid, reference_count, holder, pc, mine, changes, latest, cachePanic>>
  BY DEF cacheVars
<1>2. TypeOK /\ Cache /\ Calls /\ Disk /\ Contents /\ NoPanic /\ NobodyWaitsInVain
  BY DEF IInv
<1>3. PICK p \in Procs : At(p) = "wait" /\ Head(p) = h
  BY <1>2 DEF Disk, Rings
<1>4. PICK i : i = mine[p]
  OBVIOUS
<1>5. /\ i \in Buffers /\ Buf(p) = i /\ info[h].buffer = i /\ info[h].ok /\ Busy(p)
      /\ i # NoBuffer
  <2>1. i \in Buffers /\ Buf(p) = i /\ Busy(p) /\ info[h].ok
    BY <1>2, <1>3, <1>4, Requester DEF Busy, Disk, Rings, Done
  <2> QED
    BY <1>2, <1>3, <2>1, Constants DEF Disk, Chains, Chained, IBuf
<1>6. /\ handler = "loop" /\ request' = Woken(request, i) /\ used' = used \ {h}
      /\ disk_owned' = [j \in Buffers |-> disk_owned[j] /\ j # i]
      /\ UNCHANGED <<platter, free, descriptor, operations, info, available, pending,
                     handler, data, diskPanic>>
  BY <1>0, <1>5
<1>7. /\ request' \in [Procs -> Requests]
      /\ At(p)' = "finish"
      /\ \A q \in Procs : /\ q # p => At(q)' = At(q)
                          /\ Wr(q)' = Wr(q) /\ Buf(q)' = Buf(q) /\ Head(q)' = Head(q)
  <2>1. /\ Woken(request, i) \in [Procs -> Requests]
        /\ \A q \in Procs :
             /\ Woken(request, i)[q].at =
                  IF At(q) = "wait" /\ Buf(q) = i THEN "finish" ELSE At(q)
             /\ Woken(request, i)[q].write = Wr(q) /\ Woken(request, i)[q].buffer = Buf(q)
             /\ Woken(request, i)[q].head = Head(q)
    BY <1>2, WokenFields DEF TypeOK, DiskTypeOK
  <2>2. \A q \in Procs : At(q) = "wait" /\ Buf(q) = i => q = p
    BY <1>3, <1>5, OneRequest
  <2> QED
    BY <1>3, <1>5, <1>6, <2>1, <2>2 DEF At, Wr, Buf, Head
<1>8. TypeOK' /\ NoPanic'
  <2>1. used' \subseteq Descriptors /\ disk_owned' \in [Buffers -> BOOLEAN]
    BY <1>2, <1>6 DEF TypeOK, DiskTypeOK
  <2> QED
    BY <1>1, <1>2, <1>6, <1>7, <2>1 DEF TypeOK, DiskTypeOK, NoPanic
<1>9. Cache'
  BY <1>1, CacheFrame
<1>10. Calls'
  BY <1>1, <1>2, <1>3, <1>7 DEF Calls
<1>11. \A q \in Procs : Busy(q)' <=> Busy(q)
  BY <1>3, <1>7 DEF Busy
<1>12. Chains' /\ Apart' /\ Taken' /\ DescriptorsAccounted'
  <2>1. \A c \in Descriptors : IBuf(c)' = IBuf(c)
    BY <1>6 DEF IBuf
  <2> QED
    BY <1>1, <1>6, <1>7, <1>11, <2>1, ChainsFrame
<1>13. \A q \in Procs : At(q) = "wait" /\ Head(q) = h => q = p
  BY <1>3, <1>5, OneHead DEF Busy
<1>14. h \notin available
  BY <1>2 DEF Disk, Rings
<1>15. Rings'
  <2>1. \A c \in used' : Done(c)'
    BY <1>2, <1>6 DEF Disk, Rings, Done
  <2>2. \A c \in available' \cup used' : \E q \in Procs : At(q)' = "wait" /\ Head(q)' = c
    BY <1>2, <1>3, <1>6, <1>7, <1>14 DEF Disk, Rings
  <2>3. \A q \in Procs : At(q)' = "wait" => Head(q)' \in available' \cup used'
    BY <1>2, <1>6, <1>7, <1>13 DEF Disk, Rings
  <2> QED
    BY <1>2, <1>6, <2>1, <2>2, <2>3 DEF Disk, Rings
<1>16. OwnedByDisk'
  <2> SUFFICES ASSUME NEW j \in Buffers
               PROVE  disk_owned'[j] <=> \E q \in Procs : At(q)' = "wait" /\ Buf(q)' = j
    BY DEF OwnedByDisk
  <2>1. disk_owned'[j] <=> disk_owned[j] /\ j # i
    BY <1>6
  <2>2. disk_owned[j] <=> \E q \in Procs : At(q) = "wait" /\ Buf(q) = j
    BY <1>2 DEF Disk, OwnedByDisk
  <2>3. \A q \in Procs : At(q)' = "wait" /\ Buf(q)' = j <=> At(q) = "wait" /\ Buf(q) = j /\ q # p
    BY <1>7
  <2>4. \A q \in Procs : At(q) = "wait" /\ Buf(q) = i <=> q = p
    BY <1>3, <1>5, OneRequest
  <2> QED
    BY <1>5, <2>1, <2>2, <2>3, <2>4
<1>17. Contents'
  <2>1. \A q \in Procs : ToWrite(q) => ToWrite(q)'
    BY <1>1, <1>3, <1>6, <1>7, <1>14 DEF ToWrite
  <2> QED
    BY <1>1, <1>2, <1>6, <1>7, <1>11, <2>1 DEF Contents
<1>18. NobodyWaitsInVain'
  <2>1. CompletionNoticed'
    BY <1>6 DEF CompletionNoticed
  <2>2. SleepersHaveWaker'
    BY <1>2, <1>3, <1>7 DEF NobodyWaitsInVain, SleepersHaveWaker, At
  <2> QED
    BY <2>1, <2>2 DEF NobodyWaitsInVain
<1> QED
  BY <1>8, <1>9, <1>10, <1>12, <1>15, <1>16, <1>17, <1>18 DEF IInv, Disk

\* The steps of the handler around the loop: the acknowledgement comes before
\* the loop, so that what arrives behind it raises the interrupt again.
LEMMA InterruptInv ==
  ASSUME IInv, Interrupt
  PROVE  IInv'
<1>1. CASE interruptLoop
  BY <1>1, InterruptLoopInv DEF Interrupt
<1>2. CASE ~interruptLoop
  <2>1. /\ interruptAck \/ interruptLoopEnd \/ interruptReturn
        /\ UNCHANGED <<block, is_valid, reference_count, holder, pc, mine, changes, latest,
                       cachePanic>>
    BY <1>2 DEF Interrupt, HandlerStep, cacheVars
  <2>2. UNCHANGED <<platter, free, descriptor, operations, info, available, used, request,
                    disk_owned, data, diskPanic>>
    BY <2>1 DEF interruptAck, interruptLoopEnd, interruptReturn, ring
  <2>3. TypeOK /\ Calls /\ Contents /\ NoPanic /\ NobodyWaitsInVain
    BY DEF IInv
  <2>4. TypeOK' /\ NoPanic'
    <3>1. handler' \in {"none", "loop", "return"} /\ pending' \in BOOLEAN
      BY <2>1, <2>3 DEF interruptAck, interruptLoopEnd, interruptReturn, AckedBefore, TypeOK,
                        DiskTypeOK
    <3> QED
      BY <2>1, <2>2, <2>3, <3>1 DEF TypeOK, DiskTypeOK, NoPanic
  <2>5. \A q \in Procs : /\ At(q)' = At(q) /\ Wr(q)' = Wr(q) /\ Buf(q)' = Buf(q)
                         /\ Head(q)' = Head(q) /\ (Busy(q)' <=> Busy(q))
    BY <2>2 DEF At, Wr, Buf, Head, Busy
  <2>6. Cache' /\ Disk'
    BY <2>1, <2>2, <2>5, CacheFrame, DiskFrame
  <2>7. Calls' /\ Contents'
    BY <2>1, <2>2, <2>3, <2>5 DEF Calls, Contents, ToWrite
  <2>8. CompletionNoticed'
    BY <2>1, <2>2, <2>3 DEF interruptAck, interruptLoopEnd, interruptReturn, AckedBefore,
                            NobodyWaitsInVain, CompletionNoticed
  <2>9. SleepersHaveWaker'
    BY <2>2, <2>3 DEF NobodyWaitsInVain, SleepersHaveWaker
  <2> QED
    BY <2>4, <2>6, <2>7, <2>8, <2>9 DEF IInv, NobodyWaitsInVain
<1> QED
  BY <1>1, <1>2

-----------------------------------------------------------------------------
LEMMA NextInv ==
  ASSUME IInv, [Next]_vars
  PROVE  IInv'
<1>1. CASE Next
  <2>1. ASSUME NEW p \in Procs, NEW b \in Blocks, get_buffer(p, b)
        PROVE  IInv'
    BY <2>1, GetBufferInv
  <2>2. ASSUME NEW p \in Procs, lock(p) \/ write(p) \/ unlock(p) \/ drop(p)
        PROVE  IInv'
    BY <2>2, LockInv, WriteInv, UnlockInv, DropInv
  <2>3. ASSUME NEW p \in Procs, diskRequest(p)
        PROVE  IInv'
    BY <2>3, SubmitFailsInv, SubmitInv DEF diskRequest
  <2>4. ASSUME NEW p \in Procs, diskReturn(p)
        PROVE  IInv'
    BY <2>4, DiskReturnInv
  <2>5. CASE Device \/ Interrupt
    BY <2>5, DeviceInv, InterruptInv
  <2> QED
    BY <1>1, <2>1, <2>2, <2>3, <2>4, <2>5 DEF Next
<1>2. CASE UNCHANGED vars
  <2>1. UNCHANGED <<platter, free, descriptor, operations, info, available, used, pending, handler,
                    request, disk_owned, data, diskPanic, block, is_valid, reference_count, holder,
                    pc, mine, changes, latest, cachePanic>>
    BY <1>2 DEF vars, diskVars, cacheVars, ring
  <2>2. TypeOK' /\ NoPanic'
    BY <2>1 DEF IInv, TypeOK, DiskTypeOK, NoPanic
  <2>3. \A q \in Procs : At(q)' = At(q) /\ Wr(q)' = Wr(q) /\ Buf(q)' = Buf(q) /\ Head(q)' = Head(q)
    BY <2>1 DEF At, Wr, Buf, Head
  <2>4. Cache' /\ Disk' /\ NobodyWaitsInVain'
    BY <2>1, <2>3, CacheFrame, DiskFrame, WaitFrame
  <2>5. Calls' /\ Contents'
    BY <2>1, <2>3 DEF IInv, Calls, Contents, ToWrite, Busy
  <2> QED
    BY <2>2, <2>4, <2>5 DEF IInv
<1> QED
  BY <1>1, <1>2

LEMMA Invariant == Spec => []IInv
BY InitInv, NextInv, PTL DEF Spec

\* Type correctness of the cache and of the driver.
THEOREM TypeCorrect == Spec => []TypeOK
<1>1. IInv => TypeOK
  BY DEF IInv
<1> QED
  BY Invariant, <1>1, PTL

\* Of all panics of the cache and the driver only that of get_buffer, which finds
\* every buffer in use (buffer_cache.zig:62), can happen: the driver never frees
\* a free descriptor and never sees a completion without a buffer, or in error as
\* long as the device carries out what it is asked
\* (diskdriver.zig:130, 272-273), and only the holder writes or releases a buffer
\* (buffer.zig:58, 65).
THEOREM OnlyBuffersRunOut == Spec => []NoPanic
<1>1. IInv => NoPanic
  BY DEF IInv
<1> QED
  BY Invariant, <1>1, PTL

\* A process that holds a block sees what was put in it last (buffer.zig:46-54,
\* buffer_cache.zig:37-63), however often its buffer was recycled meanwhile: the
\* disk has the latest contents of every block but those whose holder is about
\* to write them, and a block has one buffer and the buffer one holder.
THEOREM HolderSeesLatest == Spec => []SeesLatest
<1>1. IInv => SeesLatest
  <2> SUFFICES ASSUME IInv, NEW p \in Procs, pc[p] = "use"
               PROVE  holder[mine[p]] = p /\ data[mine[p]] = latest[block[mine[p]]]
    BY DEF SeesLatest
  <2>1. mine[p] \in Buffers /\ is_valid[mine[p]]
    BY DEF IInv, Cache, Users, TypeOK, Contents
  <2> QED
    BY <2>1 DEF IInv, Cache, Holders, Holding, Contents
<1> QED
  BY Invariant, <1>1, PTL

\* No buffer is lost to the cache or recycled under a user (buffer_cache.zig:46,
\* 58), and no descriptor is leaked or in two chains (diskdriver.zig:159-168).
THEOREM CountsAreExact == Spec => []NothingIsLost
<1>1. IInv => NothingIsLost
  BY DEF IInv, Cache, Disk, NothingIsLost
<1> QED
  BY Invariant, <1>1, PTL

\* The device only touches the buffer of a process that holds its lock and waits
\* for this request (diskdriver.zig:225-245).
THEOREM DeviceStaysInBuffer == Spec => []DeviceOwnsBuffer
<1>1. IInv => DeviceOwnsBuffer
  <2> SUFFICES ASSUME IInv, NEW h \in available
               PROVE  \E p \in Procs :
                        /\ request[p].at = "wait" /\ request[p].head = h
                        /\ holder[request[p].buffer] = p
                        /\ info[h].buffer = request[p].buffer
                        /\ descriptor[descriptor[h].next].buffer = request[p].buffer
                        /\ operations[h].block = block[request[p].buffer]
    BY DEF DeviceOwnsBuffer
  <2>1. PICK p \in Procs : At(p) = "wait" /\ Head(p) = h
    BY DEF IInv, Disk, Rings
  <2>2. holder[Buf(p)] = p
    BY <2>1, Requester
  <2>3. Chained(p)
    BY <2>1 DEF IInv, Disk, Chains, Busy
  <2> QED
    BY <2>1, <2>2, <2>3 DEF Chained, At, Head, Buf, Link, DBuf, IBuf, OpBlk
<1> QED
  BY Invariant, <1>1, PTL

\* A completion is never missed, although the device completes requests while
\* the handler runs (diskdriver.zig:255-260), and whoever sleeps for descriptors
\* has somebody who will wake it (diskdriver.zig:189-195).
THEOREM NobodyIsForgotten == Spec => []NobodyWaitsInVain
<1>1. IInv => NobodyWaitsInVain
  BY DEF IInv
<1> QED
  BY Invariant, <1>1, PTL
=============================================================================
