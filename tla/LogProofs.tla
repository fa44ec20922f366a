----------------------------- MODULE LogProofs -----------------------------
(***************************************************************************)
(* Proofs about Log, for every number of processes, blocks and crashes and *)
(* every size of the log.                                                  *)
(*                                                                         *)
(* Calls ties the counters of log.zig to what the processes do: a commit   *)
(* or a recovery runs only while no operation is open.  Walk says what the *)
(* two headers hold at each stage of commit() and recoverFromLog().        *)
(* Cached and LogBlocks say where the current contents of every block are: *)
(* in the cache while the block is pinned or locked, at home otherwise,    *)
(* and from the commit point until the erasure of the header in the log    *)
(* as well.                                                                *)
(***************************************************************************)
EXTENDS Log, SequenceTheorems, FiniteSetTheorems, TLAPS

Distinct(s) == \A i, j \in 1 .. Len(s) : s[i] = s[j] => i = j

\* The blocks that the running transaction keeps in the cache.
Pinned(b) == /\ ~Recovering
             /\ \E i \in 1 .. Len(header) : header[i] = b /\ (stage = "install" => i > tail)

Calls ==
  /\ outstanding = Cardinality(Active)
  /\ \A p \in Procs : held[p] # NoBlock => pc[p] = "op" /\ writes[p] < OpWrites
  /\ is_commiting <=> stage \in CommitStages
  /\ stage # "none" => Active = {}
  /\ Recovering => \A p \in Procs : pc[p] = "idle"

Walk ==
  /\ stage \in {"none", "writeLog", "writeHead", "finish"} => diskHeader = <<>>
  /\ stage \in {"install", "recover"} => diskHeader = header
  /\ stage \in {"erase", "finish", "readHead", "recoverErase"} => header = <<>>
  /\ stage = "none" /\ Active = {} => header = <<>>
  /\ stage \in {"readHead", "writeHead"} => tail = 0
  /\ stage \in {"writeLog", "install", "recover"} => tail <= Len(header)
  /\ Distinct(header) /\ Distinct(diskHeader)

\* The cache: pinned and locked blocks stay, the others agree with the disk.
Cached ==
  \A b \in Blocks :
    /\ pins[b] = IF Pinned(b) THEN 1 ELSE 0
    /\ b \in InUse \/ Pinned(b) => cache[b] # NoData
    /\ b \notin InUse /\ ~Pinned(b) => Contents(b) = home[b]

\* The log's blocks: complete at the commit point, installed before the erasure.
LogBlocks ==
  /\ stage = "writeLog" => \A i \in 1 .. tail : logData[i] = Contents(header[i])
  /\ stage \in {"writeHead", "install"} =>
       \A i \in 1 .. Len(header) : logData[i] = Contents(header[i])
  /\ stage \in {"install", "recover"} => \A i \in 1 .. tail : home[header[i]] = logData[i]
  /\ stage \in {"erase", "recoverErase"} =>
       \A i \in 1 .. Len(diskHeader) : home[diskHeader[i]] = logData[i]

IInv == TypeOK /\ Calls /\ Walk /\ Cached /\ LogBlocks

\* The log blocks that the open operations may still ask for.
Reserved == {r \in Active \X (1 .. MaxOpBlocks) : r[2] > writes[r[1]]}

\* beginOperation's reservation is never overdrawn.
Room == /\ Len(header) + Cardinality(Reserved) <= LogSize
        /\ Len(diskHeader) <= LogSize

-----------------------------------------------------------------------------
(* The initial state.                                                       *)

LEMMA InitEstablishes == Init => IInv
<1> SUFFICES ASSUME Init PROVE IInv
  OBVIOUS
<1> USE LogAssumption DEF Init
<1>0. header = <<>> /\ diskHeader = <<>> /\ Len(header) = 0 /\ Len(diskHeader) = 0
  OBVIOUS
<1>1. TypeOK
  <2>1. logData \in [LogSlots -> Values]
    OBVIOUS
  <2>2. header \in Seq(Blocks) /\ diskHeader \in Seq(Blocks)
    BY EmptySeq
  <2>3. cache \in [Blocks -> Values \cup {NoData}] /\ pins \in [Blocks -> Nat]
    OBVIOUS
  <2>4. held \in [Procs -> Blocks \cup {NoBlock}] /\ writes \in [Procs -> Nat]
    OBVIOUS
  <2>5. is_commiting \in BOOLEAN /\ stage \in Stages /\ tail \in Nat /\ crashes \in Nat
    BY DEF Stages, RecoveryStages
  <2> QED
    BY <1>0, <2>1, <2>2, <2>3, <2>4, <2>5 DEF TypeOK
<1>2. Calls
  <2>1. Active = {}
    BY DEF Active
  <2> QED
    BY <2>1, FS_EmptySet DEF Calls, CommitStages, RecoveryStages, Recovering
<1>3. Walk
  BY <1>0 DEF Walk, Distinct
<1>4. Cached
  BY <1>0 DEF Cached, Pinned, Recovering, RecoveryStages, InUse, Contents
<1>5. LogBlocks
  BY <1>0 DEF LogBlocks
<1> QED
  BY <1>1, <1>2, <1>3, <1>4, <1>5 DEF IInv

-----------------------------------------------------------------------------
(* Facts about the state functions.                                         *)

\* A log slot is named at most once, so CHOOSE finds it.
LEMMA SlotOf ==
  ASSUME NEW h \in Seq(Blocks), Distinct(h), NEW i \in 1 .. Len(h)
  PROVE  (CHOOSE j \in 1 .. Len(h) : h[j] = h[i]) = i
BY DEF Distinct

\* The number of open operations when a process enters or leaves.
LEMMA CountActive ==
  ASSUME NEW S, S \subseteq Procs, NEW p \in Procs
  PROVE  /\ IsFiniteSet(S) /\ Cardinality(S) \in Nat
         /\ p \notin S => Cardinality(S \cup {p}) = Cardinality(S) + 1
         /\ p \in S => Cardinality(S \ {p}) = Cardinality(S) - 1 /\ Cardinality(S) >= 1
         /\ p \in S /\ Cardinality(S) = 1 => S \ {p} = {}
         /\ Cardinality(S) = 0 <=> S = {}
<1>1. IsFiniteSet(S)
  BY LogAssumption, FS_Subset
<1>2. IsFiniteSet(S \ {p})
  BY <1>1, FS_RemoveElement
<1>3. Cardinality(S) \in Nat /\ Cardinality(S \ {p}) \in Nat
  BY <1>1, <1>2, FS_CardinalityType
<1>4. p \in S => Cardinality(S \ {p}) = Cardinality(S) - 1
  BY <1>1, FS_RemoveElement
<1>5. Cardinality(S \ {p}) = 0 <=> S \ {p} = {}
  BY <1>2, FS_EmptySet
<1>6. Cardinality(S) = 0 <=> S = {}
  BY <1>1, FS_EmptySet
<1>7. p \notin S => Cardinality(S \cup {p}) = Cardinality(S) + 1
  BY <1>1, FS_AddElement
<1> QED
  BY <1>1, <1>3, <1>4, <1>5, <1>6, <1>7

\* Waking the sleepers opens and closes no operation.
LEMMA WakeupKeepsCalls ==
  ASSUME NEW q \in [Procs -> {"idle", "begin", "sleep", "op", "commit"}]
  PROVE  /\ Wakeup(q) \in [Procs -> {"idle", "begin", "sleep", "op", "commit"}]
         /\ {p \in Procs : Wakeup(q)[p] = "op"} = {p \in Procs : q[p] = "op"}
         /\ \A p \in Procs : Wakeup(q)[p] # "sleep"
         /\ \A p \in Procs : q[p] # "sleep" => Wakeup(q)[p] = q[p]
BY DEF Wakeup

-----------------------------------------------------------------------------
(* Calls of the processes.                                                  *)

LEMMA StartCallPreserves == ASSUME IInv, NEW p \in Procs, StartCall(p) PROVE IInv'
<1> USE DEF IInv, StartCall, disk, memory, walk
<1>0. Active' = Active /\ InUse' = InUse
  BY DEF TypeOK, Active, InUse
<1>1. TypeOK'
  BY DEF TypeOK
<1>2. Calls'
  BY <1>0 DEF Calls, TypeOK, Recovering
<1>3. Walk'
  BY <1>0 DEF Walk, Distinct
<1>4. Cached' /\ LogBlocks'
  BY <1>0 DEF Cached, LogBlocks, Pinned, Recovering, Contents
<1> QED
  BY <1>1, <1>2, <1>3, <1>4

LEMMA beginOperationPreserves == ASSUME IInv, NEW p \in Procs, beginOperation(p) PROVE IInv'
<1> USE DEF IInv, disk, walk
<1>0. InUse' = InUse
  BY DEF InUse, beginOperation
<1>1. TypeOK'
  <2>1. /\ outstanding' \in {outstanding, outstanding + 1}
        /\ pc' \in {[pc EXCEPT ![p] = "sleep"], [pc EXCEPT ![p] = "op"]}
    BY DEF beginOperation
  <2>2. UNCHANGED <<home, logData, diskHeader, cache, pins, header, is_commiting, held,
                    writes, stage, tail, panic, crashes>>
    BY DEF beginOperation
  <2>3. outstanding' \in Nat
    BY <2>1 DEF TypeOK
  <2>4. pc' \in [Procs -> {"idle", "begin", "sleep", "op", "commit"}]
    <3>1. pc \in [Procs -> {"idle", "begin", "sleep", "op", "commit"}]
      BY DEF TypeOK
    <3> QED
      BY <2>1, <3>1
  <2> QED
    BY <2>2, <2>3, <2>4 DEF TypeOK
<1>2. Cached' /\ LogBlocks'
  BY <1>0 DEF Cached, LogBlocks, Pinned, Recovering, Contents, beginOperation
<1>3. CASE NoRoom
  <2>1. Active' = Active /\ outstanding' = outstanding
    BY <1>3 DEF TypeOK, Active, beginOperation
  <2>2. Calls'
    BY <1>3, <2>1 DEF Calls, TypeOK, Recovering, beginOperation
  <2>3. Walk'
    BY <2>1 DEF Walk, Distinct, beginOperation
  <2> QED
    BY <1>1, <1>2, <2>2, <2>3
<1>4. CASE ~NoRoom
  <2>1. Active' = Active \cup {p} /\ p \notin Active /\ outstanding' = outstanding + 1
    BY <1>4 DEF TypeOK, Active, beginOperation
  <2>2. Active \subseteq Procs
    BY DEF Active
  <2>3. outstanding' = Cardinality(Active')
    BY <2>1, <2>2, CountActive DEF Calls
  <2>4. stage = "none"
    BY <1>4 DEF NoRoom, Calls, TypeOK, Stages, Recovering, beginOperation
  <2>5. Calls'
    BY <1>4, <2>3, <2>4 DEF Calls, TypeOK, Recovering, beginOperation, RecoveryStages
  <2>6. Walk'
    BY <2>1, <2>4 DEF Walk, Distinct, beginOperation
  <2> QED
    BY <1>1, <1>2, <2>5, <2>6
<1> QED
  BY <1>3, <1>4

LEMMA ModifyPreserves ==
  ASSUME IInv, NEW p \in Procs, NEW b \in Blocks, NEW v \in Values, Modify(p, b, v)
  PROVE  IInv'
<1> USE LogAssumption DEF IInv, disk, walk
<1>0. Active' = Active /\ p \in Active
  BY DEF Active, Modify
<1>1. TypeOK'
  BY DEF TypeOK, Modify
<1>2. stage = "none"
  BY <1>0 DEF Calls
<1>3. Calls'
  BY <1>0, <1>2 DEF Calls, TypeOK, Recovering, Modify
<1>4. Walk'
  BY <1>0 DEF Walk, Distinct, Modify
<1>5. LogBlocks'
  BY <1>2 DEF LogBlocks, Modify
<1>6. Cached'
  <2>1. InUse' = InUse \cup {b}
    BY DEF InUse, TypeOK, Modify
  <2>2. \A c \in Blocks : Pinned(c)' <=> Pinned(c)
    BY DEF Pinned, Recovering, Modify
  <2>3. \A c \in Blocks : c # b => Contents(c)' = Contents(c) /\ cache'[c] = cache[c]
    BY DEF Contents, TypeOK, Modify
  <2>4. cache'[b] = v /\ pins' = pins /\ home' = home
    BY DEF TypeOK, Modify
  <2> QED
    BY <2>1, <2>2, <2>3, <2>4 DEF Cached, TypeOK
<1> QED
  BY <1>1, <1>3, <1>4, <1>5, <1>6

LEMMA writePreserves == ASSUME IInv, NEW p \in Procs, write(p) PROVE IInv'
<1> USE LogAssumption DEF IInv, disk, walk
<1>0. p \in Active /\ Active' = Active
  BY DEF Active, Calls, write
<1>1. stage = "none" /\ outstanding >= 1 /\ header \in Seq(Blocks) /\ Len(header) \in Nat
  <2>1. stage = "none" /\ outstanding = Cardinality(Active)
    BY <1>0 DEF Calls
  <2>2. Active \subseteq Procs
    BY DEF Active
  <2>3. outstanding >= 1
    BY <1>0, <2>1, <2>2, CountActive
  <2>4. header \in Seq(Blocks)
    BY DEF TypeOK
  <2> QED
    BY <2>1, <2>3, <2>4
<1>2. CASE LogFull
  <2>1. /\ panic' = "too_big_a_transaction"
        /\ UNCHANGED <<home, logData, diskHeader, cache, pins, header, outstanding,
                       is_commiting, pc, held, writes, stage, tail, crashes>>
    BY <1>2 DEF write
  <2>2. TypeOK'
    BY <2>1 DEF TypeOK
  <2>3. Calls' /\ Walk'
    BY <1>0, <2>1 DEF Calls, Walk, Recovering, Distinct
  <2>4. Cached' /\ LogBlocks'
    BY <2>1 DEF Cached, LogBlocks, Recovering, Pinned, InUse, Contents
  <2> QED
    BY <2>2, <2>3, <2>4
<1>3. CASE ~LogFull
  <2>1. /\ held[p] \in Blocks
        /\ held' = [held EXCEPT ![p] = NoBlock]
        /\ writes' = [writes EXCEPT ![p] = @ + 1]
        /\ UNCHANGED <<home, logData, diskHeader, cache, outstanding, is_commiting, pc,
                       stage, tail, panic, crashes>>
    BY <1>1, <1>3 DEF write, TypeOK
  <2>2. Calls'
    BY <1>0, <1>1, <2>1 DEF Calls, TypeOK, Recovering
  <2>3. LogBlocks'
    BY <1>1, <2>1 DEF LogBlocks
  <2>4. \A b \in Blocks : b # held[p] => (b \in InUse' <=> b \in InUse)
    BY <2>1 DEF InUse, TypeOK
  <2>4a. held[p] \in InUse
    BY <2>1 DEF InUse
  <2>5. CASE held[p] \in Logged
    <3>1. pins' = pins /\ header' = header
      BY <1>1, <1>3, <2>5 DEF write
    <3>2. TypeOK'
      BY <2>1, <3>1 DEF TypeOK
    <3>3. Walk'
      BY <1>0, <2>1, <3>1 DEF Walk, Distinct
    <3>4. \A b \in Blocks : Pinned(b)' <=> Pinned(b)
      BY <2>1, <3>1 DEF Pinned, Recovering
    <3>5. Pinned(held[p])
      BY <1>1, <2>5 DEF Pinned, Recovering, RecoveryStages, Logged
    <3>6. Cached'
      BY <2>1, <2>4, <3>1, <3>4, <3>5 DEF Cached, Contents
    <3> QED
      BY <2>2, <2>3, <3>2, <3>3, <3>6
  <2>6. CASE held[p] \notin Logged
    <3>1. /\ header' = Append(header, held[p])
          /\ pins' = [pins EXCEPT ![held[p]] = @ + 1]
      <4>1. ~(outstanding < 1)
        BY <1>1 DEF TypeOK
      <4> QED
        BY <1>3, <2>6, <4>1, Zenon DEF write
    <3>2. /\ header' \in Seq(Blocks) /\ Len(header') = Len(header) + 1
          /\ \A i \in 1 .. Len(header) : header'[i] = header[i]
          /\ header'[Len(header) + 1] = held[p]
      BY <1>1, <2>1, <3>1
    <3>3. TypeOK'
      <4>1. pins' \in [Blocks -> Nat]
        BY <2>1, <3>1 DEF TypeOK
      <4>2. Len(header') < NLog
        BY <1>1, <1>3, <3>2 DEF LogFull
      <4> QED
        BY <2>1, <3>2, <4>1, <4>2, SMTT(30) DEF TypeOK
    <3>4. Distinct(header')
      BY <1>1, <2>6, <3>2 DEF Walk, Distinct, Logged
    <3>5. Walk'
      BY <1>0, <1>1, <2>1, <3>4 DEF Walk
    <3>6. \A b \in Blocks : Pinned(b)' <=> Pinned(b) \/ b = held[p]
      <4> PICK n, h : n = Len(header) + 1 /\ h = held[p]
        OBVIOUS
      <4>1. stage = "none" /\ stage' = "none" /\ Len(header) \in Nat
        BY <1>0, <1>1, <2>1
      <4>2. \A b : Pinned(b) <=> \E i \in 1 .. Len(header) : header[i] = b
        BY <4>1 DEF Pinned, Recovering, RecoveryStages
      <4>3. \A b : Pinned(b)' <=> \E i \in 1 .. Len(header') : header'[i] = b
        BY <4>1 DEF Pinned, Recovering, RecoveryStages
      <4>4. 1 .. Len(header') = 1 .. Len(header) \cup {n} /\ header'[n] = h
        BY <3>2, <4>1
      <4> QED
        BY <3>2, <4>2, <4>3, <4>4
    <3>7. ~Pinned(held[p])
      BY <2>6 DEF Pinned, Logged
    <3>8. Cached'
      BY <2>1, <2>4, <2>4a, <3>1, <3>6, <3>7 DEF Cached, Contents, TypeOK
    <3> QED
      BY <2>2, <2>3, <3>3, <3>5, <3>8
  <2> QED
    BY <2>5, <2>6
<1> QED
  BY <1>2, <1>3

LEMMA endOperationPreserves == ASSUME IInv, NEW p \in Procs, endOperation(p) PROVE IInv'
<1> USE LogAssumption DEF IInv, disk
<1>0. p \in Active /\ stage = "none" /\ ~is_commiting
  BY DEF Active, Calls, endOperation, CommitStages
<1>1. outstanding = Cardinality(Active) /\ outstanding \in Nat /\ outstanding >= 1
  BY <1>0, CountActive DEF Calls, TypeOK, Active
<1>2. Cardinality(Active \ {p}) = outstanding - 1 /\ (outstanding = 1 => Active \ {p} = {})
  BY <1>0, <1>1, CountActive, ZenonT(60) DEF Active
<1>3. /\ outstanding' = outstanding - 1 /\ held' = held /\ panic' = panic
      /\ writes' = [writes EXCEPT ![p] = 0]
      /\ UNCHANGED <<home, logData, diskHeader, cache, pins, header, crashes>>
      /\ held[p] = NoBlock
  BY <1>0 DEF endOperation
<1>4. InUse' = InUse
  BY <1>3 DEF InUse
<1>5. CASE outstanding = 1
  <2>1. /\ is_commiting' = TRUE /\ pc' = [pc EXCEPT ![p] = "commit"]
        /\ stage' = CommitEntry /\ tail' = 0
    BY <1>0, <1>5 DEF endOperation
  <2>2. stage' \in {"writeLog", "finish"} /\ (stage' = "finish" => header = <<>>)
    BY <2>1 DEF CommitEntry, TypeOK
  <2>3. Active' = Active \ {p} /\ Active' = {}
    BY <1>2, <1>5, <2>1 DEF Active, TypeOK
  <2>4. TypeOK'
    <3>1. stage' \in Stages
      BY <2>2 DEF Stages, CommitStages
    <3> QED
      BY <1>1, <1>3, <2>1, <3>1 DEF TypeOK
  <2>5. Calls'
    <3>1. \A q \in Procs : held'[q] # NoBlock => pc'[q] = "op" /\ writes'[q] < OpWrites
      BY <1>3, <2>1 DEF Calls, TypeOK
    <3> QED
      BY <1>2, <1>3, <2>1, <2>2, <2>3, <3>1
         DEF Calls, CommitStages, Recovering, RecoveryStages
  <2>6. Walk'
    BY <1>0, <1>3, <2>1, <2>2 DEF Walk, TypeOK
  <2>7. \A b \in Blocks : Pinned(b)' <=> Pinned(b)
    BY <1>0, <1>3, <2>2 DEF Pinned, Recovering, RecoveryStages
  <2>8. Cached'
    BY <1>3, <1>4, <2>7 DEF Cached, Contents
  <2>9. LogBlocks'
    BY <2>1, <2>2 DEF LogBlocks
  <2> QED
    BY <2>4, <2>5, <2>6, <2>8, <2>9
<1>6. CASE outstanding # 1
  <2> DEFINE q == [pc EXCEPT ![p] = "idle"]
  <2>1. pc' = Wakeup(q) /\ UNCHANGED <<is_commiting, stage, tail>>
    BY <1>0, <1>6 DEF endOperation, walk
  <2>2. q \in [Procs -> {"idle", "begin", "sleep", "op", "commit"}]
    BY DEF TypeOK
  <2>3. {x \in Procs : q[x] = "op"} = Active \ {p}
    BY DEF Active, TypeOK
  <2>3a. \A x \in Procs : x # p => q[x] = pc[x]
    BY DEF TypeOK
  <2> HIDE DEF q
  <2>4. Active' = Active \ {p} /\ pc' \in [Procs -> {"idle", "begin", "sleep", "op", "commit"}]
    BY <2>1, <2>2, <2>3, WakeupKeepsCalls DEF Active
  <2>5. Active' # {}
    BY <1>0, <1>1, <1>2, <1>6, <2>4, FS_EmptySet
  <2>6. TypeOK'
    <3>1. outstanding' \in Nat /\ writes' \in [Procs -> Nat]
      BY <1>1, <1>3 DEF TypeOK
    <3> QED
      BY <1>3, <2>1, <2>4, <3>1 DEF TypeOK
  <2>7. Calls'
    <3>1. \A x \in Procs : held'[x] # NoBlock => pc'[x] = "op" /\ writes'[x] < OpWrites
      BY <1>3, <2>1, <2>2, <2>3a, WakeupKeepsCalls, ZenonT(60) DEF Calls, TypeOK
    <3> QED
      BY <1>0, <1>2, <1>3, <2>1, <2>4, <3>1
         DEF Calls, CommitStages, Recovering, RecoveryStages, walk
  <2>8. Walk'
    BY <1>0, <1>3, <2>1, <2>5 DEF Walk, walk
  <2>9. Cached' /\ LogBlocks'
    BY <1>3, <1>4, <2>1 DEF Cached, LogBlocks, Pinned, Recovering, Contents, walk
  <2> QED
    BY <2>6, <2>7, <2>8, <2>9
<1> QED
  BY <1>5, <1>6

-----------------------------------------------------------------------------
(* commit() and recoverFromLog().                                           *)

LEMMA writeLogPreserves == ASSUME IInv, writeLog PROVE IInv'
<1> USE DEF IInv, calls
<1>0. /\ stage = "writeLog" /\ diskHeader = <<>> /\ tail \in Nat /\ tail <= Len(header)
      /\ header \in Seq(Blocks) /\ Len(header) \in Nat /\ Len(header) < NLog
  BY DEF writeLog, Walk, TypeOK
<1>1. Active = {} /\ Active' = Active /\ InUse' = InUse
  BY <1>0 DEF Calls, writeLog, Active, InUse
<1>2. UNCHANGED <<home, diskHeader, pins, header, outstanding, is_commiting, pc, held,
                  writes, panic, crashes>>
  BY DEF writeLog
<1>3. CASE tail < Len(header)
  <2>0a. tail + 1 \in 1 .. Len(header) /\ tail + 1 \in LogSlots
    BY <1>0, <1>3, LogAssumption DEF LogSlots
  <2>1a. PICK b \in Blocks : b = header[tail + 1]
    BY <1>0, <2>0a
  <2>0. b \in Blocks /\ tail + 1 \in 1 .. Len(header) /\ tail + 1 \in LogSlots
    BY <2>0a
  <2>1. /\ logData' = [logData EXCEPT ![tail + 1] = Contents(b)]
        /\ cache' = [cache EXCEPT ![b] = Contents(b)]
        /\ tail' = tail + 1 /\ stage' = stage
    BY <1>3, <2>1a DEF writeLog
  <2>2. Pinned(b)
    BY <1>0, <2>0, <2>1a DEF Pinned, Recovering, RecoveryStages
  <2>3. cache[b] # NoData /\ Contents(b) = cache[b] /\ Contents(b) \in Values
    BY <2>0, <2>2 DEF Cached, Contents, TypeOK
  <2>4. cache' = cache
    BY <2>0, <2>1, <2>3 DEF TypeOK
  <2>5. logData' \in [LogSlots -> Values] /\ tail' \in Nat
    BY <1>0, <2>0, <2>1, <2>3 DEF TypeOK
  <2>6. TypeOK'
    BY <1>2, <2>1, <2>4, <2>5 DEF TypeOK
  <2>7. Calls'
    BY <1>0, <1>1, <1>2, <2>1 DEF Calls, Recovering
  <2>7a. Walk'
    BY <1>0, <1>2, <1>3, <2>1 DEF Walk, Distinct
  <2>8. Cached'
    BY <1>0, <1>1, <1>2, <2>1, <2>4 DEF Cached, Pinned, Recovering, Contents
  <2>9. LogBlocks'
    <3> SUFFICES ASSUME NEW i \in 1 .. tail' PROVE logData'[i] = Contents(header[i])'
      BY <1>0, <2>1 DEF LogBlocks
    <3>1. i \in LogSlots /\ i \in 1 .. Len(header)
      BY <1>0, <1>3, <2>1, LogAssumption DEF LogSlots
    <3>2. Contents(header[i])' = Contents(header[i])
      BY <1>2, <2>4 DEF Contents
    <3>3. CASE i = tail + 1
      BY <2>1, <2>1a, <3>1, <3>2, <3>3 DEF TypeOK
    <3>4. CASE i # tail + 1
      <4>1. i \in 1 .. tail /\ logData'[i] = logData[i]
        BY <1>0, <2>0, <2>1, <3>1, <3>4 DEF TypeOK
      <4> QED
        BY <1>0, <3>2, <4>1 DEF LogBlocks
    <3> QED
      BY <3>3, <3>4
  <2> QED
    BY <2>6, <2>7, <2>7a, <2>8, <2>9
<1>4. CASE ~(tail < Len(header))
  <2>1. stage' = "writeHead" /\ tail' = 0 /\ logData' = logData /\ cache' = cache
    BY <1>4 DEF writeLog
  <2>2. tail = Len(header)
    BY <1>0, <1>4
  <2>3. TypeOK'
    BY <1>2, <2>1 DEF TypeOK, Stages, CommitStages
  <2>4. Calls'
    BY <1>0, <1>1, <1>2, <2>1 DEF Calls, Recovering, RecoveryStages, CommitStages
  <2>5. Walk'
    BY <1>0, <1>1, <1>2, <2>1 DEF Walk, Distinct
  <2>6. Cached'
    BY <1>0, <1>1, <1>2, <2>1 DEF Cached, Pinned, Recovering, RecoveryStages, Contents
  <2>7. LogBlocks'
    BY <1>0, <1>2, <2>1, <2>2 DEF LogBlocks, Contents
  <2> QED
    BY <2>3, <2>4, <2>5, <2>6, <2>7
<1> QED
  BY <1>3, <1>4

LEMMA writeHeadPreserves == ASSUME IInv, writeHead PROVE IInv'
<1> USE DEF IInv, memory, calls
<1>0. /\ diskHeader' = header
      /\ UNCHANGED <<home, logData, cache, pins, header, outstanding, is_commiting, pc, held,
                     writes, tail, panic, crashes>>
  BY DEF writeHead
<1>1. Active = {} /\ Active' = Active /\ InUse' = InUse
  BY DEF Calls, writeHead, Active, InUse
<1>2. \/ stage = "writeHead" /\ stage' = "install"
      \/ stage = "erase" /\ stage' = "finish"
      \/ stage = "recoverErase" /\ stage' = "none"
  BY DEF writeHead
<1>3. TypeOK'
  BY <1>0, <1>2 DEF TypeOK, Stages, CommitStages, RecoveryStages
<1>4. Calls'
  BY <1>0, <1>1, <1>2 DEF Calls, Recovering, CommitStages, RecoveryStages
<1>5. Walk'
  BY <1>0, <1>1, <1>2, <1>3 DEF Walk, TypeOK
<1>6. \A b \in Blocks : Pinned(b)' <=> Pinned(b)
  <2>1. CASE stage = "writeHead"
    BY <1>0, <1>2, <2>1, <1>3 DEF Pinned, Recovering, RecoveryStages, Walk, TypeOK
  <2>2. CASE stage # "writeHead"
    BY <1>0, <1>2, <2>2 DEF Pinned, Recovering, RecoveryStages, Walk
  <2> QED
    BY <2>1, <2>2
<1>7. Cached'
  BY <1>0, <1>1, <1>6 DEF Cached, Contents
<1>8. LogBlocks'
  BY <1>0, <1>2 DEF LogBlocks, Contents, Walk
<1> QED
  BY <1>3, <1>4, <1>5, <1>7, <1>8

LEMMA installTransactionPreserves == ASSUME IInv, installTransaction PROVE IInv'
<1> USE DEF IInv, calls
<1>0. /\ stage \in {"install", "recover"} /\ diskHeader = header
      /\ tail \in Nat /\ tail <= Len(header)
      /\ header \in Seq(Blocks) /\ Len(header) \in Nat /\ Len(header) < NLog
      /\ Distinct(header)
  BY DEF installTransaction, Walk, TypeOK
<1>1. Active = {} /\ Active' = Active /\ InUse' = InUse
  BY <1>0 DEF Calls, installTransaction, Active, InUse
<1>1a. InUse = {}
  BY <1>1 DEF Calls, Active, InUse
<1>2. UNCHANGED <<logData, diskHeader, outstanding, is_commiting, pc, held, writes, panic,
                  crashes>>
  BY DEF installTransaction
<1>3. CASE tail < Len(header)
  <2>0a. tail + 1 \in 1 .. Len(header) /\ tail + 1 \in LogSlots
    BY <1>0, <1>3, LogAssumption DEF LogSlots
  <2>1a. PICK b \in Blocks : b = header[tail + 1]
    BY <1>0, <2>0a
  <2>0. b \in Blocks /\ tail + 1 \in 1 .. Len(header) /\ tail + 1 \in LogSlots
    BY <2>0a
  <2>1. /\ home' = [home EXCEPT ![b] = logData[tail + 1]]
        /\ cache' = [cache EXCEPT ![b] = logData[tail + 1]]
        /\ pins' = Unpinned(b)
        /\ tail' = tail + 1 /\ stage' = stage /\ header' = header
    BY <1>3, <2>1a DEF installTransaction
  <2>2. logData[tail + 1] \in Values /\ logData[tail + 1] # NoData
    BY <2>0, LogAssumption DEF TypeOK
  <2>3. home'[b] = logData[tail + 1] /\ cache'[b] = logData[tail + 1]
    BY <2>0, <2>1 DEF TypeOK
  <2>4. \A c \in Blocks : c # b => home'[c] = home[c] /\ cache'[c] = cache[c]
    BY <2>0, <2>1 DEF TypeOK
  <2>5. Contents(b)' = logData[tail + 1]
    BY <2>2, <2>3 DEF Contents
  <2>6. \A c \in Blocks : c # b => Contents(c)' = Contents(c)
    BY <2>4 DEF Contents
  <2>7. ~Pinned(b)'
    BY <1>0, <2>0, <2>1, <2>1a DEF Pinned, Distinct, Recovering, RecoveryStages
  <2>8. \A c \in Blocks : c # b => (Pinned(c)' <=> Pinned(c))
    <3> SUFFICES ASSUME NEW c \in Blocks, c # b PROVE Pinned(c)' <=> Pinned(c)
      OBVIOUS
    <3>1. \A i \in 1 .. Len(header) : header[i] = c => (i > tail <=> i > tail + 1)
      BY <1>0, <2>1a
    <3> QED
      BY <1>0, <2>1, <3>1 DEF Pinned, Recovering, RecoveryStages
  <2>9. pins' \in [Blocks -> Nat] /\ \A c \in Blocks : pins'[c] = IF Pinned(c)' THEN 1 ELSE 0
    <3>1. CASE stage = "install"
      <4>1. Pinned(b)
        BY <1>0, <2>0, <2>1a, <3>1 DEF Pinned, Recovering, RecoveryStages
      <4>2. pins[b] = 1 /\ pins' = [pins EXCEPT ![b] = 0]
        <5>1. pins[b] = 1 /\ pins \in [Blocks -> Nat]
          BY <2>0, <4>1 DEF Cached, TypeOK
        <5> QED
          BY <2>0, <2>1, <3>1, <5>1 DEF Unpinned
      <4> QED
        BY <2>0, <2>7, <2>8, <4>2 DEF Cached, TypeOK
    <3>2. CASE stage = "recover"
      <4>1. pins' = pins /\ ~Pinned(b)
        BY <2>1, <3>2 DEF Unpinned, Pinned, Recovering, RecoveryStages
      <4> QED
        BY <2>0, <2>7, <2>8, <4>1 DEF Cached, TypeOK
    <3> QED
      BY <1>0, <3>1, <3>2
  <2>10. TypeOK'
    <3>1. home' \in [Blocks -> Values] /\ cache' \in [Blocks -> Values \cup {NoData}]
      BY <2>1, <2>2 DEF TypeOK
    <3> QED
      BY <1>0, <1>2, <2>1, <2>9, <3>1 DEF TypeOK
  <2>11. Calls'
    BY <1>0, <1>1, <1>2, <2>1 DEF Calls, Recovering
  <2>11a. Walk'
    BY <1>0, <1>2, <1>3, <2>1 DEF Walk
  <2>12. Cached'
    <3> SUFFICES ASSUME NEW c \in Blocks
                 PROVE  /\ c \in InUse' \/ Pinned(c)' => cache'[c] # NoData
                        /\ c \notin InUse' /\ ~Pinned(c)' => Contents(c)' = home'[c]
      BY <2>9 DEF Cached
    <3>1. CASE c = b
      BY <2>2, <2>3, <2>5, <3>1
    <3>2. CASE c # b
      BY <1>1, <2>4, <2>6, <2>8, <3>2 DEF Cached
    <3> QED
      BY <3>1, <3>2
  <2>13. LogBlocks'
    <3>1. \A i \in 1 .. Len(header) : i # tail + 1 => header[i] # b /\ header[i] \in Blocks
      BY <1>0, <2>0, <2>1a DEF Distinct
    <3>2. ASSUME stage = "install", NEW i \in 1 .. Len(header)
          PROVE  logData[i] = Contents(header[i])'
      <4>1. logData[i] = Contents(header[i])
        BY <3>2 DEF LogBlocks
      <4> QED
        BY <2>1, <2>1a, <2>5, <2>6, <3>1, <4>1
    <3>3. ASSUME NEW i \in 1 .. tail + 1 PROVE home'[header[i]] = logData[i]
      <4>1. CASE i = tail + 1
        BY <2>1a, <2>3, <4>1
      <4>2. CASE i # tail + 1
        <5>1. i \in 1 .. tail /\ i \in 1 .. Len(header)
          BY <1>0, <4>2
        <5> QED
          BY <1>0, <2>4, <3>1, <4>2, <5>1 DEF LogBlocks
      <4> QED
        BY <4>1, <4>2
    <3> QED
      BY <1>0, <1>2, <2>1, <3>2, <3>3 DEF LogBlocks
  <2> QED
    BY <2>10, <2>11, <2>11a, <2>12, <2>13
<1>4. CASE ~(tail < Len(header))
  <2>1. /\ header' = <<>> /\ tail' = 0 /\ UNCHANGED <<home, cache, pins>>
        /\ stage' = IF stage = "install" THEN "erase" ELSE "recoverErase"
    BY <1>4 DEF installTransaction
  <2>2. tail = Len(header)
    BY <1>0, <1>4
  <2>3. header' \in Seq(Blocks) /\ Len(header') = 0 /\ Distinct(header')
    BY <2>1 DEF Distinct
  <2>4. TypeOK'
    BY <1>2, <2>1, <2>3, LogAssumption DEF TypeOK, Stages, CommitStages, RecoveryStages
  <2>5. Calls'
    BY <1>0, <1>1, <1>2, <2>1 DEF Calls, Recovering, CommitStages, RecoveryStages
  <2>6. Walk'
    BY <1>0, <1>2, <2>1, <2>3 DEF Walk
  <2>7. \A b \in Blocks : ~Pinned(b) /\ ~Pinned(b)'
    BY <1>0, <2>1, <2>2, <2>3 DEF Pinned, Recovering, RecoveryStages
  <2>8. Cached'
    BY <1>1, <2>1, <2>7 DEF Cached, Contents
  <2>9. LogBlocks'
    BY <1>0, <1>2, <2>1, <2>2 DEF LogBlocks
  <2> QED
    BY <2>4, <2>5, <2>6, <2>8, <2>9
<1> QED
  BY <1>3, <1>4

LEMMA finishCommitPreserves == ASSUME IInv, finishCommit PROVE IInv'
<1> USE DEF IInv, disk
<1>0. PICK p \in Procs : pc[p] = "commit" /\ pc' = Wakeup([pc EXCEPT ![p] = "idle"])
  BY DEF finishCommit
<1> DEFINE q == [pc EXCEPT ![p] = "idle"]
<1>1. q \in [Procs -> {"idle", "begin", "sleep", "op", "commit"}] /\ pc' = Wakeup(q)
  BY <1>0 DEF TypeOK
<1>2. {x \in Procs : q[x] = "op"} = Active
  BY <1>0 DEF Active, TypeOK
<1>3. /\ stage = "finish" /\ stage' = "none" /\ is_commiting' = FALSE
      /\ UNCHANGED <<home, logData, diskHeader, cache, pins, header, outstanding, held,
                     writes, tail, panic, crashes>>
  BY DEF finishCommit
<1>4. Active = {} /\ header = <<>> /\ diskHeader = <<>>
  BY <1>3 DEF Calls, Walk
<1> HIDE DEF q
<1>5. Active' = Active /\ pc' \in [Procs -> {"idle", "begin", "sleep", "op", "commit"}]
  BY <1>1, <1>2, WakeupKeepsCalls DEF Active
<1>6. TypeOK'
  BY <1>3, <1>5 DEF TypeOK, Stages
<1>7. InUse = {} /\ InUse' = InUse /\ \A x \in Procs : held'[x] = NoBlock
  BY <1>3, <1>4 DEF InUse, Calls, Active
<1>8. Calls'
  BY <1>3, <1>4, <1>5, <1>7 DEF Calls, Recovering, CommitStages, RecoveryStages
<1>9. Walk'
  BY <1>3, <1>4 DEF Walk
<1>10. \A b \in Blocks : Pinned(b)' <=> Pinned(b)
  BY <1>3, <1>4 DEF Pinned, Recovering, RecoveryStages
<1>11. Cached' /\ LogBlocks'
  BY <1>3, <1>7, <1>10 DEF Cached, LogBlocks, Contents
<1> QED
  BY <1>6, <1>8, <1>9, <1>11

-----------------------------------------------------------------------------
(* The buffer cache and the machine.                                        *)

LEMMA EvictPreserves == ASSUME IInv, NEW b \in Blocks, Evict(b) PROVE IInv'
<1> USE DEF IInv, disk, calls, walk
<1>0. /\ pins[b] = 0 /\ b \notin InUse /\ cache' = [cache EXCEPT ![b] = NoData]
      /\ UNCHANGED <<home, logData, diskHeader, pins, header, outstanding, is_commiting, pc,
                     held, writes, stage, tail, panic, crashes>>
  BY DEF Evict
<1>1. Active' = Active /\ InUse' = InUse /\ \A c \in Blocks : Pinned(c)' <=> Pinned(c)
  BY <1>0 DEF Active, InUse, Pinned, Recovering
<1>2. ~Pinned(b) /\ Contents(b) = home[b]
  BY <1>0 DEF Cached
<1>3. \A c \in Blocks : Contents(c)' = Contents(c)
  BY <1>0, <1>2 DEF Contents, TypeOK
<1>4. TypeOK'
  BY <1>0 DEF TypeOK
<1>5. Calls' /\ Walk'
  BY <1>0, <1>1 DEF Calls, Walk, Distinct, Recovering
<1>6. Cached'
  BY <1>0, <1>1, <1>2, <1>3 DEF Cached, TypeOK
<1>7. LogBlocks'
  <2>1. \A i \in 1 .. Len(header) : header[i] \in Blocks
    BY DEF TypeOK
  <2>2. \A i \in 1 .. Len(header) : Contents(header[i])' = Contents(header[i])
    BY <1>0, <1>3, <2>1
  <2>3. stage = "writeLog" => \A i \in 1 .. tail : i \in 1 .. Len(header)
    BY DEF Walk, TypeOK
  <2> QED
    BY <1>0, <2>2, <2>3 DEF LogBlocks
<1> QED
  BY <1>4, <1>5, <1>6, <1>7

LEMMA CrashPreserves == ASSUME IInv, Crash PROVE IInv'
<1> USE DEF IInv, disk
<1>0. /\ cache' = [b \in Blocks |-> NoData] /\ pins' = [b \in Blocks |-> 0]
      /\ header' = <<>> /\ outstanding' = 0 /\ is_commiting' = FALSE
      /\ pc' = [p \in Procs |-> "idle"] /\ held' = [p \in Procs |-> NoBlock]
      /\ writes' = [p \in Procs |-> 0] /\ stage' = "readHead" /\ tail' = 0
      /\ crashes' = crashes + 1
      /\ UNCHANGED <<home, logData, diskHeader, panic>>
  BY DEF Crash
<1>1. header' \in Seq(Blocks) /\ Len(header') = 0 /\ Distinct(header')
  BY <1>0 DEF Distinct
<1>2. Active' = {} /\ InUse' = {}
  BY <1>0 DEF Active, InUse
<1>3. TypeOK'
  <2>1. /\ cache' \in [Blocks -> Values \cup {NoData}] /\ pins' \in [Blocks -> Nat]
        /\ held' \in [Procs -> Blocks \cup {NoBlock}] /\ writes' \in [Procs -> Nat]
        /\ pc' \in [Procs -> {"idle", "begin", "sleep", "op", "commit"}]
    BY <1>0
  <2>2. is_commiting' \in BOOLEAN /\ stage' \in Stages
    BY <1>0 DEF Stages, RecoveryStages
  <2>3. outstanding' \in Nat /\ tail' \in Nat /\ crashes' \in Nat
    BY <1>0 DEF TypeOK
  <2>4. /\ home' \in [Blocks -> Values] /\ logData' \in [LogSlots -> Values]
        /\ diskHeader' \in Seq(Blocks) /\ Len(diskHeader') < NLog
        /\ Len(header') < NLog
    BY <1>0, <1>1, LogAssumption DEF TypeOK
  <2>5. panic' \in {"none", "too_big_a_transaction", "log_write_outside_of_trans",
                    "log_commiting"}
    BY <1>0 DEF TypeOK
  <2> QED
    BY <1>1, <2>1, <2>2, <2>3, <2>4, <2>5 DEF TypeOK
<1>4. Calls'
  BY <1>0, <1>2, FS_EmptySet DEF Calls, Recovering, RecoveryStages, CommitStages
<1>5. Walk'
  BY <1>0, <1>1 DEF Walk, Distinct
<1>6. Cached'
  BY <1>0, <1>2 DEF Cached, Pinned, Recovering, RecoveryStages, Contents
<1>7. LogBlocks'
  BY <1>0 DEF LogBlocks
<1> QED
  BY <1>3, <1>4, <1>5, <1>6, <1>7

LEMMA readHeadPreserves == ASSUME IInv, readHead PROVE IInv'
<1> USE DEF IInv, disk, calls
<1>0. /\ header' = diskHeader /\ stage = "readHead" /\ stage' = "recover"
      /\ UNCHANGED <<home, logData, diskHeader, cache, pins, outstanding, is_commiting, pc,
                     held, writes, tail, panic, crashes>>
  BY DEF readHead
<1>1. Active' = Active /\ InUse' = InUse
  BY <1>0 DEF Active, InUse
<1>2. TypeOK'
  BY <1>0 DEF TypeOK, Stages, RecoveryStages
<1>3. Calls'
  BY <1>0, <1>1 DEF Calls, Recovering, RecoveryStages, CommitStages
<1>4. Walk'
  BY <1>0 DEF Walk, TypeOK
<1>5. \A b \in Blocks : ~Pinned(b) /\ ~Pinned(b)'
  BY <1>0 DEF Pinned, Recovering, RecoveryStages
<1>6. Cached'
  BY <1>0, <1>1, <1>5 DEF Cached, Contents
<1>7. LogBlocks'
  BY <1>0 DEF LogBlocks, Walk
<1> QED
  BY <1>2, <1>3, <1>4, <1>6, <1>7

-----------------------------------------------------------------------------
(* The invariant and what follows from it at once.                          *)

LEMMA NextPreserves == IInv /\ [Next]_vars => IInv'
<1> SUFFICES ASSUME IInv, [Next]_vars PROVE IInv'
  OBVIOUS
<1>1. ASSUME NEW p \in Procs, StartCall(p) PROVE IInv'
  BY <1>1, StartCallPreserves
<1>2. ASSUME NEW p \in Procs, ProcStep(p) PROVE IInv'
  BY <1>2, beginOperationPreserves, writePreserves, endOperationPreserves DEF ProcStep
<1>3. ASSUME NEW p \in Procs, NEW b \in Blocks, NEW v \in Values, Modify(p, b, v) PROVE IInv'
  BY <1>3, ModifyPreserves
<1>4. CASE KernelStep
  BY <1>4, writeLogPreserves, writeHeadPreserves, installTransactionPreserves,
     finishCommitPreserves, readHeadPreserves DEF KernelStep
<1>5. ASSUME NEW b \in Blocks, Evict(b) PROVE IInv'
  BY <1>5, EvictPreserves
<1>6. CASE Crash
  BY <1>6, CrashPreserves
<1>7. CASE UNCHANGED vars
  <2>1. UNCHANGED <<home, logData, diskHeader, cache, pins, header, outstanding,
                    is_commiting, pc, held, writes, stage, tail, panic, crashes>>
    BY <1>7 DEF vars, disk, memory, calls, walk
  <2>2. TypeOK'
    BY <2>1 DEF IInv, TypeOK
  <2>3. Calls' /\ Walk'
    BY <2>1 DEF IInv, Calls, Walk, Active, Recovering, Distinct
  <2>4. Cached' /\ LogBlocks'
    BY <2>1 DEF IInv, Cached, LogBlocks, InUse, Pinned, Recovering, Contents
  <2> QED
    BY <2>2, <2>3, <2>4 DEF IInv
<1> QED
  BY <1>1, <1>2, <1>3, <1>4, <1>5, <1>6, <1>7 DEF Next

LEMMA Invariant == Spec => []IInv
<1> QED
  BY InitEstablishes, NextPreserves, PTL DEF Spec

\* Every variable of the log and of the disk keeps its type; in particular
\* neither header ever names more blocks than the log has (log.zig:15-20).
THEOREM TypeCorrect == Spec => []TypeOK
<1>1. IInv => TypeOK
  BY DEF IInv
<1> QED
  BY <1>1, Invariant, PTL

\* A buffer is pinned once while the running transaction needs it and not at
\* all otherwise, whatever the crashes (log.write, installTransaction).
THEOREM PinsAreExact == Spec => []PinnedIffLogged
<1>1. IInv => PinnedIffLogged
  <2> SUFFICES ASSUME IInv, NEW b \in Blocks
               PROVE  pins[b] =
                        IF stage \in RecoveryStages THEN 0
                        ELSE Cardinality({i \in 1 .. Len(header) :
                                header[i] = b /\ (stage = "install" => i > tail)})
    BY DEF PinnedIffLogged
  <2> DEFINE S == {i \in 1 .. Len(header) : header[i] = b /\ (stage = "install" => i > tail)}
  <2>1. pins[b] = IF Pinned(b) THEN 1 ELSE 0
    BY DEF IInv, Cached
  <2>2. CASE Recovering
    BY <2>1, <2>2 DEF Pinned, Recovering
  <2>3. CASE ~Recovering /\ Pinned(b)
    <3>1. PICK i \in 1 .. Len(header) : header[i] = b /\ (stage = "install" => i > tail)
      BY <2>3 DEF Pinned
    <3>2. S = {i}
      BY <3>1 DEF IInv, Walk, Distinct
    <3> QED
      BY <2>1, <2>3, <3>2, FS_Singleton DEF Recovering
  <2>4. CASE ~Recovering /\ ~Pinned(b)
    <3>1. S = {}
      BY <2>4 DEF Pinned
    <3> QED
      BY <2>1, <2>4, <3>1, FS_EmptySet DEF Recovering
  <2> QED
    BY <2>2, <2>3, <2>4
<1> QED
  BY <1>1, Invariant, PTL

-----------------------------------------------------------------------------
(* Room in the log.                                                         *)

\* What is reserved is finite, and at most MaxOpBlocks for each operation.
LEMMA ReservedBound ==
  ASSUME IInv
  PROVE  /\ IsFiniteSet(Reserved) /\ Cardinality(Reserved) \in Nat
         /\ Cardinality(Reserved) <= outstanding * MaxOpBlocks
<1> DEFINE K == 1 .. MaxOpBlocks
<1>1. IsFiniteSet(K) /\ Cardinality(K) = MaxOpBlocks
  BY LogAssumption, FS_Interval
<1>2. IsFiniteSet(Active)
  BY LogAssumption, FS_Subset DEF Active
<1>3. IsFiniteSet(Active \X K) /\ Cardinality(Active \X K) = Cardinality(Active) * Cardinality(K)
  BY <1>1, <1>2, FS_Product
<1>4. Cardinality(Active \X K) = outstanding * MaxOpBlocks
  BY <1>1, <1>3 DEF IInv, Calls
<1>5. Reserved \in SUBSET (Active \X K)
  BY DEF Reserved
<1> HIDE DEF K
<1>6. IsFiniteSet(Reserved) /\ Cardinality(Reserved) <= Cardinality(Active \X K)
  BY <1>3, <1>5, FS_Subset
<1> QED
  BY <1>4, <1>6, FS_CardinalityType

\* An operation that opens reserves no more than MaxOpBlocks.
LEMMA ReserveForOne ==
  ASSUME NEW S, IsFiniteSet(S), NEW p, NEW T, T \subseteq S \cup ({p} \X (1 .. MaxOpBlocks))
  PROVE  IsFiniteSet(T) /\ Cardinality(T) <= Cardinality(S) + MaxOpBlocks
<1> DEFINE N == {p} \X (1 .. MaxOpBlocks)
<1>1. IsFiniteSet(1 .. MaxOpBlocks) /\ Cardinality(1 .. MaxOpBlocks) = MaxOpBlocks
  BY LogAssumption, FS_Interval
<1>2. IsFiniteSet({p}) /\ Cardinality({p}) = 1
  BY FS_Singleton
<1>3. IsFiniteSet(N) /\ Cardinality(N) = MaxOpBlocks
  <2>1. IsFiniteSet(N) /\ Cardinality(N) = Cardinality({p}) * Cardinality(1 .. MaxOpBlocks)
    BY <1>1, <1>2, FS_Product
  <2> QED
    BY <1>1, <1>2, <2>1, LogAssumption
<1>4. T \in SUBSET (S \cup N)
  OBVIOUS
<1> HIDE DEF N
<1>5. /\ IsFiniteSet(S \cup N)
      /\ Cardinality(S \cup N) = Cardinality(S) + Cardinality(N) - Cardinality(S \cap N)
  BY <1>3, FS_Union
<1>6. IsFiniteSet(S \cap N) /\ Cardinality(S \cap N) \in Nat
  <2>1. S \cap N \in SUBSET S
    OBVIOUS
  <2> QED
    BY <2>1, FS_Subset, FS_CardinalityType
<1>7. IsFiniteSet(T) /\ Cardinality(T) <= Cardinality(S \cup N)
  BY <1>4, <1>5, FS_Subset
<1>8. Cardinality(S) \in Nat /\ Cardinality(T) \in Nat
  BY <1>7, FS_CardinalityType
<1> QED
  BY <1>3, <1>5, <1>6, <1>7, <1>8, LogAssumption

\* The sizes for which beginOperation's reservation is sound: an operation
\* keeps to MaxOpBlocks writes, and the log holds LogSize blocks and a header.
Sized == OpWrites <= MaxOpBlocks /\ LogSize < NLog

RInv == IInv /\ Room /\ NoPanic

\* A process inside an operation that has a buffer to log has room for it.
LEMMA RoomToWrite ==
  ASSUME Sized, RInv, NEW p \in Procs, held[p] # NoBlock
  PROVE  /\ <<p, writes[p] + 1>> \in Reserved
         /\ Len(header) < LogSize /\ Len(header) < NLog - 1 /\ outstanding >= 1
<1>1. p \in Active /\ writes[p] < OpWrites /\ writes[p] \in Nat /\ Len(header) \in Nat
  BY DEF RInv, IInv, Calls, Active, TypeOK
<1>2. <<p, writes[p] + 1>> \in Reserved
  <2>1. writes[p] + 1 \in 1 .. MaxOpBlocks
    BY <1>1, LogAssumption DEF Sized
  <2> QED
    BY <1>1, <2>1 DEF Reserved
<1>3. Cardinality(Reserved) # 0 /\ Cardinality(Reserved) \in Nat
  BY <1>2, ReservedBound, FS_EmptySet DEF RInv
<1>4. Len(header) < LogSize
  BY <1>1, <1>3, LogAssumption DEF RInv, Room
<1>5. outstanding >= 1
  <2>1. Active \subseteq Procs /\ outstanding = Cardinality(Active)
    BY DEF Active, RInv, IInv, Calls
  <2> QED
    BY <1>1, <2>1, CountActive
<1> QED
  BY <1>1, <1>2, <1>4, <1>5, LogAssumption DEF Sized

\* A step that opens no operation and logs nothing keeps the reservation.
LEMMA ReservationKept ==
  ASSUME RInv, header' \in Seq(Blocks), Len(header') <= Len(header),
         Len(diskHeader') <= LogSize,
         Active' \subseteq Active, \A p \in Active' : writes'[p] = writes[p]
  PROVE  Room'
<1>1. Reserved' \in SUBSET Reserved
  BY DEF Reserved
<1>2. IsFiniteSet(Reserved) /\ Cardinality(Reserved) \in Nat
  BY ReservedBound DEF RInv
<1>3. IsFiniteSet(Reserved') /\ Cardinality(Reserved') <= Cardinality(Reserved)
  BY <1>1, <1>2, FS_Subset
<1>4. Cardinality(Reserved') \in Nat
  BY <1>3, FS_CardinalityType
<1>5. Len(header) \in Nat /\ Len(header') \in Nat
  BY DEF RInv, IInv, TypeOK
<1> QED
  BY <1>2, <1>3, <1>4, <1>5, LogAssumption DEF RInv, Room

LEMMA RoomPreserved == Sized /\ RInv /\ [Next]_vars => Room' /\ NoPanic'
<1> SUFFICES ASSUME Sized, RInv, [Next]_vars PROVE Room' /\ NoPanic'
  OBVIOUS
<1> USE DEF disk, memory, calls, walk
<1>0. /\ header \in Seq(Blocks) /\ Len(header) \in Nat /\ Cardinality(Reserved) \in Nat
      /\ diskHeader \in Seq(Blocks) /\ Len(diskHeader) <= LogSize /\ Len(diskHeader) \in Nat
      /\ Len(header) <= LogSize
  <2>1. /\ header \in Seq(Blocks) /\ Cardinality(Reserved) \in Nat
        /\ diskHeader \in Seq(Blocks) /\ Len(diskHeader) <= LogSize
        /\ Len(header) + Cardinality(Reserved) <= LogSize
    BY ReservedBound DEF RInv, IInv, TypeOK, Room
  <2> QED
    BY <2>1, LogAssumption
<1>1. ASSUME NEW p \in Procs, StartCall(p) PROVE Room' /\ NoPanic'
  <2>1. Active' = Active /\ UNCHANGED <<header, diskHeader, writes, panic>>
    BY <1>1 DEF StartCall, Active, RInv, IInv, TypeOK
  <2> QED
    BY <1>0, <2>1, ReservationKept DEF RInv, NoPanic
<1>2. ASSUME NEW p \in Procs, beginOperation(p) PROVE Room' /\ NoPanic'
  <2>1. UNCHANGED <<header, diskHeader, writes, panic>>
    BY <1>2 DEF beginOperation
  <2>2. CASE NoRoom
    <3>1. Active' = Active
      BY <1>2, <2>2 DEF beginOperation, Active, RInv, IInv, TypeOK
    <3> QED
      BY <1>0, <2>1, <3>1, ReservationKept DEF RInv, NoPanic
  <2>3. CASE ~NoRoom
    <3>1. Active' = Active \cup {p}
      BY <1>2, <2>3 DEF beginOperation, Active, RInv, IInv, TypeOK
    <3>2. Reserved' \subseteq Reserved \cup ({p} \X (1 .. MaxOpBlocks))
      BY <2>1, <3>1 DEF Reserved
    <3>3. IsFiniteSet(Reserved) /\ Cardinality(Reserved) <= outstanding * MaxOpBlocks
      BY ReservedBound DEF RInv
    <3>4. /\ IsFiniteSet(Reserved')
          /\ Cardinality(Reserved') <= Cardinality(Reserved) + MaxOpBlocks
      BY <3>2, <3>3, ReserveForOne
    <3>5. Cardinality(Reserved') \in Nat /\ outstanding \in Nat
      BY <3>4, FS_CardinalityType DEF RInv, IInv, TypeOK
    <3>6. Len(header) + (outstanding + 1) * MaxOpBlocks <= LogSize
      BY <1>0, <2>3, <3>5, LogAssumption DEF NoRoom
    <3>7. (outstanding + 1) * MaxOpBlocks = outstanding * MaxOpBlocks + MaxOpBlocks
      BY <3>5, LogAssumption
    <3>8. outstanding * MaxOpBlocks \in Nat
      BY <3>5, LogAssumption
    <3>9. Len(header) + Cardinality(Reserved') <= LogSize
      BY <1>0, <3>3, <3>4, <3>5, <3>6, <3>7, <3>8, LogAssumption
    <3> QED
      BY <1>0, <2>1, <3>9 DEF RInv, Room, NoPanic
  <2> QED
    BY <2>2, <2>3
<1>3. ASSUME NEW p \in Procs, NEW b \in Blocks, NEW v \in Values, Modify(p, b, v)
      PROVE  Room' /\ NoPanic'
  <2>1. Active' = Active /\ UNCHANGED <<header, diskHeader, writes, panic>>
    BY <1>3 DEF Modify, Active
  <2> QED
    BY <1>0, <2>1, ReservationKept DEF RInv, NoPanic
<1>4. ASSUME NEW p \in Procs, write(p) PROVE Room' /\ NoPanic'
  <2>1. /\ <<p, writes[p] + 1>> \in Reserved
        /\ Len(header) < LogSize /\ Len(header) < NLog - 1 /\ outstanding >= 1
    BY <1>4, RoomToWrite DEF write
  <2>2. ~LogFull
    BY <1>0, <2>1, LogAssumption DEF LogFull
  <2>3. outstanding \in Nat
    BY DEF RInv, IInv, TypeOK
  <2>4. ~(outstanding < 1)
    BY <2>1, <2>3
  <2>5. /\ writes' = [writes EXCEPT ![p] = @ + 1]
        /\ UNCHANGED <<diskHeader, pc, panic>>
    BY <1>4, <2>2, <2>4 DEF write
  <2>6. /\ Len(header') \in Nat
        /\ Len(header') <= Len(header) + 1
    <3>1. header' = header \/ header' = Append(header, held[p])
      BY <1>4, <2>2, <2>4, Zenon DEF write
    <3>2. held[p] \in Blocks
      BY <1>4 DEF write, RInv, IInv, TypeOK
    <3> QED
      BY <1>0, <3>1, <3>2
  <2>7. Reserved' = Reserved \ {<<p, writes[p] + 1>>}
    <3>1. Active' = Active
      BY <2>5 DEF Active
    <3>2. \A q \in Active : writes'[q] = IF q = p THEN writes[p] + 1 ELSE writes[q]
      BY <2>5 DEF Active, RInv, IInv, TypeOK
    <3>3. \A q \in Active : writes[q] \in Nat
      BY DEF Active, RInv, IInv, TypeOK
    <3>4. \A q \in Active, k \in 1 .. MaxOpBlocks :
             k > writes'[q] <=> k > writes[q] /\ <<q, k>> # <<p, writes[p] + 1>>
      BY <3>2, <3>3, LogAssumption
    <3> QED
      BY <3>1, <3>4 DEF Reserved
  <2>8. IsFiniteSet(Reserved)
    BY ReservedBound DEF RInv
  <2>9. Cardinality(Reserved') = Cardinality(Reserved) - 1
    BY <2>1, <2>7, <2>8, FS_RemoveElement
  <2>10. Len(header) + Cardinality(Reserved) <= LogSize
    BY DEF RInv, Room
  <2>11. Len(header') + Cardinality(Reserved') <= LogSize
    BY <1>0, <2>6, <2>9, <2>10, LogAssumption
  <2> QED
    BY <1>0, <2>5, <2>11 DEF RInv, Room, NoPanic
<1>5. ASSUME NEW p \in Procs, endOperation(p) PROVE Room' /\ NoPanic'
  <2>1. ~is_commiting
    BY <1>5 DEF endOperation, RInv, IInv, Calls, Active, CommitStages
  <2>2. /\ writes' = [writes EXCEPT ![p] = 0]
        /\ UNCHANGED <<header, diskHeader, panic>>
    BY <1>5, <2>1 DEF endOperation
  <2>3. Active' = Active \ {p}
    <3> DEFINE q == [pc EXCEPT ![p] = "idle"]
    <3>1. pc' = [pc EXCEPT ![p] = "commit"] \/ pc' = Wakeup(q)
      BY <1>5, <2>1 DEF endOperation
    <3>2. q \in [Procs -> {"idle", "begin", "sleep", "op", "commit"}]
      BY DEF RInv, IInv, TypeOK
    <3>3. {x \in Procs : q[x] = "op"} = Active \ {p}
      BY DEF Active, RInv, IInv, TypeOK
    <3> HIDE DEF q
    <3>4. CASE pc' = [pc EXCEPT ![p] = "commit"]
      BY <3>4 DEF Active, RInv, IInv, TypeOK
    <3>5. CASE pc' = Wakeup(q)
      BY <3>2, <3>3, <3>5, WakeupKeepsCalls DEF Active
    <3> QED
      BY <3>1, <3>4, <3>5
  <2>4. \A q \in Active' : writes'[q] = writes[q]
    BY <2>2, <2>3 DEF Active, RInv, IInv, TypeOK
  <2> QED
    BY <1>0, <2>2, <2>3, <2>4, ReservationKept DEF RInv, NoPanic
<1>6. CASE writeLog
  <2>1. Active' = Active /\ UNCHANGED <<header, diskHeader, writes, panic>>
    BY <1>6 DEF writeLog, Active
  <2> QED
    BY <1>0, <2>1, ReservationKept DEF RInv, NoPanic
<1>7. CASE writeHead
  <2>1. Active' = Active /\ diskHeader' = header /\ UNCHANGED <<header, writes, panic>>
    BY <1>7 DEF writeHead, Active
  <2> QED
    BY <1>0, <2>1, ReservationKept DEF RInv, NoPanic
<1>8. CASE installTransaction
  <2>1. Active' = Active /\ UNCHANGED <<diskHeader, writes, panic>>
    BY <1>8 DEF installTransaction, Active
  <2>2. header' = header \/ header' = <<>>
    BY <1>8 DEF installTransaction
  <2>3. header' \in Seq(Blocks) /\ Len(header') <= Len(header)
    <3>1. <<>> \in Seq(Blocks) /\ Len(<<>>) = 0
      BY EmptySeq
    <3>2. CASE header' = header
      BY <1>0, <3>2
    <3>3. CASE header' = <<>>
      BY <1>0, <3>1, <3>3
    <3> QED
      BY <2>2, <3>2, <3>3
  <2> QED
    BY <1>0, <2>1, <2>3, ReservationKept DEF RInv, NoPanic
<1>9. CASE finishCommit
  <2>1. PICK p \in Procs : pc[p] = "commit" /\ pc' = Wakeup([pc EXCEPT ![p] = "idle"])
    BY <1>9 DEF finishCommit
  <2> DEFINE q == [pc EXCEPT ![p] = "idle"]
  <2>2. q \in [Procs -> {"idle", "begin", "sleep", "op", "commit"}]
    BY DEF RInv, IInv, TypeOK
  <2>3. {x \in Procs : q[x] = "op"} = Active /\ pc' = Wakeup(q)
    BY <2>1 DEF Active, RInv, IInv, TypeOK
  <2> HIDE DEF q
  <2>4. Active' = Active
    BY <2>2, <2>3, WakeupKeepsCalls DEF Active
  <2>5. UNCHANGED <<header, diskHeader, writes, panic>>
    BY <1>9 DEF finishCommit
  <2> QED
    BY <1>0, <2>4, <2>5, ReservationKept DEF RInv, NoPanic
<1>10. CASE readHead
  <2>1. /\ Active' = Active /\ header' = diskHeader
        /\ UNCHANGED <<diskHeader, writes, panic>>
    BY <1>10 DEF readHead, Active
  <2>2. Active = {}
    BY <1>10 DEF readHead, RInv, IInv, Calls
  <2>3. Reserved' = {}
    BY <2>1, <2>2 DEF Reserved
  <2> QED
    BY <1>0, <2>1, <2>3, FS_EmptySet, LogAssumption DEF RInv, Room, NoPanic
<1>11. ASSUME NEW b \in Blocks, Evict(b) PROVE Room' /\ NoPanic'
  <2>1. Active' = Active /\ UNCHANGED <<header, diskHeader, writes, panic>>
    BY <1>11 DEF Evict, Active
  <2> QED
    BY <1>0, <2>1, ReservationKept DEF RInv, NoPanic
<1>12. CASE Crash
  <2>1. Active' = {} /\ header' = <<>> /\ UNCHANGED <<diskHeader, panic>>
    BY <1>12 DEF Crash, Active
  <2> QED
    BY <1>0, <2>1, ReservationKept DEF RInv, NoPanic
<1>13. CASE UNCHANGED vars
  <2>1. Active' = Active /\ UNCHANGED <<header, diskHeader, writes, panic>>
    BY <1>13 DEF vars, Active
  <2> QED
    BY <1>0, <2>1, ReservationKept DEF RInv, NoPanic
<1> QED
  BY <1>1, <1>2, <1>3, <1>4, <1>5, <1>6, <1>7, <1>8, <1>9, <1>10, <1>11, <1>12, <1>13
     DEF Next, ProcStep, KernelStep

\* With the sizes of param.zig and of mkfs (a log of more than LogSize blocks,
\* operations of at most MaxOpBlocks writes) none of the three panics of
\* log.zig is reachable: log.write always finds a free log block inside an open
\* operation, and endOperation never meets a commit.
THEOREM NeverPanics == Sized => (Spec => []NoPanic)
<1> SUFFICES ASSUME Sized PROVE Spec => []NoPanic
  OBVIOUS
<1>1. Init => RInv
  <2> SUFFICES ASSUME Init PROVE Room /\ NoPanic
    BY InitEstablishes DEF RInv
  <2>1. Reserved = {}
    BY DEF Init, Reserved, Active
  <2> QED
    BY <2>1, FS_EmptySet, LogAssumption DEF Init, Room, NoPanic
<1>2. RInv /\ [Next]_vars => RInv'
  BY RoomPreserved, NextPreserves DEF RInv
<1>3. RInv => NoPanic
  BY DEF RInv
<1> QED
  BY <1>1, <1>2, <1>3, PTL DEF Spec

-----------------------------------------------------------------------------
(* Nothing is lost, nobody sleeps for good.                                 *)

\* Whoever sleeps in beginOperation waits for an operation or a commit to end.
Sleepers == \A p \in Procs : pc[p] = "sleep" => Active # {} \/ is_commiting

SInv == IInv /\ Sleepers

\* A kernel without open operations has room for one.
LEMMA SleepersKept == MaxOpBlocks <= LogSize /\ SInv /\ [Next]_vars => Sleepers'
<1> SUFFICES ASSUME MaxOpBlocks <= LogSize, SInv, [Next]_vars PROVE Sleepers'
  OBVIOUS
<1> USE DEF SInv, IInv, disk, memory, calls, walk
<1>0. pc \in [Procs -> {"idle", "begin", "sleep", "op", "commit"}]
  BY DEF TypeOK
<1>1. ASSUME NEW p \in Procs, StartCall(p) PROVE Sleepers'
  BY <1>0, <1>1 DEF StartCall, Sleepers, Active
<1>2. ASSUME NEW p \in Procs, beginOperation(p) PROVE Sleepers'
  <2>1. CASE NoRoom
    <3>1. Active' = Active /\ is_commiting' = is_commiting
      BY <1>0, <1>2, <2>1 DEF beginOperation, Active
    <3> SUFFICES ASSUME Active = {}, ~is_commiting PROVE FALSE
      BY <3>1 DEF Sleepers
    <3>2. outstanding = 0
      BY FS_EmptySet DEF Calls
    <3>3. stage = "none"
      BY <1>2 DEF Calls, TypeOK, Stages, Recovering, beginOperation
    <3>4. Len(header) = 0
      BY <3>3 DEF Walk
    <3>5. (outstanding + 1) * MaxOpBlocks = MaxOpBlocks
      BY <3>2, LogAssumption
    <3> QED
      BY <2>1, <3>4, <3>5, LogAssumption DEF NoRoom
  <2>2. CASE ~NoRoom
    <3>1. p \in Active'
      BY <1>0, <1>2, <2>2 DEF beginOperation, Active
    <3> QED
      BY <3>1 DEF Sleepers
  <2> QED
    BY <2>1, <2>2
<1>3. ASSUME NEW p \in Procs, endOperation(p) PROVE Sleepers'
  <2>1. ~is_commiting
    BY <1>3 DEF endOperation, Calls, Active, CommitStages
  <2>2. CASE outstanding = 1
    BY <1>3, <2>1, <2>2 DEF endOperation, Sleepers
  <2>3. CASE outstanding # 1
    <3> DEFINE q == [pc EXCEPT ![p] = "idle"]
    <3>1. pc' = Wakeup(q) /\ q \in [Procs -> {"idle", "begin", "sleep", "op", "commit"}]
      BY <1>0, <1>3, <2>1, <2>3 DEF endOperation
    <3> HIDE DEF q
    <3> QED
      BY <3>1, WakeupKeepsCalls DEF Sleepers
  <2> QED
    BY <2>2, <2>3
<1>4. CASE finishCommit
  <2>1. PICK p \in Procs : pc' = Wakeup([pc EXCEPT ![p] = "idle"])
    BY <1>4 DEF finishCommit
  <2> DEFINE q == [pc EXCEPT ![p] = "idle"]
  <2>2. pc' = Wakeup(q) /\ q \in [Procs -> {"idle", "begin", "sleep", "op", "commit"}]
    BY <1>0, <2>1
  <2> HIDE DEF q
  <2> QED
    BY <2>2, WakeupKeepsCalls DEF Sleepers
<1>5. CASE Crash
  BY <1>5 DEF Crash, Sleepers
<1>6. CASE UNCHANGED <<pc, is_commiting>>
  BY <1>6 DEF Sleepers, Active
<1>7. ASSUME NEW p \in Procs, write(p) PROVE UNCHANGED <<pc, is_commiting>>
  BY <1>7 DEF write
<1>8. ASSUME NEW p \in Procs, NEW b \in Blocks, NEW v \in Values, Modify(p, b, v)
      PROVE  UNCHANGED <<pc, is_commiting>>
  BY <1>8 DEF Modify
<1>9. writeLog \/ writeHead \/ installTransaction \/ readHead => UNCHANGED <<pc, is_commiting>>
  BY DEF writeLog, writeHead, installTransaction, readHead
<1>10. (\E b \in Blocks : Evict(b)) \/ UNCHANGED vars => UNCHANGED <<pc, is_commiting>>
  BY DEF Evict, vars
<1> QED
  BY <1>1, <1>2, <1>3, <1>4, <1>5, <1>6, <1>7, <1>8, <1>9, <1>10
     DEF Next, ProcStep, KernelStep

\* Between transactions the disk alone reconstructs every block as the calls
\* left it; and a process sleeps in beginOperation only while an operation or a
\* commit is under way, whose end wakes it, provided that the log takes at
\* least one operation (param.log_size against max_num_operation_blocks).
THEOREM QuietStateIsDurable == MaxOpBlocks <= LogSize => (Spec => []QuietIsDurable)
<1> SUFFICES ASSUME MaxOpBlocks <= LogSize PROVE Spec => []QuietIsDurable
  OBVIOUS
<1>1. Init => SInv
  BY InitEstablishes DEF Init, SInv, Sleepers
<1>2. SInv /\ [Next]_vars => SInv'
  BY SleepersKept, NextPreserves DEF SInv
<1>3. SInv => QuietIsDurable
  <2> SUFFICES ASSUME SInv PROVE QuietIsDurable
    OBVIOUS
  <2>1. ASSUME stage = "none", outstanding = 0, NEW b \in Blocks
        PROVE  Recovered(b) = Contents(b)
    <3>1. Active = {}
      <4>1. IsFiniteSet(Active)
        BY LogAssumption, FS_Subset DEF Active
      <4> QED
        BY <2>1, <4>1, FS_EmptySet DEF SInv, IInv, Calls
    <3>2. diskHeader = <<>> /\ header = <<>>
      BY <2>1, <3>1 DEF SInv, IInv, Walk
    <3>3. b \notin InUse /\ ~Pinned(b)
      BY <3>1, <3>2 DEF SInv, IInv, Calls, Active, InUse, Pinned
    <3>4. Contents(b) = home[b]
      BY <3>3 DEF SInv, IInv, Cached
    <3>5. Recovered(b) = home[b]
      BY <3>2 DEF Recovered
    <3> QED
      BY <3>4, <3>5
  <2> QED
    BY <2>1 DEF QuietIsDurable, SInv, Sleepers
<1> QED
  BY <1>1, <1>2, <1>3, PTL DEF Spec

-----------------------------------------------------------------------------
(* Refinement of AtomicLog.                                                 *)

\* What recovery would make of a header, of log blocks and of home blocks.
LEMMA RecoveredIs ==
  ASSUME IInv
  PROVE  /\ \A i \in 1 .. Len(diskHeader) : Recovered(diskHeader[i]) = logData[i]
         /\ \A b \in Blocks : (\A i \in 1 .. Len(diskHeader) : diskHeader[i] # b)
                                 => Recovered(b) = home[b]
<1>1. diskHeader \in Seq(Blocks) /\ Distinct(diskHeader)
  BY DEF IInv, TypeOK, Walk
<1>2. ASSUME NEW i \in 1 .. Len(diskHeader)
      PROVE  Recovered(diskHeader[i]) = logData[i]
  <2>1. (CHOOSE j \in 1 .. Len(diskHeader) : diskHeader[j] = diskHeader[i]) = i
    BY <1>1, SlotOf
  <2> QED
    BY <2>1 DEF Recovered
<1> QED
  BY <1>2 DEF Recovered

\* The same after a step.
LEMMA RecoveredAfter ==
  ASSUME IInv'
  PROVE  /\ \A i \in 1 .. Len(diskHeader') : Recovered(diskHeader[i])' = logData'[i]
         /\ \A b \in Blocks : (\A i \in 1 .. Len(diskHeader') : diskHeader'[i] # b)
                                 => Recovered(b)' = home'[b]
<1>1. diskHeader' \in Seq(Blocks) /\ Distinct(diskHeader')
  BY DEF IInv, TypeOK, Walk
<1>2. ASSUME NEW i \in 1 .. Len(diskHeader')
      PROVE  Recovered(diskHeader[i])' = logData'[i]
  <2>1. (CHOOSE j \in 1 .. Len(diskHeader') : diskHeader'[j] = diskHeader'[i]) = i
    BY <1>1, SlotOf
  <2> QED
    BY <2>1 DEF Recovered
<1> QED
  BY <1>2 DEF Recovered

\* What the calls see of a block, the refinement's view.
View(b) == IF Recovering THEN Recovered(b) ELSE Contents(b)

LEMMA StutterStep ==
  ASSUME Active' = Active,
         \A b \in Blocks : Recovered(b)' = Recovered(b) /\ View(b)' = View(b)
  PROVE  UNCHANGED Abstract!vars
BY DEF Abstract!vars, View

\* A step that leaves the disk alone leaves what recovery would find alone.
LEMMA SameDisk ==
  ASSUME UNCHANGED <<home, logData, diskHeader>>
  PROVE  \A b \in Blocks : Recovered(b)' = Recovered(b)
BY DEF Recovered

\* A step of the calls, the log or the cache that changes no data.
LEMMA DataUnchanged ==
  ASSUME UNCHANGED <<home, logData, diskHeader, cache>>, Recovering' <=> Recovering,
         Active' = Active
  PROVE  UNCHANGED Abstract!vars
<1>1. \A b \in Blocks : Recovered(b)' = Recovered(b)
  BY SameDisk
<1>2. \A b \in Blocks : Contents(b)' = Contents(b)
  BY DEF Contents
<1>3. \A b \in Blocks : View(b)' = View(b)
  BY <1>1, <1>2 DEF View
<1> QED
  BY <1>1, <1>3, StutterStep

LEMMA beginOperationRefines ==
  ASSUME IInv, NEW p \in Procs, beginOperation(p)
  PROVE  Abstract!Begin(p) \/ UNCHANGED Abstract!vars
<1> USE DEF IInv, disk, walk
<1>1. UNCHANGED <<home, logData, diskHeader, cache, stage>> /\ (Recovering' <=> Recovering)
  BY DEF beginOperation, Recovering
<1>2. CASE NoRoom
  <2>1. Active' = Active
    BY <1>2 DEF beginOperation, Active, TypeOK
  <2> QED
    BY <1>1, <2>1, DataUnchanged
<1>3. CASE ~NoRoom
  <2>1. p \notin Active /\ Active' = Active \cup {p}
    BY <1>3 DEF beginOperation, Active, TypeOK
  <2>2. \A b \in Blocks : Recovered(b)' = Recovered(b)
    BY <1>1, SameDisk
  <2>3. \A b \in Blocks : View(b)' = View(b)
    BY <1>1, <2>2 DEF View, Contents
  <2> QED
    BY <2>1, <2>2, <2>3 DEF Abstract!Begin, View
<1> QED
  BY <1>2, <1>3

LEMMA ModifyRefines ==
  ASSUME IInv, NEW p \in Procs, NEW b \in Blocks, NEW v \in Values, Modify(p, b, v)
  PROVE  Abstract!Update(p, b, v)
<1> USE DEF IInv, disk, walk
<1>1. p \in Active /\ Active' = Active /\ stage = "none" /\ stage' = "none"
  BY DEF Modify, Active, Calls
<1>2. ~Recovering /\ ~Recovering'
  BY <1>1 DEF Recovering, RecoveryStages
<1>3. \A c \in Blocks : Recovered(c)' = Recovered(c)
  BY SameDisk DEF Modify
<1>4. \A c \in Blocks : Contents(c)' = IF c = b THEN v ELSE Contents(c)
  BY LogAssumption DEF Modify, Contents, TypeOK
<1>5. [c \in Blocks |-> IF Recovering THEN Recovered(c) ELSE Contents(c)]'
        = [[c \in Blocks |-> IF Recovering THEN Recovered(c) ELSE Contents(c)] EXCEPT ![b] = v]
  BY <1>2, <1>4
<1>6. [c \in Blocks |-> Recovered(c)]' = [c \in Blocks |-> Recovered(c)]
  BY <1>3
<1> QED
  BY <1>1, <1>5, <1>6 DEF Abstract!Update

LEMMA endOperationRefines ==
  ASSUME IInv, NEW p \in Procs, endOperation(p)
  PROVE  Abstract!End(p)
<1> USE DEF IInv, disk
<1>1. p \in Active /\ stage = "none" /\ ~is_commiting
  BY DEF endOperation, Calls, Active, CommitStages
<1>2. Active' = Active \ {p}
  <2> DEFINE q == [pc EXCEPT ![p] = "idle"]
  <2>1. pc' = [pc EXCEPT ![p] = "commit"] \/ pc' = Wakeup(q)
    BY <1>1 DEF endOperation
  <2>2. q \in [Procs -> {"idle", "begin", "sleep", "op", "commit"}]
    BY DEF TypeOK
  <2>3. {x \in Procs : q[x] = "op"} = Active \ {p}
    BY DEF Active, TypeOK
  <2> HIDE DEF q
  <2>4. CASE pc' = [pc EXCEPT ![p] = "commit"]
    BY <2>4 DEF Active, TypeOK
  <2>5. CASE pc' = Wakeup(q)
    BY <2>2, <2>3, <2>5, WakeupKeepsCalls DEF Active
  <2> QED
    BY <2>1, <2>4, <2>5
<1>3. UNCHANGED <<home, logData, diskHeader, cache>>
  BY DEF endOperation
<1>4. ~Recovering /\ ~Recovering'
  <2>1. stage' \in {"none", "writeLog", "finish"}
    BY <1>1 DEF endOperation, CommitEntry, walk
  <2> QED
    BY <1>1, <2>1 DEF Recovering, RecoveryStages
<1>5. \A b \in Blocks : Recovered(b)' = Recovered(b)
  BY <1>3, SameDisk
<1>6. \A b \in Blocks : View(b)' = View(b)
  BY <1>3, <1>4 DEF View, Contents
<1> QED
  BY <1>1, <1>2, <1>5, <1>6 DEF Abstract!End, View

\* Before the commit point the log's blocks count for nothing.
LEMMA writeLogRefines == ASSUME IInv, IInv', writeLog PROVE UNCHANGED Abstract!vars
<1> USE DEF IInv, calls
<1>0. /\ stage = "writeLog" /\ diskHeader = <<>> /\ diskHeader' = <<>> /\ home' = home
      /\ tail \in Nat /\ tail <= Len(header) /\ header \in Seq(Blocks)
  BY DEF writeLog, Walk, TypeOK
<1>1. Active' = Active
  BY DEF writeLog, Active
<1>2. ~Recovering /\ ~Recovering'
  BY DEF writeLog, Recovering, RecoveryStages
<1>3. \A b \in Blocks : Recovered(b)' = Recovered(b)
  BY <1>0 DEF Recovered
<1>4. \A b \in Blocks : Contents(b)' = Contents(b)
  <2>1. CASE tail < Len(header)
    <3>1. PICK b \in Blocks : b = header[tail + 1]
      BY <1>0, <2>1
    <3>2. cache' = [cache EXCEPT ![b] = Contents(b)]
      BY <2>1, <3>1 DEF writeLog
    <3>3. Contents(b) \in Values
      BY DEF Contents, TypeOK
    <3> QED
      BY <1>0, <3>2, <3>3, LogAssumption DEF Contents, TypeOK
  <2>2. CASE ~(tail < Len(header))
    BY <1>0, <2>2 DEF writeLog, Contents
  <2> QED
    BY <2>1, <2>2
<1> QED
  BY <1>1, <1>2, <1>3, <1>4, StutterStep DEF View

\* Writing the header is the commit point; erasing it changes nothing.
LEMMA writeHeadRefines ==
  ASSUME IInv, IInv', writeHead
  PROVE  Abstract!Commit \/ UNCHANGED Abstract!vars
<1> USE DEF IInv, memory, calls
<1>0. /\ diskHeader' = header
      /\ UNCHANGED <<home, logData, cache, pins, header, held, pc>>
  BY DEF writeHead
<1>1. Active = {} /\ Active' = Active /\ InUse = {}
  BY DEF Calls, writeHead, Active, InUse
<1>2. \A b \in Blocks : Contents(b)' = Contents(b)
  BY <1>0 DEF Contents
<1>3. CASE stage = "writeHead"
  <2>1. ~Recovering /\ ~Recovering'
    BY <1>3 DEF writeHead, Recovering, RecoveryStages
  <2>2. ASSUME NEW b \in Blocks PROVE Recovered(b)' = Contents(b)
    <3>1. CASE \E i \in 1 .. Len(header) : header[i] = b
      <4>1. PICK i \in 1 .. Len(header) : header[i] = b
        BY <3>1
      <4>2. logData[i] = Contents(b)
        BY <1>3, <4>1 DEF LogBlocks
      <4> QED
        BY <1>0, <4>1, <4>2, RecoveredAfter
    <3>2. CASE \A i \in 1 .. Len(header) : header[i] # b
      <4>1. ~Pinned(b)
        BY <3>2 DEF Pinned
      <4>2. Contents(b) = home[b]
        BY <1>1, <4>1 DEF Cached
      <4> QED
        BY <1>0, <3>2, <4>2, RecoveredAfter
    <3> QED
      BY <3>1, <3>2
  <2> QED
    BY <1>1, <1>2, <2>1, <2>2 DEF Abstract!Commit
<1>4. CASE stage \in {"erase", "recoverErase"}
  <2>1. header = <<>> /\ header' = <<>> /\ diskHeader' = <<>>
    BY <1>0, <1>4 DEF Walk
  <2>2. ASSUME NEW b \in Blocks PROVE Recovered(b)' = home[b] /\ Recovered(b) = home[b]
    <3>1. Recovered(b)' = home[b]
      BY <1>0, <2>1 DEF Recovered
    <3>2. CASE \E i \in 1 .. Len(diskHeader) : diskHeader[i] = b
      <4>1. PICK i \in 1 .. Len(diskHeader) : diskHeader[i] = b
        BY <3>2
      <4>2. home[b] = logData[i]
        BY <1>4, <4>1 DEF LogBlocks
      <4> QED
        BY <3>1, <4>1, <4>2, RecoveredIs
    <3>3. CASE \A i \in 1 .. Len(diskHeader) : diskHeader[i] # b
      BY <3>1, <3>3, RecoveredIs
    <3> QED
      BY <3>2, <3>3
  <2>3. \A b \in Blocks : Contents(b) = home[b]
    BY <1>1, <2>1 DEF Pinned, Cached
  <2>4. \A b \in Blocks : View(b)' = View(b)
    BY <1>2, <2>2, <2>3 DEF View
  <2> QED
    BY <1>1, <2>2, <2>4, StutterStep
<1> QED
  BY <1>3, <1>4 DEF writeHead

\* Between the commit point and the erasure the log has the contents, so
\* installing a block changes nothing, and installing it again neither.
LEMMA installTransactionRefines ==
  ASSUME IInv, IInv', installTransaction
  PROVE  UNCHANGED Abstract!vars
<1> USE DEF IInv, calls
<1>0. /\ stage \in {"install", "recover"} /\ diskHeader = header
      /\ tail \in Nat /\ tail <= Len(header)
      /\ header \in Seq(Blocks) /\ Len(header) \in Nat /\ Len(header) < NLog
  BY SMTT(30) DEF installTransaction, Walk, TypeOK
<1>1. Active' = Active /\ logData' = logData /\ diskHeader' = diskHeader
  BY DEF installTransaction, Active
<1>2. Recovering' <=> Recovering
  BY <1>0 DEF installTransaction, Recovering, RecoveryStages
<1>3. CASE tail < Len(header)
  <2>0. tail + 1 \in 1 .. Len(header) /\ tail + 1 \in LogSlots
    BY <1>0, <1>3, LogAssumption DEF LogSlots
  <2>1. PICK b \in Blocks : b = header[tail + 1]
    BY <1>0, <2>0
  <2>2. /\ home' = [home EXCEPT ![b] = logData[tail + 1]]
        /\ cache' = [cache EXCEPT ![b] = logData[tail + 1]]
        /\ stage' = stage
    BY <1>3, <2>1 DEF installTransaction
  <2>3. \A c \in Blocks : c # b => home'[c] = home[c] /\ cache'[c] = cache[c]
    BY <2>2 DEF TypeOK
  <2>4. ASSUME NEW c \in Blocks PROVE Recovered(c)' = Recovered(c)
    <3>1. CASE \E i \in 1 .. Len(diskHeader) : diskHeader[i] = c
      <4>1. PICK i \in 1 .. Len(diskHeader) : diskHeader[i] = c
        BY <3>1
      <4> QED
        BY <1>1, <4>1, RecoveredIs, RecoveredAfter
    <3>2. CASE \A i \in 1 .. Len(diskHeader) : diskHeader[i] # c
      BY <1>0, <1>1, <2>0, <2>1, <2>3, <3>2, RecoveredIs, RecoveredAfter
    <3> QED
      BY <3>1, <3>2
  <2>5. ASSUME stage = "install", NEW c \in Blocks PROVE Contents(c)' = Contents(c)
    <3>1. CASE c = b
      <4>1. logData[tail + 1] = Contents(b)
        BY <2>0, <2>1, <2>5 DEF LogBlocks
      <4>2. cache'[b] = logData[tail + 1] /\ logData[tail + 1] \in Values
        BY <2>0, <2>2 DEF TypeOK
      <4>3. Contents(b)' = logData[tail + 1]
        BY <4>2, LogAssumption DEF Contents
      <4> QED
        BY <3>1, <4>1, <4>3
    <3>2. CASE c # b
      BY <2>3, <3>2 DEF Contents
    <3> QED
      BY <3>1, <3>2
  <2>6. \A c \in Blocks : View(c)' = View(c)
    BY <1>0, <1>2, <2>4, <2>5 DEF View, Recovering, RecoveryStages
  <2> QED
    BY <1>1, <2>4, <2>6, StutterStep
<1>4. CASE ~(tail < Len(header))
  <2>1. UNCHANGED <<home, cache>>
    BY <1>4 DEF installTransaction
  <2> QED
    BY <1>1, <1>2, <2>1, DataUnchanged
<1> QED
  BY <1>3, <1>4

LEMMA EvictRefines == ASSUME IInv, NEW b \in Blocks, Evict(b) PROVE UNCHANGED Abstract!vars
<1> USE DEF IInv, disk, calls, walk
<1>0. /\ pins[b] = 0 /\ b \notin InUse /\ cache' = [cache EXCEPT ![b] = NoData]
      /\ UNCHANGED <<home, logData, diskHeader, pc, stage>>
  BY DEF Evict
<1>1. Contents(b) = home[b]
  BY <1>0 DEF Cached
<1>2. \A c \in Blocks : Contents(c)' = Contents(c)
  BY <1>0, <1>1 DEF Contents, TypeOK
<1>3. \A c \in Blocks : Recovered(c)' = Recovered(c)
  BY <1>0, SameDisk
<1>4. Active' = Active /\ (Recovering' <=> Recovering)
  BY <1>0 DEF Active, Recovering
<1>5. \A c \in Blocks : View(c)' = View(c)
  BY <1>2, <1>3, <1>4 DEF View
<1> QED
  BY <1>3, <1>4, <1>5, StutterStep

LEMMA CrashRefines == ASSUME IInv, Crash PROVE Abstract!Crash
<1>1. Active' = {} /\ Recovering'
  BY DEF Crash, Active, Recovering, RecoveryStages
<1>2. \A b \in Blocks : Recovered(b)' = Recovered(b)
  BY SameDisk DEF Crash, disk
<1> QED
  BY <1>1, <1>2 DEF Abstract!Crash

LEMMA StepRefines == IInv /\ IInv' /\ [Next]_vars => [Abstract!Next]_(Abstract!vars)
<1> SUFFICES ASSUME IInv, IInv', [Next]_vars PROVE Abstract!Next \/ UNCHANGED Abstract!vars
  OBVIOUS
<1> USE DEF disk, memory, calls, walk
<1>1. ASSUME NEW p \in Procs, StartCall(p) PROVE UNCHANGED Abstract!vars
  <2>1. /\ UNCHANGED <<home, logData, diskHeader, cache>> /\ Active' = Active
        /\ Recovering' <=> Recovering
    BY <1>1 DEF StartCall, Active, IInv, TypeOK, Recovering
  <2> QED
    BY <2>1, DataUnchanged
<1>2. ASSUME NEW p \in Procs, beginOperation(p) PROVE Abstract!Next \/ UNCHANGED Abstract!vars
  BY <1>2, beginOperationRefines DEF Abstract!Next
<1>3. ASSUME NEW p \in Procs, write(p) PROVE UNCHANGED Abstract!vars
  <2>1. /\ UNCHANGED <<home, logData, diskHeader, cache>> /\ Active' = Active
        /\ Recovering' <=> Recovering
    BY <1>3 DEF write, Active, Recovering
  <2> QED
    BY <2>1, DataUnchanged
<1>4. ASSUME NEW p \in Procs, endOperation(p) PROVE Abstract!Next
  BY <1>4, endOperationRefines DEF Abstract!Next
<1>5. ASSUME NEW p \in Procs, NEW b \in Blocks, NEW v \in Values, Modify(p, b, v)
      PROVE  Abstract!Next
  BY <1>5, ModifyRefines DEF Abstract!Next
<1>6. CASE KernelStep
  <2>1. CASE writeLog
    BY <2>1, writeLogRefines
  <2>2. CASE writeHead
    BY <2>2, writeHeadRefines DEF Abstract!Next
  <2>3. CASE installTransaction
    BY <2>3, installTransactionRefines
  <2>4. CASE finishCommit
    <3>1. PICK p \in Procs : pc[p] = "commit" /\ pc' = Wakeup([pc EXCEPT ![p] = "idle"])
      BY <2>4 DEF finishCommit
    <3> DEFINE q == [pc EXCEPT ![p] = "idle"]
    <3>2. q \in [Procs -> {"idle", "begin", "sleep", "op", "commit"}]
      BY DEF IInv, TypeOK
    <3>3. {x \in Procs : q[x] = "op"} = Active /\ pc' = Wakeup(q)
      BY <3>1 DEF Active, IInv, TypeOK
    <3> HIDE DEF q
    <3>4. Active' = Active
      BY <3>2, <3>3, WakeupKeepsCalls DEF Active
    <3>5. UNCHANGED <<home, logData, diskHeader, cache>> /\ (Recovering' <=> Recovering)
      BY <2>4 DEF finishCommit, Recovering, RecoveryStages
    <3> QED
      BY <3>4, <3>5, DataUnchanged
  <2>5. CASE readHead
    <3>1. /\ UNCHANGED <<home, logData, diskHeader, cache>> /\ Active' = Active
          /\ Recovering' <=> Recovering
      BY <2>5 DEF readHead, Active, Recovering, RecoveryStages
    <3> QED
      BY <3>1, DataUnchanged
  <2> QED
    BY <1>6, <2>1, <2>2, <2>3, <2>4, <2>5 DEF KernelStep
<1>7. ASSUME NEW b \in Blocks, Evict(b) PROVE UNCHANGED Abstract!vars
  BY <1>7, EvictRefines
<1>8. CASE Crash
  BY <1>8, CrashRefines DEF Abstract!Next
<1>9. CASE UNCHANGED vars
  <2>1. /\ UNCHANGED <<home, logData, diskHeader, cache>> /\ Active' = Active
        /\ Recovering' <=> Recovering
    BY <1>9 DEF vars, Active, Recovering
  <2> QED
    BY <2>1, DataUnchanged
<1> QED
  BY <1>1, <1>2, <1>3, <1>4, <1>5, <1>6, <1>7, <1>8, <1>9 DEF Next, ProcStep

\* Crash atomicity for every instance: whatever the interleaving of operations,
\* cache evictions and crashes, including crashes during commit() and during
\* recovery, a restart finds exactly the contents of the last commit point.
THEOREM LogIsCrashAtomic == Spec => CrashAtomic
<1>1. Init => Abstract!Init
  <2> SUFFICES ASSUME Init PROVE Abstract!Init
    OBVIOUS
  <2>1. Active = {} /\ Recovering
    BY DEF Init, Active, Recovering, RecoveryStages
  <2>2. \A b \in Blocks : Recovered(b) = home[b] /\ Recovered(b) \in Values
    BY DEF Init, Recovered
  <2> QED
    BY <2>1, <2>2 DEF Abstract!Init
<1>2. IInv /\ IInv' /\ [Next]_vars => [Abstract!Next]_(Abstract!vars)
  BY StepRefines
<1> QED
  BY <1>1, <1>2, Invariant, PTL DEF Spec, CrashAtomic, Abstract!Spec
=============================================================================
