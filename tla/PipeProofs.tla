----------------------------- MODULE PipeProofs -----------------------------
(***************************************************************************)
(* Proofs about Pipe, for every pipe size, every range of the counters     *)
(* that the size divides, and any number of readers and writers.           *)
(*                                                                         *)
(* The inductive invariant says that the bytes between the two counters    *)
(* are the bytes handed over and not yet read (Window), that a call copies *)
(* no more than it was asked for (Counts), and that the process in a loop  *)
(* is the one that holds pipe.lock (Holder).  A sleeper's condition may be *)
(* out of date only while the process that has just changed it still holds *)
(* the lock; done > 0 is the trace it leaves, and it wakes the sleepers    *)
(* before it gives the lock up (Sleepers).                                 *)
(***************************************************************************)
EXTENDS Pipe, SequenceTheorems, TLAPS

Holder == \A p \in Procs : pc[p] = "loop" <=> lock = p

Counts == \A p \in Procs : done[p] <= count[p] /\ (pc[p] = "idle" => done[p] = 0)

Window ==
  /\ Len(sent) <= PipeSize
  /\ write_count = (read_count + Len(sent)) % CountLimit
  /\ \A i \in 1 .. Len(sent) : data[(read_count + i - 1) % PipeSize] = sent[i]

IInv == TypeOK /\ Holder /\ Counts /\ Window

\* An end that is closed has no calls.
ClosedIsIdle == ~read_is_open => \A p \in Readers : pc[p] = "idle"

Sleepers ==
  /\ \A p \in Readers : pc[p] = "sleep" =>
       write_is_open /\ (Empty \/ \E q \in Writers : lock = q /\ done[q] > 0)
  /\ \A p \in Writers : pc[p] = "sleep" =>
       read_is_open /\ (Full \/ \E q \in Readers : lock = q /\ done[q] > 0)

\* Only processes that may be killed are.
OnlyKillable == \A p \in Procs : killed[p] => p \in Killable

SInv == IInv /\ ClosedIsIdle /\ Sleepers /\ OnlyKillable

-----------------------------------------------------------------------------
(* Arithmetic of the counters.                                              *)

\* Division with remainder determines the remainder.
LEMMA ModUnique ==
  ASSUME NEW m \in Nat \ {0}, NEW q \in Int, NEW r \in 0 .. m - 1
  PROVE  (m * q + r) % m = r
<1> DEFINE a == m * q + r
           s == a \div m
<1>1. a \in Int /\ s \in Int /\ a = m * s + (a % m) /\ a % m \in 0 .. m - 1
  BY SMT
<1>2. m * (q - s) = (a % m) - r
  <2>1. m * q + r = m * s + (a % m)
    BY <1>1
  <2> HIDE DEF s
  <2>2. m * (q - s) = m * q - m * s
    BY <1>1, SMT
  <2> QED
    BY <1>1, <2>1, <2>2, SMT
<1> HIDE DEF a, s
<1>3. CASE q - s >= 1
  <2>1. m * (q - s) >= m
    BY <1>1, <1>3, SMT
  <2> QED
    BY <1>1, <1>2, <2>1, SMT
<1>4. CASE q - s <= -1
  <2>1. m * (q - s) <= -m
    BY <1>1, <1>4, SMT
  <2> QED
    BY <1>1, <1>2, <2>1, SMT
<1>5. CASE q - s = 0
  <2>1. m * (q - s) = 0
    BY <1>5, SMT
  <2>2. a % m = r
    BY <1>1, <1>2, <2>1, SMT
  <2> QED
    BY <2>2 DEF a
<1> QED
  BY <1>1, <1>3, <1>4, <1>5, SMT

LEMMA ModSmall ==
  ASSUME NEW m \in Nat \ {0}, NEW a \in 0 .. m - 1
  PROVE  a % m = a
<1>1. m * 0 + a = a
  OBVIOUS
<1> QED
  BY <1>1, ModUnique

LEMMA ModWrap ==
  ASSUME NEW m \in Nat \ {0}, NEW a \in m .. 2 * m - 1
  PROVE  a % m = a - m
<1>1. m * 1 + (a - m) = a /\ a - m \in 0 .. m - 1
  OBVIOUS
<1> QED
  BY <1>1, ModUnique

\* Counting on inside the array.
LEMMA ModAdd ==
  ASSUME NEW m \in Nat \ {0}, NEW a \in Nat, NEW k \in Nat, (a % m) + k < m
  PROVE  (a + k) % m = (a % m) + k
<1> DEFINE q == a \div m
           r == a % m
<1>1. q \in Int /\ r \in 0 .. m - 1 /\ a = m * q + r
  BY SMT
<1>2. r + k \in 0 .. m - 1
  BY <1>1
<1> HIDE DEF q, r
<1>3. a + k = m * q + (r + k)
  BY <1>1
<1>4. (m * q + (r + k)) % m = r + k
  BY <1>1, <1>2, ModUnique
<1> QED
  BY <1>3, <1>4 DEF r

\* A multiple of the size more changes no position.
LEMMA ModPeriod ==
  ASSUME NEW m \in Nat \ {0}, NEW a \in Nat, NEW c \in Nat
  PROVE  (a + m * c) % m = a % m
<1> DEFINE q == a \div m
           r == a % m
<1>1. q \in Int /\ r \in 0 .. m - 1 /\ a = m * q + r
  BY SMT
<1> HIDE DEF q, r
<1>2. a + m * c = m * (q + c) + r
  BY <1>1
<1>3. (m * (q + c) + r) % m = r
  <2>1. q + c \in Int
    BY <1>1
  <2> QED
    BY <1>1, <2>1, ModUnique
<1> QED
  BY <1>2, <1>3 DEF r

\* Positions less than a size apart are different bytes of the array.
LEMMA DifferentBytes ==
  ASSUME NEW m \in Nat \ {0}, NEW a \in Nat, NEW b \in Nat, a < b, b < a + m
  PROVE  a % m # b % m
<1> DEFINE q == a \div m
           r == a % m
<1>1. q \in Int /\ r \in 0 .. m - 1 /\ a = m * q + r
  BY SMT
<1> HIDE DEF q, r
<1>2. CASE r + (b - a) < m
  <2>1. b = m * q + (r + (b - a)) /\ r + (b - a) \in 0 .. m - 1
    BY <1>1, <1>2
  <2>2. b % m = r + (b - a)
    BY <1>1, <2>1, ModUnique
  <2> QED
    BY <1>1, <2>2 DEF r
<1>3. CASE r + (b - a) >= m
  <2>1. b = m * (q + 1) + (r + (b - a) - m) /\ r + (b - a) - m \in 0 .. m - 1
    BY <1>1, <1>3
  <2>2. b % m = r + (b - a) - m
    <3>1. q + 1 \in Int
      BY <1>1
    <3> QED
      BY <2>1, <3>1, ModUnique
  <2> QED
    BY <1>1, <2>2 DEF r
<1> QED
  BY <1>1, <1>2, <1>3

\* What the u32 counters compute: a sum wraps once at most, and wrapping moves
\* no position because the size divides 2^32.
LEMMA CounterSum ==
  ASSUME NEW a \in 0 .. CountLimit - 1, NEW k \in 0 .. CountLimit - 1
  PROVE  /\ (a + k) % CountLimit = IF a + k < CountLimit THEN a + k ELSE a + k - CountLimit
         /\ (a + k) % CountLimit \in 0 .. CountLimit - 1
         /\ \A j \in Nat : (((a + k) % CountLimit) + j) % PipeSize = (a + k + j) % PipeSize
<1>1. CountLimit \in Nat \ {0} /\ PipeSize \in Nat \ {0} /\ CountLimit % PipeSize = 0
  BY PipeAssumption
<1>2. CASE a + k < CountLimit
  <2>1. a + k \in 0 .. CountLimit - 1
    BY <1>1, <1>2
  <2>2. (a + k) % CountLimit = a + k
    BY <1>1, <2>1, ModSmall
  <2> QED
    BY <1>2, <2>1, <2>2
<1>3. CASE a + k >= CountLimit
  <2>1. a + k \in CountLimit .. 2 * CountLimit - 1
    BY <1>1, <1>3
  <2>2. (a + k) % CountLimit = a + k - CountLimit
    BY <1>1, <2>1, ModWrap
  <2>3. ASSUME NEW j \in Nat
        PROVE  (a + k - CountLimit + j) % PipeSize = (a + k + j) % PipeSize
    <3> DEFINE c == CountLimit \div PipeSize
    <3>1. c \in Nat /\ CountLimit = PipeSize * c
      <4>1. c \in Int /\ CountLimit = PipeSize * c + (CountLimit % PipeSize)
        BY <1>1, SMT
      <4> HIDE DEF c
      <4>2. CountLimit = PipeSize * c
        BY <1>1, <4>1, SMT
      <4>3. c >= 0
        <5>1. CASE c < 0
          <6>1. PipeSize * c < 0
            BY <1>1, <4>1, <5>1, SMT
          <6> QED
            BY <1>1, <4>2, <6>1, SMT
        <5> QED
          BY <4>1, <5>1, SMT
      <4> QED
        BY <4>1, <4>2, <4>3, SMT
    <3> HIDE DEF c
    <3>2. a + k - CountLimit + j \in Nat
      BY <1>1, <1>3
    <3>3. ((a + k - CountLimit + j) + PipeSize * c) % PipeSize
            = (a + k - CountLimit + j) % PipeSize
      BY <1>1, <3>1, <3>2, ModPeriod
    <3>4. (a + k - CountLimit + j) + PipeSize * c = a + k + j
      BY <1>1, <3>1
    <3> QED
      BY <3>3, <3>4
  <2>4. \A j \in Nat : (((a + k) % CountLimit) + j) % PipeSize = (a + k + j) % PipeSize
    BY <2>2, <2>3
  <2>5. a + k - CountLimit \in 0 .. CountLimit - 1 /\ ~(a + k < CountLimit)
    BY <1>1, <2>1
  <2> QED
    BY <2>2, <2>4, <2>5
<1> QED
  BY <1>1, <1>2, <1>3

-----------------------------------------------------------------------------
(* What the counters say of the pipe.                                       *)

LEMMA PipeHolds ==
  ASSUME IInv
  PROVE  /\ Len(sent) \in Nat /\ InPipe = Len(sent)
         /\ Empty <=> Len(sent) = 0
         /\ Full <=> Len(sent) = PipeSize
<1>1. /\ read_count \in 0 .. CountLimit - 1 /\ Len(sent) \in Nat
      /\ Len(sent) \in 0 .. CountLimit - 1 /\ PipeSize \in 0 .. CountLimit - 1
      /\ CountLimit \in Nat \ {0} /\ PipeSize \in Nat \ {0}
      /\ write_count = (read_count + Len(sent)) % CountLimit
  <2>1. sent \in Seq(Bytes) /\ Len(sent) <= PipeSize
    BY DEF IInv, TypeOK, Window
  <2>2. read_count \in 0 .. CountLimit - 1 /\ write_count = (read_count + Len(sent)) % CountLimit
    BY DEF IInv, TypeOK, Window
  <2>3. Len(sent) \in Nat
    BY <2>1
  <2> QED
    BY <2>1, <2>2, <2>3, PipeAssumption
<1> DEFINE k == Len(sent)
<1>2. write_count = IF read_count + k < CountLimit THEN read_count + k
                    ELSE read_count + k - CountLimit
  BY <1>1, CounterSum
<1>3. (read_count + PipeSize) % CountLimit =
        IF read_count + PipeSize < CountLimit THEN read_count + PipeSize
        ELSE read_count + PipeSize - CountLimit
  BY <1>1, CounterSum
<1>4. InPipe = k
  <2>1. CASE read_count + k < CountLimit
    <3>1. write_count + CountLimit - read_count = k + CountLimit
      BY <1>1, <1>2, <2>1
    <3>2. k + CountLimit \in CountLimit .. 2 * CountLimit - 1
      BY <1>1
    <3>3. (k + CountLimit) % CountLimit = k
      BY <1>1, <3>2, ModWrap
    <3> QED
      BY <3>1, <3>3 DEF InPipe
  <2>2. CASE ~(read_count + k < CountLimit)
    <3>1. write_count + CountLimit - read_count = k
      BY <1>1, <1>2, <2>2
    <3>2. k % CountLimit = k
      BY <1>1, ModSmall
    <3> QED
      BY <3>1, <3>2 DEF InPipe
  <2> QED
    BY <2>1, <2>2
<1>5. Empty <=> k = 0
  BY <1>1, <1>2 DEF Empty
<1>6. Full <=> k = PipeSize
  BY <1>1, <1>2, <1>3, SMTT(30) DEF Full
<1> QED
  BY <1>1, <1>4, <1>5, <1>6

LEMMA WokenIs ==
  ASSUME NEW q \in [Procs -> {"idle", "lock", "loop", "sleep"}], NEW s
  PROVE  /\ Woken(q, s) \in [Procs -> {"idle", "lock", "loop", "sleep"}]
         /\ \A p \in Procs : Woken(q, s)[p] = IF p \in s /\ q[p] = "sleep" THEN "lock" ELSE q[p]
BY DEF Woken

-----------------------------------------------------------------------------
(* Steps that copy nothing.                                                 *)

\* The window depends on the pipe alone.
LEMMA WindowKept ==
  ASSUME Window, UNCHANGED <<data, read_count, write_count, sent>>
  PROVE  Window'
BY DEF Window

LEMMA ReturnPreserves ==
  ASSUME IInv, NEW p \in Procs, pc[p] = "loop", NEW s, Return(p, s),
         UNCHANGED <<data, read_count, write_count, read_is_open, write_is_open, killed, sent>>
  PROVE  IInv'
<1> DEFINE q == [pc EXCEPT ![p] = "idle"]
<1>0. pc' = Woken(q, s) /\ q \in [Procs -> {"idle", "lock", "loop", "sleep"}]
  BY DEF Return, IInv, TypeOK
<1>1. \A x \in Procs : q[x] = IF x = p THEN "idle" ELSE pc[x]
  BY DEF IInv, TypeOK
<1> HIDE DEF q
<1>2. /\ pc' \in [Procs -> {"idle", "lock", "loop", "sleep"}]
      /\ \A x \in Procs : pc'[x] = IF x \in s /\ q[x] = "sleep" THEN "lock" ELSE q[x]
  BY <1>0, WokenIs
<1>3. /\ lock' = NoProc /\ lock = p
      /\ count' = [count EXCEPT ![p] = 0] /\ done' = [done EXCEPT ![p] = 0]
  BY DEF Return, IInv, Holder
<1>4. TypeOK'
  <2>1. count' \in [Procs -> 0 .. MaxCount] /\ done' \in [Procs -> 0 .. MaxCount]
    BY <1>3, PipeAssumption DEF IInv, TypeOK
  <2>2. killed' \in [Procs -> BOOLEAN] /\ read_is_open' \in BOOLEAN /\ write_is_open' \in BOOLEAN
    BY DEF IInv, TypeOK
  <2> QED
    BY <1>2, <1>3, <2>1, <2>2 DEF IInv, TypeOK
<1>5. Holder'
  BY <1>1, <1>2, <1>3, PipeAssumption DEF IInv, Holder, Procs
<1>6. Counts'
  <2>1. \A x \in Procs : /\ done'[x] = IF x = p THEN 0 ELSE done[x]
                         /\ count'[x] = IF x = p THEN 0 ELSE count[x]
    BY <1>3 DEF IInv, TypeOK
  <2> QED
    BY <1>1, <1>2, <2>1 DEF IInv, Counts
<1> QED
  BY <1>4, <1>5, <1>6, WindowKept DEF IInv

LEMMA SleepOnPreserves ==
  ASSUME IInv, NEW p \in Procs, pc[p] = "loop", NEW s, SleepOn(p, s),
         UNCHANGED <<data, read_count, write_count, read_is_open, write_is_open, killed, sent>>
  PROVE  IInv'
<1> DEFINE q == [pc EXCEPT ![p] = "sleep"]
<1>0. pc' = Woken(q, s) /\ q \in [Procs -> {"idle", "lock", "loop", "sleep"}]
  BY DEF SleepOn, IInv, TypeOK
<1>1. \A x \in Procs : q[x] = IF x = p THEN "sleep" ELSE pc[x]
  BY DEF IInv, TypeOK
<1> HIDE DEF q
<1>2. /\ pc' \in [Procs -> {"idle", "lock", "loop", "sleep"}]
      /\ \A x \in Procs : pc'[x] = IF x \in s /\ q[x] = "sleep" THEN "lock" ELSE q[x]
  BY <1>0, WokenIs
<1>3. lock' = NoProc /\ lock = p /\ count' = count /\ done' = done
  BY DEF SleepOn, IInv, Holder
<1>4. TypeOK'
  <2>1. killed' \in [Procs -> BOOLEAN] /\ read_is_open' \in BOOLEAN /\ write_is_open' \in BOOLEAN
    BY DEF IInv, TypeOK
  <2> QED
    BY <1>2, <1>3, <2>1 DEF IInv, TypeOK
<1>5. Holder'
  BY <1>1, <1>2, <1>3, PipeAssumption DEF IInv, Holder, Procs
<1>6. Counts'
  BY <1>1, <1>2, <1>3 DEF IInv, Counts, TypeOK
<1> QED
  BY <1>4, <1>5, <1>6, WindowKept DEF IInv

\* start, acquire, kill and the two closes touch no byte.
LEMMA OtherStepsPreserve ==
  ASSUME IInv,
         \/ \E p \in Procs : start(p) \/ acquire(p) \/ kill(p)
         \/ closeWrite \/ closeRead
         \/ UNCHANGED vars
  PROVE  IInv'
<1> USE DEF pipe
<1>0. Window'
  BY WindowKept DEF start, acquire, kill, closeWrite, closeRead, vars, IInv
<1>a. pc \in [Procs -> {"idle", "lock", "loop", "sleep"}]
  BY DEF IInv, TypeOK
<1>1. ASSUME NEW p \in Procs, start(p) PROVE IInv'
  <2>1. PICK n \in 0 .. MaxCount : count' = [count EXCEPT ![p] = n]
    BY <1>1 DEF start
  <2>2. /\ pc[p] = "idle" /\ pc' = [pc EXCEPT ![p] = "lock"]
        /\ UNCHANGED <<data, read_count, write_count, read_is_open, write_is_open, lock, done,
                       killed, sent>>
    BY <1>1 DEF start
  <2>3. TypeOK'
    <3>1. count' \in [Procs -> 0 .. MaxCount]
      BY <2>1 DEF IInv, TypeOK
    <3>2. pc' \in [Procs -> {"idle", "lock", "loop", "sleep"}]
      BY <1>a, <2>2
    <3> QED
      BY <2>2, <3>1, <3>2 DEF IInv, TypeOK
  <2>4. Holder'
    BY <1>a, <2>2 DEF IInv, Holder
  <2>5. Counts'
    BY <1>a, <2>1, <2>2 DEF IInv, Counts, TypeOK
  <2> QED
    BY <1>0, <2>3, <2>4, <2>5 DEF IInv
<1>2. ASSUME NEW p \in Procs, acquire(p) PROVE IInv'
  <2>1. /\ pc[p] = "lock" /\ lock = NoProc /\ lock' = p /\ pc' = [pc EXCEPT ![p] = "loop"]
        /\ UNCHANGED <<data, read_count, write_count, read_is_open, write_is_open, count, done,
                       killed, sent>>
    BY <1>2 DEF acquire
  <2>2. pc' \in [Procs -> {"idle", "lock", "loop", "sleep"}]
    BY <1>a, <2>1
  <2>3. TypeOK'
    BY <2>1, <2>2 DEF IInv, TypeOK
  <2>4. Holder' /\ Counts'
    BY <1>a, <2>1, PipeAssumption DEF IInv, Holder, Counts, Procs
  <2> QED
    BY <1>0, <2>3, <2>4 DEF IInv
<1>3. ASSUME NEW s, pc' = Woken(pc, s), UNCHANGED <<lock, count, done>>
      PROVE  /\ pc' \in [Procs -> {"idle", "lock", "loop", "sleep"}]
             /\ Holder' /\ Counts'
  <2>1. /\ pc' \in [Procs -> {"idle", "lock", "loop", "sleep"}]
        /\ \A x \in Procs : pc'[x] = IF x \in s /\ pc[x] = "sleep" THEN "lock" ELSE pc[x]
    BY <1>3, <1>a, WokenIs
  <2> QED
    BY <1>3, <2>1 DEF IInv, Holder, Counts
<1>4. ASSUME NEW p \in Procs, kill(p) PROVE IInv'
  <2>1. /\ pc' = Woken(pc, {p}) /\ killed' = [killed EXCEPT ![p] = TRUE]
        /\ UNCHANGED <<data, read_count, write_count, read_is_open, write_is_open, lock, count,
                       done, sent>>
    BY <1>4 DEF kill
  <2>2. killed' \in [Procs -> BOOLEAN]
    BY <2>1 DEF IInv, TypeOK
  <2>3. pc' \in [Procs -> {"idle", "lock", "loop", "sleep"}] /\ Holder' /\ Counts'
    BY <1>3, <2>1
  <2>4. TypeOK'
    BY <2>1, <2>2, <2>3 DEF IInv, TypeOK
  <2> QED
    BY <1>0, <2>3, <2>4 DEF IInv
<1>5. ASSUME closeWrite \/ closeRead PROVE IInv'
  <2>1. /\ \E s : pc' = Woken(pc, s)
        /\ UNCHANGED <<data, read_count, write_count, lock, count, done, killed, sent>>
    BY <1>5 DEF closeWrite, closeRead
  <2>2. read_is_open' \in BOOLEAN /\ write_is_open' \in BOOLEAN
    BY <1>5 DEF closeWrite, closeRead, IInv, TypeOK
  <2>3. pc' \in [Procs -> {"idle", "lock", "loop", "sleep"}] /\ Holder' /\ Counts'
    BY <1>3, <2>1
  <2>4. TypeOK'
    BY <2>1, <2>2, <2>3 DEF IInv, TypeOK
  <2> QED
    BY <1>0, <2>3, <2>4 DEF IInv
<1>6. CASE UNCHANGED vars
  BY <1>0, <1>6 DEF vars, IInv, TypeOK, Holder, Counts
<1> QED
  BY <1>1, <1>2, <1>4, <1>5, <1>6

-----------------------------------------------------------------------------
(* Steps that copy.                                                         *)

\* The length of a chunk.
LEMMA ChunkIs ==
  ASSUME NEW position \in 0 .. PipeSize - 1, NEW a \in Nat, NEW b \in Nat
  PROVE  /\ Chunk(position, Least(a, b)) \in Nat
         /\ Chunk(position, Least(a, b)) <= PipeSize - position
         /\ Chunk(position, Least(a, b)) <= a
         /\ Chunk(position, Least(a, b)) <= b
         /\ a > 0 /\ b > 0 => Chunk(position, Least(a, b)) > 0
BY PipeAssumption DEF Chunk, Least

WriteChunk(p) == Chunk(write_count % PipeSize, Least(PipeSize - InPipe, count[p] - done[p]))
ReadChunk(p) == Chunk(read_count % PipeSize, Least(InPipe, count[p] - done[p]))

LEMMA WriteChunkIs ==
  ASSUME IInv, NEW p \in Procs
  PROVE  /\ WriteChunk(p) \in Nat /\ write_count % PipeSize \in 0 .. PipeSize - 1
         /\ WriteChunk(p) + (write_count % PipeSize) <= PipeSize
         /\ Len(sent) + WriteChunk(p) <= PipeSize
         /\ done[p] + WriteChunk(p) <= count[p]
<1>1. /\ PipeSize \in Nat \ {0} /\ write_count \in Nat /\ Len(sent) \in Nat
      /\ InPipe = Len(sent) /\ Len(sent) <= PipeSize
  BY PipeHolds, PipeAssumption DEF IInv, TypeOK, Window
<1>2. count[p] \in Nat /\ done[p] \in Nat /\ done[p] <= count[p]
  BY PipeAssumption DEF IInv, TypeOK, Counts
<1>3. write_count % PipeSize \in 0 .. PipeSize - 1
  BY <1>1
<1>4. PipeSize - InPipe \in Nat /\ count[p] - done[p] \in Nat
  BY <1>1, <1>2
<1> DEFINE position == write_count % PipeSize
           n == Chunk(position, Least(PipeSize - InPipe, count[p] - done[p]))
<1> HIDE DEF position
<1>5. position \in 0 .. PipeSize - 1
  BY <1>3 DEF position
<1>6. /\ n \in Nat /\ n <= PipeSize - position /\ n <= PipeSize - InPipe
      /\ n <= count[p] - done[p]
  BY <1>4, <1>5, ChunkIs
<1>7. WriteChunk(p) = n
  BY DEF WriteChunk, position
<1> HIDE DEF n
<1>8. n + position <= PipeSize /\ Len(sent) + n <= PipeSize /\ done[p] + n <= count[p]
  BY <1>1, <1>2, <1>5, <1>6
<1> QED
  BY <1>3, <1>6, <1>7, <1>8 DEF position

LEMMA ReadChunkIs ==
  ASSUME IInv, NEW p \in Procs
  PROVE  /\ ReadChunk(p) \in Nat
         /\ ReadChunk(p) <= Len(sent)
         /\ done[p] + ReadChunk(p) <= count[p]
         /\ ~Empty /\ done[p] < count[p] => ReadChunk(p) > 0
<1>1. /\ PipeSize \in Nat \ {0} /\ read_count \in Nat /\ Len(sent) \in Nat
      /\ InPipe = Len(sent) /\ (Empty <=> Len(sent) = 0)
  BY PipeHolds, PipeAssumption DEF IInv, TypeOK
<1>2. count[p] \in Nat /\ done[p] \in Nat /\ done[p] <= count[p]
  BY PipeAssumption DEF IInv, TypeOK, Counts
<1> DEFINE position == read_count % PipeSize
           n == Chunk(position, Least(InPipe, count[p] - done[p]))
<1>3. position \in 0 .. PipeSize - 1
  BY <1>1
<1> HIDE DEF position
<1>4. InPipe \in Nat /\ count[p] - done[p] \in Nat
  BY <1>1, <1>2
<1>5. /\ n \in Nat /\ n <= InPipe /\ n <= count[p] - done[p]
      /\ InPipe > 0 /\ count[p] - done[p] > 0 => n > 0
  BY <1>3, <1>4, ChunkIs
<1>6. ReadChunk(p) = n
  BY DEF ReadChunk, position
<1> HIDE DEF n
<1> QED
  BY <1>1, <1>2, <1>5, <1>6

\* A chunk written goes behind the last byte and over no byte still to be read,
\* whether the array or the counter wraps or not.
LEMMA WriteCopies ==
  ASSUME IInv, NEW p \in Procs, NEW chunk \in [1 .. WriteChunk(p) -> Bytes],
         data' = [i \in DOMAIN data |->
                    IF i \in (write_count % PipeSize) .. (write_count % PipeSize) + WriteChunk(p) - 1
                    THEN chunk[i - (write_count % PipeSize) + 1] ELSE data[i]],
         sent' = sent \o chunk,
         write_count' = Advanced(write_count, WriteChunk(p)),
         read_count' = read_count
  PROVE  /\ Window' /\ sent' \in Seq(Bytes) /\ write_count' \in 0 .. CountLimit - 1
         /\ data' \in [0 .. PipeSize - 1 -> Bytes]
         /\ Len(sent') = Len(sent) + WriteChunk(p)
<1>0. /\ PipeSize \in Nat \ {0} /\ CountLimit \in Nat /\ CountLimit > PipeSize
      /\ sent \in Seq(Bytes) /\ Len(sent) \in Nat /\ Len(sent) <= PipeSize
      /\ data \in [0 .. PipeSize - 1 -> Bytes]
      /\ read_count \in 0 .. CountLimit - 1
      /\ write_count = (read_count + Len(sent)) % CountLimit
  <2>1. sent \in Seq(Bytes) /\ Len(sent) <= PipeSize
    BY DEF IInv, TypeOK, Window
  <2>2. /\ data \in [0 .. PipeSize - 1 -> Bytes]
        /\ read_count \in 0 .. CountLimit - 1
        /\ write_count = (read_count + Len(sent)) % CountLimit
    BY DEF IInv, TypeOK, Window
  <2> QED
    BY <2>1, <2>2, PipeAssumption
<1> DEFINE k == Len(sent)
           n == WriteChunk(p)
           position == write_count % PipeSize
<1>1. /\ n \in Nat /\ position \in 0 .. PipeSize - 1 /\ n + position <= PipeSize
      /\ k + n <= PipeSize
  BY WriteChunkIs
<1>1a. k \in Nat /\ k <= PipeSize /\ write_count = (read_count + k) % CountLimit
  BY <1>0
<1> HIDE DEF k, n, position
<1>2. chunk \in [1 .. n -> Bytes] /\ chunk \in Seq(Bytes) /\ Len(chunk) = n
  <2>1. chunk \in [1 .. n -> Bytes]
    BY DEF n
  <2>2. chunk = [i \in 1 .. n |-> chunk[i]] /\ \A i \in 1 .. n : chunk[i] \in Bytes
    BY <2>1
  <2>3. chunk \in Seq(Bytes)
    BY <1>1, <2>1, IsASeq, SMT
  <2> QED
    BY <1>1, <2>1, <2>3
<1>3. /\ sent' \in Seq(Bytes) /\ Len(sent') = k + n
      /\ \A i \in 1 .. k : sent'[i] = sent[i]
      /\ \A i \in k + 1 .. k + n : sent'[i] = chunk[i - k]
  <2>1. /\ sent' \in Seq(Bytes) /\ Len(sent') = k + n
        /\ \A i \in 1 .. k + n : sent'[i] = IF i <= k THEN sent[i] ELSE chunk[i - k]
    BY <1>0, <1>2, ConcatProperties DEF k
  <2>2. ASSUME NEW i \in 1 .. k PROVE sent'[i] = sent[i]
    <3>1. i \in 1 .. k + n /\ i <= k
      BY ONLY <1>1, <1>1a, i \in 1 .. k
    <3> QED
      BY ONLY <2>1, <3>1
  <2>3. ASSUME NEW i \in k + 1 .. k + n PROVE sent'[i] = chunk[i - k]
    <3>1. i \in 1 .. k + n /\ ~(i <= k)
      BY ONLY <1>1, <1>1a, i \in k + 1 .. k + n
    <3> QED
      BY ONLY <2>1, <3>1
  <2> QED
    BY <2>1, <2>2, <2>3
<1>4. /\ data' \in [0 .. PipeSize - 1 -> Bytes]
      /\ \A i \in 0 .. PipeSize - 1 :
           data'[i] = IF i \in position .. position + n - 1 THEN chunk[i - position + 1]
                      ELSE data[i]
  <2>1. data' = [i \in 0 .. PipeSize - 1 |->
                   IF i \in position .. position + n - 1 THEN chunk[i - position + 1]
                   ELSE data[i]]
    BY <1>0 DEF position, n
  <2>2. \A i \in position .. position + n - 1 : i - position + 1 \in 1 .. n
    BY <1>1
  <2> QED
    BY <1>0, <1>1, <1>2, <2>1, <2>2
<1>5. k \in 0 .. CountLimit - 1 /\ n \in 0 .. CountLimit - 1 /\ k + n \in 0 .. CountLimit - 1
  BY <1>0, <1>1, <1>1a
<1>6. /\ write_count \in 0 .. CountLimit - 1
      /\ write_count = IF read_count + k < CountLimit THEN read_count + k
                       ELSE read_count + k - CountLimit
      /\ \A j \in Nat : (write_count + j) % PipeSize = (read_count + k + j) % PipeSize
  <2>1. read_count \in 0 .. CountLimit - 1 /\ k \in 0 .. CountLimit - 1
    BY <1>0, <1>5
  <2> QED
    BY ONLY <1>1a, <2>1, CounterSum
<1>7. /\ write_count' \in 0 .. CountLimit - 1
      /\ write_count' = (read_count + Len(sent')) % CountLimit
  <2>1. /\ write_count' \in 0 .. CountLimit - 1
        /\ write_count' = IF write_count + n < CountLimit THEN write_count + n
                          ELSE write_count + n - CountLimit
    BY <1>5, <1>6, CounterSum DEF Advanced, n
  <2>2. (read_count + (k + n)) % CountLimit =
          IF read_count + (k + n) < CountLimit THEN read_count + (k + n)
          ELSE read_count + (k + n) - CountLimit
    BY <1>0, <1>5, CounterSum
  <2>3. write_count' = (read_count + (k + n)) % CountLimit
    <3>1. /\ read_count \in Int /\ k \in Int /\ n \in Int /\ CountLimit \in Int
          /\ write_count' \in 0 .. CountLimit - 1 /\ k + n < CountLimit
          /\ read_count < CountLimit /\ 0 <= read_count /\ 0 <= k /\ 0 <= n
      BY <1>0, <1>5, <2>1
    <3>2. write_count' = IF read_count + (k + n) < CountLimit THEN read_count + (k + n)
                         ELSE read_count + (k + n) - CountLimit
      BY ONLY <1>6, <2>1, <3>1
    <3> QED
      BY ONLY <2>2, <3>2
  <2> QED
    BY <1>3, <2>1, <2>3
\* Where the new bytes are.
<1>8. \A j \in 0 .. n - 1 : (read_count + k + j) % PipeSize = position + j
  <2> SUFFICES ASSUME NEW j \in 0 .. n - 1
               PROVE  (read_count + k + j) % PipeSize = position + j
    OBVIOUS
  <2>1. j \in Nat /\ position + j < PipeSize /\ write_count \in Nat
    BY <1>0, <1>1, <1>6
  <2>2. (write_count + j) % PipeSize = position + j
    BY <1>0, <2>1, ModAdd DEF position
  <2> QED
    BY <1>6, <2>1, <2>2
\* Where they are not.
<1>9. \A i \in 1 .. k : (read_count + i - 1) % PipeSize \notin position .. position + n - 1
  <2> SUFFICES ASSUME NEW i \in 1 .. k, NEW j \in 0 .. n - 1,
                      (read_count + i - 1) % PipeSize = position + j
               PROVE  FALSE
    <3>1. \A x \in position .. position + n - 1 : x - position \in 0 .. n - 1
                                                  /\ x = position + (x - position)
      BY <1>1
    <3> QED
      BY <3>1
  <2>1. /\ read_count + i - 1 \in Nat /\ read_count + k + j \in Nat
        /\ read_count + i - 1 < read_count + k + j
        /\ read_count + k + j < read_count + i - 1 + PipeSize
    BY <1>0, <1>1, <1>1a
  <2>2. (read_count + i - 1) % PipeSize # (read_count + k + j) % PipeSize
    BY ONLY <1>0, <2>1, DifferentBytes
  <2> QED
    BY <1>8, <2>2
<1>10. ASSUME NEW i \in 1 .. k + n PROVE data'[(read_count + i - 1) % PipeSize] = sent'[i]
  <2>1. (read_count + i - 1) % PipeSize \in 0 .. PipeSize - 1
    BY <1>0
  <2>2. CASE i \in 1 .. k
    <3>1. data'[(read_count + i - 1) % PipeSize] = data[(read_count + i - 1) % PipeSize]
      BY <1>4, <1>9, <2>1, <2>2
    <3> QED
      BY <1>3, <2>2, <3>1 DEF IInv, Window, k
  <2>3. CASE i \in k + 1 .. k + n
    <3> DEFINE j == i - 1 - k
    <3>1. j \in 0 .. n - 1 /\ read_count + i - 1 = read_count + k + j
      BY <1>0, <1>1, <1>1a, <2>3
    <3> HIDE DEF j
    <3>2. (read_count + i - 1) % PipeSize = position + j
      BY <1>8, <3>1
    <3>3. position + j \in position .. position + n - 1 /\ position + j \in 0 .. PipeSize - 1
      BY <1>0, <1>1, <3>1
    <3>4. data'[position + j] = chunk[(position + j) - position + 1]
      BY <1>4, <3>3
    <3>5. (position + j) - position + 1 = i - k
      BY <1>1, <1>1a, <2>3 DEF j
    <3> QED
      BY <1>3, <2>3, <3>2, <3>4, <3>5
  <2> QED
    <3>1. i \in 1 .. k \/ i \in k + 1 .. k + n
      BY ONLY <1>1, <1>1a, i \in 1 .. k + n
    <3> QED
      BY <2>2, <2>3, <3>1
<1>11. Window'
  BY <1>1, <1>3, <1>7, <1>10 DEF Window
<1> QED
  BY <1>3, <1>4, <1>7, <1>11 DEF k, n

\* A chunk read is taken from the front.
LEMMA ReadCopies ==
  ASSUME IInv, NEW p \in Procs,
         read_count' = Advanced(read_count, ReadChunk(p)),
         sent' = SubSeq(sent, ReadChunk(p) + 1, Len(sent)),
         UNCHANGED <<data, write_count>>
  PROVE  /\ Window' /\ sent' \in Seq(Bytes) /\ read_count' \in 0 .. CountLimit - 1
         /\ Len(sent') = Len(sent) - ReadChunk(p)
<1>0. /\ PipeSize \in Nat \ {0} /\ CountLimit \in Nat /\ CountLimit > PipeSize
      /\ sent \in Seq(Bytes) /\ Len(sent) \in Nat /\ Len(sent) <= PipeSize
      /\ read_count \in 0 .. CountLimit - 1
      /\ write_count = (read_count + Len(sent)) % CountLimit
  <2>1. sent \in Seq(Bytes) /\ Len(sent) <= PipeSize
    BY DEF IInv, TypeOK, Window
  <2>2. /\ read_count \in 0 .. CountLimit - 1
        /\ write_count = (read_count + Len(sent)) % CountLimit
    BY DEF IInv, TypeOK, Window
  <2> QED
    BY <2>1, <2>2, PipeAssumption
<1> DEFINE k == Len(sent)
           n == ReadChunk(p)
<1>1. n \in Nat /\ n <= k
  BY ReadChunkIs
<1>2. /\ sent' \in Seq(Bytes) /\ Len(sent') = k - n
      /\ \A i \in 1 .. k - n : sent'[i] = sent[n + i]
  <2>1. \A i \in n + 1 .. k : sent[i] \in Bytes
    BY <1>0, <1>1, ElementOfSeq
  <2>2. n + 1 \in Int /\ k \in Int
    BY <1>0, <1>1
  <2>3. /\ sent' \in Seq(Bytes)
        /\ Len(sent') = IF n + 1 <= k THEN k - (n + 1) + 1 ELSE 0
        /\ \A i \in 1 .. k - (n + 1) + 1 : sent'[i] = sent[n + 1 + i - 1]
    BY <2>1, <2>2, SubSeqProperties
  <2> HIDE DEF n, k
  <2>4. k - (n + 1) + 1 = k - n /\ \A i \in 1 .. k - n : n + 1 + i - 1 = n + i
    BY <1>1, <2>2
  <2>5. Len(sent') = k - n
    BY <1>1, <2>2, <2>3
  <2> QED
    BY <2>3, <2>4, <2>5
<1>3. k \in 0 .. CountLimit - 1 /\ n \in 0 .. CountLimit - 1 /\ k - n \in 0 .. CountLimit - 1
  BY <1>0, <1>1
<1>4. /\ read_count' \in 0 .. CountLimit - 1
      /\ read_count' = IF read_count + n < CountLimit THEN read_count + n
                       ELSE read_count + n - CountLimit
      /\ \A j \in Nat : (read_count' + j) % PipeSize = (read_count + n + j) % PipeSize
  BY <1>0, <1>3, CounterSum DEF Advanced
<1>5. write_count = (read_count' + Len(sent')) % CountLimit
  <2>1. write_count = IF read_count + k < CountLimit THEN read_count + k
                      ELSE read_count + k - CountLimit
    BY <1>0, <1>3, CounterSum
  <2>2. (read_count' + (k - n)) % CountLimit =
          IF read_count' + (k - n) < CountLimit THEN read_count' + (k - n)
          ELSE read_count' + (k - n) - CountLimit
    BY <1>3, <1>4, CounterSum
  <2> HIDE DEF n, k
  <2>3. write_count = (read_count' + (k - n)) % CountLimit
    BY <1>0, <1>3, <1>4, <2>1, <2>2
  <2> QED
    BY <1>2, <2>3
<1>6. ASSUME NEW i \in 1 .. k - n PROVE data[(read_count' + i - 1) % PipeSize] = sent'[i]
  <2>1. i - 1 \in Nat /\ n + i \in 1 .. k
    BY <1>0, <1>1
  <2>2. read_count' + i - 1 = read_count' + (i - 1)
        /\ read_count + n + (i - 1) = read_count + (n + i) - 1
    BY <1>0, <1>1, <1>4
  <2>3. (read_count' + (i - 1)) % PipeSize = (read_count + n + (i - 1)) % PipeSize
    BY <1>4, <2>1
  <2>4. data[(read_count + (n + i) - 1) % PipeSize] = sent[n + i]
    BY <2>1 DEF IInv, Window
  <2> QED
    BY <1>2, <2>2, <2>3, <2>4
<1>7. Len(sent') <= PipeSize
  BY <1>0, <1>1, <1>2
<1> QED
  BY <1>2, <1>4, <1>5, <1>6, <1>7 DEF Window

\* The lock holder's counters after it has copied n bytes.
LEMMA CopyKeeps ==
  ASSUME IInv, NEW p \in Procs, pc[p] = "loop", NEW n \in Nat, done[p] + n <= count[p],
         done' = [done EXCEPT ![p] = @ + n],
         UNCHANGED <<lock, pc, count>>
  PROVE  done' \in [Procs -> 0 .. MaxCount] /\ Holder' /\ Counts'
<1>1. \A x \in Procs : done'[x] = IF x = p THEN done[p] + n ELSE done[x]
  BY DEF IInv, TypeOK
<1>2. \A x \in Procs : done[x] \in 0 .. MaxCount /\ count[x] \in 0 .. MaxCount
  BY DEF IInv, TypeOK
<1>3. done[p] + n \in 0 .. MaxCount
  BY <1>2, PipeAssumption
<1>4. done' \in [Procs -> 0 .. MaxCount]
  BY <1>3 DEF IInv, TypeOK
<1>5. Counts'
  BY <1>1 DEF IInv, Counts
<1> QED
  BY <1>4, <1>5 DEF IInv, Holder

LEMMA WritePreserves == ASSUME IInv, NEW p \in Procs, write(p) PROVE IInv'
<1>0. /\ p \in Writers /\ pc[p] = "loop"
      /\ UNCHANGED <<read_count, read_is_open, write_is_open, killed>>
  BY DEF write
<1>1. \/ (\E s : Return(p, s)) /\ UNCHANGED <<data, write_count, sent>>
      \/ (\E s : SleepOn(p, s)) /\ UNCHANGED <<data, write_count, sent>>
      \/ /\ \E chunk \in [1 .. WriteChunk(p) -> Bytes] :
              /\ data' = [i \in DOMAIN data |->
                    IF i \in (write_count % PipeSize) .. (write_count % PipeSize) + WriteChunk(p) - 1
                    THEN chunk[i - (write_count % PipeSize) + 1] ELSE data[i]]
              /\ sent' = sent \o chunk
         /\ write_count' = Advanced(write_count, WriteChunk(p))
         /\ done' = [done EXCEPT ![p] = @ + WriteChunk(p)]
         /\ UNCHANGED <<lock, pc, count>>
  BY Zenon DEF write, WriteChunk
<1>2. CASE (\E s : Return(p, s)) /\ UNCHANGED <<data, write_count, sent>>
  BY <1>0, <1>2, ReturnPreserves
<1>3. CASE (\E s : SleepOn(p, s)) /\ UNCHANGED <<data, write_count, sent>>
  BY <1>0, <1>3, SleepOnPreserves
<1>4. ASSUME NEW chunk \in [1 .. WriteChunk(p) -> Bytes],
             data' = [i \in DOMAIN data |->
                  IF i \in (write_count % PipeSize) .. (write_count % PipeSize) + WriteChunk(p) - 1
                  THEN chunk[i - (write_count % PipeSize) + 1] ELSE data[i]],
             sent' = sent \o chunk,
             write_count' = Advanced(write_count, WriteChunk(p)),
             done' = [done EXCEPT ![p] = @ + WriteChunk(p)],
             UNCHANGED <<lock, pc, count>>
      PROVE  IInv'
  <2>1. /\ Window' /\ sent' \in Seq(Bytes) /\ write_count' \in 0 .. CountLimit - 1
        /\ data' \in [0 .. PipeSize - 1 -> Bytes]
    BY <1>0, <1>4, WriteCopies
  <2>2. WriteChunk(p) \in Nat /\ done[p] + WriteChunk(p) <= count[p]
    BY WriteChunkIs
  <2>3. done' \in [Procs -> 0 .. MaxCount] /\ Holder' /\ Counts'
    BY <1>0, <1>4, <2>2, CopyKeeps
  <2>4. TypeOK'
    BY <1>0, <1>4, <2>1, <2>3 DEF IInv, TypeOK
  <2> QED
    BY <2>1, <2>3, <2>4 DEF IInv
<1> QED
  BY <1>1, <1>2, <1>3, <1>4

LEMMA ReadPreserves == ASSUME IInv, NEW p \in Procs, read(p) PROVE IInv'
<1>0. /\ p \in Readers /\ pc[p] = "loop"
      /\ UNCHANGED <<data, write_count, read_is_open, write_is_open, killed>>
  BY DEF read
<1>1. \/ (\E s : Return(p, s)) /\ UNCHANGED <<read_count, sent>>
      \/ (\E s : SleepOn(p, s)) /\ UNCHANGED <<read_count, sent>>
      \/ /\ read_count' = Advanced(read_count, ReadChunk(p))
         /\ sent' = SubSeq(sent, ReadChunk(p) + 1, Len(sent))
         /\ done' = [done EXCEPT ![p] = @ + ReadChunk(p)]
         /\ UNCHANGED <<lock, pc, count>>
  BY Zenon DEF read, ReadChunk
<1>2. CASE (\E s : Return(p, s)) /\ UNCHANGED <<read_count, sent>>
  BY <1>0, <1>2, ReturnPreserves
<1>3. CASE (\E s : SleepOn(p, s)) /\ UNCHANGED <<read_count, sent>>
  BY <1>0, <1>3, SleepOnPreserves
<1>4. ASSUME read_count' = Advanced(read_count, ReadChunk(p)),
             sent' = SubSeq(sent, ReadChunk(p) + 1, Len(sent)),
             done' = [done EXCEPT ![p] = @ + ReadChunk(p)],
             UNCHANGED <<lock, pc, count>>
      PROVE  IInv'
  <2>1. Window' /\ sent' \in Seq(Bytes) /\ read_count' \in 0 .. CountLimit - 1
    BY <1>0, <1>4, ReadCopies
  <2>2. ReadChunk(p) \in Nat /\ done[p] + ReadChunk(p) <= count[p]
    BY ReadChunkIs
  <2>3. done' \in [Procs -> 0 .. MaxCount] /\ Holder' /\ Counts'
    BY <1>0, <1>4, <2>2, CopyKeeps
  <2>4. TypeOK'
    BY <1>0, <1>4, <2>1, <2>3 DEF IInv, TypeOK
  <2> QED
    BY <2>1, <2>3, <2>4 DEF IInv
<1> QED
  BY <1>1, <1>2, <1>3, <1>4

LEMMA NextPreserves == IInv /\ [Next]_vars => IInv'
<1> SUFFICES ASSUME IInv, [Next]_vars PROVE IInv'
  OBVIOUS
<1>1. ASSUME NEW p \in Procs, write(p) \/ read(p) PROVE IInv'
  BY <1>1, WritePreserves, ReadPreserves
<1>2. CASE \/ \E p \in Procs : start(p) \/ acquire(p) \/ kill(p)
           \/ closeWrite \/ closeRead
           \/ UNCHANGED vars
  BY <1>2, OtherStepsPreserve
<1> QED
  BY <1>1, <1>2 DEF Next, KernelStep

LEMMA InitEstablishes == Init => IInv
<1> SUFFICES ASSUME Init PROVE IInv
  OBVIOUS
<1> USE PipeAssumption DEF Init
<1>1. sent \in Seq(Bytes) /\ Len(sent) = 0
  BY EmptySeq
<1>2. TypeOK
  <2>1. killed \in [Procs -> BOOLEAN] /\ read_is_open \in BOOLEAN /\ write_is_open \in BOOLEAN
    OBVIOUS
  <2>2. read_count \in 0 .. CountLimit - 1 /\ write_count \in 0 .. CountLimit - 1
    OBVIOUS
  <2>3. count \in [Procs -> 0 .. MaxCount] /\ done \in [Procs -> 0 .. MaxCount]
    OBVIOUS
  <2> QED
    BY <1>1, <2>1, <2>2, <2>3 DEF TypeOK
<1>3. Holder /\ Counts
  BY DEF Holder, Counts, Procs
<1>4. Window
  <2>1. 0 % CountLimit = 0
    BY ModSmall
  <2> QED
    BY <1>1, <2>1 DEF Window
<1> QED
  BY <1>2, <1>3, <1>4 DEF IInv

LEMMA Invariant == Spec => []IInv
BY InitEstablishes, NextPreserves, PTL DEF Spec

\* The counters stay u32 values, the array keeps its bytes, and a call never
\* counts more bytes than MaxCount.
THEOREM TypeCorrect == Spec => []TypeOK
<1>1. IInv => TypeOK
  BY DEF IInv
<1> QED
  BY <1>1, Invariant, PTL

\* For every size of the pipe and every number of readers and writers: what
\* lies between the counters is what was written and not yet read, in order,
\* across the wrap of the array and the wrap of the u32 counters.
THEOREM PipeKeepsOrder == Spec => []BytesInOrder
<1>1. IInv => BytesInOrder
  <2> SUFFICES ASSUME IInv PROVE BytesInOrder
    OBVIOUS
  <2>1. InPipe = Len(sent) /\ Len(sent) \in Nat
    BY PipeHolds
  <2>2. sent = [i \in 1 .. Len(sent) |-> sent[i]]
    BY DEF IInv, TypeOK
  <2>3. \A i \in 1 .. Len(sent) : data[(read_count + i - 1) % PipeSize] = sent[i]
    BY DEF IInv, Window
  <2>4. [i \in 1 .. Len(sent) |-> data[(read_count + i - 1) % PipeSize]]
          = [i \in 1 .. Len(sent) |-> sent[i]]
    BY <2>3
  <2> QED
    BY <2>1, <2>2, <2>4 DEF BytesInOrder
<1> QED
  BY <1>1, Invariant, PTL

-----------------------------------------------------------------------------
(* Sleeping and waking.                                                     *)

LEMMA WriteKeepsSleepers ==
  ASSUME SInv, IInv', NEW p \in Procs, write(p), ~killed[p]
  PROVE  ClosedIsIdle' /\ Sleepers'
<1>0. /\ p \in Writers /\ p \notin Readers /\ pc[p] = "loop" /\ lock = p
      /\ UNCHANGED <<read_count, read_is_open, write_is_open, killed>>
      /\ IInv /\ ClosedIsIdle /\ Sleepers
      /\ pc \in [Procs -> {"idle", "lock", "loop", "sleep"}]
  BY PipeAssumption DEF write, SInv, IInv, Holder, TypeOK
<1>0a. Readers \subseteq Procs /\ Writers \subseteq Procs
  BY DEF Procs
<1>1. \A x \in Procs : pc'[x] = "sleep" => pc[x] = "sleep" \/ x = p
  <2>1. CASE \E s : Return(p, s)
    <3>1. PICK s : pc' = Woken([pc EXCEPT ![p] = "idle"], s)
      BY <2>1 DEF Return
    <3> QED
      BY <1>0, <3>1 DEF Woken
  <2>2. CASE \E s : SleepOn(p, s)
    <3>1. PICK s : pc' = Woken([pc EXCEPT ![p] = "sleep"], s)
      BY <2>2 DEF SleepOn
    <3> QED
      BY <1>0, <3>1 DEF Woken
  <2>3. CASE UNCHANGED pc
    BY <2>3
  <2> QED
    BY <2>1, <2>2, <2>3, Zenon DEF write
<1>2. ClosedIsIdle'
  <2>1. ASSUME ~read_is_open, NEW x \in Readers PROVE pc'[x] = "idle"
    <3>1. pc[x] = "idle" /\ x # p
      BY <1>0, <2>1 DEF ClosedIsIdle
    <3>2. (\E s : pc' = Woken([pc EXCEPT ![p] = "idle"], s)) \/ pc' = pc
      BY <2>1, Zenon DEF write, Return
    <3> QED
      BY <1>0, <1>0a, <3>1, <3>2 DEF Woken
  <2> QED
    BY <1>0, <2>1 DEF ClosedIsIdle
\* The bytes that stay: a full pipe takes no more, and a byte written counts.
<1>3. CASE UNCHANGED <<write_count, sent>>
  <2>0. Empty' = Empty /\ Full' = Full
    BY <1>0, <1>3 DEF Empty, Full
  <2>1. CASE UNCHANGED <<lock, pc>>
    <3>1. done'[p] >= done[p] /\ \A x \in Procs : x # p => done'[x] = done[x]
      <4>1. CASE UNCHANGED done
        BY <1>0, <4>1 DEF SInv, IInv, TypeOK
      <4>2. CASE done' = [done EXCEPT ![p] = @ + WriteChunk(p)]
        BY <1>0, <4>2, WriteChunkIs, PipeAssumption DEF SInv, IInv, TypeOK
      <4>3. ~(\E s : Return(p, s)) /\ ~(\E s : SleepOn(p, s))
        BY <1>0, <2>1, PipeAssumption DEF Return, SleepOn, Procs
      <4> QED
        BY <4>1, <4>2, <4>3, Zenon DEF write, WriteChunk
    <3>2. done[p] \in Nat /\ done'[p] \in Nat
      BY PipeAssumption, <1>0 DEF SInv, IInv, TypeOK
    <3>3. ASSUME NEW x \in Readers, pc'[x] = "sleep"
          PROVE  write_is_open' /\ (Empty' \/ \E q \in Writers : lock' = q /\ done'[q] > 0)
      <4>1. write_is_open /\ (Empty \/ done[p] > 0)
        BY <1>0, <2>1, <3>3 DEF Sleepers
      <4>2. done[p] > 0 => done'[p] > 0
        BY <3>1, <3>2
      <4> QED
        BY <1>0, <2>0, <2>1, <4>1, <4>2
    <3>4. ASSUME NEW x \in Writers, pc'[x] = "sleep" PROVE read_is_open' /\ Full'
      <4>1. read_is_open /\ Full
        BY <1>0, <2>1, <3>4, PipeAssumption DEF Sleepers
      <4> QED
        BY <1>0, <2>0, <4>1
    <3> QED
      BY <1>2, <3>3, <3>4 DEF Sleepers
  <2>2. CASE Return(p, Readers) \/ SleepOn(p, Readers)
    <3>1. \A x \in Readers : pc'[x] # "sleep"
      BY <1>0, <1>0a, <2>2 DEF Return, SleepOn, Woken
    <3>2. ASSUME NEW x \in Writers, pc'[x] = "sleep" PROVE read_is_open /\ Full
      <4>1. CASE x = p
        <5>1. SeenFull /\ read_is_open
          <6>1. ~Return(p, Readers) /\ ~Return(p, {}) /\ pc' # pc
            BY <1>0, <3>2, <4>1 DEF Return, Woken
          <6> QED
            BY <6>1, Zenon DEF write
        <5> QED
          BY <5>1 DEF SeenFull
      <4>2. CASE x # p
        <5>1. pc[x] = "sleep"
          BY <1>0a, <1>1, <3>2, <4>2
        <5> QED
          BY <1>0, <5>1, PipeAssumption DEF Sleepers
      <4> QED
        BY <4>1, <4>2
    <3>3. ASSUME NEW x \in Writers, pc'[x] = "sleep" PROVE read_is_open' /\ Full'
      BY <1>0, <2>0, <3>2, <3>3
    <3> QED
      BY <1>2, <3>1, <3>3, Zenon DEF Sleepers
  <2>3. CASE Return(p, {}) /\ ~read_is_open
    <3>1. \A x \in Readers : pc'[x] # "sleep"
      BY <1>0, <1>2, <2>3 DEF ClosedIsIdle
    <3>2. \A x \in Writers : pc'[x] # "sleep"
      <4> SUFFICES ASSUME NEW x \in Writers, pc'[x] = "sleep" PROVE FALSE
        OBVIOUS
      <4>1. x # p
        BY <1>0, <1>0a, <2>3 DEF Return, Woken
      <4> QED
        BY <1>0, <1>0a, <1>1, <2>3, <4>1 DEF Sleepers
    <3> QED
      BY <1>2, <3>1, <3>2, Zenon DEF Sleepers
  <2> QED
    BY <2>1, <2>2, <2>3, Zenon DEF write
<1>4. CASE ~UNCHANGED <<write_count, sent>>
  <2>1. /\ ~SeenFull /\ read_is_open
        /\ write_count' = Advanced(write_count, WriteChunk(p))
        /\ done' = [done EXCEPT ![p] = @ + WriteChunk(p)]
        /\ \E chunk \in [1 .. WriteChunk(p) -> Bytes] : sent' = sent \o chunk
        /\ UNCHANGED <<lock, pc, count>>
    BY <1>4, Zenon DEF write, WriteChunk
  <2>2. /\ WriteChunk(p) \in Nat /\ Len(sent) + WriteChunk(p) <= PipeSize
        /\ Len(sent) \in Nat /\ sent \in Seq(Bytes)
        /\ write_count \in 0 .. CountLimit - 1
    BY <1>0, WriteChunkIs, PipeHolds DEF IInv, TypeOK
  <2>3. WriteChunk(p) # 0
    <3> SUFFICES ASSUME WriteChunk(p) = 0 PROVE FALSE
      OBVIOUS
    <3>1. write_count' = write_count
      <4>1. write_count % CountLimit = write_count
        BY <2>2, ModSmall, PipeAssumption
      <4> QED
        BY <2>1, <2>2, <4>1 DEF Advanced
    <3>2. sent' = sent
      <4>1. PICK chunk \in [1 .. 0 -> Bytes] : sent' = sent \o chunk
        BY <2>1
      <4>2. chunk = <<>>
        OBVIOUS
      <4> QED
        BY <2>2, <4>1, <4>2, ConcatEmptySeq
    <3> QED
      BY <1>4, <3>1, <3>2
  <2>4. done'[p] > 0
    BY <1>0, <2>1, <2>2, <2>3, PipeAssumption DEF IInv, TypeOK
  <2>5. ~Full
    BY <1>0, <2>2, <2>3, PipeHolds, PipeAssumption
  <2>6. \A x \in Writers : pc[x] # "sleep"
    BY <1>0, <2>5, PipeAssumption DEF Sleepers
  <2>7. ASSUME NEW x \in Readers, pc'[x] = "sleep" PROVE write_is_open'
    BY <1>0, <2>1, <2>7 DEF Sleepers
  <2>8. lock' = p
    BY <1>0, <2>1
  <2> QED
    BY <1>2, <1>0, <2>1, <2>4, <2>6, <2>7, <2>8, Zenon DEF Sleepers
<1> QED
  BY <1>2, <1>3, <1>4

LEMMA ReadKeepsSleepers ==
  ASSUME SInv, IInv', NEW p \in Procs, read(p)
  PROVE  ClosedIsIdle' /\ Sleepers'
<1>0. /\ p \in Readers /\ p \notin Writers /\ pc[p] = "loop" /\ lock = p
      /\ UNCHANGED <<data, write_count, read_is_open, write_is_open, killed>>
      /\ IInv /\ ClosedIsIdle /\ Sleepers
      /\ pc \in [Procs -> {"idle", "lock", "loop", "sleep"}]
  BY PipeAssumption DEF read, SInv, IInv, Holder, TypeOK
<1>0a. Readers \subseteq Procs /\ Writers \subseteq Procs
  BY DEF Procs
<1>2. ClosedIsIdle'
  BY <1>0 DEF ClosedIsIdle
<1>2a. \A x \in Readers : pc[x] = "sleep" => Empty /\ write_is_open
  BY <1>0, PipeAssumption DEF Sleepers
\* The reader gives the lock up, having read nothing.
<1>3. CASE /\ Empty /\ write_is_open /\ done[p] = 0
           /\ Return(p, {}) \/ SleepOn(p, {})
           /\ UNCHANGED <<read_count, sent>>
  <2>1. Empty' /\ (Full => Full') /\ write_is_open'
    BY <1>0, <1>3 DEF Empty, Full
  <2>2. ASSUME NEW x \in Writers, pc'[x] = "sleep" PROVE read_is_open' /\ Full'
    <3>1. pc[x] = "sleep"
      BY <1>0, <1>0a, <1>3, <2>2 DEF Return, SleepOn, Woken
    <3>2. read_is_open /\ (Full \/ \E q \in Readers : lock = q /\ done[q] > 0)
      BY <1>0, <3>1 DEF Sleepers
    <3>3. Full
      BY <1>0, <1>3, <3>2
    <3> QED
      BY <1>0, <2>1, <3>2, <3>3
  <2> QED
    BY <1>2, <2>1, <2>2, Zenon DEF Sleepers
\* It returns and wakes the writers.
<1>4. CASE /\ Empty => ~write_is_open \/ done[p] > 0
           /\ Return(p, Writers) /\ UNCHANGED <<read_count, sent>>
  <2>1. \A x \in Writers : pc'[x] # "sleep"
    BY <1>0, <1>0a, <1>4 DEF Return, Woken
  <2>2. ASSUME NEW x \in Readers, pc'[x] = "sleep" PROVE write_is_open' /\ Empty'
    <3>1. pc[x] = "sleep"
      BY <1>0, <1>0a, <1>4, <2>2, PipeAssumption DEF Return, Woken
    <3>2. Empty /\ write_is_open
      BY <1>2a, <3>1
    <3> QED
      BY <1>0, <1>4, <3>2 DEF Empty
  <2> QED
    BY <1>2, <2>1, <2>2, Zenon DEF Sleepers
\* It has read something, and still holds the lock.
<1>5. CASE /\ ~Empty /\ done[p] < count[p]
           /\ done' = [done EXCEPT ![p] = @ + ReadChunk(p)]
           /\ UNCHANGED <<lock, pc, count>>
  <2>1. ReadChunk(p) \in Nat /\ ReadChunk(p) > 0
    BY <1>0, <1>5, ReadChunkIs
  <2>2. done'[p] > 0 /\ lock' = p
    BY <1>0, <1>5, <2>1, PipeAssumption DEF IInv, TypeOK
  <2>3. \A x \in Readers : pc'[x] # "sleep"
    BY <1>2a, <1>5
  <2>4. ASSUME NEW x \in Writers, pc'[x] = "sleep" PROVE read_is_open'
    BY <1>0, <1>5, <2>4 DEF Sleepers
  <2> QED
    BY <1>2, <1>0, <2>2, <2>3, <2>4, Zenon DEF Sleepers
<1> QED
  BY <1>2, <1>3, <1>4, <1>5, Zenon DEF read, ReadChunk

LEMMA OthersKeepSleepers ==
  ASSUME SInv, IInv',
         \/ \E p \in Procs : start(p) \/ acquire(p) \/ kill(p)
         \/ closeWrite \/ closeRead
         \/ UNCHANGED vars
  PROVE  ClosedIsIdle' /\ Sleepers'
<1> USE DEF pipe
<1>0. /\ IInv /\ ClosedIsIdle /\ Sleepers
      /\ pc \in [Procs -> {"idle", "lock", "loop", "sleep"}]
      /\ Readers \subseteq Procs /\ Writers \subseteq Procs
  BY DEF SInv, IInv, TypeOK, Procs
<1>1. ASSUME NEW p \in Procs, start(p) \/ acquire(p) \/ kill(p) PROVE Sleepers'
  <2>1. /\ \A x \in Procs : pc'[x] = "sleep" => pc[x] = "sleep"
        /\ UNCHANGED <<read_count, write_count, read_is_open, write_is_open, done>>
    BY <1>0, <1>1 DEF start, acquire, kill, Woken
  <2>2. Empty' = Empty /\ Full' = Full
    BY <2>1 DEF Empty, Full
  <2>3. lock' = lock \/ lock = NoProc
    BY <1>1 DEF start, acquire, kill
  <2>4. ASSUME NEW x \in Readers, pc'[x] = "sleep"
        PROVE  write_is_open' /\ (Empty' \/ \E q \in Writers : lock' = q /\ done'[q] > 0)
    <3>1. write_is_open /\ (Empty \/ \E q \in Writers : lock = q /\ done[q] > 0)
      BY <1>0, <2>1, <2>4 DEF Sleepers
    <3> QED
      BY <2>1, <2>2, <2>3, <3>1, PipeAssumption
  <2>5. ASSUME NEW x \in Writers, pc'[x] = "sleep"
        PROVE  read_is_open' /\ (Full' \/ \E q \in Readers : lock' = q /\ done'[q] > 0)
    <3>1. read_is_open /\ (Full \/ \E q \in Readers : lock = q /\ done[q] > 0)
      BY <1>0, <2>1, <2>5 DEF Sleepers
    <3> QED
      BY <2>1, <2>2, <2>3, <3>1, PipeAssumption
  <2> QED
    BY <2>4, <2>5, Zenon DEF Sleepers
<1>2. ASSUME NEW p \in Procs, start(p) \/ acquire(p) \/ kill(p) PROVE ClosedIsIdle'
  BY <1>0, <1>2, PipeAssumption DEF start, acquire, kill, Woken, ClosedIsIdle
<1>3. CASE closeWrite
  <2>1. /\ \A x \in Readers : pc'[x] # "sleep" /\ (pc[x] = "idle" => pc'[x] = "idle")
        /\ \A x \in Writers : pc'[x] # "sleep"
    BY <1>0, <1>3 DEF closeWrite, Woken
  <2> QED
    BY <1>0, <1>3, <2>1, Zenon DEF closeWrite, ClosedIsIdle, Sleepers
<1>4. CASE closeRead
  <2>1. /\ \A x \in Readers : pc'[x] = "idle"
        /\ \A x \in Writers : pc'[x] # "sleep"
    BY <1>0, <1>4, PipeAssumption DEF closeRead, Woken
  <2>2. \A x \in Readers : pc'[x] # "sleep"
    BY <2>1
  <2> QED
    BY <2>1, <2>2, Zenon DEF ClosedIsIdle, Sleepers
<1>5. CASE UNCHANGED vars
  <2>1. Empty' = Empty /\ Full' = Full
    BY <1>5 DEF vars, Empty, Full
  <2> QED
    BY <1>0, <1>5, <2>1 DEF vars, ClosedIsIdle, Sleepers
<1> QED
  BY <1>1, <1>2, <1>3, <1>4, <1>5

\* No lost wakeup: while nobody holds pipe.lock, a sleeping reader sleeps on an
\* empty pipe whose write end is open, and a sleeping writer on a full one whose
\* read end is open, for any number of both, as long as no writer is killed (a
\* killed writer leaves without waking the readers of what it has written).
THEOREM NoWakeupIsMissed ==
  Killable \cap Writers = {} => (Spec => []NoneSleepsInVain)
<1> SUFFICES ASSUME Killable \cap Writers = {} PROVE Spec => []NoneSleepsInVain
  OBVIOUS
<1>1. Init => SInv
  <2> SUFFICES ASSUME Init PROVE ClosedIsIdle /\ Sleepers /\ OnlyKillable
    BY InitEstablishes DEF SInv
  <2> QED
    BY DEF Init, ClosedIsIdle, Sleepers, OnlyKillable, Procs
<1>2. SInv /\ [Next]_vars => SInv'
  <2> SUFFICES ASSUME SInv, [Next]_vars PROVE SInv'
    OBVIOUS
  <2>1. IInv'
    BY NextPreserves DEF SInv
  <2>2. OnlyKillable'
    <3>1. ASSUME NEW p \in Procs, kill(p) PROVE OnlyKillable'
      BY <3>1 DEF kill, OnlyKillable, SInv, IInv, TypeOK
    <3>2. UNCHANGED killed \/ \E p \in Procs : kill(p)
      BY DEF Next, KernelStep, start, acquire, write, read, closeWrite, closeRead, vars
    <3> QED
      BY <3>1, <3>2 DEF OnlyKillable, SInv
  <2>3. ASSUME NEW p \in Procs, write(p) PROVE ClosedIsIdle' /\ Sleepers'
    <3>1. ~killed[p]
      BY <2>3 DEF write, SInv, OnlyKillable
    <3> QED
      BY <2>1, <2>3, <3>1, WriteKeepsSleepers
  <2>4. ASSUME NEW p \in Procs, read(p) PROVE ClosedIsIdle' /\ Sleepers'
    BY <2>1, <2>4, ReadKeepsSleepers
  <2>5. ASSUME \/ \E p \in Procs : start(p) \/ acquire(p) \/ kill(p)
               \/ closeWrite \/ closeRead
               \/ UNCHANGED vars
        PROVE  ClosedIsIdle' /\ Sleepers'
    BY <2>1, <2>5, OthersKeepSleepers
  <2>6. ClosedIsIdle' /\ Sleepers'
    BY <2>3, <2>4, <2>5 DEF Next, KernelStep
  <2> QED
    BY <2>1, <2>2, <2>6 DEF SInv
<1>3. SInv => NoneSleepsInVain
  BY PipeAssumption DEF SInv, Sleepers, NoneSleepsInVain
<1> QED
  BY <1>1, <1>2, <1>3, PTL DEF Spec
=============================================================================
