--------------------------- MODULE SpinLockProofs ---------------------------
(***************************************************************************)
(* Proofs about SpinLock, for any number of CPUs and any finite set of     *)
(* locks.                                                                  *)
(***************************************************************************)
EXTENDS SpinLock, FiniteSetTheorems, TLAPS

-----------------------------------------------------------------------------
(* The inductive invariant.                                                 *)

\* A call in progress has a lock, one its thread or handler does not have.
WantsNewLock ==
  \A c \in CPUs, v \in Levels : pc[c][v] # "run" => want[c][v] \in Locks \ has[c][v]

\* While the thread runs, no handler is halfway; while a handler runs, the
\* thread it suspended has no lock and has not counted a pushOff.
HandlerIdle ==
  \A c \in CPUs : level[c] = "thread" => pc[c]["irq"] = "run" /\ has[c]["irq"] = {}

ThreadClear ==
  \A c \in CPUs : intr[c] \/ level[c] = "irq" =>
    has[c]["thread"] = {} /\ pc[c]["thread"] \in {"run", "disable"}

\* A handler runs with interrupts off and never turns them on.
HandlerOff ==
  \A c \in CPUs : level[c] = "irq" =>
    /\ ~intr[c]
    /\ pc[c]["irq"] = "disable" => ~prev[c]["irq"]
    /\ pushDepth[c] > 0 => ~interruptsEnabled[c]

\* isLocked and owner say who is inside.
InsideLocked ==
  \A c \in CPUs, v \in Levels, l \in Locks : Inside(c, v, l) => isLocked[l]

OwnerHas ==
  \A c \in CPUs, l \in Locks :
    /\ \A v \in Levels : l \in has[c][v] => owner[l] = c
    /\ owner[l] = c => \E v \in Levels : l \in has[c][v]

\* Where the interrupt setting the thread asked for is kept.
SettingKept ==
  \A c \in CPUs :
    /\ level[c] = "irq" => asked[c]
    /\ level[c] = "thread" /\ pushDepth[c] = 0 => (intr[c] <=> asked[c])
    /\ level[c] = "thread" /\ pushDepth[c] > 0 => (interruptsEnabled[c] <=> asked[c])
    /\ pc[c]["thread"] = "disable" /\ has[c]["thread"] = {} =>
         (prev[c]["thread"] <=> asked[c])

IInv == /\ TypeOK /\ NoPanic
        /\ WantsNewLock /\ HandlerIdle /\ ThreadClear /\ HandlerOff
        /\ InsideLocked /\ MutualExclusion /\ OwnerHas
        /\ DepthCountsLocks /\ SettingKept

-----------------------------------------------------------------------------
(* Counting locks.                                                          *)

\* The locks pushDepth counts are finitely many.
LEMMA PushedFinite ==
  ASSUME TypeOK, WantsNewLock, NEW c \in CPUs, NEW v \in Levels
  PROVE  IsFiniteSet(Pushed(c, v)) /\ Cardinality(Pushed(c, v)) \in Nat
<1>1. has[c] \in [Levels -> SUBSET Locks]
  BY DEF TypeOK
<1>2. pc[c][v] # "run" => want[c][v] \in Locks
  BY DEF WantsNewLock
<1>3. Pushed(c, v) \subseteq Locks
  BY <1>1, <1>2 DEF Pushed
<1>4. QED
  BY <1>3, SpinLockAssumption, FS_Subset, FS_CardinalityType

\* pushDepth is zero exactly when neither thread nor handler has counted a
\* pushOff.
LEMMA DepthZero ==
  ASSUME TypeOK, WantsNewLock, DepthCountsLocks, NEW c \in CPUs
  PROVE  pushDepth[c] = 0 <=> Pushed(c, "thread") = {} /\ Pushed(c, "irq") = {}
<1> DEFINE T == Pushed(c, "thread")
           I == Pushed(c, "irq")
<1>1. /\ IsFiniteSet(T) /\ Cardinality(T) \in Nat
      /\ IsFiniteSet(I) /\ Cardinality(I) \in Nat
  BY PushedFinite DEF Levels
<1>2. /\ Cardinality(T) = 0 <=> T = {}
      /\ Cardinality(I) = 0 <=> I = {}
  BY <1>1, FS_EmptySet
<1>3. pushDepth[c] = Cardinality(T) + Cardinality(I)
  BY DEF DepthCountsLocks
<1> HIDE DEF T, I
<1>4. pushDepth[c] = 0 <=> T = {} /\ I = {}
  BY <1>1, <1>2, <1>3
<1>5. QED
  BY <1>4 DEF T, I

\* Outside all locks the depth is zero, in the thread and in a handler.
LEMMA NothingCounted ==
  ASSUME IInv, NEW c \in CPUs,
         pc[c][level[c]] \in {"run", "disable"}, has[c][level[c]] = {}
  PROVE  pushDepth[c] = 0
<1>1. CASE level[c] = "thread"
  <2>1. Pushed(c, "thread") = {} /\ Pushed(c, "irq") = {}
    BY <1>1 DEF IInv, HandlerIdle, Pushed
  <2>2. QED
    BY <2>1, DepthZero DEF IInv
<1>2. CASE level[c] = "irq"
  <2>1. Pushed(c, "thread") = {} /\ Pushed(c, "irq") = {}
    BY <1>2 DEF IInv, ThreadClear, Pushed
  <2>2. QED
    BY <2>1, DepthZero DEF IInv
<1>3. QED
  BY <1>1, <1>2 DEF IInv, TypeOK, Levels

\* And where it is zero there are no locks.
LEMMA ZeroMeansNone ==
  ASSUME IInv, NEW c \in CPUs, pushDepth[c] = 0, NEW v \in Levels
  PROVE  has[c][v] = {} /\ pc[c][v] \in {"run", "disable"}
<1>1. Pushed(c, v) = {}
  BY DepthZero DEF IInv, Levels
<1>2. pc[c][v] \in Steps
  BY DEF IInv, TypeOK
<1>3. QED
  BY <1>1, <1>2 DEF Pushed, Steps

\* A step that leaves every counted set and pushDepth alone.
LEMMA DepthSame ==
  ASSUME DepthCountsLocks, pushDepth' = pushDepth,
         \A d \in CPUs, w \in Levels : Pushed(d, w)' = Pushed(d, w)
  PROVE  DepthCountsLocks'
<1>1. SUFFICES ASSUME NEW d \in CPUs
      PROVE pushDepth'[d] = Cardinality(Pushed(d, "thread")') + Cardinality(Pushed(d, "irq")')
  BY DEF DepthCountsLocks
<1>2. /\ Pushed(d, "thread")' = Pushed(d, "thread")
      /\ Pushed(d, "irq")' = Pushed(d, "irq")
  BY DEF Levels
<1>3. QED
  BY <1>2 DEF DepthCountsLocks

\* A step that changes one counted set and pushDepth alike.
LEMMA DepthMoves ==
  ASSUME TypeOK, WantsNewLock, DepthCountsLocks, NEW c \in CPUs, NEW v \in Levels, NEW k \in Int,
         pushDepth' = [pushDepth EXCEPT ![c] = @ + k],
         Cardinality(Pushed(c, v)') = Cardinality(Pushed(c, v)) + k,
         \A d \in CPUs, w \in Levels : d # c \/ w # v => Pushed(d, w)' = Pushed(d, w)
  PROVE  DepthCountsLocks'
<1>1. SUFFICES ASSUME NEW d \in CPUs
      PROVE pushDepth'[d] = Cardinality(Pushed(d, "thread")') + Cardinality(Pushed(d, "irq")')
  BY DEF DepthCountsLocks
<1>2. pushDepth[d] = Cardinality(Pushed(d, "thread")) + Cardinality(Pushed(d, "irq"))
  BY DEF DepthCountsLocks
<1>3. /\ Cardinality(Pushed(d, "thread")) \in Nat
      /\ Cardinality(Pushed(d, "irq")) \in Nat
  BY PushedFinite DEF Levels
<1>4. pushDepth'[d] = IF d = c THEN pushDepth[d] + k ELSE pushDepth[d]
  BY DEF TypeOK
<1>5. CASE d # c
  <2>1. /\ Pushed(d, "thread")' = Pushed(d, "thread")
        /\ Pushed(d, "irq")' = Pushed(d, "irq")
    BY <1>5 DEF Levels
  <2>2. QED
    BY <1>2, <1>4, <1>5, <2>1
<1>6. CASE d = c /\ v = "thread"
  <2>1. Pushed(d, "irq")' = Pushed(d, "irq")
    BY <1>6 DEF Levels
  <2>2. Cardinality(Pushed(d, "thread")') = Cardinality(Pushed(d, "thread")) + k
    BY <1>6
  <2>3. QED
    BY <1>2, <1>3, <1>4, <1>6, <2>1, <2>2
<1>7. CASE d = c /\ v = "irq"
  <2>1. Pushed(d, "thread")' = Pushed(d, "thread")
    BY <1>7 DEF Levels
  <2>2. Cardinality(Pushed(d, "irq")') = Cardinality(Pushed(d, "irq")) + k
    BY <1>7
  <2>3. QED
    BY <1>2, <1>3, <1>4, <1>7, <2>1, <2>2
<1>8. QED
  BY <1>5, <1>6, <1>7 DEF Levels

-----------------------------------------------------------------------------
(* One lemma per action: it preserves the inductive invariant.              *)

\* acquire only reads SIE and remembers the lock.
LEMMA acquirePreserves ==
  ASSUME IInv, NEW c \in CPUs, NEW l \in Locks, acquire(c, l)
  PROVE  IInv'
<1>1. TypeOK'
  BY DEF IInv, TypeOK, Steps, Levels, WantsNewLock, acquire, At, Goto, lockVars, cpuVars
<1>2. NoPanic'
  BY DEF IInv, NoPanic, acquire, At, Goto, lockVars, cpuVars
<1>3. WantsNewLock'
  BY DEF IInv, WantsNewLock, TypeOK, acquire, At, Goto, lockVars, cpuVars
<1>4. HandlerIdle'
  BY DEF IInv, HandlerIdle, TypeOK, Levels, acquire, At, Goto, lockVars, cpuVars
<1>5. ThreadClear'
  BY DEF IInv, ThreadClear, TypeOK, HandlerOff, HandlerIdle, Levels, acquire, At, Goto,
         lockVars, cpuVars
<1>6. HandlerOff'
  BY DEF IInv, HandlerOff, TypeOK, ThreadClear, HandlerIdle, Levels, acquire, At, Goto,
         lockVars, cpuVars
<1>7. InsideLocked'
  BY DEF IInv, InsideLocked, TypeOK, WantsNewLock, MutualExclusion, Inside, acquire, At,
         Goto, lockVars, cpuVars
<1>8. MutualExclusion'
  BY DEF IInv, MutualExclusion, TypeOK, WantsNewLock, InsideLocked, Inside, acquire, At,
         Goto, lockVars, cpuVars
<1>9. OwnerHas'
  BY DEF IInv, OwnerHas, TypeOK, WantsNewLock, InsideLocked, MutualExclusion, Inside,
         acquire, At, Goto, lockVars, cpuVars
<1>10. DepthCountsLocks'
  <2>1. \A d \in CPUs, w \in Levels : Pushed(d, w)' = Pushed(d, w)
    BY DEF IInv, TypeOK, WantsNewLock, Levels, Pushed, acquire, At, Goto, lockVars, cpuVars
  <2>2. QED
    BY <2>1, DepthSame DEF IInv, acquire, cpuVars
<1>11. SettingKept'
  <2>1. level[c] = "thread" /\ has[c]["thread"] = {} => (intr[c] <=> asked[c])
    BY NothingCounted DEF IInv, SettingKept, acquire, At
  <2>2. QED
    BY <2>1 DEF IInv, TypeOK, Levels, HandlerIdle, SettingKept, acquire, At, Goto,
                lockVars, cpuVars
<1>12. QED
  BY <1>1, <1>2, <1>3, <1>4, <1>5, <1>6, <1>7, <1>8, <1>9, <1>10, <1>11 DEF IInv

\* pushOff: the wanted lock is new, so the CPU does not hold it, and the depth
\* grows by exactly that lock.
LEMMA pushOffPreserves ==
  ASSUME IInv, NEW c \in CPUs, pushOff(c)
  PROVE  IInv'
<1>0. PICK v \in Levels : v = level[c]
  BY DEF IInv, TypeOK
<1>a. PICK l \in Locks : l = want[c][v]
  BY <1>0 DEF IInv, WantsNewLock, pushOff, At
<1>b. pc[c][v] = "disable" /\ l \notin has[c][v]
  BY <1>0, <1>a DEF IInv, WantsNewLock, pushOff, At
<1>c. /\ \A d \in CPUs, w \in Levels :
           pc'[d][w] = IF d = c /\ w = v THEN "spin" ELSE pc[d][w]
      /\ \A d \in CPUs : intr'[d] <=> d # c /\ intr[d]
      /\ \A d \in CPUs : pushDepth'[d] = IF d = c THEN pushDepth[d] + 1 ELSE pushDepth[d]
      /\ \A d \in CPUs : interruptsEnabled'[d] <=>
           IF d = c /\ pushDepth[c] = 0 THEN prev[c][v] ELSE interruptsEnabled[d]
      /\ UNCHANGED <<isLocked, owner, level, want, prev, has, asked>>
  BY <1>0 DEF IInv, TypeOK, pushOff, SIECleared, OneDeeper, Goto, lockVars
<1>d. \A d \in CPUs : level[d] \in {"thread", "irq"} /\ pushDepth[d] \in Nat
  BY DEF IInv, TypeOK, Levels
<1>1. TypeOK'
  BY DEF IInv, TypeOK, Steps, Levels, NoPanic, pushOff, SIECleared, OneDeeper, Goto, At,
         lockVars
<1>2. NoPanic'
  <2>1. \A w \in Levels : l \notin has[c][w]
    BY <1>0, <1>b, <1>d DEF IInv, HandlerIdle, ThreadClear, Levels
  <2>2. ~isHolding(c, l)
    BY <2>1 DEF IInv, OwnerHas, isHolding
  <2>3. QED
    BY <1>0, <1>a, <2>2 DEF IInv, NoPanic, pushOff
<1>3. WantsNewLock'
  BY <1>a, <1>b, <1>c DEF IInv, WantsNewLock
<1>4. HandlerIdle'
  BY <1>0, <1>c, <1>d DEF IInv, HandlerIdle, Levels
<1>5. ThreadClear'
  BY <1>0, <1>b, <1>c, <1>d DEF IInv, ThreadClear, Levels
<1>6. HandlerOff'
  <2>1. v = "irq" => (pushDepth[c] = 0 => ~prev[c][v]) /\ ~intr[c]
    BY <1>0, <1>b DEF IInv, HandlerOff
  <2>2. QED
    BY <1>0, <1>c, <1>d, <2>1 DEF IInv, HandlerOff, Levels
<1>7. \A d \in CPUs, w \in Levels, m \in Locks : Inside(d, w, m)' <=> Inside(d, w, m)
  BY <1>b, <1>c DEF Inside
<1>8. InsideLocked' /\ MutualExclusion'
  BY <1>c, <1>7 DEF IInv, InsideLocked, MutualExclusion
<1>9. OwnerHas'
  BY <1>c DEF IInv, OwnerHas
<1>10. DepthCountsLocks'
  <2>1. Pushed(c, v)' = Pushed(c, v) \cup {l} /\ l \notin Pushed(c, v)
    BY <1>a, <1>b, <1>c DEF Pushed
  <2>2. \A d \in CPUs, w \in Levels : d # c \/ w # v => Pushed(d, w)' = Pushed(d, w)
    BY <1>c DEF Pushed
  <2>3. Cardinality(Pushed(c, v)') = Cardinality(Pushed(c, v)) + 1
    BY <2>1, PushedFinite, FS_AddElement DEF IInv
  <2>4. pushDepth' = [pushDepth EXCEPT ![c] = @ + 1]
    BY DEF pushOff, OneDeeper
  <2>5. 1 \in Int
    OBVIOUS
  <2>6. QED
    BY <2>2, <2>3, <2>4, <2>5, DepthMoves DEF IInv
<1>11. SettingKept'
  <2>1. pushDepth[c] = 0 => has[c][v] = {}
    BY ZeroMeansNone
  <2>2. v = "thread" /\ pushDepth[c] = 0 => (prev[c][v] <=> asked[c])
    BY <1>b, <2>1 DEF IInv, SettingKept
  <2>3. QED
    BY <1>0, <1>c, <1>d, <2>2 DEF IInv, SettingKept, Levels
<1>12. QED
  BY <1>1, <1>2, <1>3, <1>4, <1>5, <1>6, <1>8, <1>9, <1>10, <1>11 DEF IInv

\* The exchange found the lock free, so nobody was inside.
LEMMA exchangePreserves ==
  ASSUME IInv, NEW c \in CPUs, exchange(c)
  PROVE  IInv'
<1>1. TypeOK'
  BY DEF IInv, TypeOK, Steps, Levels, WantsNewLock, exchange, At, Goto, FoundFree, cpuVars
<1>2. NoPanic'
  BY DEF IInv, NoPanic, exchange, At, Goto, FoundFree, cpuVars
<1>3. WantsNewLock'
  BY DEF IInv, WantsNewLock, TypeOK, exchange, At, Goto, FoundFree, cpuVars
<1>4. HandlerIdle'
  BY DEF IInv, HandlerIdle, TypeOK, Levels, exchange, At, Goto, FoundFree, cpuVars
<1>5. ThreadClear'
  BY DEF IInv, ThreadClear, TypeOK, HandlerOff, HandlerIdle, Levels, exchange, At, Goto,
         FoundFree, cpuVars
<1>6. HandlerOff'
  BY DEF IInv, HandlerOff, TypeOK, ThreadClear, HandlerIdle, Levels, exchange, At, Goto,
         FoundFree, cpuVars
<1>7. InsideLocked'
  BY DEF IInv, InsideLocked, TypeOK, WantsNewLock, MutualExclusion, Inside, exchange, At,
         Goto, FoundFree, cpuVars
<1>8. MutualExclusion'
  BY DEF IInv, MutualExclusion, TypeOK, WantsNewLock, InsideLocked, Inside, exchange, At,
         Goto, FoundFree, cpuVars
<1>9. OwnerHas'
  BY DEF IInv, OwnerHas, TypeOK, WantsNewLock, InsideLocked, MutualExclusion, Inside,
         exchange, At, Goto, FoundFree, cpuVars
<1>10. DepthCountsLocks'
  <2>1. \A d \in CPUs, w \in Levels : Pushed(d, w)' = Pushed(d, w)
    BY DEF IInv, TypeOK, WantsNewLock, Levels, Pushed, exchange, At, Goto, FoundFree,
           cpuVars
  <2>2. QED
    BY <2>1, DepthSame DEF IInv, exchange, cpuVars
<1>11. SettingKept'
  BY DEF IInv, TypeOK, Levels, ThreadClear, HandlerIdle, SettingKept, exchange, At, Goto,
         FoundFree, cpuVars
<1>12. QED
  BY <1>1, <1>2, <1>3, <1>4, <1>5, <1>6, <1>7, <1>8, <1>9, <1>10, <1>11 DEF IInv

\* The owner is stored by the CPU that is inside.
LEMMA setOwnerPreserves ==
  ASSUME IInv, NEW c \in CPUs, setOwner(c)
  PROVE  IInv'
<1>1. TypeOK'
  BY DEF IInv, TypeOK, Steps, Levels, WantsNewLock, setOwner, At, Goto, cpuVars
<1>2. NoPanic'
  BY DEF IInv, NoPanic, setOwner, At, Goto, cpuVars
<1>3. WantsNewLock'
  BY DEF IInv, WantsNewLock, TypeOK, setOwner, At, Goto, cpuVars
<1>4. HandlerIdle'
  BY DEF IInv, HandlerIdle, TypeOK, Levels, setOwner, At, Goto, cpuVars
<1>5. ThreadClear'
  BY DEF IInv, ThreadClear, TypeOK, HandlerOff, HandlerIdle, Levels, setOwner, At, Goto,
         cpuVars
<1>6. HandlerOff'
  BY DEF IInv, HandlerOff, TypeOK, ThreadClear, HandlerIdle, Levels, setOwner, At, Goto,
         cpuVars
<1>7. InsideLocked'
  BY DEF IInv, InsideLocked, TypeOK, WantsNewLock, MutualExclusion, Inside, setOwner, At,
         Goto, cpuVars
<1>8. MutualExclusion'
  BY DEF IInv, MutualExclusion, TypeOK, WantsNewLock, InsideLocked, Inside, setOwner, At,
         Goto, cpuVars
<1>9. OwnerHas'
  BY DEF IInv, OwnerHas, TypeOK, WantsNewLock, InsideLocked, MutualExclusion, Inside,
         setOwner, At, Goto, cpuVars
<1>10. DepthCountsLocks'
  <2>1. \A d \in CPUs, w \in Levels : Pushed(d, w)' = Pushed(d, w)
    BY DEF IInv, TypeOK, WantsNewLock, Levels, Pushed, setOwner, At, Goto, cpuVars
  <2>2. QED
    BY <2>1, DepthSame DEF IInv, setOwner, cpuVars
<1>11. SettingKept'
  BY DEF IInv, TypeOK, Levels, ThreadClear, HandlerIdle, SettingKept, setOwner, At, Goto,
         cpuVars
<1>12. QED
  BY <1>1, <1>2, <1>3, <1>4, <1>5, <1>6, <1>7, <1>8, <1>9, <1>10, <1>11 DEF IInv

\* release: the CPU owns what it has, so the check succeeds.
LEMMA releasePreserves ==
  ASSUME IInv, NEW c \in CPUs, NEW l \in Locks, release(c, l)
  PROVE  IInv'
<1>0. PICK v \in Levels : v = level[c]
  BY DEF IInv, TypeOK
<1>a. pc[c][v] = "run" /\ l \in has[c][v]
  BY <1>0 DEF release, At
<1>b. isHolding(c, l)
  BY <1>a DEF isHolding, IInv, InsideLocked, Inside, OwnerHas
<1>c. /\ owner' = [owner EXCEPT ![l] = NoCPU]
      /\ has' = [has EXCEPT ![c][v] = @ \ {l}]
      /\ want' = [want EXCEPT ![c][v] = l]
      /\ pc' = [pc EXCEPT ![c][v] = "unlock"]
      /\ UNCHANGED <<isLocked, intr, pushDepth, interruptsEnabled, level, prev, asked, panic>>
  BY <1>0, <1>b DEF release, Goto, cpuVars
<1>d. \A d \in CPUs, w \in Levels :
        /\ pc'[d][w] = IF d = c /\ w = v THEN "unlock" ELSE pc[d][w]
        /\ want'[d][w] = IF d = c /\ w = v THEN l ELSE want[d][w]
        /\ has'[d][w] = IF d = c /\ w = v THEN has[d][w] \ {l} ELSE has[d][w]
  BY <1>c DEF IInv, TypeOK
<1>e. \A d \in CPUs : level[d] \in {"thread", "irq"}
  BY DEF IInv, TypeOK, Levels
<1>f. \A d \in CPUs, w \in Levels, m \in Locks :
        m \in has'[d][w] <=> m \in has[d][w] /\ ~(d = c /\ w = v /\ m = l)
  BY <1>d
<1>g. \A d \in CPUs, w \in Levels :
        /\ pc'[d][w] = IF d = c /\ w = v THEN "unlock" ELSE pc[d][w]
        /\ want'[d][w] = IF d = c /\ w = v THEN l ELSE want[d][w]
  BY <1>d
<1>1. TypeOK'
  <2>1. owner' \in [Locks -> CPUs \cup {NoCPU}]
    BY <1>c DEF IInv, TypeOK
  <2>2. has' \in [CPUs -> [Levels -> SUBSET Locks]]
    BY <1>c, ZenonT(60) DEF IInv, TypeOK
  <2>3. /\ want' \in [CPUs -> [Levels -> Locks \cup {NoLock}]]
        /\ pc' \in [CPUs -> [Levels -> Steps]]
    BY <1>c DEF IInv, TypeOK, Steps
  <2>4. QED
    BY <1>c, <2>1, <2>2, <2>3 DEF IInv, TypeOK
<1>2. NoPanic'
  BY <1>c DEF IInv, NoPanic
<1>3. WantsNewLock'
  BY <1>f, <1>g DEF IInv, WantsNewLock
<1>4. HandlerIdle'
  BY <1>0, <1>c, <1>d, <1>e DEF IInv, HandlerIdle, Levels
<1>5. ThreadClear'
  BY <1>0, <1>a, <1>c, <1>d, <1>e DEF IInv, ThreadClear, Levels
<1>6. HandlerOff'
  BY <1>0, <1>a, <1>c, <1>d, <1>e DEF IInv, HandlerOff, Levels
<1>7. \A d \in CPUs, w \in Levels, m \in Locks : Inside(d, w, m)' <=> Inside(d, w, m)
  BY <1>a, <1>f, <1>g DEF Inside
<1>8. InsideLocked' /\ MutualExclusion'
  BY <1>c, <1>7 DEF IInv, InsideLocked, MutualExclusion
<1>9. OwnerHas'
  <2>0. \A m \in Locks : owner'[m] = IF m = l THEN NoCPU ELSE owner[m]
    BY <1>c DEF IInv, TypeOK
  <2>1. \A d \in CPUs, w \in Levels : l \in has[d][w] => Inside(d, w, l)
    BY DEF Inside
  <2>2. \A d \in CPUs, w \in Levels : l \in has[d][w] => d = c /\ w = v
    BY <1>a, <2>1 DEF IInv, MutualExclusion
  <2>3. \A d \in CPUs, w \in Levels : l \notin has'[d][w]
    BY <1>d, <2>2
  <2>4. QED
    BY <1>f, <2>0, <2>3, SpinLockAssumption DEF IInv, OwnerHas
<1>10. DepthCountsLocks'
  <2>1. \A d \in CPUs, w \in Levels : Pushed(d, w)' = Pushed(d, w)
    <3>1. Pushed(c, v)' = (has[c][v] \ {l}) \cup {l}
      BY <1>d DEF Pushed
    <3>2. Pushed(c, v) = has[c][v]
      BY <1>a DEF Pushed
    <3>3. Pushed(c, v)' = Pushed(c, v)
      BY <1>a, <3>1, <3>2
    <3>4. \A d \in CPUs, w \in Levels : d # c \/ w # v => Pushed(d, w)' = Pushed(d, w)
      BY <1>d DEF Pushed
    <3>5. QED
      BY <3>3, <3>4
  <2>2. QED
    BY <1>c, <2>1, DepthSame DEF IInv
<1>11. SettingKept'
  BY <1>0, <1>a, <1>c, <1>d, <1>e DEF IInv, SettingKept, Levels
<1>12. QED
  BY <1>1, <1>2, <1>3, <1>4, <1>5, <1>6, <1>8, <1>9, <1>10, <1>11 DEF IInv

\* The store that opens the lock leaves the counted set alone.
LEMMA unlockPreserves ==
  ASSUME IInv, NEW c \in CPUs, unlock(c)
  PROVE  IInv'
<1>1. TypeOK'
  BY DEF IInv, TypeOK, Steps, Levels, WantsNewLock, unlock, At, Goto, cpuVars
<1>2. NoPanic'
  BY DEF IInv, NoPanic, unlock, At, Goto, cpuVars
<1>3. WantsNewLock'
  BY DEF IInv, WantsNewLock, TypeOK, unlock, At, Goto, cpuVars
<1>4. HandlerIdle'
  BY DEF IInv, HandlerIdle, TypeOK, Levels, unlock, At, Goto, cpuVars
<1>5. ThreadClear'
  BY DEF IInv, ThreadClear, TypeOK, HandlerOff, HandlerIdle, Levels, unlock, At, Goto,
         cpuVars
<1>6. HandlerOff'
  BY DEF IInv, HandlerOff, TypeOK, ThreadClear, HandlerIdle, Levels, unlock, At, Goto,
         cpuVars
<1>7. InsideLocked'
  BY DEF IInv, InsideLocked, TypeOK, WantsNewLock, MutualExclusion, Inside, unlock, At,
         Goto, cpuVars
<1>8. MutualExclusion'
  BY DEF IInv, MutualExclusion, TypeOK, WantsNewLock, InsideLocked, Inside, unlock, At,
         Goto, cpuVars
<1>9. OwnerHas'
  BY DEF IInv, OwnerHas, TypeOK, WantsNewLock, InsideLocked, MutualExclusion, Inside,
         unlock, At, Goto, cpuVars
<1>10. DepthCountsLocks'
  <2>1. \A d \in CPUs, w \in Levels : Pushed(d, w)' = Pushed(d, w)
    BY DEF IInv, TypeOK, WantsNewLock, Levels, Pushed, unlock, At, Goto, cpuVars
  <2>2. QED
    BY <2>1, DepthSame DEF IInv, unlock, cpuVars
<1>11. SettingKept'
  BY DEF IInv, TypeOK, Levels, ThreadClear, HandlerIdle, SettingKept, unlock, At, Goto,
         cpuVars
<1>12. QED
  BY <1>1, <1>2, <1>3, <1>4, <1>5, <1>6, <1>7, <1>8, <1>9, <1>10, <1>11 DEF IInv

\* popOff: the lock just opened is still counted, so the depth is not zero; if
\* it was the last one counted, interrupts may come back on.
LEMMA popOffPreserves ==
  ASSUME IInv, NEW c \in CPUs, popOff(c)
  PROVE  IInv'
<1>0. PICK v \in Levels : v = level[c]
  BY DEF IInv, TypeOK
<1> DEFINE l == want[c][v]
           P == Pushed(c, v)
<1>a. pc[c][v] = "pop" /\ l \notin has[c][v]
  BY <1>0 DEF IInv, WantsNewLock, popOff, At
<1>b. ~intr[c]
  BY <1>0, <1>a DEF IInv, ThreadClear, HandlerOff, Levels
<1>c. P = has[c][v] \cup {l}
  BY <1>a DEF Pushed
<1>d. pushDepth[c] \in Nat /\ pushDepth[c] # 0
  <2>1. pushDepth[c] \in Nat
    BY DEF IInv, TypeOK
  <2>2. QED
    BY <1>a, <1>c, <2>1, DepthZero DEF IInv, Levels
<1>e. /\ pushDepth' = [pushDepth EXCEPT ![c] = @ - 1]
      /\ intr' = [intr EXCEPT ![c] = PopEnables(c)]
      /\ pc' = [pc EXCEPT ![c][v] = "run"]
      /\ want' = [want EXCEPT ![c][v] = NoLock]
      /\ UNCHANGED <<isLocked, owner, interruptsEnabled, level, prev, has, asked, panic>>
  <2>1. ~(pushDepth[c] < 1)
    BY <1>d
  <2>2. QED
    BY <1>0, <1>b, <2>1, Zenon DEF popOff, Goto, lockVars
<1>f. IsFiniteSet(P) /\ Cardinality(P) \in Nat
  BY <1>a, PushedFinite DEF IInv
<1>g. Cardinality(P \ {l}) = Cardinality(P) - 1
  BY <1>c, <1>f, FS_RemoveElement
<1>h. pushDepth[c] = 1 => has[c][v] = {}
  <2>1. \A w \in Levels : Cardinality(Pushed(c, w)) \in Nat
    BY PushedFinite DEF IInv
  <2>2. pushDepth[c] = Cardinality(Pushed(c, "thread")) + Cardinality(Pushed(c, "irq"))
    BY DEF IInv, DepthCountsLocks
  <2>3. pushDepth[c] >= Cardinality(P)
    BY <1>a, <2>1, <2>2 DEF Levels
  <2>4. IsFiniteSet(P \ {l}) /\ Cardinality(P \ {l}) \in Nat
    BY <1>f, FS_Subset, FS_CardinalityType
  <2> HIDE DEF P
  <2>5. pushDepth[c] = 1 => Cardinality(P \ {l}) = 0
    BY <1>d, <1>f, <1>g, <2>3, <2>4
  <2>6. pushDepth[c] = 1 => P \ {l} = {}
    BY <2>4, <2>5, FS_EmptySet
  <2>7. QED
    BY <1>a, <1>c, <2>6
<1>i. /\ \A d \in CPUs, w \in Levels :
           /\ pc'[d][w] = IF d = c /\ w = v THEN "run" ELSE pc[d][w]
           /\ want'[d][w] = IF d = c /\ w = v THEN NoLock ELSE want[d][w]
      /\ \A d \in CPUs :
           /\ pushDepth'[d] = IF d = c THEN pushDepth[d] - 1 ELSE pushDepth[d]
           /\ intr'[d] <=> IF d = c THEN PopEnables(c) ELSE intr[d]
  BY <1>e DEF IInv, TypeOK
<1>j. \A d \in CPUs : level[d] \in {"thread", "irq"} /\ pushDepth[d] \in Nat
  BY DEF IInv, TypeOK, Levels
<1>1. TypeOK'
  <2>1. PopEnables(c) \in BOOLEAN /\ pushDepth[c] - 1 \in Nat
    BY <1>d DEF PopEnables
  <2>2. pushDepth' \in [CPUs -> Nat] /\ intr' \in [CPUs -> BOOLEAN]
    BY <1>e, <2>1 DEF IInv, TypeOK
  <2>3. /\ pc' \in [CPUs -> [Levels -> Steps]]
        /\ want' \in [CPUs -> [Levels -> Locks \cup {NoLock}]]
    BY <1>e DEF IInv, TypeOK, Steps
  <2>4. QED
    BY <1>e, <2>2, <2>3 DEF IInv, TypeOK
<1>2. NoPanic'
  BY <1>e DEF IInv, NoPanic
<1>3. WantsNewLock'
  BY <1>e, <1>i DEF IInv, WantsNewLock
<1>4. HandlerIdle'
  BY <1>e, <1>i DEF IInv, HandlerIdle, Levels
<1>5. ThreadClear'
  <2>1. SUFFICES ASSUME NEW d \in CPUs, intr'[d] \/ level[d] = "irq"
        PROVE has[d]["thread"] = {} /\ pc'[d]["thread"] \in {"run", "disable"}
    BY <1>e DEF ThreadClear
  <2>2. CASE d # c
    BY <1>i, <2>1, <2>2 DEF IInv, ThreadClear, Levels
  <2>3. CASE d = c /\ level[c] = "irq"
    BY <1>i, <2>3 DEF IInv, ThreadClear, Levels
  <2>4. CASE d = c /\ level[c] = "thread"
    BY <1>0, <1>h, <1>i, <2>1, <2>4 DEF Levels, PopEnables
  <2>5. QED
    BY <1>j, <2>2, <2>3, <2>4
<1>6. HandlerOff'
  BY <1>0, <1>d, <1>e, <1>i, <1>j DEF IInv, HandlerOff, Levels, PopEnables
<1>7. \A d \in CPUs, w \in Levels, m \in Locks : Inside(d, w, m)' <=> Inside(d, w, m)
  BY <1>a, <1>e, <1>i DEF Inside
<1>8. InsideLocked' /\ MutualExclusion'
  BY <1>e, <1>7 DEF IInv, InsideLocked, MutualExclusion
<1>9. OwnerHas'
  BY <1>e DEF IInv, OwnerHas
<1>10. DepthCountsLocks'
  <2>1. Pushed(c, v)' = has[c][v]
    BY <1>e, <1>i DEF Pushed
  <2>2. Pushed(c, v)' = P \ {l}
    BY <1>a, <1>c, <2>1
  <2>3. \A d \in CPUs, w \in Levels : d # c \/ w # v => Pushed(d, w)' = Pushed(d, w)
    BY <1>e, <1>i DEF Pushed
  <2>4. Cardinality(Pushed(c, v)') = Cardinality(Pushed(c, v)) + (-1)
    BY <1>f, <1>g, <2>2
  <2>5. pushDepth' = [pushDepth EXCEPT ![c] = @ + (-1)]
    BY <1>d, <1>e
  <2>6. -1 \in Int
    OBVIOUS
  <2>7. QED
    BY <2>3, <2>4, <2>5, <2>6, DepthMoves DEF IInv
<1>11. SettingKept'
  BY <1>0, <1>d, <1>e, <1>i, <1>j DEF IInv, SettingKept, Levels, PopEnables
<1>12. QED
  BY <1>1, <1>2, <1>3, <1>4, <1>5, <1>6, <1>8, <1>9, <1>10, <1>11 DEF IInv

\* interrupts.enable runs outside all locks, where the depth is zero.
LEMMA enablePreserves ==
  ASSUME IInv, NEW c \in CPUs, enable(c)
  PROVE  IInv'
<1>0. pushDepth[c] = 0
  BY NothingCounted DEF enable, At
<1>1. TypeOK'
  BY DEF IInv, TypeOK, Steps, Levels, WantsNewLock, enable, At, lockVars
<1>2. NoPanic'
  BY DEF IInv, NoPanic, enable, At, lockVars
<1>3. WantsNewLock'
  BY DEF IInv, WantsNewLock, TypeOK, enable, At, lockVars
<1>4. HandlerIdle'
  BY DEF IInv, HandlerIdle, TypeOK, Levels, enable, At, lockVars
<1>5. ThreadClear'
  BY DEF IInv, ThreadClear, TypeOK, HandlerOff, HandlerIdle, Levels, enable, At, lockVars
<1>6. HandlerOff'
  BY DEF IInv, HandlerOff, TypeOK, ThreadClear, HandlerIdle, Levels, enable, At, lockVars
<1>7. InsideLocked'
  BY DEF IInv, InsideLocked, TypeOK, WantsNewLock, MutualExclusion, Inside, enable, At,
         lockVars
<1>8. MutualExclusion'
  BY DEF IInv, MutualExclusion, TypeOK, WantsNewLock, InsideLocked, Inside, enable, At,
         lockVars
<1>9. OwnerHas'
  BY DEF IInv, OwnerHas, TypeOK, WantsNewLock, InsideLocked, MutualExclusion, Inside,
         enable, At, lockVars
<1>10. DepthCountsLocks'
  <2>1. \A d \in CPUs, w \in Levels : Pushed(d, w)' = Pushed(d, w)
    BY DEF IInv, TypeOK, WantsNewLock, Levels, Pushed, enable, At, lockVars
  <2>2. QED
    BY <2>1, DepthSame DEF IInv, enable, cpuVars
<1>11. SettingKept'
  BY <1>0 DEF IInv, TypeOK, Levels, ThreadClear, HandlerIdle, SettingKept, enable, At,
              lockVars
<1>12. QED
  BY <1>1, <1>2, <1>3, <1>4, <1>5, <1>6, <1>7, <1>8, <1>9, <1>10, <1>11 DEF IInv

\* So does interrupts.disable.
LEMMA disablePreserves ==
  ASSUME IInv, NEW c \in CPUs, disable(c)
  PROVE  IInv'
<1>0. pushDepth[c] = 0
  BY NothingCounted DEF disable, At
<1>1. TypeOK'
  BY DEF IInv, TypeOK, Steps, Levels, WantsNewLock, disable, At, lockVars
<1>2. NoPanic'
  BY DEF IInv, NoPanic, disable, At, lockVars
<1>3. WantsNewLock'
  BY DEF IInv, WantsNewLock, TypeOK, disable, At, lockVars
<1>4. HandlerIdle'
  BY DEF IInv, HandlerIdle, TypeOK, Levels, disable, At, lockVars
<1>5. ThreadClear'
  BY DEF IInv, ThreadClear, TypeOK, HandlerOff, HandlerIdle, Levels, disable, At, lockVars
<1>6. HandlerOff'
  BY DEF IInv, HandlerOff, TypeOK, ThreadClear, HandlerIdle, Levels, disable, At, lockVars
<1>7. InsideLocked'
  BY DEF IInv, InsideLocked, TypeOK, WantsNewLock, MutualExclusion, Inside, disable, At,
         lockVars
<1>8. MutualExclusion'
  BY DEF IInv, MutualExclusion, TypeOK, WantsNewLock, InsideLocked, Inside, disable, At,
         lockVars
<1>9. OwnerHas'
  BY DEF IInv, OwnerHas, TypeOK, WantsNewLock, InsideLocked, MutualExclusion, Inside,
         disable, At, lockVars
<1>10. DepthCountsLocks'
  <2>1. \A d \in CPUs, w \in Levels : Pushed(d, w)' = Pushed(d, w)
    BY DEF IInv, TypeOK, WantsNewLock, Levels, Pushed, disable, At, lockVars
  <2>2. QED
    BY <2>1, DepthSame DEF IInv, disable, cpuVars
<1>11. SettingKept'
  BY <1>0 DEF IInv, TypeOK, Levels, ThreadClear, HandlerIdle, SettingKept, disable, At,
              lockVars
<1>12. QED
  BY <1>1, <1>2, <1>3, <1>4, <1>5, <1>6, <1>7, <1>8, <1>9, <1>10, <1>11 DEF IInv

\* An interrupt comes when the thread has counted nothing.
LEMMA InterruptPreserves ==
  ASSUME IInv, NEW c \in CPUs, Interrupt(c)
  PROVE  IInv'
<1>0. pushDepth[c] = 0
  BY NothingCounted DEF IInv, ThreadClear, Interrupt
<1>1. TypeOK'
  BY DEF IInv, TypeOK, Steps, Levels, WantsNewLock, Interrupt, lockVars
<1>2. NoPanic'
  BY DEF IInv, NoPanic, Interrupt, lockVars
<1>3. WantsNewLock'
  BY DEF IInv, WantsNewLock, TypeOK, Interrupt, lockVars
<1>4. HandlerIdle'
  BY DEF IInv, HandlerIdle, TypeOK, Levels, Interrupt, lockVars
<1>5. ThreadClear'
  BY DEF IInv, ThreadClear, TypeOK, HandlerOff, HandlerIdle, Levels, Interrupt, lockVars
<1>6. HandlerOff'
  BY <1>0 DEF IInv, HandlerOff, TypeOK, ThreadClear, HandlerIdle, Levels, Interrupt,
              lockVars
<1>7. InsideLocked'
  BY DEF IInv, InsideLocked, TypeOK, WantsNewLock, MutualExclusion, Inside, Interrupt,
         lockVars
<1>8. MutualExclusion'
  BY DEF IInv, MutualExclusion, TypeOK, WantsNewLock, InsideLocked, Inside, Interrupt,
         lockVars
<1>9. OwnerHas'
  BY DEF IInv, OwnerHas, TypeOK, WantsNewLock, InsideLocked, MutualExclusion, Inside,
         Interrupt, lockVars
<1>10. DepthCountsLocks'
  <2>1. \A d \in CPUs, w \in Levels : Pushed(d, w)' = Pushed(d, w)
    BY DEF IInv, TypeOK, WantsNewLock, Levels, Pushed, Interrupt, lockVars
  <2>2. QED
    BY <2>1, DepthSame DEF IInv, Interrupt, cpuVars
<1>11. SettingKept'
  BY <1>0 DEF IInv, TypeOK, Levels, ThreadClear, HandlerIdle, SettingKept, Interrupt,
              lockVars
<1>12. QED
  BY <1>1, <1>2, <1>3, <1>4, <1>5, <1>6, <1>7, <1>8, <1>9, <1>10, <1>11 DEF IInv

\* A handler returns when nothing is counted any more.
LEMMA ReturnFromInterruptPreserves ==
  ASSUME IInv, NEW c \in CPUs, ReturnFromInterrupt(c)
  PROVE  IInv'
<1>0. pushDepth[c] = 0
  BY NothingCounted DEF ReturnFromInterrupt, At
<1>1. TypeOK'
  BY DEF IInv, TypeOK, Steps, Levels, WantsNewLock, ReturnFromInterrupt, At, lockVars
<1>2. NoPanic'
  BY DEF IInv, NoPanic, ReturnFromInterrupt, At, lockVars
<1>3. WantsNewLock'
  BY DEF IInv, WantsNewLock, TypeOK, ReturnFromInterrupt, At, lockVars
<1>4. HandlerIdle'
  BY DEF IInv, HandlerIdle, TypeOK, Levels, ReturnFromInterrupt, At, lockVars
<1>5. ThreadClear'
  BY DEF IInv, ThreadClear, TypeOK, HandlerOff, HandlerIdle, Levels, ReturnFromInterrupt,
         At, lockVars
<1>6. HandlerOff'
  BY DEF IInv, HandlerOff, TypeOK, ThreadClear, HandlerIdle, Levels, ReturnFromInterrupt,
         At, lockVars
<1>7. InsideLocked'
  BY DEF IInv, InsideLocked, TypeOK, WantsNewLock, MutualExclusion, Inside,
         ReturnFromInterrupt, At, lockVars
<1>8. MutualExclusion'
  BY DEF IInv, MutualExclusion, TypeOK, WantsNewLock, InsideLocked, Inside,
         ReturnFromInterrupt, At, lockVars
<1>9. OwnerHas'
  BY DEF IInv, OwnerHas, TypeOK, WantsNewLock, InsideLocked, MutualExclusion, Inside,
         ReturnFromInterrupt, At, lockVars
<1>10. DepthCountsLocks'
  <2>1. \A d \in CPUs, w \in Levels : Pushed(d, w)' = Pushed(d, w)
    BY DEF IInv, TypeOK, WantsNewLock, Levels, Pushed, ReturnFromInterrupt, At, lockVars
  <2>2. QED
    BY <2>1, DepthSame DEF IInv, ReturnFromInterrupt, cpuVars
<1>11. SettingKept'
  BY <1>0 DEF IInv, TypeOK, Levels, ThreadClear, HandlerIdle, SettingKept,
              ReturnFromInterrupt, At, lockVars
<1>12. QED
  BY <1>1, <1>2, <1>3, <1>4, <1>5, <1>6, <1>7, <1>8, <1>9, <1>10, <1>11 DEF IInv

-----------------------------------------------------------------------------
(* The invariant and what follows from it.                                  *)

\* At the start no lock is taken and nothing is counted.
LEMMA InitIInv == Init => IInv
<1> SUFFICES ASSUME Init PROVE IInv
  OBVIOUS
<1>1. TypeOK
  BY DEF Init, TypeOK, Levels, Steps
<1>2. NoPanic /\ WantsNewLock /\ HandlerIdle /\ ThreadClear /\ HandlerOff
  BY DEF Init, NoPanic, WantsNewLock, HandlerIdle, ThreadClear, HandlerOff, Levels
<1>3. InsideLocked /\ MutualExclusion /\ OwnerHas
  BY SpinLockAssumption DEF Init, InsideLocked, MutualExclusion, OwnerHas, Inside, Levels
<1>4. DepthCountsLocks
  <2>1. \A c \in CPUs : Pushed(c, "thread") = {} /\ Pushed(c, "irq") = {}
    BY DEF Init, Pushed, Levels
  <2>2. Cardinality({}) = 0
    BY FS_EmptySet
  <2>3. \A c \in CPUs : pushDepth[c] = 0
    BY DEF Init
  <2>4. QED
    BY <2>1, <2>2, <2>3 DEF DepthCountsLocks
<1>5. SettingKept
  BY DEF Init, SettingKept, Levels
<1>6. QED
  BY <1>1, <1>2, <1>3, <1>4, <1>5 DEF IInv

\* Every step of every CPU preserves the invariant.
LEMMA NextIInv == IInv /\ [Next]_vars => IInv'
<1> SUFFICES ASSUME IInv, [Next]_vars PROVE IInv'
  OBVIOUS
<1>1. ASSUME NEW c \in CPUs, CPUStep(c) PROVE IInv'
  <2>1. ASSUME NEW l \in Locks, acquire(c, l) PROVE IInv'
    BY <2>1, acquirePreserves
  <2>2. ASSUME NEW l \in Locks, release(c, l) PROVE IInv'
    BY <2>2, releasePreserves
  <2>3. CASE pushOff(c)
    BY <2>3, pushOffPreserves
  <2>4. CASE exchange(c)
    BY <2>4, exchangePreserves
  <2>5. CASE setOwner(c)
    BY <2>5, setOwnerPreserves
  <2>6. CASE unlock(c)
    BY <2>6, unlockPreserves
  <2>7. CASE popOff(c)
    BY <2>7, popOffPreserves
  <2>8. CASE enable(c)
    BY <2>8, enablePreserves
  <2>9. CASE disable(c)
    BY <2>9, disablePreserves
  <2>10. CASE Interrupt(c)
    BY <2>10, InterruptPreserves
  <2>11. CASE ReturnFromInterrupt(c)
    BY <2>11, ReturnFromInterruptPreserves
  <2>12. QED
    BY <1>1, <2>1, <2>2, <2>3, <2>4, <2>5, <2>6, <2>7, <2>8, <2>9, <2>10, <2>11 DEF CPUStep
<1>2. CASE UNCHANGED vars
  <2>1. DepthCountsLocks'
    <3>1. \A d \in CPUs, w \in Levels : Pushed(d, w)' = Pushed(d, w)
      BY <1>2 DEF vars, ctlVars, Pushed
    <3>2. QED
      BY <1>2, <3>1, DepthSame DEF vars, cpuVars, IInv
  <2>2. TypeOK' /\ NoPanic' /\ WantsNewLock' /\ HandlerIdle' /\ ThreadClear' /\ HandlerOff'
    BY <1>2 DEF vars, lockVars, cpuVars, ctlVars, IInv, TypeOK, NoPanic, WantsNewLock,
                HandlerIdle, ThreadClear, HandlerOff
  <2>3. InsideLocked' /\ MutualExclusion' /\ OwnerHas' /\ SettingKept'
    BY <1>2 DEF vars, lockVars, cpuVars, ctlVars, IInv, InsideLocked, MutualExclusion,
                OwnerHas, SettingKept, Inside
  <2>4. QED
    BY <2>1, <2>2, <2>3 DEF IInv
<1>3. QED
  BY <1>1, <1>2 DEF Next

\* The inductive invariant holds in every reachable state.
THEOREM Invariance == Spec => []IInv
  BY InitIInv, NextIInv, PTL DEF Spec

\* The variables keep their types, for any number of CPUs and locks.
THEOREM TypeCorrect == Spec => []TypeOK
<1>1. IInv => TypeOK
  BY DEF IInv
<1>2. QED
  BY <1>1, Invariance, PTL

\* Mutual exclusion of acquire and release, between CPUs and between a thread
\* and the handlers that interrupt it.
THEOREM Exclusion == Spec => []MutualExclusion
<1>1. IInv => MutualExclusion
  BY DEF IInv
<1>2. QED
  BY <1>1, Invariance, PTL

\* No @panic of acquire, release or popOff is reachable.
THEOREM PanicFree == Spec => []NoPanic
<1>1. IInv => NoPanic
  BY DEF IInv
<1>2. QED
  BY <1>1, Invariance, PTL

\* pushDepth is the number of locks the CPU has counted, for any nesting.
THEOREM DepthIsExact == Spec => []DepthCountsLocks
<1>1. IInv => DepthCountsLocks
  BY DEF IInv
<1>2. QED
  BY <1>1, Invariance, PTL

\* No interrupt handler runs while the interrupted thread has a lock.
THEOREM HandlersMeetNoLock == Spec => []NoInterruptWithLock
<1>1. IInv => NoInterruptWithLock
  BY DEF IInv, ThreadClear, NoInterruptWithLock, Pushed
<1>2. QED
  BY <1>1, Invariance, PTL

\* Outside all locks a thread has the interrupt setting it asked for.
THEOREM SettingRestored == Spec => []InterruptsRestored
<1>1. ASSUME IInv PROVE InterruptsRestored
  <2>1. SUFFICES ASSUME NEW c \in CPUs, level[c] = "thread", pc[c]["thread"] = "run",
                        has[c]["thread"] = {}
        PROVE intr[c] = asked[c]
    BY DEF InterruptsRestored
  <2>2. pushDepth[c] = 0
    BY <1>1, <2>1, NothingCounted
  <2>3. QED
    BY <1>1, <2>1, <2>2 DEF IInv, SettingKept, TypeOK
<1>2. QED
  BY <1>1, Invariance, PTL
=============================================================================
