--------------------------- MODULE ProcessProofs ---------------------------
(***************************************************************************)
(* Proofs about the process table of module Process, for every size of the *)
(* table, every number of process ids and every use of kill.               *)
(*                                                                         *)
(* Two rules of process.zig carry both results: parentProcess changes only *)
(* under waitLock or in a slot nobody else can reach, and a process keeps  *)
(* waitLock from the moment it gives its children away until it is a       *)
(* zombie.                                                                 *)
(***************************************************************************)
EXTENDS Process, TLAPS

\* The steps during which a process builds, or takes apart, a child's slot.
Building == {"freeUnlocked", "freeReset", "freeLast", "setParent", "setRunnable"}

\* The steps at which a process holds waitLock.
Holding == {"reparent", "exitWakeup", "zombie", "waitScan", "waitSleep"}

Dead == {"unused", "used", "zombie"}

\* Only a process that was made runnable has a thread, and a sleeping thread is
\* in wait.
Threads ==
  \A p \in Procs :
    /\ pc[p] = "none" <=> state[p] \in Dead
    /\ state[p] = "sleeping" => pc[p] = "asleep"

\* waitLock is held by the one process that is between its acquire and its
\* release.
Holder == \A p \in Procs : waitLock = p <=> pc[p] \in Holding

\* A slot under construction belongs to one builder.
Builders ==
  \A p \in Procs : pc[p] \in Building =>
    /\ slot[p] \in Procs
    /\ state[slot[p]] = "used"
    /\ \A r \in Procs : pc[r] \in Building /\ slot[r] = slot[p] => r = p

\* A slot has a parent only when it is in use, or the parent is about to make
\* it runnable.  Init has none.
Parents ==
  /\ parent[initialProcess] = NoProc
  /\ \A q \in Procs : state[q] = "unused" => parent[q] = NoProc
  /\ \A p, q \in Procs : state[q] = "used" /\ parent[q] = p =>
       pc[p] = "setRunnable" /\ slot[p] = q
  /\ \A p \in Procs : pc[p] = "setRunnable" => parent[slot[p]] = p

\* Init does not exit.
Initial ==
  /\ state[initialProcess] \in Alive
  /\ pc[initialProcess] \notin {"reparent", "exitWakeup", "zombie"}

\* The children of an exiting process below its place in the scan have been
\* given away, and all of them when the scan is over.
Exiting ==
  \A p, q \in Procs :
    /\ pc[p] = "reparent" /\ q < slot[p] => parent[q] # p
    /\ pc[p] \in {"exitWakeup", "zombie"} => parent[q] # p

\* No child below the place of wait's scan is a zombie, the parent of a process
\* about to become a zombie is awake, and nobody sleeps beside a zombie child.
Zombies ==
  \A p, q \in Procs : parent[q] = p =>
    /\ state[p] = "sleeping" => state[q] # "zombie" /\ pc[q] # "zombie"
    /\ pc[p] = "waitScan" /\ q < slot[p] => state[q] # "zombie"
    /\ pc[p] = "waitSleep" => state[q] # "zombie"

IInv == /\ TypeOK /\ Threads /\ Holder /\ Builders /\ Parents /\ Initial
        /\ NoOrphan /\ Exiting /\ Zombies
-----------------------------------------------------------------------------
\* The table holds init's slot, and its slots are numbers.
LEMMA Slots ==
  /\ initialProcess \in Procs /\ (\A q \in Procs : q \in Nat /\ q >= 1) /\ NoProc \notin Procs
  /\ \A i \in 1 .. NProc + 1 : i \in Nat /\ (i \in Procs \/ \A q \in Procs : q < i)
BY ProcessAssumption DEF Procs, initialProcess

LEMMA InitInv == Init => IInv
<1> SUFFICES ASSUME Init PROVE IInv
  OBVIOUS
<1> USE ProcessAssumption DEF Init, Procs, initialProcess
<1>1. TypeOK
  BY DEF TypeOK, Steps
<1>2. Threads /\ Holder /\ Builders
  BY DEF Threads, Holder, Builders, Dead, Holding, Building
<1>3. Parents /\ Initial /\ NoOrphan /\ Exiting /\ Zombies
  BY DEF Parents, Initial, NoOrphan, Exiting, Zombies, Alive
<1> QED
  BY <1>1, <1>2, <1>3 DEF IInv

\* The steps at which a thread runs without waitLock and builds nothing.
Plain == Steps \ (Building \cup Holding \cup {"none"})

\* A step that leaves the parents and waitLock alone, moves one thread between
\* two such steps, and at most wakes others.
LEMMA PlainStep ==
  ASSUME IInv, TypeOK', NEW p \in Procs, state[p] = "runnable", pc[p] \in Plain,
         NEW s \in Plain, pc' = [pc EXCEPT ![p] = s],
         \A r \in Procs : r # p => slot'[r] = slot[r],
         \A r \in Procs : \/ state'[r] = state[r]
                          \/ state[r] = "sleeping" /\ state'[r] = "runnable",
         parent' = parent, waitLock' = waitLock
  PROVE  IInv'
<1> USE Slots
<1>1. pc[p] \notin Building \cup Holding \cup {"none"} /\ s \notin Building \cup Holding \cup {"none"}
  BY DEF Plain
<1>2. \A r \in Procs : r # p => pc'[r] = pc[r]
  BY DEF IInv, TypeOK
<1>3. pc'[p] = s
  BY DEF IInv, TypeOK
<1>4. state'[p] = "runnable"
  OBVIOUS
<1>5. Threads'
  BY <1>1, <1>2, <1>3, <1>4 DEF IInv, Threads, Dead
<1>6. Holder'
  BY <1>1, <1>2, <1>3 DEF IInv, Holder
<1>7. Builders'
  <2> SUFFICES ASSUME NEW b \in Procs, pc'[b] \in Building
      PROVE  /\ slot'[b] \in Procs /\ state'[slot'[b]] = "used"
             /\ \A r \in Procs : pc'[r] \in Building /\ slot'[r] = slot'[b] => r = b
    BY DEF Builders
  <2>1. b # p /\ pc[b] \in Building /\ slot'[b] = slot[b]
    BY <1>1, <1>2, <1>3
  <2>2. slot[b] \in Procs /\ state[slot[b]] = "used"
    BY <2>1 DEF IInv, Builders
  <2>3. \A r \in Procs : pc'[r] \in Building => r # p /\ pc[r] \in Building /\ slot'[r] = slot[r]
    BY <1>1, <1>2, <1>3
  <2>4. state'[slot[b]] = "used"
    BY <2>2
  <2> QED
    BY <2>1, <2>2, <2>3, <2>4 DEF IInv, Builders
<1>8. Parents'
  <2>1. \A r \in Procs : /\ state'[r] = "unused" => state[r] = "unused"
                         /\ state'[r] = "used" => state[r] = "used"
    OBVIOUS
  <2>2. \A r \in Procs : pc[r] = "setRunnable" \/ pc'[r] = "setRunnable"
                         => r # p /\ pc'[r] = pc[r] /\ slot'[r] = slot[r]
    BY <1>1, <1>2, <1>3 DEF Building
  <2>3. \A r, q \in Procs : state'[q] = "used" /\ parent[q] = r =>
          pc'[r] = "setRunnable" /\ slot'[r] = q
    BY <2>1, <2>2 DEF IInv, Parents
  <2>4. \A r \in Procs : pc'[r] = "setRunnable" => parent[slot'[r]] = r
    BY <2>2 DEF IInv, Parents
  <2> QED
    BY <2>1, <2>3, <2>4 DEF IInv, Parents
<1>9. Initial'
  BY <1>1, <1>2, <1>3 DEF IInv, Initial, Alive, Holding
<1>10. NoOrphan'
  BY DEF IInv, NoOrphan, Alive
<1>11. Exiting'
  BY <1>1, <1>2, <1>3 DEF IInv, Exiting, Holding
<1>12. Zombies'
  BY <1>1, <1>2, <1>3, <1>4 DEF IInv, Zombies, Holding
<1> QED
  BY <1>5, <1>6, <1>7, <1>8, <1>9, <1>10, <1>11, <1>12 DEF IInv
-----------------------------------------------------------------------------
(* Types.                                                                   *)

LEMMA WokenType ==
  ASSUME TypeOK, NEW q
  PROVE  /\ Woken(state, q) \in [Procs -> {"unused", "used", "sleeping", "runnable", "zombie"}]
         /\ \A r \in Procs : \/ Woken(state, q)[r] = state[r] /\ (r = q => state[r] # "sleeping")
                             \/ r = q /\ state[r] = "sleeping" /\ Woken(state, q)[r] = "runnable"
BY DEF TypeOK, Woken

\* The place of a scan moves on by one slot.
LEMMA NextSlot ==
  ASSUME TypeOK, NEW p \in Procs, NEW q \in Procs
  PROVE  /\ [slot EXCEPT ![p] = q + 1] \in [Procs -> 1 .. NProc + 1]
         /\ [slot EXCEPT ![p] = 1] \in [Procs -> 1 .. NProc + 1]
BY ProcessAssumption DEF TypeOK, Procs

LEMMA PcType ==
  ASSUME TypeOK, NEW p \in Procs, NEW s \in Steps
  PROVE  [pc EXCEPT ![p] = s] \in [Procs -> Steps]
BY DEF TypeOK

LEMMA TypeStep ==
  ASSUME IInv, NEW p \in Procs, syscall(p) \/ userFault(p) \/ KernelStep(p)
  PROVE  TypeOK'
<1> TypeOK /\ initialProcess \in Procs
  BY Slots DEF IInv
<1> USE DEF At, Goto, Call, table
<1>1. CASE syscall(p)
  <2>1. slot' \in [Procs -> 1 .. NProc + 1]
    BY <1>1, NextSlot DEF syscall
  <2>3. target' \in [Procs -> Nat] /\ victims' \subseteq Nat
    <3>1. CASE UNCHANGED <<target, victims>>
      BY <3>1 DEF TypeOK
    <3>2. CASE ~UNCHANGED <<target, victims>>
      <4>1. PICK t \in KillTargets :
              target' = [target EXCEPT ![p] = t] /\ victims' = victims \cup {t}
        BY <1>1, <3>2 DEF syscall
      <4> QED
        BY <4>1, ProcessAssumption DEF TypeOK
    <3> QED
      BY <3>1, <3>2
  <2>2. pc' \in [Procs -> Steps]
    BY <1>1, PcType DEF syscall, Steps
  <2> QED
    BY <1>1, <2>1, <2>2, <2>3 DEF syscall, TypeOK
<1>2. CASE userFault(p)
  <2>1. pc' \in [Procs -> Steps]
    BY <1>2, PcType DEF userFault, Steps
  <2>2. killed' \in [Procs -> BOOLEAN]
    BY <1>2 DEF userFault, TypeOK
  <2> QED
    BY <1>2, <2>1, <2>2 DEF userFault, TypeOK
<1>3. CASE checkKilled(p)
  <2>1. pc' \in [Procs -> Steps]
    BY <1>3, PcType DEF checkKilled, Steps
  <2>2. slot' \in [Procs -> 1 .. NProc + 1]
    BY <1>3, NextSlot DEF checkKilled
  <2> QED
    BY <1>3, <2>1, <2>2 DEF checkKilled, TypeOK
<1>4. CASE alloc(p)
  <2>1. pc' \in [Procs -> Steps]
    BY <1>4, PcType DEF alloc, Steps, TypeOK
  <2>2. slot' \in [Procs -> 1 .. NProc + 1]
    BY <1>4, NextSlot DEF alloc, TypeOK
  <2>3. killed' \in [Procs -> BOOLEAN]
    BY <1>4 DEF alloc, TypeOK, Freed
  <2>4. state' \in [Procs -> {"unused", "used", "sleeping", "runnable", "zombie"}]
    BY <1>4 DEF alloc, TypeOK, Freed
  <2>5. nextPid' \in 1 .. MaxPid + 1
    BY <1>4, ProcessAssumption DEF alloc, TypeOK, allocPid
  <2>6. pid' \in [Procs -> 0 .. MaxPid]
    BY <1>4, ProcessAssumption DEF alloc, TypeOK, Freed
  <2>7. parent' \in [Procs -> Procs \cup {NoProc}]
    BY <1>4 DEF alloc, TypeOK, Freed
  <2> QED
    BY <1>4, <2>1, <2>2, <2>3, <2>4, <2>5, <2>6, <2>7 DEF alloc, TypeOK
<1>5. CASE allocFails(p)
  BY <1>5, PcType DEF allocFails, TypeOK, Steps
<1>6. CASE freeUnlocked(p)
  <2>1. pc' \in [Procs -> Steps]
    BY <1>6, PcType DEF freeUnlocked, Steps
  <2>2. killed' \in [Procs -> BOOLEAN]
    BY <1>6 DEF freeUnlocked, TypeOK
  <2>3. /\ state' \in [Procs -> {"unused", "used", "sleeping", "runnable", "zombie"}]
        /\ parent' \in [Procs -> Procs \cup {NoProc}]
    BY <1>6 DEF freeUnlocked, TypeOK
  <2>4. pid' \in [Procs -> 0 .. MaxPid]
    BY <1>6, ProcessAssumption DEF freeUnlocked, TypeOK
  <2> QED
    BY <1>6, <2>1, <2>2, <2>3, <2>4 DEF freeUnlocked, TypeOK
<1>7. CASE forkSetParent(p)
  BY <1>7, PcType DEF forkSetParent, TypeOK, Steps
<1>8. CASE forkSetRunnable(p)
  <2>1. /\ state' \in [Procs -> {"unused", "used", "sleeping", "runnable", "zombie"}]
        /\ pc' \in [Procs -> Steps]
    BY <1>8 DEF forkSetRunnable, TypeOK, Steps
  <2> QED
    BY <1>8, <2>1 DEF forkSetRunnable, TypeOK
<1>9. CASE exit(p)
  BY <1>9, PcType, NextSlot DEF exit, TypeOK, Steps, TakeWaitLock
<1>10. CASE reparentChildren(p)
  <2>1. pc' \in [Procs -> Steps]
    BY <1>10, PcType DEF reparentChildren, Steps, TypeOK
  <2>2. slot' \in [Procs -> 1 .. NProc + 1]
    BY <1>10, NextSlot DEF reparentChildren, TypeOK
  <2>3. /\ state' \in [Procs -> {"unused", "used", "sleeping", "runnable", "zombie"}]
        /\ parent' \in [Procs -> Procs \cup {NoProc}]
    BY <1>10, WokenType DEF reparentChildren, TypeOK
  <2> QED
    BY <1>10, <2>1, <2>2, <2>3 DEF reparentChildren, TypeOK
<1>11. CASE exitWakeup(p)
  <2>1. pc' \in [Procs -> Steps]
    BY <1>11, PcType DEF exitWakeup, Steps
  <2> QED
    BY <1>11, <2>1, WokenType DEF exitWakeup, TypeOK
<1>12. CASE exitZombie(p)
  BY <1>12, PcType DEF exitZombie, TypeOK, Steps
<1>13. CASE wait(p)
  <2>1. haveKids' \in [Procs -> BOOLEAN]
    BY <1>13 DEF wait, TypeOK
  <2> QED
    BY <1>13, <2>1, PcType, NextSlot DEF wait, TypeOK, Steps, TakeWaitLock
<1>14. CASE waitScan(p)
  <2>1. pc' \in [Procs -> Steps]
    BY <1>14, PcType DEF waitScan, Steps, TypeOK
  <2>2. slot' \in [Procs -> 1 .. NProc + 1]
    BY <1>14, NextSlot DEF waitScan, TypeOK
  <2>3. killed' \in [Procs -> BOOLEAN]
    BY <1>14 DEF waitScan, TypeOK, Freed
  <2>4. haveKids' \in [Procs -> BOOLEAN]
    BY <1>14 DEF waitScan, TypeOK
  <2>5. /\ state' \in [Procs -> {"unused", "used", "sleeping", "runnable", "zombie"}]
        /\ parent' \in [Procs -> Procs \cup {NoProc}]
    BY <1>14 DEF waitScan, TypeOK, Freed
  <2>6. pid' \in [Procs -> 0 .. MaxPid]
    BY <1>14, ProcessAssumption DEF waitScan, TypeOK, Freed
  <2>7. waitLock' \in Procs \cup {NoProc}
    BY <1>14 DEF waitScan, TypeOK
  <2> QED
    BY <1>14, <2>1, <2>2, <2>3, <2>4, <2>5, <2>6, <2>7 DEF waitScan, TypeOK
<1>15. CASE waitCheck(p)
  BY <1>15, PcType DEF waitCheck, TypeOK, Steps
<1>16. CASE waitSleep(p)
  BY <1>16, PcType DEF waitSleep, TypeOK, Steps
<1>17. CASE kill(p)
  <2>1. pc' \in [Procs -> Steps]
    BY <1>17, PcType DEF kill, Steps, TypeOK
  <2>2. slot' \in [Procs -> 1 .. NProc + 1]
    BY <1>17, NextSlot DEF kill, TypeOK
  <2> QED
    BY <1>17, <2>1, <2>2 DEF kill, TypeOK
<1>18. CASE killMark(p)
  <2>1. pc' \in [Procs -> Steps]
    BY <1>18, PcType DEF killMark, Steps
  <2>2. killed' \in [Procs -> BOOLEAN]
    BY <1>18 DEF killMark, TypeOK
  <2>3. state' \in [Procs -> {"unused", "used", "sleeping", "runnable", "zombie"}]
    BY <1>18, WokenType DEF killMark
  <2> QED
    BY <1>18, <2>1, <2>2, <2>3 DEF killMark, TypeOK
<1> QED
  BY <1>1, <1>2, <1>3, <1>4, <1>5, <1>6, <1>7, <1>8, <1>9, <1>10, <1>11, <1>12, <1>13,
     <1>14, <1>15, <1>16, <1>17, <1>18 DEF KernelStep
-----------------------------------------------------------------------------
(* The steps that leave parents and waitLock alone.                         *)

LEMMA CallStep ==
  ASSUME IInv, NEW p \in Procs, syscall(p) \/ userFault(p) \/ checkKilled(p) \/ kill(p)
                                \/ killMark(p) \/ allocFails(p)
  PROVE  IInv'
<1>1. TypeOK' /\ TypeOK
  BY TypeStep DEF KernelStep, IInv
<1>2. PICK s \in Plain : pc' = [pc EXCEPT ![p] = s]
  <2>1. pc = [pc EXCEPT ![p] = pc[p]]
    BY <1>1 DEF TypeOK
  <2>2. \A s \in {"alloc", "wait", "exit", "kill", "killMark", "return", "user"} : s \in Plain
    BY DEF Plain, Steps, Building, Holding
  <2>3. \/ \E s \in {"alloc", "wait", "exit", "kill", "killMark", "return", "user"} :
             pc' = [pc EXCEPT ![p] = s]
        \/ pc' = pc /\ pc[p] = "kill"
    BY DEF syscall, userFault, checkKilled, kill, killMark, allocFails, Call, Goto, At
  <2> QED
    BY <2>1, <2>2, <2>3
<1>3. pc[p] \in Plain /\ state[p] = "runnable"
  BY DEF syscall, userFault, checkKilled, kill, killMark, allocFails, Call, At, Plain, Steps,
         Building, Holding
<1>4. parent' = parent /\ waitLock' = waitLock
  BY DEF syscall, userFault, checkKilled, kill, killMark, allocFails, table
<1>5. \A r \in Procs : r # p => slot'[r] = slot[r]
  BY <1>1 DEF syscall, userFault, checkKilled, kill, killMark, allocFails, Call, TypeOK
<1>6. \A r \in Procs : \/ state'[r] = state[r]
                       \/ state[r] = "sleeping" /\ state'[r] = "runnable"
  <2>1. state' = state \/ state' = Woken(state, slot[p])
    BY DEF syscall, userFault, checkKilled, kill, killMark, allocFails, table
  <2>2. \A r \in Procs : \/ Woken(state, slot[p])[r] = state[r]
                         \/ state[r] = "sleeping" /\ Woken(state, slot[p])[r] = "runnable"
    BY <1>1, WokenType
  <2> QED
    BY <2>1, <2>2
<1> QED
  BY <1>1, <1>2, <1>3, <1>4, <1>5, <1>6, PlainStep
-----------------------------------------------------------------------------
(* fork.                                                                    *)

\* alloc takes an unused slot for p.
LEMMA TakeSlot ==
  ASSUME IInv, TypeOK', NEW p \in Procs, state[p] = "runnable",
         pc[p] = "alloc",
         NEW s \in {"setParent", "freeUnlocked"},
         pc' = [pc EXCEPT ![p] = s],
         slot[p] \in Procs,
         state[slot[p]] = "unused",
         state' = [state EXCEPT ![slot[p]] = "used"],
         UNCHANGED <<parent, waitLock, slot>>
  PROVE  IInv'
<1>1. TypeOK
  BY DEF IInv
<1>2. /\ \A r \in Procs : pc'[r] = IF r = p THEN s ELSE pc[r]
      /\ \A r \in Procs : state'[r] = IF r = slot[p] THEN "used" ELSE state[r]
  BY <1>1 DEF TypeOK
<1>3. /\ p # slot[p] /\ slot[p] # initialProcess /\ pc[slot[p]] = "none"
      /\ parent[slot[p]] = NoProc
  BY DEF IInv, Initial, Alive, Threads, Dead, Parents
<1>4. Threads'
  BY DEF IInv, Threads, Dead
<1>5. Holder'
  BY DEF IInv, Holder, Holding
<1>6. Builders'
  BY <1>2 DEF IInv, Builders
<1>7. Parents'
  BY Slots DEF IInv, Parents
<1>8. Initial'
  BY DEF IInv, Initial, Alive
<1>9. NoOrphan'
  BY DEF IInv, NoOrphan, Alive
<1>10. Exiting'
  BY DEF IInv, Exiting
<1>11. Zombies'
  BY DEF IInv, Zombies
<1> QED
  BY <1>4, <1>5, <1>6, <1>7, <1>8, <1>9, <1>10, <1>11 DEF IInv

LEMMA AllocStep ==
  ASSUME IInv, NEW p \in Procs, alloc(p)
  PROVE  IInv'
<1>1. TypeOK' /\ TypeOK
  BY TypeStep DEF KernelStep, IInv
<1>2. CASE UNCHANGED <<table, pc>> /\ slot' = [slot EXCEPT ![p] = slot[p] + 1]
  <2>1. pc' = [pc EXCEPT ![p] = "alloc"] /\ pc[p] = "alloc" /\ state[p] = "runnable"
    BY <1>1, <1>2 DEF alloc, At, TypeOK
  <2>2. "alloc" \in Plain
    BY DEF Plain, Steps, Building, Holding
  <2>3. UNCHANGED <<state, parent, waitLock>> /\ \A r \in Procs : r # p => slot'[r] = slot[r]
    BY <1>1, <1>2 DEF alloc, table, TypeOK
  <2> QED
    BY <1>1, <2>1, <2>2, <2>3, PlainStep
<1>3. CASE /\ slot[p] \in Procs /\ state[slot[p]] = "unused"
           /\ Freed(slot[p]) /\ Goto(p, "return") /\ UNCHANGED slot
  <2>1. state' = state /\ parent' = parent
    BY <1>1, <1>3 DEF Freed, IInv, Parents, TypeOK
  <2>2. "alloc" \in Plain /\ "return" \in Plain
    BY DEF Plain, Steps, Building, Holding
  <2>3. pc[p] = "alloc" /\ state[p] = "runnable" /\ waitLock' = waitLock
    BY DEF alloc, At
  <2> QED
    BY <1>1, <1>3, <2>1, <2>2, <2>3, PlainStep DEF Goto
<1>4. CASE /\ slot[p] \in Procs /\ state[slot[p]] = "unused"
           /\ state' = [state EXCEPT ![slot[p]] = "used"]
           /\ Goto(p, "setParent") \/ Goto(p, "freeUnlocked")
           /\ UNCHANGED <<parent, slot>>
  <2>1. pc[p] = "alloc" /\ state[p] = "runnable" /\ waitLock' = waitLock
    BY DEF alloc, At
  <2> QED
    BY <1>1, <1>4, <2>1, TakeSlot DEF Goto
<1> QED
  BY <1>2, <1>3, <1>4 DEF alloc

\* The builder of a slot goes on, the slot stays "used".
LEMMA KeepSlot ==
  ASSUME IInv, TypeOK', NEW p \in Procs, state[p] = "runnable",
         pc[p] \in {"freeUnlocked", "freeReset"},
         NEW s \in {"freeReset", "freeLast"},
         pc' = [pc EXCEPT ![p] = s],
         UNCHANGED <<state, parent, waitLock, slot>>
  PROVE  IInv'
<1>1. TypeOK
  BY DEF IInv
<1>2. \A r \in Procs : pc'[r] = IF r = p THEN s ELSE pc[r]
  BY <1>1 DEF TypeOK
<1>3. Threads'
  BY DEF IInv, Threads
<1>4. Holder'
  BY DEF IInv, Holder, Holding
<1>5. Builders'
  BY DEF IInv, Builders, Building
<1>6. Parents'
  BY DEF IInv, Parents
<1>7. Initial'
  BY DEF IInv, Initial
<1>8. NoOrphan'
  BY DEF IInv, NoOrphan
<1>9. Exiting'
  BY DEF IInv, Exiting
<1>10. Zombies'
  BY DEF IInv, Zombies
<1> QED
  BY <1>3, <1>4, <1>5, <1>6, <1>7, <1>8, <1>9, <1>10 DEF IInv

\* The builder of a slot gives it back.
LEMMA GiveUpSlot ==
  ASSUME IInv, TypeOK', NEW p \in Procs, state[p] = "runnable",
         pc[p] = "freeLast",
         pc' = [pc EXCEPT ![p] = "return"],
         state' = [state EXCEPT ![slot[p]] = "unused"],
         parent[slot[p]] = NoProc,
         UNCHANGED <<parent, waitLock, slot>>
  PROVE  IInv'
<1>1. TypeOK
  BY DEF IInv
<1>2. /\ slot[p] \in Procs /\ state[slot[p]] = "used"
      /\ \A r \in Procs : pc[r] \in Building /\ slot[r] = slot[p] => r = p
  BY DEF IInv, Builders, Building
<1>3. /\ \A r \in Procs : pc'[r] = IF r = p THEN "return" ELSE pc[r]
      /\ \A r \in Procs : state'[r] = IF r = slot[p] THEN "unused" ELSE state[r]
  BY <1>1 DEF TypeOK
<1>4. p # slot[p] /\ slot[p] # initialProcess /\ pc[slot[p]] = "none"
  BY <1>2 DEF IInv, Initial, Alive, Threads, Dead
<1>5. Threads'
  BY <1>4 DEF IInv, Threads, Dead
<1>6. Holder'
  BY DEF IInv, Holder, Holding
<1>7. Builders'
  BY <1>3 DEF IInv, Builders, Building
<1>8. Parents'
  BY DEF IInv, Parents
<1>9. Initial'
  BY <1>4 DEF IInv, Initial
<1>10. NoOrphan'
  BY <1>4, Slots DEF IInv, NoOrphan, Alive
<1>11. Exiting'
  BY DEF IInv, Exiting
<1>12. Zombies'
  BY DEF IInv, Zombies
<1> QED
  BY <1>5, <1>6, <1>7, <1>8, <1>9, <1>10, <1>11, <1>12 DEF IInv

LEMMA FreeUnlockedStep ==
  ASSUME IInv, NEW p \in Procs, freeUnlocked(p)
  PROVE  IInv'
<1>1. TypeOK' /\ TypeOK
  BY TypeStep DEF KernelStep, IInv
<1>2. /\ state[p] = "runnable" /\ pc[p] \in {"freeUnlocked", "freeReset", "freeLast"}
      /\ UNCHANGED <<waitLock, slot>>
  BY DEF freeUnlocked, At
<1>3. /\ slot[p] \in Procs /\ state[slot[p]] = "used"
      /\ \A r \in Procs : pc[r] \in Building /\ slot[r] = slot[p] => r = p
  BY <1>2 DEF IInv, Builders, Building
<1>4. parent[slot[p]] = NoProc
  <2> SUFFICES ASSUME parent[slot[p]] \in Procs PROVE FALSE
    BY <1>1, <1>3 DEF TypeOK
  <2>1. pc[parent[slot[p]]] = "setRunnable" /\ slot[parent[slot[p]]] = slot[p]
    BY <1>3 DEF IInv, Parents
  <2> QED
    BY <1>2, <1>3, <2>1 DEF Building
<1>5. parent' = parent
  BY <1>1, <1>4 DEF freeUnlocked, TypeOK
<1>6. CASE pc[p] = "freeLast"
  BY <1>1, <1>2, <1>4, <1>5, <1>6, GiveUpSlot DEF freeUnlocked, At, Goto
<1>7. CASE pc[p] = "freeUnlocked"
  BY <1>1, <1>2, <1>5, <1>7, KeepSlot DEF freeUnlocked, At, Goto
<1>8. CASE pc[p] = "freeReset"
  BY <1>1, <1>2, <1>5, <1>8, KeepSlot DEF freeUnlocked, At, Goto
<1> QED
  BY <1>2, <1>6, <1>7, <1>8

LEMMA SetParentStep ==
  ASSUME IInv, NEW p \in Procs, forkSetParent(p)
  PROVE  IInv'
<1>1. TypeOK' /\ TypeOK
  BY TypeStep DEF KernelStep, IInv
<1>2. /\ state[p] = "runnable" /\ pc[p] = "setParent" /\ waitLock = NoProc
      /\ state' = state /\ slot' = slot /\ waitLock' = waitLock
  BY DEF forkSetParent, At
<1>3. /\ \A r \in Procs : pc'[r] = IF r = p THEN "setRunnable" ELSE pc[r]
      /\ \A r \in Procs : parent'[r] = IF r = slot[p] THEN p ELSE parent[r]
  BY <1>1 DEF forkSetParent, Goto, TypeOK
<1>4. /\ slot[p] \in Procs /\ state[slot[p]] = "used"
      /\ \A r \in Procs : pc[r] \in Building /\ slot[r] = slot[p] => r = p
  BY <1>2 DEF IInv, Builders, Building
<1>5. \A r \in Procs : pc[r] \notin Holding
  BY <1>2, Slots DEF IInv, Holder
<1>6. Threads'
  BY <1>2, <1>3 DEF IInv, Threads
<1>7. Holder'
  BY <1>2, <1>3 DEF IInv, Holder, Holding
<1>8. Builders'
  BY <1>2, <1>3 DEF IInv, Builders, Building
<1>9. Parents'
  BY <1>2, <1>3, Slots DEF IInv, Parents, Building, Builders, Initial, Alive
<1>10. Initial'
  BY <1>2, <1>3, Slots DEF IInv, Initial
<1>11. NoOrphan'
  BY <1>2, <1>3 DEF IInv, NoOrphan, Alive
<1>12. Exiting'
  BY <1>3, <1>5 DEF IInv, Exiting, Holding
<1>13. Zombies'
  BY <1>2, <1>3 DEF IInv, Zombies
<1> QED
  BY <1>1, <1>6, <1>7, <1>8, <1>9, <1>10, <1>11, <1>12, <1>13 DEF IInv

LEMMA SetRunnableStep ==
  ASSUME IInv, NEW p \in Procs, forkSetRunnable(p)
  PROVE  IInv'
<1>1. TypeOK' /\ TypeOK
  BY TypeStep DEF KernelStep, IInv
<1>2. /\ state[p] = "runnable" /\ pc[p] = "setRunnable"
      /\ parent' = parent /\ slot' = slot /\ waitLock' = waitLock
  BY DEF forkSetRunnable, At
<1>3. /\ slot[p] \in Procs /\ state[slot[p]] = "used" /\ parent[slot[p]] = p
      /\ \A r \in Procs : pc[r] \in Building /\ slot[r] = slot[p] => r = p
  BY <1>2 DEF IInv, Builders, Building, Parents
<1>4. p # slot[p] /\ slot[p] # initialProcess /\ pc[slot[p]] = "none"
  BY <1>2, <1>3 DEF IInv, Initial, Alive, Threads, Dead
<1>5. /\ \A r \in Procs : pc'[r] = IF r = p \/ r = slot[p] THEN "return" ELSE pc[r]
      /\ \A r \in Procs : state'[r] = IF r = slot[p] THEN "runnable" ELSE state[r]
  BY <1>1, <1>3, <1>4 DEF forkSetRunnable, TypeOK
<1>6. Threads'
  BY <1>2, <1>5 DEF IInv, Threads
<1>7. Holder'
  BY <1>2, <1>4, <1>5 DEF IInv, Holder, Holding
<1>8. Builders'
  BY <1>2, <1>5 DEF IInv, Builders, Building
<1>9. Parents'
  BY <1>2, <1>4, <1>5 DEF IInv, Parents
<1>10. Initial'
  BY <1>5, Slots DEF IInv, Initial, Alive
<1>11. NoOrphan'
  BY <1>2, <1>3, <1>5 DEF IInv, NoOrphan, Alive
<1>12. Exiting'
  BY <1>2, <1>5 DEF IInv, Exiting
<1>13. Zombies'
  BY <1>2, <1>5 DEF IInv, Zombies
<1> QED
  BY <1>1, <1>6, <1>7, <1>8, <1>9, <1>10, <1>11, <1>12, <1>13 DEF IInv
-----------------------------------------------------------------------------
(* exit and wait.                                                           *)

LEMMA ExitStep ==
  ASSUME IInv, NEW p \in Procs, exit(p)
  PROVE  IInv'
<1>1. TypeOK' /\ TypeOK
  BY TypeStep DEF KernelStep, IInv
<1>2. /\ state[p] = "runnable" /\ pc[p] = "exit" /\ waitLock = NoProc /\ p # initialProcess
      /\ state' = state /\ parent' = parent /\ waitLock' = p
  BY DEF exit, At, TakeWaitLock, table
<1>3. /\ \A r \in Procs : pc'[r] = IF r = p THEN "reparent" ELSE pc[r]
      /\ \A r \in Procs : slot'[r] = IF r = p THEN 1 ELSE slot[r]
  BY <1>1 DEF exit, Goto, TypeOK
<1>4. Threads'
  BY <1>2, <1>3 DEF IInv, Threads
<1>5. Holder'
  BY <1>2, <1>3, Slots DEF IInv, Holder, Holding
<1>6. Builders'
  BY <1>2, <1>3 DEF IInv, Builders, Building
<1>7. Parents'
  BY <1>2, <1>3 DEF IInv, Parents
<1>8. Initial'
  BY <1>2, <1>3, Slots DEF IInv, Initial
<1>9. NoOrphan'
  BY <1>2 DEF IInv, NoOrphan
<1>10. Exiting'
  BY <1>2, <1>3, Slots DEF IInv, Exiting
<1>11. Zombies'
  BY <1>2, <1>3 DEF IInv, Zombies
<1> QED
  BY <1>1, <1>4, <1>5, <1>6, <1>7, <1>8, <1>9, <1>10, <1>11 DEF IInv

LEMMA WaitStep ==
  ASSUME IInv, NEW p \in Procs, wait(p)
  PROVE  IInv'
<1>1. TypeOK' /\ TypeOK
  BY TypeStep DEF KernelStep, IInv
<1>2. /\ state[p] = "runnable" /\ pc[p] \in {"wait", "asleep"} /\ waitLock = NoProc
      /\ state' = state /\ parent' = parent /\ waitLock' = p
  BY DEF wait, At, TakeWaitLock, table
<1>3. /\ \A r \in Procs : pc'[r] = IF r = p THEN "waitScan" ELSE pc[r]
      /\ \A r \in Procs : slot'[r] = IF r = p THEN 1 ELSE slot[r]
  BY <1>1 DEF wait, Goto, TypeOK
<1>4. Threads'
  BY <1>2, <1>3 DEF IInv, Threads
<1>5. Holder'
  BY <1>2, <1>3, Slots DEF IInv, Holder, Holding
<1>6. Builders'
  BY <1>2, <1>3 DEF IInv, Builders, Building
<1>7. Parents'
  BY <1>2, <1>3 DEF IInv, Parents
<1>8. Initial'
  BY <1>2, <1>3, Slots DEF IInv, Initial
<1>9. NoOrphan'
  BY <1>2 DEF IInv, NoOrphan
<1>10. Exiting'
  BY <1>2, <1>3 DEF IInv, Exiting
<1>11. Zombies'
  BY <1>2, <1>3, Slots DEF IInv, Zombies
<1> QED
  BY <1>1, <1>4, <1>5, <1>6, <1>7, <1>8, <1>9, <1>10, <1>11 DEF IInv
\* A scan moves on by one slot, in exit or in wait.
LEMMA ScanStep ==
  ASSUME IInv, TypeOK', NEW p \in Procs, state[p] = "runnable",
         pc[p] \in {"reparent", "waitScan"},
         slot[p] \in Procs,
         slot' = [slot EXCEPT ![p] = slot[p] + 1],
         UNCHANGED <<state, parent, waitLock, pc>>,
         pc[p] = "reparent" => parent[slot[p]] # p,
         pc[p] = "waitScan" /\ parent[slot[p]] = p => state[slot[p]] # "zombie"
  PROVE  IInv'
<1>1. TypeOK
  BY DEF IInv
<1>2. \A r \in Procs : slot'[r] = IF r = p THEN slot[p] + 1 ELSE slot[r]
  BY <1>1 DEF TypeOK
<1>3. \A q \in Procs : q < slot[p] + 1 => q < slot[p] \/ q = slot[p]
  BY Slots
<1>4. Threads'
  BY DEF IInv, Threads
<1>5. Holder'
  BY DEF IInv, Holder
<1>6. Builders'
  BY DEF IInv, Builders, Building
<1>7. Parents'
  BY DEF IInv, Parents
<1>8. Initial'
  BY DEF IInv, Initial
<1>9. NoOrphan'
  BY DEF IInv, NoOrphan
<1>10. Exiting'
  BY Slots DEF IInv, Exiting
<1>11. Zombies'
  BY Slots DEF IInv, Zombies
<1> QED
  BY <1>4, <1>5, <1>6, <1>7, <1>8, <1>9, <1>10, <1>11 DEF IInv

\* wait returns without a change to the table.
LEMMA ReturnStep ==
  ASSUME IInv, TypeOK', NEW p \in Procs, state[p] = "runnable",
         pc[p] = "waitScan",
         pc' = [pc EXCEPT ![p] = "return"],
         waitLock' = NoProc,
         UNCHANGED <<state, parent, slot>>
  PROVE  IInv'
<1>1. TypeOK
  BY DEF IInv
<1>2. \A r \in Procs : pc'[r] = IF r = p THEN "return" ELSE pc[r]
  BY <1>1 DEF TypeOK
<1>3. \A r \in Procs : pc[r] \in Holding => r = p
  BY DEF IInv, Holder, Holding
<1>4. Threads'
  BY DEF IInv, Threads
<1>5. Holder'
  BY <1>2, Slots DEF IInv, Holder, Holding
<1>6. Builders'
  BY DEF IInv, Builders, Building
<1>7. Parents'
  BY DEF IInv, Parents
<1>8. Initial'
  BY DEF IInv, Initial
<1>9. NoOrphan'
  BY DEF IInv, NoOrphan
<1>10. Exiting'
  BY DEF IInv, Exiting
<1>11. Zombies'
  BY DEF IInv, Zombies
<1> QED
  BY <1>4, <1>5, <1>6, <1>7, <1>8, <1>9, <1>10, <1>11 DEF IInv

\* wait frees the slot of a zombie child.
LEMMA ReapStep ==
  ASSUME IInv, TypeOK', NEW p \in Procs, state[p] = "runnable",
         pc[p] = "waitScan",
         pc' = [pc EXCEPT ![p] = "return"],
         waitLock' = NoProc,
         slot' = slot,
         NEW q \in Procs,
         parent[q] = p,
         state[q] = "zombie",
         state' = [state EXCEPT ![q] = "unused"],
         parent' = [parent EXCEPT ![q] = NoProc]
  PROVE  IInv'
<1>1. TypeOK
  BY DEF IInv
<1>2. /\ \A r \in Procs : pc'[r] = IF r = p THEN "return" ELSE pc[r]
      /\ \A r \in Procs : state'[r] = IF r = q THEN "unused" ELSE state[r]
      /\ \A r \in Procs : parent'[r] = IF r = q THEN NoProc ELSE parent[r]
  BY <1>1 DEF TypeOK
<1>3. \A r \in Procs : pc[r] \in Holding => r = p
  BY DEF IInv, Holder, Holding
<1>4. p # q /\ q # initialProcess /\ pc[q] = "none"
  BY DEF IInv, Initial, Alive, Threads, Dead
<1>5. Threads'
  BY DEF IInv, Threads, Dead
<1>6. Holder'
  BY <1>2, Slots DEF IInv, Holder, Holding
<1>7. Builders'
  BY DEF IInv, Builders, Building
<1>8. Parents'
  BY <1>2 DEF IInv, Parents
<1>9. Initial'
  BY DEF IInv, Initial, Alive
<1>10. NoOrphan'
  BY <1>2 DEF IInv, NoOrphan, Alive
<1>11. Exiting'
  BY Slots DEF IInv, Exiting
<1>12. Zombies'
  BY Slots DEF IInv, Zombies
<1> QED
  BY <1>5, <1>6, <1>7, <1>8, <1>9, <1>10, <1>11, <1>12 DEF IInv

LEMMA WaitScanStep ==
  ASSUME IInv, NEW p \in Procs, waitScan(p)
  PROVE  IInv'
<1>1. TypeOK' /\ TypeOK
  BY TypeStep DEF KernelStep, IInv
<1>2. state[p] = "runnable" /\ pc[p] = "waitScan" /\ slot[p] \in Procs
  BY DEF waitScan, At
<1>3. CASE /\ slot' = [slot EXCEPT ![p] = slot[p] + 1]
           /\ UNCHANGED <<table, waitLock, pc>>
           /\ parent[slot[p]] # p \/ state[slot[p]] # "zombie"
  BY <1>1, <1>2, <1>3, ScanStep DEF table
<1>4. CASE UNCHANGED <<table, slot>> /\ waitLock' = NoProc /\ Goto(p, "return")
  BY <1>1, <1>2, <1>4, ReturnStep DEF table, Goto
<1>5. CASE /\ Freed(slot[p]) /\ parent[slot[p]] = p /\ state[slot[p]] = "zombie"
           /\ slot' = slot /\ waitLock' = NoProc /\ Goto(p, "return")
  BY <1>1, <1>2, <1>5, ReapStep DEF Freed, Goto
<1> QED
  BY <1>3, <1>4, <1>5 DEF waitScan

\* wait found no zombie and is going to sleep.
LEMMA ToSleepStep ==
  ASSUME IInv, TypeOK', NEW p \in Procs, state[p] = "runnable",
         pc[p] = "waitScan",
         ~(slot[p] \in Procs),
         pc' = [pc EXCEPT ![p] = "waitSleep"],
         UNCHANGED <<state, parent, slot, waitLock>>
  PROVE  IInv'
<1>1. TypeOK
  BY DEF IInv
<1>2. \A r \in Procs : pc'[r] = IF r = p THEN "waitSleep" ELSE pc[r]
  BY <1>1 DEF TypeOK
<1>3. \A q \in Procs : q < slot[p]
  BY <1>1, Slots DEF TypeOK
<1>4. Threads'
  BY DEF IInv, Threads
<1>5. Holder'
  BY DEF IInv, Holder, Holding
<1>6. Builders'
  BY DEF IInv, Builders, Building
<1>7. Parents'
  BY DEF IInv, Parents
<1>8. Initial'
  BY DEF IInv, Initial
<1>9. NoOrphan'
  BY DEF IInv, NoOrphan
<1>10. Exiting'
  BY DEF IInv, Exiting
<1>11. Zombies'
  BY <1>3 DEF IInv, Zombies
<1> QED
  BY <1>4, <1>5, <1>6, <1>7, <1>8, <1>9, <1>10, <1>11 DEF IInv

LEMMA WaitCheckStep ==
  ASSUME IInv, NEW p \in Procs, waitCheck(p)
  PROVE  IInv'
<1>1. TypeOK' /\ TypeOK
  BY TypeStep DEF KernelStep, IInv
<1>2. /\ state[p] = "runnable" /\ pc[p] = "waitScan" /\ ~(slot[p] \in Procs)
      /\ UNCHANGED <<state, parent, slot>>
  BY <1>1, ProcessAssumption DEF waitCheck, At, table, Procs, TypeOK
<1>3. CASE waitLock' = NoProc /\ Goto(p, "return")
  BY <1>1, <1>2, <1>3, ReturnStep DEF Goto
<1>4. CASE UNCHANGED waitLock /\ Goto(p, "waitSleep")
  BY <1>1, <1>2, <1>4, ToSleepStep DEF Goto
<1> QED
  BY <1>3, <1>4 DEF waitCheck

\* The process sleeps and gives up waitLock: no child is a zombie, and none is
\* about to become one, because that takes waitLock.
LEMMA WaitSleepStep ==
  ASSUME IInv, NEW p \in Procs, waitSleep(p)
  PROVE  IInv'
<1>1. TypeOK' /\ TypeOK
  BY TypeStep DEF KernelStep, IInv
<1>2. /\ state[p] = "runnable" /\ pc[p] = "waitSleep" /\ waitLock' = NoProc
      /\ parent' = parent /\ slot' = slot
  BY DEF waitSleep, At
<1>3. /\ \A r \in Procs : pc'[r] = IF r = p THEN "asleep" ELSE pc[r]
      /\ \A r \in Procs : state'[r] = IF r = p THEN "sleeping" ELSE state[r]
  BY <1>1 DEF waitSleep, Goto, TypeOK
<1>4. \A r \in Procs : pc[r] \in Holding => r = p
  BY <1>2 DEF IInv, Holder, Holding
<1>5. Threads'
  BY <1>3 DEF IInv, Threads, Dead
<1>6. Holder'
  BY <1>2, <1>3, Slots DEF IInv, Holder, Holding
<1>7. Builders'
  BY <1>2, <1>3 DEF IInv, Builders, Building
<1>8. Parents'
  BY <1>2, <1>3 DEF IInv, Parents
<1>9. Initial'
  BY <1>3, Slots DEF IInv, Initial, Alive
<1>10. NoOrphan'
  BY <1>2, <1>3 DEF IInv, NoOrphan, Alive
<1>11. Exiting'
  BY <1>2, <1>3 DEF IInv, Exiting
<1>12. Zombies'
  BY <1>2, <1>3, <1>4 DEF IInv, Zombies, Holding
<1> QED
  BY <1>1, <1>5, <1>6, <1>7, <1>8, <1>9, <1>10, <1>11, <1>12 DEF IInv

\* All children have been given away.
LEMMA GivenAwayStep ==
  ASSUME IInv, TypeOK', NEW p \in Procs, state[p] = "runnable",
         pc[p] = "reparent",
         ~(slot[p] \in Procs),
         pc' = [pc EXCEPT ![p] = "exitWakeup"],
         UNCHANGED <<state, parent, slot, waitLock>>
  PROVE  IInv'
<1>1. TypeOK
  BY DEF IInv
<1>2. \A r \in Procs : pc'[r] = IF r = p THEN "exitWakeup" ELSE pc[r]
  BY <1>1 DEF TypeOK
<1>3. \A q \in Procs : q < slot[p]
  BY <1>1, Slots DEF TypeOK
<1>4. p # initialProcess
  BY DEF IInv, Initial
<1>5. Threads'
  BY DEF IInv, Threads
<1>6. Holder'
  BY DEF IInv, Holder, Holding
<1>7. Builders'
  BY DEF IInv, Builders, Building
<1>8. Parents'
  BY DEF IInv, Parents
<1>9. Initial'
  BY DEF IInv, Initial
<1>10. NoOrphan'
  BY DEF IInv, NoOrphan
<1>11. Exiting'
  BY <1>3 DEF IInv, Exiting
<1>12. Zombies'
  BY DEF IInv, Zombies
<1> QED
  BY <1>5, <1>6, <1>7, <1>8, <1>9, <1>10, <1>11, <1>12 DEF IInv

\* A child is given to init, and init is woken.
LEMMA AdoptStep ==
  ASSUME IInv, TypeOK', NEW p \in Procs, state[p] = "runnable",
         pc[p] = "reparent",
         slot[p] \in Procs,
         parent[slot[p]] = p,
         parent' = [parent EXCEPT ![slot[p]] = initialProcess],
         state' = Woken(state, initialProcess),
         slot' = [slot EXCEPT ![p] = slot[p] + 1],
         UNCHANGED <<waitLock, pc>>
  PROVE  IInv'
<1>1. TypeOK
  BY DEF IInv
<1>2. /\ \A r \in Procs : slot'[r] = IF r = p THEN slot[p] + 1 ELSE slot[r]
      /\ \A r \in Procs : parent'[r] = IF r = slot[p] THEN initialProcess ELSE parent[r]
  BY <1>1 DEF TypeOK
<1>3. /\ \A r \in Procs : r # initialProcess => state'[r] = state[r]
      /\ state'[initialProcess] = "runnable"
      /\ state[initialProcess] \in Alive
  BY WokenType, Slots DEF IInv, Initial, Alive
<1>4. \A r \in Procs : pc[r] \in Holding => r = p
  BY DEF IInv, Holder, Holding
<1>5. p # initialProcess
  BY DEF IInv, Initial
<1>6. \A q \in Procs : q < slot[p] + 1 => q < slot[p] \/ q = slot[p]
  BY Slots
<1>7. slot[p] # initialProcess /\ state[slot[p]] \notin {"unused", "used"}
  BY Slots DEF IInv, Parents
<1>8. Threads'
  BY <1>3 DEF IInv, Threads, Alive
<1>9. Holder'
  BY DEF IInv, Holder
<1>10. Builders'
  BY <1>3 DEF IInv, Builders, Building, Alive
<1>11. Parents'
  BY <1>3, Slots DEF IInv, Parents
<1>12. Initial'
  BY <1>3 DEF IInv, Initial, Alive
<1>13. NoOrphan'
  BY <1>3, Slots DEF IInv, NoOrphan, Alive
<1>14. Exiting'
  BY <1>2, <1>4, <1>5, Slots DEF IInv, Exiting, Holding
<1>15. Zombies'
  BY <1>3, <1>4 DEF IInv, Zombies, Holding
<1> QED
  BY <1>8, <1>9, <1>10, <1>11, <1>12, <1>13, <1>14, <1>15 DEF IInv

LEMMA ReparentStep ==
  ASSUME IInv, NEW p \in Procs, reparentChildren(p)
  PROVE  IInv'
<1>1. TypeOK' /\ TypeOK
  BY TypeStep DEF KernelStep, IInv
<1>2. state[p] = "runnable" /\ pc[p] = "reparent" /\ UNCHANGED waitLock
  BY DEF reparentChildren, At
<1>3. CASE slot[p] > NProc /\ Goto(p, "exitWakeup") /\ UNCHANGED <<state, parent, slot>>
  <2>1. ~(slot[p] \in Procs)
    BY <1>1, <1>3, ProcessAssumption DEF TypeOK, Procs
  <2> QED
    BY <1>1, <1>2, <1>3, <2>1, GivenAwayStep DEF Goto
<1>4. CASE /\ slot[p] \in Procs /\ ~Adopts(p, slot[p])
           /\ slot' = [slot EXCEPT ![p] = slot[p] + 1] /\ UNCHANGED <<state, parent, pc>>
  BY <1>1, <1>2, <1>4, ScanStep DEF Adopts
<1>5. CASE /\ slot[p] \in Procs /\ Adopts(p, slot[p])
           /\ parent' = [parent EXCEPT ![slot[p]] = initialProcess]
           /\ state' = Woken(state, initialProcess)
           /\ slot' = [slot EXCEPT ![p] = slot[p] + 1] /\ UNCHANGED pc
  BY <1>1, <1>2, <1>5, AdoptStep DEF Adopts
<1> QED
  BY <1>3, <1>4, <1>5 DEF reparentChildren

\* The parent is woken, and cannot sleep again before the exiting process has
\* released waitLock.
LEMMA ExitWakeupStep ==
  ASSUME IInv, NEW p \in Procs, exitWakeup(p)
  PROVE  IInv'
<1>1. TypeOK' /\ TypeOK
  BY TypeStep DEF KernelStep, IInv
<1>2. /\ state[p] = "runnable" /\ pc[p] = "exitWakeup"
      /\ parent' = parent /\ slot' = slot /\ waitLock' = waitLock /\ state' = Woken(state, parent[p])
  BY DEF exitWakeup, At
<1>3. \A r \in Procs : pc'[r] = IF r = p THEN "zombie" ELSE pc[r]
  BY <1>1 DEF exitWakeup, Goto, TypeOK
<1>4. parent[p] \in Procs /\ state[parent[p]] \in Alive
  BY <1>2 DEF IInv, NoOrphan, Alive, Initial
<1>5. \A r \in Procs : state'[r] = IF r = parent[p] THEN "runnable" ELSE state[r]
  BY <1>1, <1>2, <1>4, WokenType DEF TypeOK, Alive
<1>6. p # initialProcess
  BY <1>2 DEF IInv, Initial
<1>7. \A r \in Procs : pc[r] \in Holding => r = p
  BY <1>2 DEF IInv, Holder, Holding
<1>8. Threads'
  BY <1>2, <1>3, <1>4, <1>5 DEF IInv, Threads, Alive
<1>9. Holder'
  BY <1>2, <1>3 DEF IInv, Holder, Holding
<1>10. Builders'
  BY <1>2, <1>3, <1>4, <1>5 DEF IInv, Builders, Building, Alive
<1>11. Parents'
  BY <1>2, <1>3, <1>5 DEF IInv, Parents
<1>12. Initial'
  BY <1>3, <1>5, <1>6, Slots DEF IInv, Initial, Alive
<1>13. NoOrphan'
  BY <1>2, <1>5, <1>6 DEF IInv, NoOrphan, Alive
<1>14. Exiting'
  BY <1>2, <1>3 DEF IInv, Exiting
<1>15. Zombies'
  BY <1>2, <1>3, <1>5 DEF IInv, Zombies
<1> QED
  BY <1>1, <1>8, <1>9, <1>10, <1>11, <1>12, <1>13, <1>14, <1>15 DEF IInv

\* The process is a zombie; it has no children and its parent is awake.
LEMMA ExitZombieStep ==
  ASSUME IInv, NEW p \in Procs, exitZombie(p)
  PROVE  IInv'
<1>1. TypeOK' /\ TypeOK
  BY TypeStep DEF KernelStep, IInv
<1>2. /\ state[p] = "runnable" /\ pc[p] = "zombie" /\ waitLock' = NoProc
      /\ parent' = parent /\ slot' = slot
  BY DEF exitZombie, At
<1>3. /\ \A r \in Procs : pc'[r] = IF r = p THEN "none" ELSE pc[r]
      /\ \A r \in Procs : state'[r] = IF r = p THEN "zombie" ELSE state[r]
  BY <1>1 DEF exitZombie, Goto, TypeOK
<1>4. p # initialProcess
  BY <1>2 DEF IInv, Initial
<1>5. \A r \in Procs : pc[r] \in Holding => r = p
  BY <1>2 DEF IInv, Holder, Holding
<1>6. \A q \in Procs : parent[q] # p
  BY <1>2 DEF IInv, Exiting
<1>7. Threads'
  BY <1>3 DEF IInv, Threads, Dead
<1>8. Holder'
  BY <1>2, <1>3, Slots DEF IInv, Holder, Holding
<1>9. Builders'
  BY <1>2, <1>3 DEF IInv, Builders, Building
<1>10. Parents'
  BY <1>2, <1>3 DEF IInv, Parents
<1>11. Initial'
  BY <1>3, <1>4, Slots DEF IInv, Initial
<1>12. NoOrphan'
  BY <1>2, <1>3, <1>6 DEF IInv, NoOrphan, Alive
<1>13. Exiting'
  BY <1>2, <1>3 DEF IInv, Exiting
<1>14. Zombies'
  BY <1>2, <1>3, <1>5 DEF IInv, Zombies, Holding
<1> QED
  BY <1>1, <1>7, <1>8, <1>9, <1>10, <1>11, <1>12, <1>13, <1>14 DEF IInv

-----------------------------------------------------------------------------
LEMMA NextInv == IInv /\ [Next]_vars => IInv'
<1> SUFFICES ASSUME IInv, [Next]_vars PROVE IInv'
  OBVIOUS
<1>1. CASE UNCHANGED vars
  <2>1. UNCHANGED <<state, pid, killed, parent, waitLock, nextPid, pc, slot, haveKids, target, victims>>
    BY <1>1 DEF vars, table, locals
  <2> QED
    BY <2>1 DEF IInv, TypeOK, Threads, Holder, Builders, Parents, Initial, NoOrphan, Exiting, Zombies
<1>2. CASE Next
  <2>1. PICK p \in Procs : syscall(p) \/ userFault(p) \/ KernelStep(p)
    BY <1>2 DEF Next
  <2> QED
    BY <2>1, CallStep, AllocStep, FreeUnlockedStep, SetParentStep, SetRunnableStep, ExitStep,
       ReparentStep, ExitWakeupStep, ExitZombieStep, WaitStep, WaitScanStep, WaitCheckStep,
       WaitSleepStep DEF KernelStep
<1> QED
  BY <1>1, <1>2

LEMMA Invariant == Spec => []IInv
BY InitInv, NextInv, PTL DEF Spec

\* The table keeps its type: slots, pids and places of scans stay in range
\* (process.zig:112-148).
THEOREM TypeCorrect == Spec => []TypeOK
<1>1. IInv => TypeOK
  BY DEF IInv
<1> QED
  BY <1>1, Invariant, PTL

\* Every process that was made runnable has a parent that is not dead: exit
\* gives all children to init under waitLock before it becomes a zombie, fork
\* sets the parent under waitLock before the child can run, and init does not
\* exit (process.zig:358-372, 377-386, 394, 420).
THEOREM NobodyIsOrphaned == Spec => []NoOrphan
<1>1. IInv => NoOrphan
  BY DEF IInv
<1> QED
  BY <1>1, Invariant, PTL

\* Nobody sleeps in wait while one of its children is a zombie, whatever other
\* processes exit, fork, kill or are adopted meanwhile (process.zig:412-425, 465).
THEOREM WaitMissesNoChild == Spec => []NoMissedChild
<1>1. IInv => NoMissedChild
  BY DEF IInv, Zombies, NoMissedChild
<1> QED
  BY <1>1, Invariant, PTL
=============================================================================
