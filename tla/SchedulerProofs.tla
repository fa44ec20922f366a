-------------------------- MODULE SchedulerProofs --------------------------
(***************************************************************************)
(* Proofs about scheduler.zig for every number of CPUs and processes:      *)
(* no two CPUs run on one kernel stack, no wakeup is lost, and a thread    *)
(* keeps its interrupt setting wherever it runs.                           *)
(***************************************************************************)
EXTENDS Scheduler, TLAPS

\* The steps at which a thread holds its own process lock.
Locked == {"new", "yield", "yielded", "locked", "released", "asleep", "tidy"}

\* A CPU has picked a process only between loopScan and loopBack; while the
\* process is switched out, the CPU holds its lock.
Switching ==
  \A c \in CPUs :
    /\ spc[c] = "scan" => stack[c] = NoProc /\ running[c] = NoProc
    /\ spc[c] = "switch" =>
         /\ stack[c] = NoProc /\ running[c] = NoProc
         /\ slot[c] \in Procs /\ plock[slot[c]] = c /\ state[slot[c]] = "runnable"
    /\ spc[c] = "back" => slot[c] \in Procs /\ running[c] = slot[c] /\ stack[c] \in {slot[c], NoProc}
    /\ spc[c] = "back" /\ stack[c] = NoProc =>
         plock[slot[c]] = c /\ state[slot[c]] # "running"

\* Two CPUs never deal with the same process.
OneOwner ==
  \A c, d \in CPUs : spc[c] # "scan" /\ spc[d] # "scan" /\ slot[c] = slot[d] => c = d

\* A process lock is held by the CPU that deals with the process.
Locks == \A c \in CPUs, p \in Procs : plock[p] = c => spc[c] # "scan" /\ slot[c] = p

\* A thread that executes holds its process lock at the steps that say so, and
\* its process is running unless it is about to switch away.
Executing ==
  \A c \in CPUs, p \in Procs : stack[c] = p =>
    /\ pc[p] \in Locked <=> plock[p] = c
    /\ state[p] = IF pc[p] = "yield" THEN "runnable"
                  ELSE IF pc[p] = "asleep" THEN "sleeping" ELSE "running"

\* A thread that does not execute has left its stack in switchToScheduler, or
\* has never run.
Resting ==
  \A p \in Procs : (\A c \in CPUs : stack[c] # p) =>
    state[p] # "running" /\ pc[p] \in {"new", "yielded", "tidy"}

Asleep ==
  \A p \in Procs :
    /\ asleepOn[p] <=> pc[p] \in {"asleep", "tidy"}
    /\ state[p] = "sleeping" => pc[p] \in {"asleep", "tidy"}

\* A wakeup runs on top of a thread outside all locks, or of the scheduler's
\* scan; a wakeup that no handler runs is the thread's own.
Handlers ==
  \A c \in CPUs : wpc[c] # "none" =>
    /\ stack[c] = NoProc => spc[c] = "scan" /\ wirq[c]
    /\ \A p \in Procs : stack[c] = p =>
         pc[p] = "kernel" \/ (pc[p] = "woken" /\ wirq[c])

\* Who holds the condition lock.
Condition ==
  \A c \in CPUs :
    /\ \A p \in Procs : stack[c] = p /\ pc[p] \in {"check", "locked"} => lk = c
    /\ lk = c => \/ wpc[c] = "scan"
                 \/ \E p \in Procs : stack[c] = p /\ pc[p] \in {"check", "locked"}

\* The locks that a thread holds at step s.
ThreadDepth(s) == IF s \in {"kernel", "woken", "preempted"} THEN 0
                  ELSE IF s = "locked" THEN 2 ELSE 1

\* The locks that CPU c holds, the wakeup on it left aside.
Base(c) == IF stack[c] # NoProc THEN ThreadDepth(pc[stack[c]])
           ELSE IF spc[c] = "scan" THEN 0 ELSE 1

\* pushDepth counts the locks a CPU holds, and with a lock no interrupt comes.
Depth ==
  \A c \in CPUs :
    /\ cpu[c].depth = IF wpc[c] = "scan" /\ lk = c THEN Base(c) + 1 ELSE Base(c)
    /\ cpu[c].depth # 0 => ~cpu[c].intr

\* Where the setting that a thread chose is kept: in sstatus, in
\* interruptsEnabled of the CPU, in a local of switchToScheduler, or, across a
\* timer interrupt, in the fact that the interrupt happened.
Settings ==
  /\ \A c \in CPUs, p \in Procs : stack[c] = p =>
       /\ pc[p] \in {"kernel", "woken"} =>
            IF wpc[c] # "none" /\ wirq[c]
            THEN asked[p] /\ ~cpu[c].intr /\ (wpc[c] = "scan" /\ lk = c => ~cpu[c].intena)
            ELSE IF wpc[c] = "scan" /\ lk = c THEN cpu[c].intena <=> asked[p]
                                              ELSE cpu[c].intr <=> asked[p]
       /\ pc[p] = "preempted" => asked[p] /\ ~cpu[c].intr /\ after[p] # "call"
       /\ pc[p] \in {"check", "locked", "released", "asleep", "tidy"} =>
            (cpu[c].intena <=> asked[p])
       /\ pc[p] \in {"yield", "yielded"} => ~cpu[c].intena
  /\ \A p \in Procs :
       /\ pc[p] \in {"yield", "yielded"} => (asked[p] <=> after[p] # "call")
       /\ pc[p] = "tidy" => (saved[p] <=> asked[p])
       /\ pc[p] = "yielded" => ~saved[p]

IInv == /\ TypeOK /\ panic = "none" /\ Switching /\ OneOwner /\ Locks /\ Executing
        /\ Resting /\ Asleep /\ Handlers /\ Condition /\ Depth /\ Settings

\* Processes a wakeup must still come to: those asleep, and those that hold
\* their lock to go to sleep.
Waiting(p) == pc[p] \in {"locked", "released"} \/ Sleeper(p)

Covered ==
  \A p \in Procs : Waiting(p) /\ event =>
    \E c \in CPUs : wpc[c] = "scan" /\ wslot[c] <= p
-----------------------------------------------------------------------------
(* Interrupt state.                                                         *)

CpuType == [depth : 0 .. 3, intena : BOOLEAN, intr : BOOLEAN]

LEMMA PushFacts ==
  ASSUME TypeOK, NEW c \in CPUs, Pushed(c), cpu[c].depth \in 0 .. 2
  PROVE  /\ cpu' \in [CPUs -> CpuType]
         /\ \A d \in CPUs : d # c => cpu'[d] = cpu[d]
         /\ cpu'[c].depth = cpu[c].depth + 1
         /\ ~cpu'[c].intr
         /\ cpu[c].depth = 0 => (cpu'[c].intena <=> cpu[c].intr)
         /\ cpu[c].depth # 0 => (cpu'[c].intena <=> cpu[c].intena)
<1>1. cpu \in [CPUs -> CpuType]
  BY DEF TypeOK, CpuType
<1>2. cpu[c] \in CpuType
  BY <1>1
<1>3. PushOff(cpu[c]) \in CpuType
  BY <1>2 DEF PushOff, CpuType
<1>4. cpu' = [cpu EXCEPT ![c] = PushOff(cpu[c])]
  BY DEF Pushed
<1>5. cpu' \in [CPUs -> CpuType] /\ cpu'[c] = PushOff(cpu[c])
  BY <1>1, <1>3, <1>4
<1>6. \A d \in CPUs : d # c => cpu'[d] = cpu[d]
  BY <1>1, <1>4
<1> QED
  BY <1>2, <1>5, <1>6 DEF PushOff, CpuType

LEMMA PopFacts ==
  ASSUME TypeOK, NEW c \in CPUs, Popped(c), cpu[c].depth \in 1 .. 3
  PROVE  /\ cpu' \in [CPUs -> CpuType]
         /\ \A d \in CPUs : d # c => cpu'[d] = cpu[d]
         /\ cpu'[c].depth = cpu[c].depth - 1
         /\ cpu'[c].intena <=> cpu[c].intena
         /\ cpu'[c].intr <=> cpu[c].depth = 1 /\ cpu[c].intena
<1>1. cpu \in [CPUs -> CpuType]
  BY DEF TypeOK, CpuType
<1>2. cpu[c] \in CpuType
  BY <1>1
<1>3. PopOff(cpu[c]) \in CpuType
  <2>1. (cpu[c].depth = 1 /\ cpu[c].intena) \in BOOLEAN
    OBVIOUS
  <2>2. cpu[c].depth - 1 \in 0 .. 3
    BY <1>2 DEF CpuType
  <2> DEFINE b == cpu[c].depth = 1 /\ cpu[c].intena
  <2>3. PopOff(cpu[c]) = [[cpu[c] EXCEPT !.depth = cpu[c].depth - 1] EXCEPT !.intr = b]
    BY <1>2 DEF PopOff, CpuType
  <2> HIDE DEF b
  <2>4. b \in BOOLEAN
    BY <2>1 DEF b
  <2> QED
    BY <1>2, <2>2, <2>3, <2>4 DEF CpuType
<1>4. cpu' = [cpu EXCEPT ![c] = PopOff(cpu[c])]
  BY DEF Popped
<1>5. cpu' \in [CPUs -> CpuType] /\ cpu'[c] = PopOff(cpu[c])
  BY <1>1, <1>3, <1>4
<1>6. \A d \in CPUs : d # c => cpu'[d] = cpu[d]
  BY <1>1, <1>4
<1> QED
  BY <1>2, <1>5, <1>6 DEF PopOff, CpuType

\* The interrupt setting alone.
LEMMA SetFacts ==
  ASSUME TypeOK, NEW c \in CPUs, NEW b \in BOOLEAN, cpu' = [cpu EXCEPT ![c].intr = b]
  PROVE  /\ cpu' \in [CPUs -> CpuType]
         /\ \A d \in CPUs : d # c => cpu'[d] = cpu[d]
         /\ cpu'[c].depth = cpu[c].depth
         /\ cpu'[c].intena <=> cpu[c].intena
         /\ cpu'[c].intr <=> b
<1>1. cpu \in [CPUs -> CpuType]
  BY DEF TypeOK, CpuType
<1>2. cpu[c] \in CpuType
  BY <1>1
<1>3. [cpu[c] EXCEPT !.intr = b] \in CpuType
  BY <1>2 DEF CpuType
<1>4. cpu' = [cpu EXCEPT ![c] = [cpu[c] EXCEPT !.intr = b]]
  OBVIOUS
<1>5. cpu' \in [CPUs -> CpuType] /\ cpu'[c] = [cpu[c] EXCEPT !.intr = b]
  BY <1>1, <1>3, <1>4
<1>6. \A d \in CPUs : d # c => cpu'[d] = cpu[d]
  BY <1>1, <1>4
<1> QED
  BY <1>2, <1>5, <1>6 DEF CpuType

-----------------------------------------------------------------------------
LEMMA InitInv == Init => IInv /\ Covered
<1> SUFFICES ASSUME Init PROVE IInv /\ Covered
  OBVIOUS
<1>1. NoCPU \notin CPUs /\ NoProc \notin Procs /\ 1 \in 1 .. NProc + 1
  BY SchedulerAssumption DEF Procs
<1>2. /\ cpu \in [CPUs -> [depth : 0 .. 3, intena : BOOLEAN, intr : BOOLEAN]]
      /\ \A c \in CPUs : cpu[c].depth = 0
  BY DEF Init
<1>3. TypeOK
  BY <1>1, <1>2 DEF Init, TypeOK, ThreadSteps
<1>4. Switching /\ OneOwner /\ Locks /\ Executing /\ Resting /\ Asleep
  BY <1>1 DEF Init, Switching, OneOwner, Locks, Executing, Resting, Asleep
<1>5. Handlers /\ Condition /\ Settings
  BY <1>1 DEF Init, Handlers, Condition, Settings
<1>6. Depth
  BY <1>1, <1>2 DEF Init, Depth, Base
<1>7. Covered
  BY DEF Init, Covered
<1> QED
  BY <1>3, <1>4, <1>5, <1>6, <1>7 DEF IInv, Init

-----------------------------------------------------------------------------
(* Who deals with which process.                                            *)

\* A CPU that executes a thread deals with its process, and no other CPU does.
LEMMA Owner ==
  ASSUME IInv, NEW c \in CPUs, NEW p \in Procs, stack[c] = p
  PROVE  /\ spc[c] = "back" /\ slot[c] = p /\ running[c] = p /\ p # NoProc /\ c # NoCPU
         /\ \A d \in CPUs : (spc[d] # "scan" /\ slot[d] = p) \/ stack[d] = p \/ plock[p] = d => d = c
<1>1. NoCPU \notin CPUs /\ NoProc \notin Procs
  BY SchedulerAssumption DEF Procs
<1>2. spc[c] \in {"scan", "switch", "back"}
  BY DEF IInv, TypeOK
<1>3. spc[c] = "back" /\ slot[c] = p /\ running[c] = p
  BY <1>1, <1>2 DEF IInv, Switching
<1>4. ASSUME NEW d \in CPUs, stack[d] = p PROVE spc[d] # "scan" /\ slot[d] = p
  <2>1. spc[d] \in {"scan", "switch", "back"}
    BY DEF IInv, TypeOK
  <2> QED
    BY <1>1, <1>4, <2>1 DEF IInv, Switching
<1> QED
  BY <1>1, <1>3, <1>4 DEF IInv, OneOwner, Locks

\* A step of p's thread on c: what it must leave true of p, and of p alone.
LEMMA ThreadFrame ==
  ASSUME IInv, NEW c \in CPUs, NEW p \in Procs, stack[c] = p, NEW s \in ThreadSteps,
         pc' = [pc EXCEPT ![p] = s], UNCHANGED <<running, stack, slot, spc>>,
         \A r \in Procs : r # p => /\ plock'[r] = plock[r] /\ state'[r] = state[r]
                                   /\ asleepOn'[r] <=> asleepOn[r],
         plock'[p] = IF s \in Locked THEN c ELSE NoCPU,
         state'[p] = IF s = "yield" THEN "runnable"
                     ELSE IF s = "asleep" THEN "sleeping" ELSE "running",
         asleepOn'[p] <=> s \in {"asleep", "tidy"}
  PROVE  Switching' /\ OneOwner' /\ Locks' /\ Executing' /\ Resting' /\ Asleep'
<1>1. NoCPU \notin CPUs /\ NoProc \notin Procs
  BY SchedulerAssumption DEF Procs
<1>2. /\ spc[c] = "back" /\ slot[c] = p /\ running[c] = p
      /\ \A d \in CPUs : (spc[d] # "scan" /\ slot[d] = p) \/ stack[d] = p \/ plock[p] = d => d = c
  BY Owner
<1>3. \A r \in Procs : pc'[r] = IF r = p THEN s ELSE pc[r]
  BY DEF IInv, TypeOK
<1>4. Switching'
  BY <1>1, <1>2 DEF IInv, Switching
<1>5. OneOwner'
  BY DEF IInv, OneOwner
<1>6. Locks'
  BY <1>1, <1>2 DEF IInv, Locks
<1>7. Executing'
  BY <1>1, <1>2, <1>3 DEF IInv, Executing
<1>8. Resting'
  BY <1>3 DEF IInv, Resting
<1>9. Asleep'
  BY <1>3 DEF IInv, Asleep
<1> QED
  BY <1>4, <1>5, <1>6, <1>7, <1>8, <1>9

\* The same for interrupts and the condition lock.
LEMMA InterruptFrame ==
  ASSUME IInv, NEW c \in CPUs, NEW p \in Procs, stack[c] = p, wpc[c] = "none",
         NEW s \in ThreadSteps \ {"new", "tidy", "yielded"}, pc' = [pc EXCEPT ![p] = s],
         UNCHANGED <<stack, spc, wpc, wirq, saved>>,
         \A d \in CPUs : d # c => cpu'[d] = cpu[d] /\ (lk' = d <=> lk = d),
         lk' = c <=> s \in {"check", "locked"},
         cpu'[c].depth = ThreadDepth(s), cpu'[c].depth # 0 => ~cpu'[c].intr,
         \A r \in Procs : r # p => (asked'[r] <=> asked[r]) /\ after'[r] = after[r],
         s \in {"kernel", "woken"} => (cpu'[c].intr <=> asked'[p]),
         s = "preempted" => asked'[p] /\ ~cpu'[c].intr /\ after'[p] # "call",
         s \in {"check", "locked", "released", "asleep"} => (cpu'[c].intena <=> asked'[p]),
         s = "yield" => ~cpu'[c].intena /\ (asked'[p] <=> after'[p] # "call")
  PROVE  Handlers' /\ Condition' /\ Depth' /\ Settings'
<1>1. NoCPU \notin CPUs /\ NoProc \notin Procs
  BY SchedulerAssumption DEF Procs
<1>2. \A d \in CPUs : stack[d] = p => d = c
  BY Owner
<1>3. \A r \in Procs : pc'[r] = IF r = p THEN s ELSE pc[r]
  BY DEF IInv, TypeOK
<1>4. Handlers'
  BY <1>1, <1>2, <1>3 DEF IInv, Handlers
<1>5. Condition'
  <2>1. \A d \in CPUs, r \in Procs : d # c /\ stack[d] = r => r # p /\ pc'[r] = pc[r]
    BY <1>2, <1>3
  <2>2. ASSUME NEW d \in CPUs
        PROVE  /\ \A r \in Procs : stack[d] = r /\ pc'[r] \in {"check", "locked"} => lk' = d
               /\ lk' = d => \/ wpc[d] = "scan"
                             \/ \E r \in Procs : stack[d] = r /\ pc'[r] \in {"check", "locked"}
    <3>1. CASE d = c
      BY <1>3, <3>1
    <3>2. CASE d # c
      BY <2>1, <3>2 DEF IInv, Condition
    <3> QED
      BY <3>1, <3>2
  <2> QED
    BY <2>2 DEF Condition
<1>6. Depth'
  <2>1. ASSUME NEW d \in CPUs, d # c PROVE Base(d)' = Base(d)
    <3>1. stack[d] \in Procs \cup {NoProc}
      BY DEF IInv, TypeOK
    <3> QED
      BY <1>2, <1>3, <2>1, <3>1 DEF Base
  <2>2. Base(c)' = ThreadDepth(s)
    BY <1>1, <1>3 DEF Base
  <2> QED
    BY <2>1, <2>2 DEF IInv, Depth
<1>7. Settings'
  <2>1. \A d \in CPUs, r \in Procs : d # c /\ stack[d] = r =>
          /\ r # p /\ pc'[r] = pc[r] /\ after'[r] = after[r] /\ (asked'[r] <=> asked[r])
          /\ cpu'[d] = cpu[d] /\ (lk' = d <=> lk = d)
    BY <1>2, <1>3
  <2>2. ASSUME NEW d \in CPUs, NEW r \in Procs, stack[d] = r
        PROVE  /\ pc'[r] \in {"kernel", "woken"} =>
                    IF wpc[d] # "none" /\ wirq[d]
                    THEN asked'[r] /\ ~cpu'[d].intr /\ (wpc[d] = "scan" /\ lk' = d => ~cpu'[d].intena)
                    ELSE IF wpc[d] = "scan" /\ lk' = d THEN cpu'[d].intena <=> asked'[r]
                                                       ELSE cpu'[d].intr <=> asked'[r]
               /\ pc'[r] = "preempted" => asked'[r] /\ ~cpu'[d].intr /\ after'[r] # "call"
               /\ pc'[r] \in {"check", "locked", "released", "asleep", "tidy"} =>
                    (cpu'[d].intena <=> asked'[r])
               /\ pc'[r] \in {"yield", "yielded"} => ~cpu'[d].intena
    <3>1. CASE d = c
      BY <1>3, <2>2, <3>1
    <3>2. CASE d # c
      BY <2>1, <2>2, <3>2 DEF IInv, Settings
    <3> QED
      BY <3>1, <3>2
  <2>3. ASSUME NEW r \in Procs
        PROVE  /\ pc'[r] \in {"yield", "yielded"} => (asked'[r] <=> after'[r] # "call")
               /\ pc'[r] = "tidy" => (saved[r] <=> asked'[r])
               /\ pc'[r] = "yielded" => ~saved[r]
    BY <1>3 DEF IInv, Settings
  <2> QED
    BY <2>2, <2>3 DEF Settings
<1> QED
  BY <1>4, <1>5, <1>6, <1>7

-----------------------------------------------------------------------------
(* Kernel threads.                                                          *)

\* What holds of a thread that executes and of its CPU.
LEMMA Here ==
  ASSUME IInv, NEW c \in CPUs, NEW p \in Procs, NEW s \in ThreadSteps, Thread(c, p, s)
  PROVE  /\ stack[c] = p /\ wpc[c] = "none" /\ pc[p] = s
         /\ plock[p] = IF s \in Locked THEN c ELSE NoCPU
         /\ state[p] = IF s = "yield" THEN "runnable"
                       ELSE IF s = "asleep" THEN "sleeping" ELSE "running"
         /\ asleepOn[p] <=> s \in {"asleep", "tidy"}
         /\ lk = c <=> s \in {"check", "locked"}
         /\ cpu[c].depth = ThreadDepth(s)
<1>1. stack[c] = p /\ wpc[c] = "none" /\ pc[p] = s
  BY DEF Thread
<1>2. p # NoProc /\ c # NoCPU /\ \A d \in CPUs : plock[p] = d => d = c
  BY <1>1, Owner
<1>3. plock[p] \in CPUs \cup {NoCPU}
  BY DEF IInv, TypeOK
<1>4. plock[p] = IF s \in Locked THEN c ELSE NoCPU
  BY <1>1, <1>2, <1>3 DEF IInv, Executing
<1>5. state[p] = IF s = "yield" THEN "runnable"
                 ELSE IF s = "asleep" THEN "sleeping" ELSE "running"
  BY <1>1 DEF IInv, Executing
<1>6. asleepOn[p] <=> s \in {"asleep", "tidy"}
  BY <1>1 DEF IInv, Asleep
<1>7. lk = c <=> s \in {"check", "locked"}
  BY <1>1 DEF IInv, Condition
<1>8. cpu[c].depth = ThreadDepth(s)
  BY <1>1, <1>2 DEF IInv, Depth, Base
<1> QED
  BY <1>1, <1>4, <1>5, <1>6, <1>7, <1>8

\* Assembles the invariant after a step of p's thread on c.
LEMMA ThreadInv ==
  ASSUME IInv, TypeOK', NEW c \in CPUs, NEW p \in Procs, stack[c] = p, wpc[c] = "none",
         NEW s \in ThreadSteps \ {"new", "tidy", "yielded"}, pc' = [pc EXCEPT ![p] = s],
         UNCHANGED <<schedVars, wpc, wirq, saved, panic>>,
         \A r \in Procs : r # p => /\ plock'[r] = plock[r] /\ state'[r] = state[r]
                                   /\ asleepOn'[r] <=> asleepOn[r],
         plock'[p] = IF s \in Locked THEN c ELSE NoCPU,
         state'[p] = IF s = "yield" THEN "runnable"
                     ELSE IF s = "asleep" THEN "sleeping" ELSE "running",
         asleepOn'[p] <=> s \in {"asleep", "tidy"},
         \A d \in CPUs : d # c => cpu'[d] = cpu[d] /\ (lk' = d <=> lk = d),
         lk' = c <=> s \in {"check", "locked"},
         cpu'[c].depth = ThreadDepth(s), cpu'[c].depth # 0 => ~cpu'[c].intr,
         \A r \in Procs : r # p => (asked'[r] <=> asked[r]) /\ after'[r] = after[r],
         s \in {"kernel", "woken"} => (cpu'[c].intr <=> asked'[p]),
         s = "preempted" => asked'[p] /\ ~cpu'[c].intr /\ after'[p] # "call",
         s \in {"check", "locked", "released", "asleep"} => (cpu'[c].intena <=> asked'[p]),
         s = "yield" => ~cpu'[c].intena /\ (asked'[p] <=> after'[p] # "call")
  PROVE  IInv'
<1>1. UNCHANGED <<running, stack, slot, spc>> /\ panic' = "none"
  BY DEF schedVars, IInv
<1>2. Switching' /\ OneOwner' /\ Locks' /\ Executing' /\ Resting' /\ Asleep'
  BY <1>1, ThreadFrame
<1>3. Handlers' /\ Condition' /\ Depth' /\ Settings'
  BY <1>1, InterruptFrame
<1> QED
  BY <1>1, <1>2, <1>3 DEF IInv

LEMMA forkReturnStep ==
  ASSUME IInv, NEW c \in CPUs, NEW p \in Procs, forkReturn(c, p)
  PROVE  IInv'
<1>1. TypeOK /\ NoCPU \notin CPUs
  BY SchedulerAssumption DEF IInv
<1>2. /\ stack[c] = p /\ wpc[c] = "none" /\ pc[p] = "new"
      /\ plock[p] = c /\ state[p] = "running" /\ ~asleepOn[p]
      /\ lk # c /\ cpu[c].depth = 1
  BY Here DEF forkReturn, ThreadSteps, Thread, Locked, ThreadDepth
<1>3. /\ UNCHANGED <<state, asleepOn, lk, event, after, saved, panic>>
      /\ UNCHANGED <<schedVars, wakeVars, wpc, wslot, wirq>>
  BY <1>2 DEF forkReturn, Thread, wakeVars
<1>4. pc' = [pc EXCEPT ![p] = "kernel"]
  BY <1>2 DEF forkReturn, Thread
<1>5. Popped(c)
  BY DEF forkReturn
<1>6. /\ cpu' \in [CPUs -> CpuType]
      /\ \A d \in CPUs : d # c => cpu'[d] = cpu[d]
      /\ cpu'[c].depth = 0
      /\ cpu'[c].intena <=> cpu[c].intena
      /\ cpu'[c].intr <=> cpu[c].intena
  BY <1>1, <1>2, <1>5, PopFacts
<1>7. plock' \in [Procs -> CPUs \cup {NoCPU}] /\ plock'[p] = NoCPU
      /\ \A r \in Procs : r # p => (plock'[r] = plock[r])
  BY <1>1, <1>2, <1>6 DEF forkReturn, TypeOK, Thread
<1>8. asked' \in [Procs -> BOOLEAN] /\ (asked'[p] <=> cpu'[c].intr)
      /\ \A r \in Procs : r # p => (asked'[r] <=> asked[r])
  BY <1>1, <1>2, <1>6 DEF forkReturn, TypeOK, Thread, CpuType
<1>9. TypeOK'
  BY <1>1, <1>3, <1>4, <1>6, <1>7, <1>8 DEF TypeOK, schedVars, CpuType, ThreadSteps
<1>10. /\ \A r \in Procs : r # p => /\ plock'[r] = plock[r] /\ state'[r] = state[r]
                                    /\ asleepOn'[r] <=> asleepOn[r]
       /\ plock'[p] = IF "kernel" \in Locked THEN c ELSE NoCPU
       /\ state'[p] = "running" /\ ~asleepOn'[p]
  BY <1>2, <1>3, <1>7, <1>8 DEF Locked
<1> QED
  BY <1>1, <1>2, <1>3, <1>4, <1>6, <1>8, <1>9, <1>10, ThreadInv, ZenonT(60)
     DEF ThreadSteps, ThreadDepth

LEMMA timerInKernelStep ==
  ASSUME IInv, NEW c \in CPUs, NEW p \in Procs, timerInterrupt(c, p), pc[p] = "kernel"
  PROVE  IInv'
<1>1. TypeOK /\ NoCPU \notin CPUs
  BY SchedulerAssumption DEF IInv
<1>2. /\ stack[c] = p /\ wpc[c] = "none" /\ pc[p] = "kernel"
      /\ plock[p] = NoCPU /\ state[p] = "running" /\ ~asleepOn[p]
      /\ lk # c /\ cpu[c].depth = 0
  BY Here DEF timerInterrupt, ThreadSteps, Thread, Locked, ThreadDepth
<1>3. asked[p] /\ cpu[c].intr
  BY <1>2 DEF IInv, Settings, timerInterrupt
<1>4. /\ UNCHANGED <<state, asleepOn, plock, lk, event, asked, saved, panic>>
      /\ UNCHANGED <<schedVars, wakeVars, wpc, wslot, wirq>>
  BY <1>2 DEF timerInterrupt, Thread, wakeVars
<1>5. pc' = [pc EXCEPT ![p] = "preempted"]
  BY <1>2 DEF timerInterrupt, Thread
<1>6. /\ cpu' \in [CPUs -> CpuType]
      /\ \A d \in CPUs : d # c => cpu'[d] = cpu[d]
      /\ cpu'[c].depth = 0 /\ ~cpu'[c].intr
  BY <1>1, <1>2, SetFacts DEF timerInterrupt
<1>7. after' \in [Procs -> {"call", "kernel", "woken"}] /\ after'[p] # "call"
      /\ \A r \in Procs : r # p => (after'[r] = after[r])
  BY <1>1, <1>2, <1>6 DEF timerInterrupt, TypeOK, Thread
<1>8. TypeOK'
  BY <1>1, <1>4, <1>5, <1>6, <1>7 DEF TypeOK, schedVars, CpuType, ThreadSteps
<1> QED
  BY <1>1, <1>2, <1>3, <1>4, <1>5, <1>6, <1>7, <1>8, ThreadInv, ZenonT(60)
     DEF ThreadSteps, ThreadDepth, Locked

LEMMA timerInWokenStep ==
  ASSUME IInv, NEW c \in CPUs, NEW p \in Procs, timerInterrupt(c, p), pc[p] = "woken"
  PROVE  IInv'
<1>1. TypeOK /\ NoCPU \notin CPUs
  BY SchedulerAssumption DEF IInv
<1>2. /\ stack[c] = p /\ wpc[c] = "none" /\ pc[p] = "woken"
      /\ plock[p] = NoCPU /\ state[p] = "running" /\ ~asleepOn[p]
      /\ lk # c /\ cpu[c].depth = 0
  BY Here DEF timerInterrupt, ThreadSteps, Thread, Locked, ThreadDepth
<1>3. asked[p] /\ cpu[c].intr
  BY <1>2 DEF IInv, Settings, timerInterrupt
<1>4. /\ UNCHANGED <<state, asleepOn, plock, lk, event, asked, saved, panic>>
      /\ UNCHANGED <<schedVars, wakeVars, wpc, wslot, wirq>>
  BY <1>2 DEF timerInterrupt, Thread, wakeVars
<1>5. pc' = [pc EXCEPT ![p] = "preempted"]
  BY <1>2 DEF timerInterrupt, Thread
<1>6. /\ cpu' \in [CPUs -> CpuType]
      /\ \A d \in CPUs : d # c => cpu'[d] = cpu[d]
      /\ cpu'[c].depth = 0 /\ ~cpu'[c].intr
  BY <1>1, <1>2, SetFacts DEF timerInterrupt
<1>7. after' \in [Procs -> {"call", "kernel", "woken"}] /\ after'[p] # "call"
      /\ \A r \in Procs : r # p => (after'[r] = after[r])
  BY <1>1, <1>2, <1>6 DEF timerInterrupt, TypeOK, Thread
<1>8. TypeOK'
  BY <1>1, <1>4, <1>5, <1>6, <1>7 DEF TypeOK, schedVars, CpuType, ThreadSteps
<1> QED
  BY <1>1, <1>2, <1>3, <1>4, <1>5, <1>6, <1>7, <1>8, ThreadInv, ZenonT(60)
     DEF ThreadSteps, ThreadDepth, Locked

LEMMA yieldCallStep ==
  ASSUME IInv, NEW c \in CPUs, NEW p \in Procs, yield(c, p), pc[p] = "kernel"
  PROVE  IInv'
<1>1. TypeOK /\ NoCPU \notin CPUs
  BY SchedulerAssumption DEF IInv
<1>2. /\ stack[c] = p /\ wpc[c] = "none" /\ pc[p] = "kernel"
      /\ plock[p] = NoCPU /\ state[p] = "running" /\ ~asleepOn[p]
      /\ lk # c /\ cpu[c].depth = 0
  BY Here DEF yield, TakeProcessLock, ThreadSteps, Thread, Locked, ThreadDepth
<1>3. ~asked[p] /\ ~cpu[c].intr
  BY <1>2 DEF IInv, Settings, yield, Thread
<1>4. /\ UNCHANGED <<asleepOn, lk, event, asked, saved, panic>>
      /\ UNCHANGED <<schedVars, wakeVars, wpc, wslot, wirq>>
  BY <1>2 DEF yield, TakeProcessLock, Thread, wakeVars
<1>5. pc' = [pc EXCEPT ![p] = "yield"]
  BY <1>2 DEF yield, TakeProcessLock, Thread
<1>6. Pushed(c)
  BY DEF yield, TakeProcessLock
<1>7. /\ cpu' \in [CPUs -> CpuType]
      /\ \A d \in CPUs : d # c => cpu'[d] = cpu[d]
      /\ cpu'[c].depth = 1
      /\ ~cpu'[c].intr
      /\ cpu'[c].intena <=> cpu[c].intr
  BY <1>1, <1>2, <1>6, PushFacts
<1>8. plock' \in [Procs -> CPUs \cup {NoCPU}] /\ plock'[p] = c
      /\ \A r \in Procs : r # p => (plock'[r] = plock[r])
  BY <1>1, <1>2, <1>7 DEF yield, TakeProcessLock, TypeOK, Thread
<1>9. state' \in [Procs -> {"runnable", "running", "sleeping"}] /\ state'[p] = "runnable"
      /\ \A r \in Procs : r # p => (state'[r] = state[r])
  BY <1>1, <1>2, <1>7 DEF yield, TakeProcessLock, TypeOK, Thread
<1>10. after' \in [Procs -> {"call", "kernel", "woken"}] /\ after'[p] = "call"
       /\ \A r \in Procs : r # p => (after'[r] = after[r])
  BY <1>1, <1>2, <1>7 DEF yield, TakeProcessLock, TypeOK, Thread
<1>11. TypeOK'
  BY <1>1, <1>4, <1>5, <1>7, <1>8, <1>9, <1>10 DEF TypeOK, schedVars, CpuType, ThreadSteps
<1>12. /\ \A r \in Procs : r # p => /\ plock'[r] = plock[r] /\ state'[r] = state[r]
                                    /\ asleepOn'[r] <=> asleepOn[r]
       /\ plock'[p] = IF "yield" \in Locked THEN c ELSE NoCPU
       /\ state'[p] = "runnable" /\ ~asleepOn'[p]
  BY <1>2, <1>4, <1>8, <1>9, <1>10 DEF Locked
<1> QED
  BY <1>1, <1>2, <1>3, <1>4, <1>5, <1>7, <1>10, <1>11, <1>12, ThreadInv, ZenonT(60)
     DEF ThreadSteps, ThreadDepth

LEMMA yieldPreemptedStep ==
  ASSUME IInv, NEW c \in CPUs, NEW p \in Procs, yield(c, p), pc[p] = "preempted"
  PROVE  IInv'
<1>1. TypeOK /\ NoCPU \notin CPUs
  BY SchedulerAssumption DEF IInv
<1>2. /\ stack[c] = p /\ wpc[c] = "none" /\ pc[p] = "preempted"
      /\ plock[p] = NoCPU /\ state[p] = "running" /\ ~asleepOn[p]
      /\ lk # c /\ cpu[c].depth = 0
  BY Here DEF yield, TakeProcessLock, ThreadSteps, Thread, Locked, ThreadDepth
<1>3. asked[p] /\ ~cpu[c].intr /\ after[p] # "call"
  BY <1>2 DEF IInv, Settings
<1>4. /\ UNCHANGED <<asleepOn, lk, event, after, asked, saved, panic>>
      /\ UNCHANGED <<schedVars, wakeVars, wpc, wslot, wirq>>
  BY <1>2 DEF yield, TakeProcessLock, Thread, wakeVars
<1>5. pc' = [pc EXCEPT ![p] = "yield"]
  BY <1>2 DEF yield, TakeProcessLock, Thread
<1>6. Pushed(c)
  BY DEF yield, TakeProcessLock
<1>7. /\ cpu' \in [CPUs -> CpuType]
      /\ \A d \in CPUs : d # c => cpu'[d] = cpu[d]
      /\ cpu'[c].depth = 1
      /\ ~cpu'[c].intr
      /\ cpu'[c].intena <=> cpu[c].intr
  BY <1>1, <1>2, <1>6, PushFacts
<1>8. plock' \in [Procs -> CPUs \cup {NoCPU}] /\ plock'[p] = c
      /\ \A r \in Procs : r # p => (plock'[r] = plock[r])
  BY <1>1, <1>2, <1>7 DEF yield, TakeProcessLock, TypeOK, Thread
<1>9. state' \in [Procs -> {"runnable", "running", "sleeping"}] /\ state'[p] = "runnable"
      /\ \A r \in Procs : r # p => (state'[r] = state[r])
  BY <1>1, <1>2, <1>7 DEF yield, TakeProcessLock, TypeOK, Thread
<1>10. TypeOK'
  BY <1>1, <1>4, <1>5, <1>7, <1>8, <1>9 DEF TypeOK, schedVars, CpuType, ThreadSteps
<1>11. /\ \A r \in Procs : r # p => /\ plock'[r] = plock[r] /\ state'[r] = state[r]
                                    /\ asleepOn'[r] <=> asleepOn[r]
       /\ plock'[p] = IF "yield" \in Locked THEN c ELSE NoCPU
       /\ state'[p] = "runnable" /\ ~asleepOn'[p]
  BY <1>2, <1>4, <1>8, <1>9 DEF Locked
<1> QED
  BY <1>1, <1>2, <1>3, <1>4, <1>5, <1>7, <1>10, <1>11, ThreadInv
     DEF ThreadSteps, ThreadDepth

LEMMA takeConditionLockFirstStep ==
  ASSUME IInv, NEW c \in CPUs, NEW p \in Procs, takeConditionLock(c, p), pc[p] = "kernel"
  PROVE  IInv'
<1>1. TypeOK /\ NoCPU \notin CPUs
  BY SchedulerAssumption DEF IInv
<1>2. /\ stack[c] = p /\ wpc[c] = "none" /\ pc[p] = "kernel"
      /\ plock[p] = NoCPU /\ state[p] = "running" /\ ~asleepOn[p]
      /\ lk # c /\ cpu[c].depth = 0
  BY Here DEF takeConditionLock, ThreadSteps, Thread, Locked, ThreadDepth
<1>3. cpu[c].intr <=> asked[p]
  BY <1>2 DEF IInv, Settings
<1>4. /\ UNCHANGED <<state, asleepOn, plock, event, after, asked, saved, panic>>
      /\ UNCHANGED <<schedVars, wakeVars, wpc, wslot, wirq>>
  BY <1>2 DEF takeConditionLock, Thread, wakeVars
<1>5. pc' = [pc EXCEPT ![p] = "check"]
  BY <1>2 DEF takeConditionLock, Thread
<1>6. Pushed(c)
  BY DEF takeConditionLock
<1>7. /\ cpu' \in [CPUs -> CpuType]
      /\ \A d \in CPUs : d # c => cpu'[d] = cpu[d]
      /\ cpu'[c].depth = 1
      /\ ~cpu'[c].intr
      /\ cpu'[c].intena <=> cpu[c].intr
  BY <1>1, <1>2, <1>6, PushFacts
<1>8. lk' \in CPUs \cup {NoCPU} /\ (\A d \in CPUs : d # c => (lk' = d <=> lk = d)) /\ lk' = c
  BY <1>1, <1>2 DEF takeConditionLock
<1>9. TypeOK'
  BY <1>1, <1>4, <1>5, <1>7, <1>8 DEF TypeOK, schedVars, CpuType, ThreadSteps
<1> QED
  BY <1>1, <1>2, <1>3, <1>4, <1>5, <1>7, <1>8, <1>9, ThreadInv DEF ThreadSteps, ThreadDepth, Locked

LEMMA takeConditionLockAgainStep ==
  ASSUME IInv, NEW c \in CPUs, NEW p \in Procs, takeConditionLock(c, p), pc[p] = "woken"
  PROVE  IInv'
<1>1. TypeOK /\ NoCPU \notin CPUs
  BY SchedulerAssumption DEF IInv
<1>2. /\ stack[c] = p /\ wpc[c] = "none" /\ pc[p] = "woken"
      /\ plock[p] = NoCPU /\ state[p] = "running" /\ ~asleepOn[p]
      /\ lk # c /\ cpu[c].depth = 0
  BY Here DEF takeConditionLock, ThreadSteps, Thread, Locked, ThreadDepth
<1>3. cpu[c].intr <=> asked[p]
  BY <1>2 DEF IInv, Settings
<1>4. /\ UNCHANGED <<state, asleepOn, plock, event, after, asked, saved, panic>>
      /\ UNCHANGED <<schedVars, wakeVars, wpc, wslot, wirq>>
  BY <1>2 DEF takeConditionLock, Thread, wakeVars
<1>5. pc' = [pc EXCEPT ![p] = "check"]
  BY <1>2 DEF takeConditionLock, Thread
<1>6. Pushed(c)
  BY DEF takeConditionLock
<1>7. /\ cpu' \in [CPUs -> CpuType]
      /\ \A d \in CPUs : d # c => cpu'[d] = cpu[d]
      /\ cpu'[c].depth = 1
      /\ ~cpu'[c].intr
      /\ cpu'[c].intena <=> cpu[c].intr
  BY <1>1, <1>2, <1>6, PushFacts
<1>8. lk' \in CPUs \cup {NoCPU} /\ (\A d \in CPUs : d # c => (lk' = d <=> lk = d)) /\ lk' = c
  BY <1>1, <1>2 DEF takeConditionLock
<1>9. TypeOK'
  BY <1>1, <1>4, <1>5, <1>7, <1>8 DEF TypeOK, schedVars, CpuType, ThreadSteps
<1> QED
  BY <1>1, <1>2, <1>3, <1>4, <1>5, <1>7, <1>8, <1>9, ThreadInv DEF ThreadSteps, ThreadDepth, Locked

LEMMA consumeEventStep ==
  ASSUME IInv, NEW c \in CPUs, NEW p \in Procs, consumeEvent(c, p)
  PROVE  IInv'
<1>1. TypeOK /\ NoCPU \notin CPUs
  BY SchedulerAssumption DEF IInv
<1>2. /\ stack[c] = p /\ wpc[c] = "none" /\ pc[p] = "check"
      /\ plock[p] = NoCPU /\ state[p] = "running" /\ ~asleepOn[p]
      /\ lk = c /\ cpu[c].depth = 1
  BY Here DEF consumeEvent, ThreadSteps, Thread, Locked, ThreadDepth
<1>3. cpu[c].intena <=> asked[p]
  BY <1>2 DEF IInv, Settings
<1>4. /\ UNCHANGED <<state, asleepOn, plock, after, asked, saved, panic>>
      /\ UNCHANGED <<schedVars, wakeVars, wpc, wslot, wirq>>
  BY <1>2 DEF consumeEvent, Thread, wakeVars
<1>5. pc' = [pc EXCEPT ![p] = "kernel"]
  BY <1>2 DEF consumeEvent, Thread
<1>6. Popped(c)
  BY DEF consumeEvent
<1>7. /\ cpu' \in [CPUs -> CpuType]
      /\ \A d \in CPUs : d # c => cpu'[d] = cpu[d]
      /\ cpu'[c].depth = 0
      /\ cpu'[c].intena <=> cpu[c].intena
      /\ cpu'[c].intr <=> cpu[c].intena
  BY <1>1, <1>2, <1>6, PopFacts
<1>8. lk' \in CPUs \cup {NoCPU} /\ (\A d \in CPUs : d # c => (lk' = d <=> lk = d)) /\ lk' # c
  BY <1>1, <1>2 DEF consumeEvent
<1>9. event' \in BOOLEAN
  BY DEF consumeEvent
<1>10. TypeOK'
  BY <1>1, <1>4, <1>5, <1>7, <1>8, <1>9 DEF TypeOK, schedVars, CpuType, ThreadSteps
<1> QED
  BY <1>1, <1>2, <1>3, <1>4, <1>5, <1>7, <1>8, <1>9, <1>10, ThreadInv
     DEF ThreadSteps, ThreadDepth, Locked

LEMMA sleepTakeLockStep ==
  ASSUME IInv, NEW c \in CPUs, NEW p \in Procs, sleepTakeLock(c, p)
  PROVE  IInv'
<1>1. TypeOK /\ NoCPU \notin CPUs
  BY SchedulerAssumption DEF IInv
<1>2. /\ stack[c] = p /\ wpc[c] = "none" /\ pc[p] = "check"
      /\ plock[p] = NoCPU /\ state[p] = "running" /\ ~asleepOn[p]
      /\ lk = c /\ cpu[c].depth = 1
  BY Here DEF sleepTakeLock, TakeProcessLock, ThreadSteps, Thread, Locked, ThreadDepth
<1>3. cpu[c].intena <=> asked[p]
  BY <1>2 DEF IInv, Settings
<1>4. /\ UNCHANGED <<state, asleepOn, lk, event, after, asked, saved, panic>>
      /\ UNCHANGED <<schedVars, wakeVars, wpc, wslot, wirq>>
  BY <1>2 DEF sleepTakeLock, TakeProcessLock, Thread, wakeVars
<1>5. pc' = [pc EXCEPT ![p] = "locked"]
  BY <1>2 DEF sleepTakeLock, TakeProcessLock, Thread
<1>6. Pushed(c)
  BY DEF sleepTakeLock, TakeProcessLock
<1>7. /\ cpu' \in [CPUs -> CpuType]
      /\ \A d \in CPUs : d # c => cpu'[d] = cpu[d]
      /\ cpu'[c].depth = 2
      /\ ~cpu'[c].intr
      /\ cpu'[c].intena <=> cpu[c].intena
  BY <1>1, <1>2, <1>6, PushFacts
<1>8. plock' \in [Procs -> CPUs \cup {NoCPU}] /\ plock'[p] = c
      /\ \A r \in Procs : r # p => (plock'[r] = plock[r])
  BY <1>1, <1>2, <1>7 DEF sleepTakeLock, TakeProcessLock, TypeOK, Thread
<1>9. TypeOK'
  BY <1>1, <1>4, <1>5, <1>7, <1>8 DEF TypeOK, schedVars, CpuType, ThreadSteps
<1>10. /\ \A r \in Procs : r # p => /\ plock'[r] = plock[r] /\ state'[r] = state[r]
                                    /\ asleepOn'[r] <=> asleepOn[r]
       /\ plock'[p] = IF "locked" \in Locked THEN c ELSE NoCPU
       /\ state'[p] = "running" /\ ~asleepOn'[p]
  BY <1>2, <1>4, <1>8 DEF Locked
<1> QED
  BY <1>1, <1>2, <1>3, <1>4, <1>5, <1>7, <1>9, <1>10, ThreadInv
     DEF ThreadSteps, ThreadDepth

LEMMA sleepReleaseStep ==
  ASSUME IInv, NEW c \in CPUs, NEW p \in Procs, sleepRelease(c, p)
  PROVE  IInv'
<1>1. TypeOK /\ NoCPU \notin CPUs
  BY SchedulerAssumption DEF IInv
<1>2. /\ stack[c] = p /\ wpc[c] = "none" /\ pc[p] = "locked"
      /\ plock[p] = c /\ state[p] = "running" /\ ~asleepOn[p]
      /\ lk = c /\ cpu[c].depth = 2
  BY Here DEF sleepRelease, ThreadSteps, Thread, Locked, ThreadDepth
<1>3. cpu[c].intena <=> asked[p]
  BY <1>2 DEF IInv, Settings
<1>4. /\ UNCHANGED <<state, asleepOn, plock, event, after, asked, saved, panic>>
      /\ UNCHANGED <<schedVars, wakeVars, wpc, wslot, wirq>>
  BY <1>2 DEF sleepRelease, Thread, wakeVars
<1>5. pc' = [pc EXCEPT ![p] = "released"]
  BY <1>2 DEF sleepRelease, Thread
<1>6. Popped(c)
  BY DEF sleepRelease
<1>7. /\ cpu' \in [CPUs -> CpuType]
      /\ \A d \in CPUs : d # c => cpu'[d] = cpu[d]
      /\ cpu'[c].depth = 1
      /\ cpu'[c].intena <=> cpu[c].intena
      /\ ~cpu'[c].intr
  BY <1>1, <1>2, <1>6, PopFacts
<1>8. lk' \in CPUs \cup {NoCPU} /\ (\A d \in CPUs : d # c => (lk' = d <=> lk = d)) /\ lk' # c
  BY <1>1, <1>2 DEF sleepRelease
<1>9. TypeOK'
  BY <1>1, <1>4, <1>5, <1>7, <1>8 DEF TypeOK, schedVars, CpuType, ThreadSteps
<1> QED
  BY <1>1, <1>2, <1>3, <1>4, <1>5, <1>7, <1>8, <1>9, ThreadInv DEF ThreadSteps, ThreadDepth, Locked

LEMMA putProcessToSleepStep ==
  ASSUME IInv, NEW c \in CPUs, NEW p \in Procs, putProcessToSleep(c, p)
  PROVE  IInv'
<1>1. TypeOK /\ NoCPU \notin CPUs
  BY SchedulerAssumption DEF IInv
<1>2. /\ stack[c] = p /\ wpc[c] = "none" /\ pc[p] = "released"
      /\ plock[p] = c /\ state[p] = "running" /\ ~asleepOn[p]
      /\ lk # c /\ cpu[c].depth = 1
  BY Here DEF putProcessToSleep, ThreadSteps, Thread, Locked, ThreadDepth
<1>3. cpu[c].intena <=> asked[p]
  BY <1>2 DEF IInv, Settings
<1>4. /\ UNCHANGED <<plock, lk, event, after, asked, saved, panic>>
      /\ UNCHANGED <<schedVars, wakeVars, wpc, wslot, wirq>>
  BY <1>2 DEF putProcessToSleep, Thread, wakeVars
<1>5. pc' = [pc EXCEPT ![p] = "asleep"]
  BY <1>2 DEF putProcessToSleep, Thread
<1>6. cpu' = cpu /\ cpu \in [CPUs -> CpuType] /\ ~cpu[c].intr
  BY <1>1, <1>2 DEF putProcessToSleep, TypeOK, CpuType, IInv, Depth
<1>7. state' \in [Procs -> {"runnable", "running", "sleeping"}] /\ state'[p] = "sleeping"
      /\ \A r \in Procs : r # p => (state'[r] = state[r])
  BY <1>1, <1>2, <1>6 DEF putProcessToSleep, TypeOK, Thread
<1>8. asleepOn' \in [Procs -> BOOLEAN] /\ asleepOn'[p]
      /\ \A r \in Procs : r # p => (asleepOn'[r] <=> asleepOn[r])
  BY <1>1, <1>2, <1>6 DEF putProcessToSleep, TypeOK, Thread
<1>9. TypeOK'
  BY <1>1, <1>4, <1>5, <1>6, <1>7, <1>8 DEF TypeOK, schedVars, CpuType, ThreadSteps
<1> QED
  BY <1>1, <1>2, <1>3, <1>4, <1>5, <1>6, <1>7, <1>8, <1>9, ThreadInv, ZenonT(60)
     DEF ThreadSteps, ThreadDepth, Locked

LEMMA sleepTidyStep ==
  ASSUME IInv, NEW c \in CPUs, NEW p \in Procs, sleepTidy(c, p)
  PROVE  IInv'
<1>1. TypeOK /\ NoCPU \notin CPUs
  BY SchedulerAssumption DEF IInv
<1>2. /\ stack[c] = p /\ wpc[c] = "none" /\ pc[p] = "tidy"
      /\ plock[p] = c /\ state[p] = "running" /\ asleepOn[p]
      /\ lk # c /\ cpu[c].depth = 1
  BY Here DEF sleepTidy, ThreadSteps, Thread, Locked, ThreadDepth
<1>3. cpu[c].intena <=> asked[p]
  BY <1>2 DEF IInv, Settings
<1>4. /\ UNCHANGED <<state, lk, event, after, asked, saved, panic>>
      /\ UNCHANGED <<schedVars, wakeVars, wpc, wslot, wirq>>
  BY <1>2 DEF sleepTidy, Thread, wakeVars
<1>5. pc' = [pc EXCEPT ![p] = "woken"]
  BY <1>2 DEF sleepTidy, Thread
<1>6. Popped(c)
  BY DEF sleepTidy
<1>7. /\ cpu' \in [CPUs -> CpuType]
      /\ \A d \in CPUs : d # c => cpu'[d] = cpu[d]
      /\ cpu'[c].depth = 0
      /\ cpu'[c].intena <=> cpu[c].intena
      /\ cpu'[c].intr <=> cpu[c].intena
  BY <1>1, <1>2, <1>6, PopFacts
<1>8. plock' \in [Procs -> CPUs \cup {NoCPU}] /\ plock'[p] = NoCPU
      /\ \A r \in Procs : r # p => (plock'[r] = plock[r])
  BY <1>1, <1>2, <1>7 DEF sleepTidy, TypeOK, Thread
<1>9. asleepOn' \in [Procs -> BOOLEAN] /\ ~asleepOn'[p]
      /\ \A r \in Procs : r # p => (asleepOn'[r] <=> asleepOn[r])
  BY <1>1, <1>2, <1>7 DEF sleepTidy, TypeOK, Thread
<1>10. TypeOK'
  BY <1>1, <1>4, <1>5, <1>7, <1>8, <1>9 DEF TypeOK, schedVars, CpuType, ThreadSteps
<1>11. /\ \A r \in Procs : r # p => /\ plock'[r] = plock[r] /\ state'[r] = state[r]
                                    /\ asleepOn'[r] <=> asleepOn[r]
       /\ plock'[p] = IF "woken" \in Locked THEN c ELSE NoCPU
       /\ state'[p] = "running" /\ ~asleepOn'[p]
  BY <1>2, <1>4, <1>8, <1>9 DEF Locked
<1>12. UNCHANGED <<running, stack, slot, spc>> /\ panic' = "none"
  BY <1>4 DEF schedVars, IInv
<1>13. Switching' /\ OneOwner' /\ Locks' /\ Executing' /\ Resting' /\ Asleep'
  BY <1>2, <1>5, <1>11, <1>12, ThreadFrame, ZenonT(60) DEF ThreadSteps
<1>14. Handlers' /\ Condition' /\ Depth' /\ Settings'
  BY <1>2, <1>3, <1>4, <1>5, <1>7, <1>12, InterruptFrame DEF ThreadSteps, ThreadDepth
<1> QED
  BY <1>10, <1>12, <1>13, <1>14 DEF IInv

\* A lock is released, and the trap handler restores sstatus with interrupts on.
Restored(c) == cpu' = [cpu EXCEPT ![c] = [PopOff(@) EXCEPT !.intr = TRUE]]

LEMMA RestoreFacts ==
  ASSUME TypeOK, NEW c \in CPUs, Restored(c), cpu[c].depth \in 1 .. 3
  PROVE  /\ cpu' \in [CPUs -> CpuType]
         /\ \A d \in CPUs : d # c => cpu'[d] = cpu[d]
         /\ cpu'[c].depth = cpu[c].depth - 1
         /\ cpu'[c].intr
<1>1. cpu \in [CPUs -> CpuType]
  BY DEF TypeOK, CpuType
<1>2. cpu[c] \in CpuType
  BY <1>1
<1>3. [PopOff(cpu[c]) EXCEPT !.intr = TRUE] = [[cpu[c] EXCEPT !.depth = cpu[c].depth - 1] EXCEPT !.intr = TRUE]
  BY <1>2 DEF PopOff, CpuType
<1>4. [PopOff(cpu[c]) EXCEPT !.intr = TRUE] \in CpuType
  <2>1. cpu[c].depth - 1 \in 0 .. 3 /\ TRUE \in BOOLEAN
    BY <1>2 DEF CpuType
  <2> QED
    BY <1>2, <1>3, <2>1 DEF CpuType
<1>5. cpu' = [cpu EXCEPT ![c] = [PopOff(cpu[c]) EXCEPT !.intr = TRUE]]
  BY DEF Restored
<1>6. cpu' \in [CPUs -> CpuType] /\ cpu'[c] = [PopOff(cpu[c]) EXCEPT !.intr = TRUE]
  BY <1>1, <1>4, <1>5
<1>7. \A d \in CPUs : d # c => cpu'[d] = cpu[d]
  BY <1>1, <1>5
<1> QED
  BY <1>2, <1>3, <1>6, <1>7 DEF CpuType

LEMMA yieldReturnToKernelStep ==
  ASSUME IInv, NEW c \in CPUs, NEW p \in Procs, yieldReturn(c, p), after[p] = "kernel"
  PROVE  IInv'
<1>1. TypeOK /\ NoCPU \notin CPUs
  BY SchedulerAssumption DEF IInv
<1>2. /\ stack[c] = p /\ wpc[c] = "none" /\ pc[p] = "yielded"
      /\ plock[p] = c /\ state[p] = "running" /\ ~asleepOn[p]
      /\ lk # c /\ cpu[c].depth = 1
  BY Here DEF yieldReturn, ThreadSteps, Thread, Locked, ThreadDepth
<1>3. asked[p]
  BY <1>2 DEF IInv, Settings
<1>4. /\ UNCHANGED <<state, asleepOn, lk, event, after, asked, saved, panic>>
      /\ UNCHANGED <<schedVars, wakeVars, wpc, wslot, wirq>>
  BY <1>2 DEF yieldReturn, Thread, wakeVars
<1>5. pc' = [pc EXCEPT ![p] = "kernel"]
  BY <1>2 DEF yieldReturn, Thread
<1>6. /\ cpu' \in [CPUs -> CpuType]
      /\ \A d \in CPUs : d # c => cpu'[d] = cpu[d]
      /\ cpu'[c].depth = 0 /\ cpu'[c].intr
  <2>1. Restored(c)
    BY DEF yieldReturn, Restored
  <2> QED
    BY <1>1, <1>2, <2>1, RestoreFacts
<1>7. plock' \in [Procs -> CPUs \cup {NoCPU}] /\ plock'[p] = NoCPU
      /\ \A r \in Procs : r # p => (plock'[r] = plock[r])
  BY <1>1, <1>2, <1>6 DEF yieldReturn, TypeOK, Thread
<1>8. TypeOK'
  BY <1>1, <1>4, <1>5, <1>6, <1>7 DEF TypeOK, schedVars, CpuType, ThreadSteps
<1>9. /\ \A r \in Procs : r # p => /\ plock'[r] = plock[r] /\ state'[r] = state[r]
                                   /\ asleepOn'[r] <=> asleepOn[r]
      /\ plock'[p] = IF "kernel" \in Locked THEN c ELSE NoCPU
      /\ state'[p] = "running" /\ ~asleepOn'[p]
  BY <1>2, <1>4, <1>7 DEF Locked
<1> QED
  BY <1>1, <1>2, <1>3, <1>4, <1>5, <1>6, <1>8, <1>9, ThreadInv
     DEF ThreadSteps, ThreadDepth

LEMMA yieldReturnToWokenStep ==
  ASSUME IInv, NEW c \in CPUs, NEW p \in Procs, yieldReturn(c, p), after[p] = "woken"
  PROVE  IInv'
<1>1. TypeOK /\ NoCPU \notin CPUs
  BY SchedulerAssumption DEF IInv
<1>2. /\ stack[c] = p /\ wpc[c] = "none" /\ pc[p] = "yielded"
      /\ plock[p] = c /\ state[p] = "running" /\ ~asleepOn[p]
      /\ lk # c /\ cpu[c].depth = 1
  BY Here DEF yieldReturn, ThreadSteps, Thread, Locked, ThreadDepth
<1>3. asked[p]
  BY <1>2 DEF IInv, Settings
<1>4. /\ UNCHANGED <<state, asleepOn, lk, event, after, asked, saved, panic>>
      /\ UNCHANGED <<schedVars, wakeVars, wpc, wslot, wirq>>
  BY <1>2 DEF yieldReturn, Thread, wakeVars
<1>5. pc' = [pc EXCEPT ![p] = "woken"]
  BY <1>2 DEF yieldReturn, Thread
<1>6. /\ cpu' \in [CPUs -> CpuType]
      /\ \A d \in CPUs : d # c => cpu'[d] = cpu[d]
      /\ cpu'[c].depth = 0 /\ cpu'[c].intr
  <2>1. Restored(c)
    BY DEF yieldReturn, Restored
  <2> QED
    BY <1>1, <1>2, <2>1, RestoreFacts
<1>7. plock' \in [Procs -> CPUs \cup {NoCPU}] /\ plock'[p] = NoCPU
      /\ \A r \in Procs : r # p => (plock'[r] = plock[r])
  BY <1>1, <1>2, <1>6 DEF yieldReturn, TypeOK, Thread
<1>8. TypeOK'
  BY <1>1, <1>4, <1>5, <1>6, <1>7 DEF TypeOK, schedVars, CpuType, ThreadSteps
<1>9. /\ \A r \in Procs : r # p => /\ plock'[r] = plock[r] /\ state'[r] = state[r]
                                   /\ asleepOn'[r] <=> asleepOn[r]
      /\ plock'[p] = IF "woken" \in Locked THEN c ELSE NoCPU
      /\ state'[p] = "running" /\ ~asleepOn'[p]
  BY <1>2, <1>4, <1>7 DEF Locked
<1> QED
  BY <1>1, <1>2, <1>3, <1>4, <1>5, <1>6, <1>8, <1>9, ThreadInv
     DEF ThreadSteps, ThreadDepth

LEMMA yieldReturnCallStep ==
  ASSUME IInv, NEW c \in CPUs, NEW p \in Procs, yieldReturn(c, p), after[p] = "call"
  PROVE  IInv'
<1>1. TypeOK /\ NoCPU \notin CPUs
  BY SchedulerAssumption DEF IInv
<1>2. /\ stack[c] = p /\ wpc[c] = "none" /\ pc[p] = "yielded"
      /\ plock[p] = c /\ state[p] = "running" /\ ~asleepOn[p]
      /\ lk # c /\ cpu[c].depth = 1
  BY Here DEF yieldReturn, ThreadSteps, Thread, Locked, ThreadDepth
<1>3. ~asked[p] /\ ~cpu[c].intena
  BY <1>2 DEF IInv, Settings
<1>4. /\ UNCHANGED <<state, asleepOn, lk, event, after, asked, saved, panic>>
      /\ UNCHANGED <<schedVars, wakeVars, wpc, wslot, wirq>>
  BY <1>2 DEF yieldReturn, Thread, wakeVars
<1>5. pc' = [pc EXCEPT ![p] = "kernel"]
  BY <1>2 DEF yieldReturn, Thread
<1>6. Popped(c)
  BY DEF yieldReturn, Popped
<1>7. /\ cpu' \in [CPUs -> CpuType]
      /\ \A d \in CPUs : d # c => cpu'[d] = cpu[d]
      /\ cpu'[c].depth = 0
      /\ cpu'[c].intena <=> cpu[c].intena
      /\ cpu'[c].intr <=> cpu[c].intena
  BY <1>1, <1>2, <1>6, PopFacts
<1>8. plock' \in [Procs -> CPUs \cup {NoCPU}] /\ plock'[p] = NoCPU
      /\ \A r \in Procs : r # p => (plock'[r] = plock[r])
  BY <1>1, <1>2, <1>7 DEF yieldReturn, TypeOK, Thread
<1>9. TypeOK'
  BY <1>1, <1>4, <1>5, <1>7, <1>8 DEF TypeOK, schedVars, CpuType, ThreadSteps
<1>10. /\ \A r \in Procs : r # p => /\ plock'[r] = plock[r] /\ state'[r] = state[r]
                                    /\ asleepOn'[r] <=> asleepOn[r]
       /\ plock'[p] = IF "kernel" \in Locked THEN c ELSE NoCPU
       /\ state'[p] = "running" /\ ~asleepOn'[p]
  BY <1>2, <1>4, <1>8 DEF Locked
<1> QED
  BY <1>1, <1>2, <1>3, <1>4, <1>5, <1>7, <1>9, <1>10, ThreadInv
     DEF ThreadSteps, ThreadDepth

LEMMA setInterruptsStep ==
  ASSUME IInv, NEW c \in CPUs, NEW p \in Procs, setInterrupts(c, p)
  PROVE  IInv'
<1>1. TypeOK /\ NoCPU \notin CPUs
  BY SchedulerAssumption DEF IInv
<1>2. /\ stack[c] = p /\ wpc[c] = "none" /\ pc[p] = "kernel"
      /\ plock[p] = NoCPU /\ state[p] = "running" /\ ~asleepOn[p]
      /\ lk # c /\ cpu[c].depth = 0
  BY Here DEF setInterrupts, ThreadSteps, Thread, Locked, ThreadDepth
<1>3. cpu[c].intr <=> asked[p]
  BY <1>2 DEF IInv, Settings
<1>4. /\ UNCHANGED <<state, asleepOn, plock, lk, event, after, saved, panic>>
      /\ UNCHANGED <<schedVars, wakeVars, wpc, wslot, wirq>>
  BY <1>2 DEF setInterrupts, Thread, wakeVars
<1>5. pc' = [pc EXCEPT ![p] = "kernel"]
  BY <1>1, <1>2 DEF setInterrupts, Thread, TypeOK
<1>6. /\ cpu' \in [CPUs -> CpuType]
      /\ \A d \in CPUs : d # c => cpu'[d] = cpu[d]
      /\ cpu'[c].depth = 0 /\ (cpu'[c].intr <=> ~cpu[c].intr)
  BY <1>1, <1>2, SetFacts DEF setInterrupts
<1>7. asked' \in [Procs -> BOOLEAN] /\ (asked'[p] <=> ~asked[p])
      /\ \A r \in Procs : r # p => (asked'[r] <=> asked[r])
  BY <1>1, <1>2, <1>6 DEF setInterrupts, TypeOK, Thread, CpuType
<1>8. TypeOK'
  BY <1>1, <1>4, <1>5, <1>6, <1>7 DEF TypeOK, schedVars, CpuType, ThreadSteps
<1> QED
  BY <1>1, <1>2, <1>3, <1>4, <1>5, <1>6, <1>7, <1>8, ThreadInv, ZenonT(60)
     DEF ThreadSteps, ThreadDepth, Locked

-----------------------------------------------------------------------------
(* Context switches.                                                        *)

LEMMA NoPanic ==
  ASSUME NEW c \in CPUs, NEW p \in Procs, TypeOK, plock[p] = c, state[p] # "running",
         cpu[c].depth = 1, ~cpu[c].intr
  PROVE  Failed(c, p) = "none"
BY DEF Failed

\* switchToScheduler finds nothing to panic about, and leaves the process to
\* the CPU's scheduler with its lock held.
LEMMA switchToSchedulerStep ==
  ASSUME IInv, NEW c \in CPUs, NEW p \in Procs, switchToScheduler(c, p)
  PROVE  IInv'
<1>1. TypeOK /\ NoCPU \notin CPUs /\ NoProc \notin Procs
  BY SchedulerAssumption DEF IInv, Procs
<1>2. PICK s \in {"yield", "asleep"} :
        /\ Thread(c, p, s)
        /\ pc' = [pc EXCEPT ![p] = IF s = "yield" THEN "yielded" ELSE "tidy"]
  BY DEF switchToScheduler
<1>3. /\ stack[c] = p /\ wpc[c] = "none" /\ pc[p] = s /\ plock[p] = c
      /\ state[p] # "running" /\ lk # c /\ cpu[c].depth = 1
  BY <1>2, Here DEF ThreadSteps, Locked, ThreadDepth
<1>4. ~cpu[c].intr
  BY <1>3 DEF IInv, Depth
<1>5. panic' = "none"
  BY <1>1, <1>3, <1>4, NoPanic DEF switchToScheduler
<1>6. /\ spc[c] = "back" /\ slot[c] = p /\ running[c] = p
      /\ \A d \in CPUs : (spc[d] # "scan" /\ slot[d] = p) \/ stack[d] = p \/ plock[p] = d => d = c
  BY <1>3, Owner
<1>7. /\ \A r \in Procs : r # p => pc'[r] = pc[r]
      /\ pc'[p] = IF s = "yield" THEN "yielded" ELSE "tidy"
      /\ pc' \in [Procs -> ThreadSteps]
  BY <1>1, <1>2 DEF TypeOK, ThreadSteps
<1>8. /\ \A d \in CPUs : stack'[d] = IF d = c THEN NoProc ELSE stack[d]
      /\ stack' \in [CPUs -> Procs \cup {NoProc}]
  BY <1>1 DEF switchToScheduler, TypeOK
<1>9. /\ \A r \in Procs : r # p => (saved'[r] <=> saved[r])
      /\ saved'[p] <=> cpu[c].intena
      /\ saved' \in [Procs -> BOOLEAN]
  <2>1. cpu[c].intena \in BOOLEAN
    BY <1>1 DEF TypeOK
  <2> QED
    BY <1>1, <2>1 DEF switchToScheduler, TypeOK
<1>10. /\ UNCHANGED <<state, asleepOn, plock, lk, event, cpu, running, slot, spc, after>>
       /\ UNCHANGED <<wpc, wslot, wirq, asked>>
  BY DEF switchToScheduler, wakeVars
<1>11. TypeOK'
  BY <1>1, <1>5, <1>7, <1>8, <1>9, <1>10 DEF TypeOK
<1>12. Switching'
  BY <1>1, <1>3, <1>6, <1>8, <1>10 DEF IInv, Switching
<1>13. OneOwner' /\ Locks'
  BY <1>10 DEF IInv, OneOwner, Locks
<1>14. Executing'
  BY <1>1, <1>6, <1>7, <1>8, <1>10 DEF IInv, Executing
<1>15. Resting'
  BY <1>3, <1>7, <1>8, <1>10 DEF IInv, Resting
<1>16. Asleep'
  BY <1>3, <1>7, <1>10 DEF IInv, Asleep
<1>17. Handlers'
  BY <1>1, <1>3, <1>6, <1>7, <1>8, <1>10 DEF IInv, Handlers
<1>18. Condition'
  <2>1. \A d \in CPUs, r \in Procs : stack'[d] = r => d # c /\ r # p /\ stack[d] = r /\ pc'[r] = pc[r]
    BY <1>1, <1>6, <1>7, <1>8
  <2>2. \A d \in CPUs, r \in Procs : stack[d] = r /\ d # c => stack'[d] = r /\ pc'[r] = pc[r]
    BY <1>6, <1>7, <1>8
  <2> QED
    BY <1>3, <1>10, <2>1, <2>2 DEF IInv, Condition
<1>19. Depth'
  <2>1. ASSUME NEW d \in CPUs, d # c PROVE Base(d)' = Base(d)
    <3>1. stack[d] \in Procs \cup {NoProc}
      BY <1>1 DEF TypeOK
    <3> QED
      BY <1>6, <1>7, <1>8, <1>10, <2>1, <3>1 DEF Base
  <2>2. Base(c)' = 1
    BY <1>6, <1>8, <1>10 DEF Base
  <2> QED
    BY <1>3, <1>4, <1>10, <2>1, <2>2 DEF IInv, Depth
<1>20. Settings'
  <2>1. \A d \in CPUs, r \in Procs : stack'[d] = r => r # p /\ stack[d] = r /\ pc'[r] = pc[r]
    BY <1>1, <1>6, <1>7, <1>8
  <2>2. /\ s = "asleep" => (cpu[c].intena <=> asked[p])
        /\ s = "yield" => ~cpu[c].intena /\ (asked[p] <=> after[p] # "call")
    BY <1>3 DEF IInv, Settings
  <2>3. ASSUME NEW r \in Procs
        PROVE  /\ pc'[r] \in {"yield", "yielded"} => (asked[r] <=> after[r] # "call")
               /\ pc'[r] = "tidy" => (saved'[r] <=> asked[r])
               /\ pc'[r] = "yielded" => ~saved'[r]
    BY <1>7, <1>9, <2>2 DEF IInv, Settings
  <2> QED
    BY <1>10, <2>1, <2>3 DEF IInv, Settings
<1> QED
  BY <1>5, <1>11, <1>12, <1>13, <1>14, <1>15, <1>16, <1>17, <1>18, <1>19, <1>20 DEF IInv

-----------------------------------------------------------------------------
(* scheduler.loop.                                                          *)

\* The step of a CPU that executes its scheduler, seen from interrupts and the
\* condition lock.
LEMMA SchedulerFrame ==
  ASSUME IInv, NEW c \in CPUs, stack[c] = NoProc, wpc[c] = "none",
         UNCHANGED <<stack, pc, lk, wpc, wirq, saved, after, asked>>,
         \A d \in CPUs : d # c => spc'[d] = spc[d] /\ cpu'[d] = cpu[d],
         cpu'[c].depth = IF spc'[c] = "scan" THEN 0 ELSE 1,
         cpu'[c].depth # 0 => ~cpu'[c].intr
  PROVE  Handlers' /\ Condition' /\ Depth' /\ Settings'
<1>1. NoCPU \notin CPUs /\ NoProc \notin Procs
  BY SchedulerAssumption DEF Procs
<1>2. Handlers'
  BY DEF IInv, Handlers
<1>3. Condition'
  BY DEF IInv, Condition
<1>4. Depth'
  <2>1. ASSUME NEW d \in CPUs, d # c PROVE Base(d)' = Base(d)
    BY <2>1 DEF Base
  <2>2. Base(c)' = IF spc'[c] = "scan" THEN 0 ELSE 1
    BY DEF Base
  <2> QED
    BY <2>1, <2>2 DEF IInv, Depth
<1>5. Settings'
  <2>1. \A d \in CPUs, r \in Procs : stack[d] = r => cpu'[d] = cpu[d]
    BY <1>1
  <2> QED
    BY <2>1 DEF IInv, Settings
<1> QED
  BY <1>2, <1>3, <1>4, <1>5

\* The locks a CPU holds while it executes its scheduler.
LEMMA SchedulerDepth ==
  ASSUME IInv, NEW c \in CPUs, InScheduler(c)
  PROVE  /\ stack[c] = NoProc /\ wpc[c] = "none"
         /\ cpu[c].depth = IF spc[c] = "scan" THEN 0 ELSE 1
BY DEF IInv, Depth, Base, InScheduler

LEMMA loopRoundStep ==
  ASSUME IInv, NEW c \in CPUs, loopRound(c)
  PROVE  IInv'
<1>1. TypeOK
  BY DEF IInv
<1>2. stack[c] = NoProc /\ wpc[c] = "none" /\ spc[c] = "scan" /\ cpu[c].depth = 0
  BY SchedulerDepth DEF loopRound
<1>3. /\ UNCHANGED <<state, asleepOn, plock, lk, event, running, stack, spc, pc, saved, after>>
      /\ UNCHANGED <<wpc, wslot, wirq, asked, panic>>
  BY DEF loopRound, wakeVars
<1>4. /\ cpu' \in [CPUs -> CpuType] /\ \A d \in CPUs : d # c => cpu'[d] = cpu[d]
      /\ cpu'[c].depth = 0
  BY <1>1, <1>2, SetFacts DEF loopRound
<1>5. slot' \in [CPUs -> 1 .. NProc + 1] /\ \A d \in CPUs : d # c => slot'[d] = slot[d]
  BY <1>1, SchedulerAssumption DEF loopRound, TypeOK
<1>6. TypeOK'
  BY <1>1, <1>3, <1>4, <1>5 DEF TypeOK, CpuType
<1>7. Switching'
  BY <1>2, <1>3, <1>5 DEF IInv, Switching
<1>8. OneOwner' /\ Locks'
  BY <1>2, <1>3, <1>5 DEF IInv, OneOwner, Locks
<1>9. Executing' /\ Resting' /\ Asleep' /\ panic' = "none"
  BY <1>3 DEF IInv, Executing, Resting, Asleep
<1>10. Handlers' /\ Condition' /\ Depth' /\ Settings'
  BY <1>2, <1>3, <1>4, SchedulerFrame
<1> QED
  BY <1>6, <1>7, <1>8, <1>9, <1>10 DEF IInv

\* A runnable process whose lock is free is dealt with by no CPU.
LEMMA Unowned ==
  ASSUME IInv, NEW p \in Procs, state[p] = "runnable", plock[p] = NoCPU
  PROVE  \A d \in CPUs : /\ stack[d] # p
                         /\ spc[d] # "scan" => slot[d] # p
<1>1. NoCPU \notin CPUs /\ NoProc \notin Procs
  BY SchedulerAssumption DEF Procs
<1>2. \A d \in CPUs : stack[d] # p
  BY <1>1 DEF IInv, Executing, Locked
<1>3. ASSUME NEW d \in CPUs, spc[d] # "scan", slot[d] = p PROVE FALSE
  <2>1. spc[d] \in {"switch", "back"}
    BY <1>3 DEF IInv, TypeOK
  <2>2. plock[p] = d
    BY <1>2, <1>3, <2>1 DEF IInv, Switching
  <2> QED
    BY <1>1, <2>2
<1> QED
  BY <1>2, <1>3

LEMMA loopScanStep ==
  ASSUME IInv, NEW c \in CPUs, loopScan(c)
  PROVE  IInv'
<1>1. TypeOK /\ NoCPU \notin CPUs /\ NoProc \notin Procs
  BY SchedulerAssumption DEF IInv, Procs
<1>2. /\ stack[c] = NoProc /\ wpc[c] = "none" /\ spc[c] = "scan" /\ cpu[c].depth = 0
      /\ slot[c] \in Procs /\ plock[slot[c]] = NoCPU /\ running[c] = NoProc
  BY SchedulerDepth DEF loopScan, LockFree, IInv, Switching
<1>3. /\ UNCHANGED <<state, asleepOn, lk, event, running, stack, pc, saved, after>>
      /\ UNCHANGED <<wpc, wslot, wirq, asked, panic>>
  BY DEF loopScan, wakeVars
<1>4. CASE state[slot[c]] = "runnable"
  <2>1. /\ plock' = [plock EXCEPT ![slot[c]] = c] /\ Pushed(c)
        /\ spc' = [spc EXCEPT ![c] = "switch"] /\ slot' = slot
    BY <1>4 DEF loopScan
  <2>2. /\ cpu' \in [CPUs -> CpuType] /\ \A d \in CPUs : d # c => cpu'[d] = cpu[d]
        /\ cpu'[c].depth = 1 /\ ~cpu'[c].intr
    BY <1>1, <1>2, <2>1, PushFacts
  <2>3. /\ \A d \in CPUs : /\ stack[d] # slot[c]
                           /\ spc[d] # "scan" => slot[d] # slot[c]
    BY <1>2, <1>4, Unowned
  <2>4. /\ \A d \in CPUs : spc'[d] = IF d = c THEN "switch" ELSE spc[d]
        /\ \A r \in Procs : plock'[r] = IF r = slot[c] THEN c ELSE plock[r]
    BY <1>1, <2>1 DEF TypeOK
  <2>5. TypeOK'
    BY <1>1, <1>3, <2>1, <2>2 DEF TypeOK, CpuType
  <2>6. Switching'
    BY <1>2, <1>3, <1>4, <2>1, <2>3, <2>4 DEF IInv, Switching
  <2>7. OneOwner'
    BY <2>1, <2>3, <2>4 DEF IInv, OneOwner
  <2>8. Locks'
    BY <1>2, <2>1, <2>4 DEF IInv, Locks
  <2>9. Executing'
    BY <1>3, <2>3, <2>4 DEF IInv, Executing
  <2>10. Resting' /\ Asleep' /\ panic' = "none"
    BY <1>3 DEF IInv, Resting, Asleep
  <2>11. Handlers' /\ Condition' /\ Depth' /\ Settings'
    BY <1>2, <1>3, <2>2, <2>4, SchedulerFrame
  <2> QED
    BY <2>5, <2>6, <2>7, <2>8, <2>9, <2>10, <2>11 DEF IInv
<1>5. CASE state[slot[c]] # "runnable"
  <2>1. slot' = [slot EXCEPT ![c] = slot[c] + 1] /\ UNCHANGED <<plock, cpu, spc>>
    BY <1>5 DEF loopScan
  <2>2. slot' \in [CPUs -> 1 .. NProc + 1] /\ \A d \in CPUs : d # c => slot'[d] = slot[d]
    BY <1>1, <1>2, <2>1, SchedulerAssumption DEF TypeOK, Procs
  <2>3. TypeOK'
    BY <1>1, <1>3, <2>1, <2>2 DEF TypeOK
  <2>4. Switching'
    BY <1>2, <1>3, <2>1, <2>2 DEF IInv, Switching
  <2>5. OneOwner' /\ Locks'
    BY <1>2, <1>3, <2>1, <2>2 DEF IInv, OneOwner, Locks
  <2>6. Executing' /\ Resting' /\ Asleep' /\ panic' = "none"
    BY <1>3, <2>1 DEF IInv, Executing, Resting, Asleep
  <2>7. Handlers' /\ Condition' /\ Depth' /\ Settings'
    BY <1>2, <1>3, <2>1, SchedulerFrame
  <2> QED
    BY <2>3, <2>4, <2>5, <2>6, <2>7 DEF IInv
<1> QED
  BY <1>4, <1>5

LEMMA loopBackStep ==
  ASSUME IInv, NEW c \in CPUs, loopBack(c)
  PROVE  IInv'
<1>1. TypeOK /\ NoCPU \notin CPUs /\ NoProc \notin Procs
  BY SchedulerAssumption DEF IInv, Procs
<1>2. stack[c] = NoProc /\ wpc[c] = "none" /\ spc[c] = "back" /\ cpu[c].depth = 1
  BY SchedulerDepth DEF loopBack
<1>3. slot[c] \in Procs /\ running[c] = slot[c] /\ plock[slot[c]] = c
  BY <1>2 DEF IInv, Switching
<1>4. /\ UNCHANGED <<state, asleepOn, lk, event, stack, pc, saved, after>>
      /\ UNCHANGED <<wpc, wslot, wirq, asked, panic>>
  BY DEF loopBack, wakeVars
<1>5. /\ \A r \in Procs : plock'[r] = IF r = slot[c] THEN NoCPU ELSE plock[r]
      /\ plock' \in [Procs -> CPUs \cup {NoCPU}]
  BY <1>1 DEF loopBack, TypeOK
<1>6. /\ \A d \in CPUs : /\ running'[d] = IF d = c THEN NoProc ELSE running[d]
                         /\ spc'[d] = IF d = c THEN "scan" ELSE spc[d]
                         /\ d # c => slot'[d] = slot[d]
      /\ running' \in [CPUs -> Procs \cup {NoProc}]
      /\ spc' \in [CPUs -> {"scan", "switch", "back"}]
  BY <1>1 DEF loopBack, TypeOK, NoCurrent, NextSlot
<1>7. slot' \in [CPUs -> 1 .. NProc + 1]
  BY <1>1, <1>3, SchedulerAssumption DEF loopBack, NextSlot, TypeOK, Procs
<1>8. /\ cpu' \in [CPUs -> CpuType] /\ \A d \in CPUs : d # c => cpu'[d] = cpu[d]
      /\ cpu'[c].depth = 0
  BY <1>1, <1>2, PopFacts DEF loopBack
<1>9. \A d \in CPUs : (spc[d] # "scan" /\ slot[d] = slot[c]) => d = c
  BY <1>2 DEF IInv, OneOwner
<1>10. \A d \in CPUs : stack[d] # slot[c]
  BY <1>1, <1>2, <1>3, Owner
<1>11. TypeOK'
  BY <1>1, <1>4, <1>5, <1>6, <1>7, <1>8 DEF TypeOK, CpuType
<1>12. Switching'
  BY <1>2, <1>4, <1>5, <1>6, <1>9 DEF IInv, Switching
<1>13. OneOwner'
  BY <1>6 DEF IInv, OneOwner
<1>14. Locks'
  BY <1>1, <1>3, <1>5, <1>6 DEF IInv, Locks
<1>15. Executing'
  BY <1>4, <1>5, <1>10 DEF IInv, Executing
<1>16. Resting' /\ Asleep' /\ panic' = "none"
  BY <1>4 DEF IInv, Resting, Asleep
<1>17. Handlers' /\ Condition' /\ Depth' /\ Settings'
  BY <1>2, <1>4, <1>6, <1>8, SchedulerFrame
<1> QED
  BY <1>11, <1>12, <1>13, <1>14, <1>15, <1>16, <1>17 DEF IInv

\* The chosen process rests with its lock held by this CPU; it goes on with the
\* interrupt setting it had, or starts in forkReturn.
LEMMA loopSwitchStep ==
  ASSUME IInv, NEW c \in CPUs, NEW p \in Procs, p = slot[c], loopSwitch(c)
  PROVE  IInv'
<1>1. TypeOK /\ NoCPU \notin CPUs /\ NoProc \notin Procs
  BY SchedulerAssumption DEF IInv, Procs
<1>2. stack[c] = NoProc /\ wpc[c] = "none" /\ spc[c] = "switch" /\ cpu[c].depth = 1
  BY SchedulerDepth DEF loopSwitch
<1>3. plock[p] = c /\ state[p] = "runnable" /\ running[c] = NoProc
  BY <1>2 DEF IInv, Switching
<1>4. \A d \in CPUs : spc[d] # "scan" /\ slot[d] = p => d = c
  BY <1>2 DEF IInv, OneOwner
<1>5. \A d \in CPUs : stack[d] # p
  BY <1>1, <1>2, Owner
<1>6. pc[p] \in {"new", "yielded", "tidy"}
  BY <1>5 DEF IInv, Resting
<1>7. /\ UNCHANGED <<asleepOn, plock, lk, event, slot, pc, saved, after>>
      /\ UNCHANGED <<wpc, wslot, wirq, asked, panic>>
  BY DEF loopSwitch, wakeVars
<1>8. /\ \A r \in Procs : state'[r] = IF r = p THEN "running" ELSE state[r]
      /\ state' \in [Procs -> {"runnable", "running", "sleeping"}]
  BY <1>1 DEF loopSwitch, Chosen, TypeOK
<1>9. /\ \A d \in CPUs : /\ running'[d] = IF d = c THEN p ELSE running[d]
                         /\ stack'[d] = IF d = c THEN p ELSE stack[d]
                         /\ spc'[d] = IF d = c THEN "back" ELSE spc[d]
      /\ running' \in [CPUs -> Procs \cup {NoProc}] /\ stack' \in [CPUs -> Procs \cup {NoProc}]
      /\ spc' \in [CPUs -> {"scan", "switch", "back"}]
  BY <1>1 DEF loopSwitch, TypeOK
<1>10. /\ cpu' \in [CPUs -> CpuType] /\ \A d \in CPUs : d # c => cpu'[d] = cpu[d]
       /\ cpu'[c].depth = 1 /\ ~cpu'[c].intr
       /\ pc[p] # "new" => (cpu'[c].intena <=> saved[p])
  <2>1. cpu \in [CPUs -> CpuType] /\ saved[p] \in BOOLEAN
    BY <1>1 DEF TypeOK, CpuType
  <2>2. cpu[c] \in CpuType /\ ~cpu[c].intr
    BY <1>2, <2>1 DEF IInv, Depth
  <2>3. cpu' = [cpu EXCEPT ![c] = Resumed(p, cpu[c])]
    BY DEF loopSwitch
  <2>4. /\ Resumed(p, cpu[c]) \in CpuType
        /\ Resumed(p, cpu[c]).depth = 1 /\ ~Resumed(p, cpu[c]).intr
        /\ pc[p] # "new" => (Resumed(p, cpu[c]).intena <=> saved[p])
    <3>1. CASE pc[p] = "new"
      BY <1>2, <2>2, <3>1 DEF Resumed
    <3>2. CASE pc[p] # "new"
      <4>1. Resumed(p, cpu[c]) = [cpu[c] EXCEPT !.intena = saved[p]]
        BY <3>2 DEF Resumed
      <4> QED
        BY <1>2, <2>1, <2>2, <4>1 DEF CpuType
    <3> QED
      BY <3>1, <3>2
  <2> HIDE DEF CpuType
  <2>5. cpu' \in [CPUs -> CpuType] /\ cpu'[c] = Resumed(p, cpu[c])
    BY <2>1, <2>3, <2>4
  <2>6. \A d \in CPUs : d # c => cpu'[d] = cpu[d]
    BY <2>1, <2>3
  <2> QED
    BY <2>4, <2>5, <2>6
<1>11. TypeOK'
  BY <1>1, <1>7, <1>8, <1>9, <1>10 DEF TypeOK, CpuType
<1>12. Switching'
  BY <1>1, <1>2, <1>4, <1>7, <1>8, <1>9 DEF IInv, Switching
<1>13. OneOwner' /\ Locks'
  BY <1>2, <1>7, <1>9 DEF IInv, OneOwner, Locks
<1>14. Executing'
  BY <1>1, <1>3, <1>5, <1>6, <1>7, <1>8, <1>9 DEF IInv, Executing, Locked
<1>15. Resting'
  BY <1>1, <1>2, <1>7, <1>8, <1>9 DEF IInv, Resting
<1>16. Asleep' /\ panic' = "none"
  BY <1>7, <1>8 DEF IInv, Asleep
<1>17. Handlers'
  BY <1>1, <1>2, <1>7, <1>9 DEF IInv, Handlers
<1>18. Condition'
  BY <1>1, <1>2, <1>6, <1>7, <1>9 DEF IInv, Condition
<1>19. Depth'
  <2>1. ASSUME NEW d \in CPUs, d # c PROVE Base(d)' = Base(d)
    BY <1>7, <1>9, <2>1 DEF Base
  <2>2. Base(c)' = 1
    BY <1>1, <1>6, <1>7, <1>9 DEF Base, ThreadDepth
  <2> QED
    BY <1>2, <1>7, <1>10, <2>1, <2>2 DEF IInv, Depth
<1>20. Settings'
  <2>1. \A d \in CPUs, r \in Procs : stack'[d] = r /\ d # c => stack[d] = r /\ cpu'[d] = cpu[d]
    BY <1>9, <1>10
  <2>2. \A r \in Procs : stack'[c] = r => r = p
    BY <1>9
  <2>3. /\ pc[p] = "tidy" => (cpu'[c].intena <=> asked[p])
        /\ pc[p] = "yielded" => ~cpu'[c].intena
    BY <1>10 DEF IInv, Settings
  <2>4. ASSUME NEW d \in CPUs, NEW r \in Procs, stack'[d] = r
        PROVE  /\ pc[r] \in {"kernel", "woken"} =>
                    IF wpc[d] # "none" /\ wirq[d]
                    THEN asked[r] /\ ~cpu'[d].intr /\ (wpc[d] = "scan" /\ lk = d => ~cpu'[d].intena)
                    ELSE IF wpc[d] = "scan" /\ lk = d THEN cpu'[d].intena <=> asked[r]
                                                      ELSE cpu'[d].intr <=> asked[r]
               /\ pc[r] = "preempted" => asked[r] /\ ~cpu'[d].intr /\ after[r] # "call"
               /\ pc[r] \in {"check", "locked", "released", "asleep", "tidy"} =>
                    (cpu'[d].intena <=> asked[r])
               /\ pc[r] \in {"yield", "yielded"} => ~cpu'[d].intena
    <3>1. CASE d = c
      BY <1>6, <2>2, <2>3, <2>4, <3>1
    <3>2. CASE d # c
      BY <2>1, <2>4, <3>2 DEF IInv, Settings
    <3> QED
      BY <3>1, <3>2
  <2> QED
    BY <1>7, <2>4 DEF IInv, Settings
<1> QED
  BY <1>11, <1>12, <1>13, <1>14, <1>15, <1>16, <1>17, <1>18, <1>19, <1>20 DEF IInv

-----------------------------------------------------------------------------
(* Wakeups.                                                                 *)

\* A step of the wakeup on c, seen from the threads: it moves no thread, and
\* what it owes is owed on c alone.
LEMMA HandlerFrame ==
  ASSUME IInv, NEW c \in CPUs, TypeOK',
         UNCHANGED <<state, asleepOn, plock, running, stack, slot, spc, pc, saved, after>>,
         UNCHANGED <<asked, panic>>,
         \A d \in CPUs : d # c => /\ cpu'[d] = cpu[d] /\ (lk' = d <=> lk = d)
                                  /\ wpc'[d] = wpc[d] /\ (wirq'[d] <=> wirq[d]),
         wpc'[c] # "none" =>
           /\ stack[c] = NoProc => spc[c] = "scan" /\ wirq'[c]
           /\ \A p \in Procs : stack[c] = p => pc[p] = "kernel" \/ (pc[p] = "woken" /\ wirq'[c]),
         lk' = c => wpc'[c] = "scan",
         \A p \in Procs : stack[c] = p => pc[p] \in {"kernel", "woken"},
         cpu'[c].depth = IF wpc'[c] = "scan" /\ lk' = c THEN Base(c) + 1 ELSE Base(c),
         cpu'[c].depth # 0 => ~cpu'[c].intr,
         \A p \in Procs : stack[c] = p =>
           IF wpc'[c] # "none" /\ wirq'[c]
           THEN asked[p] /\ ~cpu'[c].intr /\ (wpc'[c] = "scan" /\ lk' = c => ~cpu'[c].intena)
           ELSE IF wpc'[c] = "scan" /\ lk' = c THEN cpu'[c].intena <=> asked[p]
                                               ELSE cpu'[c].intr <=> asked[p]
  PROVE  IInv'
<1>1. /\ Switching' /\ OneOwner' /\ Locks' /\ Executing' /\ Resting' /\ Asleep'
      /\ panic' = "none"
  BY DEF IInv, Switching, OneOwner, Locks, Executing, Resting, Asleep
<1>2. Handlers'
  BY DEF IInv, Handlers
<1>3. Condition'
  <2>1. ASSUME NEW d \in CPUs
        PROVE  /\ \A r \in Procs : stack[d] = r /\ pc[r] \in {"check", "locked"} => lk' = d
               /\ lk' = d => \/ wpc'[d] = "scan"
                             \/ \E r \in Procs : stack[d] = r /\ pc[r] \in {"check", "locked"}
    <3>1. CASE d = c
      BY <3>1
    <3>2. CASE d # c
      BY <3>2 DEF IInv, Condition
    <3> QED
      BY <3>1, <3>2
  <2> QED
    BY <2>1 DEF Condition
<1>4. Depth'
  <2>1. \A d \in CPUs : Base(d)' = Base(d)
    BY DEF Base
  <2> QED
    BY <2>1 DEF IInv, Depth
<1>5. Settings'
  <2>1. ASSUME NEW d \in CPUs, NEW r \in Procs, stack[d] = r
        PROVE  /\ pc[r] \in {"kernel", "woken"} =>
                    IF wpc'[d] # "none" /\ wirq'[d]
                    THEN asked[r] /\ ~cpu'[d].intr /\ (wpc'[d] = "scan" /\ lk' = d => ~cpu'[d].intena)
                    ELSE IF wpc'[d] = "scan" /\ lk' = d THEN cpu'[d].intena <=> asked[r]
                                                        ELSE cpu'[d].intr <=> asked[r]
               /\ pc[r] = "preempted" => asked[r] /\ ~cpu'[d].intr /\ after[r] # "call"
               /\ pc[r] \in {"check", "locked", "released", "asleep", "tidy"} =>
                    (cpu'[d].intena <=> asked[r])
               /\ pc[r] \in {"yield", "yielded"} => ~cpu'[d].intena
    <3>1. CASE d = c
      BY <2>1, <3>1
    <3>2. CASE d # c
      BY <2>1, <3>2 DEF IInv, Settings
    <3> QED
      BY <3>1, <3>2
  <2> QED
    BY <2>1 DEF IInv, Settings
<1> QED
  BY <1>1, <1>2, <1>3, <1>4, <1>5 DEF IInv

\* An interrupt comes only outside all locks.
LEMMA Interruptible ==
  ASSUME IInv, NEW c \in CPUs, wpc[c] = "none", cpu[c].intr
  PROVE  /\ Base(c) = 0 /\ cpu[c].depth = 0 /\ lk # c
         /\ stack[c] = NoProc => spc[c] = "scan"
         /\ \A p \in Procs : stack[c] = p => pc[p] \in {"kernel", "woken"} /\ asked[p]
<1>1. stack[c] \in Procs \cup {NoProc} /\ \A p \in Procs : pc[p] \in ThreadSteps
  BY DEF IInv, TypeOK
<1>2. cpu[c].depth = 0 /\ Base(c) = 0
  BY DEF IInv, Depth
<1>3. \A p \in Procs : stack[c] = p => ThreadDepth(pc[p]) = 0
  BY <1>2, SchedulerAssumption DEF Base, Procs
<1>4. \A p \in Procs : stack[c] = p => pc[p] \in {"kernel", "woken", "preempted"}
  BY <1>1, <1>3 DEF ThreadDepth
<1>5. \A p \in Procs : stack[c] = p => pc[p] \in {"kernel", "woken"}
  BY <1>4 DEF IInv, Settings
<1>6. \A p \in Procs : stack[c] = p => asked[p]
  BY <1>5 DEF IInv, Settings
<1>7. lk # c
  BY <1>5 DEF IInv, Condition
<1>8. stack[c] = NoProc => spc[c] = "scan"
  BY <1>2 DEF Base
<1> QED
  BY <1>2, <1>5, <1>6, <1>7, <1>8

\* What a wakeup runs on top of holds no lock.
LEMMA InHandler ==
  ASSUME IInv, NEW c \in CPUs, wpc[c] # "none"
  PROVE  /\ Base(c) = 0
         /\ cpu[c].depth = IF wpc[c] = "scan" /\ lk = c THEN 1 ELSE 0
         /\ stack[c] = NoProc => spc[c] = "scan" /\ wirq[c]
         /\ \A p \in Procs : stack[c] = p => pc[p] = "kernel" \/ (pc[p] = "woken" /\ wirq[c])
<1>1. stack[c] \in Procs \cup {NoProc}
  BY DEF IInv, TypeOK
<1>2. stack[c] = NoProc => spc[c] = "scan" /\ wirq[c]
  BY DEF IInv, Handlers
<1>3. \A p \in Procs : stack[c] = p => pc[p] = "kernel" \/ (pc[p] = "woken" /\ wirq[c])
  BY DEF IInv, Handlers
<1>4. Base(c) = 0
  BY <1>1, <1>2, <1>3 DEF Base, ThreadDepth
<1> QED
  BY <1>2, <1>3, <1>4 DEF IInv, Depth

LEMMA startWakeupStep ==
  ASSUME IInv, NEW c \in CPUs, startWakeup(c)
  PROVE  IInv'
<1>1. TypeOK /\ wpc[c] = "none"
  BY DEF IInv, startWakeup
<1>2. /\ UNCHANGED <<state, asleepOn, plock, lk, event, running, stack, slot, spc, pc, saved, after>>
      /\ UNCHANGED <<wslot, asked, panic>>
  BY DEF startWakeup, schedVars
<1>3. /\ wpc' \in [CPUs -> {"none", "post", "scan"}]
      /\ wpc'[c] = "post" /\ \A d \in CPUs : d # c => wpc'[d] = wpc[d]
  BY <1>1 DEF startWakeup, TypeOK
<1>4. CASE cpu[c].intr /\ wirq' = [wirq EXCEPT ![c] = TRUE] /\ cpu' = [cpu EXCEPT ![c].intr = FALSE]
  <2>1. /\ Base(c) = 0 /\ cpu[c].depth = 0 /\ lk # c
        /\ stack[c] = NoProc => spc[c] = "scan"
        /\ \A p \in Procs : stack[c] = p => pc[p] \in {"kernel", "woken"} /\ asked[p]
    BY <1>1, <1>4, Interruptible
  <2>2. /\ wirq' \in [CPUs -> BOOLEAN] /\ wirq'[c]
        /\ \A d \in CPUs : d # c => (wirq'[d] <=> wirq[d])
    BY <1>1, <1>4 DEF TypeOK
  <2>3. /\ cpu' \in [CPUs -> CpuType] /\ \A d \in CPUs : d # c => cpu'[d] = cpu[d]
        /\ cpu'[c].depth = 0 /\ ~cpu'[c].intr
    BY <1>1, <1>4, <2>1, SetFacts
  <2>4. TypeOK'
    BY <1>1, <1>2, <1>3, <2>2, <2>3 DEF TypeOK, CpuType
  <2> QED
    BY <1>2, <1>3, <2>1, <2>2, <2>3, <2>4, HandlerFrame
<1>5. CASE /\ stack[c] # NoProc /\ pc[stack[c]] = "kernel" /\ cpu' = cpu
           /\ wirq' = [wirq EXCEPT ![c] = FALSE]
  <2>1. /\ wirq' \in [CPUs -> BOOLEAN] /\ ~wirq'[c]
        /\ \A d \in CPUs : d # c => (wirq'[d] <=> wirq[d])
    BY <1>1, <1>5 DEF TypeOK
  <2>2. PICK p \in Procs : stack[c] = p /\ pc[p] = "kernel"
    BY <1>1, <1>5 DEF TypeOK
  <2>3. Base(c) = 0
    BY <1>5 DEF Base, ThreadDepth
  <2>4. lk # c
    BY <1>1, <2>2 DEF IInv, Condition
  <2>5. cpu[c].depth = 0
    BY <1>1, <2>3 DEF IInv, Depth
  <2>6. cpu[c].intr <=> asked[p]
    BY <1>1, <2>2 DEF IInv, Settings
  <2>7. TypeOK'
    BY <1>1, <1>2, <1>3, <1>5, <2>1 DEF TypeOK
  <2> QED
    BY <1>2, <1>3, <1>5, <2>1, <2>2, <2>3, <2>4, <2>5, <2>6, <2>7, HandlerFrame
<1> QED
  BY <1>4, <1>5 DEF startWakeup

LEMMA postEventStep ==
  ASSUME IInv, NEW c \in CPUs, postEvent(c)
  PROVE  IInv'
<1>1. TypeOK /\ wpc[c] = "post" /\ lk = NoCPU /\ lk' = c /\ NoCPU \notin CPUs
  BY SchedulerAssumption DEF IInv, postEvent
<1>2. /\ UNCHANGED <<state, asleepOn, plock, running, stack, slot, spc, pc, saved, after>>
      /\ UNCHANGED <<wirq, asked, panic>>
  BY DEF postEvent, schedVars
<1>3. /\ wpc' \in [CPUs -> {"none", "post", "scan"}]
      /\ wpc'[c] = "scan" /\ \A d \in CPUs : d # c => wpc'[d] = wpc[d]
  BY <1>1 DEF postEvent, TypeOK
<1>4. /\ Base(c) = 0 /\ cpu[c].depth = 0
      /\ stack[c] = NoProc => spc[c] = "scan" /\ wirq[c]
      /\ \A p \in Procs : stack[c] = p => pc[p] = "kernel" \/ (pc[p] = "woken" /\ wirq[c])
  BY <1>1, InHandler
<1>5. /\ cpu' \in [CPUs -> CpuType] /\ \A d \in CPUs : d # c => cpu'[d] = cpu[d]
      /\ cpu'[c].depth = 1 /\ ~cpu'[c].intr /\ (cpu'[c].intena <=> cpu[c].intr)
  BY <1>1, <1>4, PushFacts DEF postEvent
<1>6. \A p \in Procs : stack[c] = p =>
        IF wirq[c] THEN asked[p] /\ ~cpu[c].intr ELSE cpu[c].intr <=> asked[p]
  BY <1>1, <1>4 DEF IInv, Settings
<1>7. wslot' \in [CPUs -> 1 .. NProc + 1] /\ event' \in BOOLEAN
  BY <1>1, SchedulerAssumption DEF postEvent, TypeOK
<1>8. TypeOK'
  BY <1>1, <1>2, <1>3, <1>5, <1>7 DEF TypeOK, CpuType
<1>9. \A p \in Procs : stack[c] = p =>
        IF wirq[c] THEN asked[p] /\ ~cpu'[c].intena ELSE cpu'[c].intena <=> asked[p]
  BY <1>5, <1>6
<1> QED
  BY <1>1, <1>2, <1>3, <1>4, <1>5, <1>8, <1>9, HandlerFrame

LEMMA releaseBeforeWakeupStep ==
  ASSUME IInv, NEW c \in CPUs, releaseBeforeWakeup(c)
  PROVE  IInv'
<1>1. TypeOK /\ wpc[c] = "scan" /\ lk = c /\ lk' = NoCPU /\ NoCPU \notin CPUs
  BY SchedulerAssumption DEF IInv, releaseBeforeWakeup
<1>2. /\ UNCHANGED <<state, asleepOn, plock, event, running, stack, slot, spc, pc, saved, after>>
      /\ UNCHANGED <<wpc, wslot, wirq, asked, panic>>
  BY DEF releaseBeforeWakeup, schedVars, wakeVars
<1>3. /\ Base(c) = 0 /\ cpu[c].depth = 1
      /\ stack[c] = NoProc => spc[c] = "scan" /\ wirq[c]
      /\ \A p \in Procs : stack[c] = p => pc[p] = "kernel" \/ (pc[p] = "woken" /\ wirq[c])
  BY <1>1, InHandler
<1>4. /\ cpu' \in [CPUs -> CpuType] /\ \A d \in CPUs : d # c => cpu'[d] = cpu[d]
      /\ cpu'[c].depth = 0 /\ (cpu'[c].intr <=> cpu[c].intena)
  BY <1>1, <1>3, PopFacts DEF releaseBeforeWakeup
<1>5. \A p \in Procs : stack[c] = p =>
        IF wirq[c] THEN asked[p] /\ ~cpu[c].intena ELSE cpu[c].intena <=> asked[p]
  BY <1>1, <1>3 DEF IInv, Settings
<1>6. TypeOK'
  BY <1>1, <1>2, <1>4 DEF TypeOK, CpuType
<1>7. \A p \in Procs : stack[c] = p =>
        IF wirq[c] THEN asked[p] /\ ~cpu'[c].intr ELSE cpu'[c].intr <=> asked[p]
  BY <1>4, <1>5
<1> QED
  BY <1>1, <1>2, <1>3, <1>4, <1>6, <1>7, HandlerFrame

LEMMA endWakeupStep ==
  ASSUME IInv, NEW c \in CPUs, endWakeup(c)
  PROVE  IInv'
<1>1. TypeOK /\ wpc[c] = "scan" /\ NoCPU \notin CPUs
  BY SchedulerAssumption DEF IInv, endWakeup
<1>2. /\ UNCHANGED <<state, asleepOn, plock, event, running, stack, slot, spc, pc, saved, after>>
      /\ UNCHANGED <<wirq, asked, panic>>
  BY DEF endWakeup, schedVars
<1>3. /\ wpc' \in [CPUs -> {"none", "post", "scan"}]
      /\ wpc'[c] = "none" /\ \A d \in CPUs : d # c => wpc'[d] = wpc[d]
  BY <1>1 DEF endWakeup, TypeOK
<1>4. /\ Base(c) = 0 /\ cpu[c].depth = IF lk = c THEN 1 ELSE 0
      /\ \A p \in Procs : stack[c] = p => pc[p] = "kernel" \/ (pc[p] = "woken" /\ wirq[c])
  BY <1>1, InHandler
<1>5. /\ lk' \in CPUs \cup {NoCPU} /\ lk' # c
      /\ \A d \in CPUs : d # c => (lk' = d <=> lk = d)
  BY <1>1 DEF endWakeup, TypeOK
<1>6. wslot' \in [CPUs -> 1 .. NProc + 1]
  BY <1>1, SchedulerAssumption DEF endWakeup, TypeOK
<1>7. /\ cpu' \in [CPUs -> CpuType] /\ \A d \in CPUs : d # c => cpu'[d] = cpu[d]
      /\ cpu'[c].depth = 0
      /\ wirq[c] => cpu'[c].intr
      /\ ~wirq[c] => (cpu'[c].intr <=> IF lk = c THEN cpu[c].intena ELSE cpu[c].intr)
  <2>1. CASE lk = c /\ wirq[c]
    <3>1. Restored(c)
      BY <2>1 DEF endWakeup, Restored
    <3> QED
      BY <1>1, <1>4, <2>1, <3>1, RestoreFacts
  <2>2. CASE lk = c /\ ~wirq[c]
    <3>1. Popped(c)
      BY <2>2 DEF endWakeup, Popped
    <3> QED
      BY <1>1, <1>4, <2>2, <3>1, PopFacts
  <2>3. CASE lk # c /\ wirq[c]
    <3>1. cpu' = [cpu EXCEPT ![c].intr = TRUE]
      BY <2>3 DEF endWakeup
    <3> QED
      BY <1>1, <1>4, <2>3, <3>1, SetFacts
  <2>4. CASE lk # c /\ ~wirq[c]
    <3>1. cpu' = cpu /\ cpu \in [CPUs -> CpuType]
      BY <1>1, <2>4 DEF endWakeup, TypeOK, CpuType
    <3> QED
      BY <1>4, <2>4, <3>1
  <2> QED
    BY <2>1, <2>2, <2>3, <2>4
<1>8. \A p \in Procs : stack[c] = p => (cpu'[c].intr <=> asked[p])
  BY <1>1, <1>4, <1>7 DEF IInv, Settings
<1>9. TypeOK'
  BY <1>1, <1>2, <1>3, <1>5, <1>6, <1>7 DEF TypeOK, CpuType
<1> QED
  BY <1>2, <1>3, <1>4, <1>5, <1>7, <1>8, <1>9, HandlerFrame

\* wakeup makes a process runnable only when nobody holds its lock, so it has
\* left its stack.
LEMMA wakeupStep ==
  ASSUME IInv, NEW c \in CPUs, wakeup(c)
  PROVE  IInv'
<1>1. TypeOK /\ NoCPU \notin CPUs
  BY SchedulerAssumption DEF IInv
<1>2. /\ UNCHANGED <<asleepOn, plock, lk, event, cpu, running, stack, slot, spc, pc, saved, after>>
      /\ UNCHANGED <<wpc, wirq, asked, panic>>
  BY DEF wakeup, schedVars
<1>3. /\ wslot[c] \in Procs
      /\ state' = state \/ (/\ plock[wslot[c]] = NoCPU /\ state[wslot[c]] = "sleeping"
                            /\ state' = [state EXCEPT ![wslot[c]] = "runnable"])
  BY DEF wakeup, Sleeper
<1>4. \A r \in Procs : \/ state'[r] = state[r]
                       \/ /\ plock[r] = NoCPU /\ state[r] = "sleeping"
                          /\ state'[r] = "runnable"
  BY <1>1, <1>3 DEF TypeOK
<1>5. \A r \in Procs, d \in CPUs : stack[d] = r => state'[r] = state[r]
  BY <1>1, <1>4 DEF IInv, Executing, Locked
<1>6. state' \in [Procs -> {"runnable", "running", "sleeping"}]
  BY <1>1, <1>3 DEF TypeOK
<1>7. wslot' \in [CPUs -> 1 .. NProc + 1]
  BY <1>1, <1>3, SchedulerAssumption DEF wakeup, TypeOK, Procs
<1>8. TypeOK'
  BY <1>1, <1>2, <1>6, <1>7 DEF TypeOK
<1>9. Switching' /\ OneOwner' /\ Locks' /\ panic' = "none"
  BY <1>2, <1>4 DEF IInv, Switching, OneOwner, Locks
<1>10. Executing'
  BY <1>2, <1>5 DEF IInv, Executing
<1>11. Resting' /\ Asleep'
  BY <1>2, <1>4 DEF IInv, Resting, Asleep
<1>12. Handlers' /\ Condition' /\ Settings'
  BY <1>2 DEF IInv, Handlers, Condition, Settings
<1>13. Depth'
  BY <1>2 DEF IInv, Depth, Base
<1> QED
  BY <1>8, <1>9, <1>10, <1>11, <1>12, <1>13 DEF IInv

-----------------------------------------------------------------------------
(* A wakeup still comes to every process that needs one.                    *)

\* Steps of schedulers and threads: nobody starts to wait once the event is
\* there, because the last look at it and the process lock come before the
\* condition lock is released.
LEMMA CoveredFrame ==
  ASSUME IInv, Covered, UNCHANGED <<wpc, wslot>>, event' => event,
         \A p \in Procs :
           /\ pc'[p] \in {"locked", "released"} => pc[p] \in {"locked", "released"} \/ ~event
           /\ state'[p] = "sleeping" /\ asleepOn'[p] =>
                Sleeper(p) \/ pc[p] = "released"
  PROVE  Covered'
BY DEF Covered, Waiting, Sleeper

LEMMA CoveredScheduler ==
  ASSUME IInv, Covered, NEW c \in CPUs, SchedulerStep(c)
  PROVE  Covered'
<1>1. TypeOK
  BY DEF IInv
<1>2. UNCHANGED <<wpc, wslot, event, pc, asleepOn>>
  BY DEF SchedulerStep, loopRound, loopScan, loopSwitch, loopBack, wakeVars
<1>3. \A p \in Procs : state'[p] = "sleeping" => state[p] = "sleeping"
  BY <1>1 DEF SchedulerStep, loopRound, loopScan, loopSwitch, loopBack, Chosen, TypeOK
<1> QED
  BY <1>2, <1>3, CoveredFrame DEF Sleeper

LEMMA CoveredThread ==
  ASSUME IInv, Covered, NEW c \in CPUs, NEW p \in Procs,
         \/ forkReturn(c, p) \/ timerInterrupt(c, p) \/ yield(c, p) \/ switchToScheduler(c, p)
         \/ yieldReturn(c, p) \/ takeConditionLock(c, p) \/ consumeEvent(c, p)
         \/ sleepTakeLock(c, p) \/ sleepRelease(c, p) \/ putProcessToSleep(c, p)
         \/ sleepTidy(c, p) \/ setInterrupts(c, p)
  PROVE  Covered'
<1>1. TypeOK
  BY DEF IInv
<1>2. UNCHANGED <<wpc, wslot>> /\ (event' => event)
  BY DEF forkReturn, timerInterrupt, yield, switchToScheduler, yieldReturn, takeConditionLock,
         consumeEvent, sleepTakeLock, sleepRelease, putProcessToSleep, sleepTidy, setInterrupts, wakeVars
<1>3. CASE sleepTakeLock(c, p)
  <2>1. ~event /\ UNCHANGED <<state, asleepOn>>
    BY <1>3 DEF sleepTakeLock
  <2> QED
    BY <1>2, <2>1, CoveredFrame DEF Sleeper
<1>4. CASE putProcessToSleep(c, p)
  <2>1. pc[p] = "released" /\ \A r \in Procs : r # p => state'[r] = state[r] /\ (asleepOn'[r] <=> asleepOn[r])
    BY <1>1, <1>4 DEF putProcessToSleep, Thread, TypeOK
  <2>2. \A r \in Procs : pc'[r] \in {"locked", "released"} => pc[r] \in {"locked", "released"}
    BY <1>1, <1>4 DEF putProcessToSleep, TypeOK
  <2> QED
    BY <1>2, <2>1, <2>2, CoveredFrame DEF Sleeper
<1>5. CASE sleepRelease(c, p)
  <2>1. pc[p] = "locked" /\ UNCHANGED <<state, asleepOn>>
    BY <1>5 DEF sleepRelease, Thread
  <2>2. \A r \in Procs : pc'[r] \in {"locked", "released"} => pc[r] \in {"locked", "released"}
    BY <1>1, <1>5, <2>1 DEF sleepRelease, TypeOK
  <2> QED
    BY <1>2, <2>1, <2>2, CoveredFrame DEF Sleeper
<1>6. CASE \/ forkReturn(c, p) \/ timerInterrupt(c, p) \/ yield(c, p) \/ switchToScheduler(c, p)
           \/ yieldReturn(c, p) \/ takeConditionLock(c, p) \/ consumeEvent(c, p)
           \/ sleepTidy(c, p) \/ setInterrupts(c, p)
  <2>1. \A r \in Procs : pc'[r] \in {"locked", "released"} => pc[r] \in {"locked", "released"}
    BY <1>1, <1>6 DEF forkReturn, timerInterrupt, yield, switchToScheduler, yieldReturn,
       takeConditionLock, consumeEvent, sleepTidy, setInterrupts, TypeOK
  <2>2. \A r \in Procs : state'[r] = "sleeping" => state[r] = "sleeping"
    BY <1>1, <1>6 DEF forkReturn, timerInterrupt, yield, switchToScheduler, yieldReturn,
       takeConditionLock, consumeEvent, sleepTidy, setInterrupts, TypeOK
  <2>3. \A r \in Procs : asleepOn'[r] => asleepOn[r]
    BY <1>1, <1>6 DEF forkReturn, timerInterrupt, yield, switchToScheduler, yieldReturn,
       takeConditionLock, consumeEvent, sleepTidy, setInterrupts, TypeOK
  <2> QED
    BY <1>2, <2>1, <2>2, <2>3, CoveredFrame DEF Sleeper
<1> QED
  BY <1>3, <1>4, <1>5, <1>6

LEMMA CoveredWakeup ==
  ASSUME IInv, Covered, NEW c \in CPUs,
         startWakeup(c) \/ postEvent(c) \/ releaseBeforeWakeup(c) \/ wakeup(c) \/ endWakeup(c)
  PROVE  Covered'
<1>1. TypeOK /\ NoCPU \notin CPUs /\ \A p \in Procs : p \in Nat /\ 1 <= p /\ p <= NProc
  BY SchedulerAssumption DEF IInv, Procs
<1>2. UNCHANGED <<pc, asleepOn>>
  BY DEF startWakeup, postEvent, releaseBeforeWakeup, wakeup, endWakeup
<1>3. CASE postEvent(c)
  <2>1. wpc'[c] = "scan" /\ wslot'[c] = 1
    BY <1>1, <1>3 DEF postEvent, TypeOK
  <2> QED
    BY <1>1, <2>1 DEF Covered
<1>4. CASE startWakeup(c) \/ endWakeup(c)
  <2>1. /\ UNCHANGED <<event, state>>
        /\ \A d \in CPUs : d # c => wpc'[d] = wpc[d] /\ wslot'[d] = wslot[d]
    BY <1>1, <1>4 DEF startWakeup, endWakeup, TypeOK
  <2>2. wpc[c] = "scan" => wslot[c] > NProc
    BY <1>4 DEF startWakeup, endWakeup
  <2>3. \A p \in Procs : Waiting(p)' <=> Waiting(p)
    BY <1>2, <2>1 DEF Waiting, Sleeper
  <2>4. \A p \in Procs : ~(wpc[c] = "scan" /\ wslot[c] <= p)
    BY <1>1, <2>2, SchedulerAssumption DEF TypeOK
  <2> QED
    BY <2>1, <2>3, <2>4 DEF Covered
<1>5. CASE releaseBeforeWakeup(c)
  <2>1. UNCHANGED <<event, state, wpc, wslot>>
    BY <1>5 DEF releaseBeforeWakeup, wakeVars
  <2> QED
    BY <1>2, <2>1, CoveredFrame DEF Sleeper
<1>6. CASE wakeup(c)
  <2>1. /\ wpc[c] = "scan" /\ wslot[c] \in Procs
        /\ wslot[c] # running[c] => plock[wslot[c]] = NoCPU
        /\ UNCHANGED <<event, wpc>>
        /\ state' = IF wslot[c] # running[c] /\ Sleeper(wslot[c])
                    THEN [state EXCEPT ![wslot[c]] = "runnable"] ELSE state
    BY <1>6 DEF wakeup
  <2>2. /\ wslot'[c] = wslot[c] + 1
        /\ \A d \in CPUs : d # c => wslot'[d] = wslot[d]
    BY <1>1, <1>6 DEF wakeup, TypeOK
  <2>3. \A p \in Procs : Waiting(p)' => Waiting(p)
    BY <1>1, <1>2, <2>1 DEF Waiting, Sleeper, TypeOK
  \* The current process of this CPU does not wait: its thread is outside
  \* sleepWithLock while the CPU runs a wakeup.
  <2>4. ASSUME NEW p \in Procs, p = wslot[c], Waiting(p)' PROVE FALSE
    <3>1. Waiting(p)
      BY <2>3, <2>4
    <3>2. running[c] = p => pc[p] \in {"kernel", "woken"}
      <4>1. ASSUME running[c] = p PROVE stack[c] = p
        <5>1. NoProc \notin Procs /\ spc[c] \in {"scan", "switch", "back"}
          BY <1>1, SchedulerAssumption DEF TypeOK, Procs
        <5>2. spc[c] = "back"
          BY <4>1, <5>1 DEF IInv, Switching
        <5>3. stack[c] # NoProc
          BY <2>1, <5>2, InHandler
        <5> QED
          BY <4>1, <5>2, <5>3 DEF IInv, Switching
      <4> QED
        BY <2>1, <4>1, InHandler
    <3>3. CASE running[c] = p
      BY <3>1, <3>2, <3>3 DEF IInv, Asleep, Waiting, Sleeper
    <3>4. CASE running[c] # p
      <4>1. plock[p] = NoCPU
        BY <2>1, <2>4, <3>4
      <4>2. pc[p] \notin {"locked", "released"}
        <5>1. SUFFICES ASSUME pc[p] \in {"locked", "released"} PROVE FALSE
          OBVIOUS
        <5>2. PICK d \in CPUs : stack[d] = p
          BY <5>1 DEF IInv, Resting
        <5>3. plock[p] = d
          BY <5>1, <5>2 DEF IInv, Executing, Locked
        <5> QED
          BY <1>1, <4>1, <5>3
      <4>3. Sleeper(p)
        BY <3>1, <4>2 DEF Waiting
      <4>4. state'[p] = "runnable"
        BY <1>1, <2>1, <2>4, <3>4, <4>3 DEF TypeOK
      <4> QED
        BY <1>2, <2>4, <4>2, <4>4 DEF Waiting, Sleeper
    <3> QED
      BY <3>3, <3>4
  <2>5. ASSUME NEW p \in Procs, Waiting(p)', event'
        PROVE  \E d \in CPUs : wpc'[d] = "scan" /\ wslot'[d] <= p
    <3>1. p # wslot[c]
      BY <2>4, <2>5
    <3>2. PICK d \in CPUs : wpc[d] = "scan" /\ wslot[d] <= p
      BY <2>1, <2>3, <2>5 DEF Covered
    <3>3. wslot[d] \in Nat
      BY <1>1, SchedulerAssumption DEF TypeOK
    <3>4. wslot'[d] <= p
      BY <1>1, <2>2, <3>1, <3>2, <3>3
    <3> QED
      BY <2>1, <3>2, <3>4
  <2> QED
    BY <2>5 DEF Covered
<1> QED
  BY <1>3, <1>4, <1>5, <1>6

-----------------------------------------------------------------------------
LEMMA ThreadNext ==
  ASSUME IInv, NEW c \in CPUs, NEW p \in Procs,
         \/ forkReturn(c, p) \/ timerInterrupt(c, p) \/ yield(c, p) \/ switchToScheduler(c, p)
         \/ yieldReturn(c, p) \/ takeConditionLock(c, p) \/ consumeEvent(c, p)
         \/ sleepTakeLock(c, p) \/ sleepRelease(c, p) \/ putProcessToSleep(c, p)
         \/ sleepTidy(c, p) \/ setInterrupts(c, p)
  PROVE  IInv'
<1>1. CASE timerInterrupt(c, p)
  <2>1. pc[p] \in {"kernel", "woken"}
    BY <1>1 DEF timerInterrupt, Thread
  <2> QED
    BY <1>1, <2>1, timerInKernelStep, timerInWokenStep
<1>2. CASE yield(c, p)
  <2>1. pc[p] \in {"kernel", "preempted"}
    BY <1>2 DEF yield, Thread
  <2> QED
    BY <1>2, <2>1, yieldCallStep, yieldPreemptedStep
<1>3. CASE yieldReturn(c, p)
  <2>1. after[p] \in {"call", "kernel", "woken"}
    BY DEF IInv, TypeOK
  <2> QED
    BY <1>3, <2>1, yieldReturnToKernelStep, yieldReturnToWokenStep, yieldReturnCallStep
<1>4. CASE takeConditionLock(c, p)
  <2>1. pc[p] \in {"kernel", "woken"}
    BY <1>4 DEF takeConditionLock, Thread
  <2> QED
    BY <1>4, <2>1, takeConditionLockFirstStep, takeConditionLockAgainStep
<1> QED
  BY <1>1, <1>2, <1>3, <1>4, forkReturnStep, switchToSchedulerStep, consumeEventStep,
     sleepTakeLockStep, sleepReleaseStep, putProcessToSleepStep, sleepTidyStep, setInterruptsStep

LEMMA NextInv == IInv /\ Covered /\ [Next]_vars => IInv' /\ Covered'
<1> SUFFICES ASSUME IInv, Covered, [Next]_vars PROVE IInv' /\ Covered'
  OBVIOUS
<1>1. CASE UNCHANGED vars
  <2>1. /\ UNCHANGED <<state, asleepOn, plock, lk, event, cpu, running, stack, slot, spc, pc>>
        /\ UNCHANGED <<saved, after, wpc, wslot, wirq, asked, panic>>
    BY <1>1 DEF vars, schedVars, wakeVars
  <2>2. /\ TypeOK' /\ panic' = "none" /\ Switching' /\ OneOwner' /\ Locks' /\ Executing'
        /\ Resting' /\ Asleep'
    BY <2>1 DEF IInv, TypeOK, Switching, OneOwner, Locks, Executing, Resting, Asleep
  <2>3. Handlers' /\ Condition' /\ Settings'
    BY <2>1 DEF IInv, Handlers, Condition, Settings
  <2>4. Depth'
    BY <2>1 DEF IInv, Depth, Base
  <2>5. Covered'
    BY <2>1 DEF Covered, Waiting, Sleeper
  <2> QED
    BY <2>2, <2>3, <2>4, <2>5 DEF IInv
<1>2. CASE Next
  <2>1. PICK c \in CPUs : \/ SchedulerStep(c) \/ ThreadStep(c) \/ ThreadCall(c) \/ SetInterrupts(c)
                          \/ Preempt(c) \/ startWakeup(c) \/ releaseBeforeWakeup(c) \/ WakeupStep(c)
    BY <1>2 DEF Next
  <2>2. CASE SchedulerStep(c)
    <3>1. ASSUME loopSwitch(c) PROVE IInv'
      <4>1. slot[c] \in Procs
        BY <3>1 DEF loopSwitch, IInv, Switching
      <4> QED
        BY <3>1, <4>1, loopSwitchStep
    <3> QED
      BY <2>2, <3>1, loopRoundStep, loopScanStep, loopBackStep, CoveredScheduler DEF SchedulerStep
  <2>3. CASE ThreadStep(c) \/ ThreadCall(c) \/ SetInterrupts(c) \/ Preempt(c)
    <3>1. PICK p \in Procs :
            \/ forkReturn(c, p) \/ timerInterrupt(c, p) \/ yield(c, p) \/ switchToScheduler(c, p)
            \/ yieldReturn(c, p) \/ takeConditionLock(c, p) \/ consumeEvent(c, p)
            \/ sleepTakeLock(c, p) \/ sleepRelease(c, p) \/ putProcessToSleep(c, p)
            \/ sleepTidy(c, p) \/ setInterrupts(c, p)
      BY <2>3 DEF ThreadStep, ThreadCall, SetInterrupts, Preempt
    <3> QED
      BY <3>1, ThreadNext, CoveredThread
  <2>4. CASE startWakeup(c) \/ releaseBeforeWakeup(c) \/ WakeupStep(c)
    BY <2>4, startWakeupStep, postEventStep, releaseBeforeWakeupStep, wakeupStep, endWakeupStep,
       CoveredWakeup DEF WakeupStep
  <2> QED
    BY <2>1, <2>2, <2>3, <2>4
<1> QED
  BY <1>1, <1>2

LEMMA Invariant == Spec => [](IInv /\ Covered)
BY InitInv, NextInv, PTL DEF Spec

\* Every variable keeps its type; in particular pushDepth never passes 3 and
\* never underflows (interrupts.zig:29-32, 41-45).
THEOREM TypeCorrect == Spec => []TypeOK
<1>1. IInv => TypeOK
  BY DEF IInv
<1> QED
  BY <1>1, Invariant, PTL

\* No two CPUs execute on one kernel stack, and switchToScheduler never panics:
\* the process lock stays held from before the state change until the
\* scheduler has left the process's stack (scheduler.zig:33-38, 48, 56-62).
THEOREM StacksAreExclusive == Spec => []StackExclusive
<1>1. IInv => StackExclusive
  <2> SUFFICES ASSUME IInv PROVE StackExclusive
    OBVIOUS
  <2>1. panic = "none"
    BY DEF IInv
  <2>2. ASSUME NEW c \in CPUs, NEW d \in CPUs, c # d, stack[c] # NoProc PROVE stack[c] # stack[d]
    <3>1. PICK p \in Procs : stack[c] = p
      BY <2>2 DEF IInv, TypeOK
    <3> QED
      BY <2>2, <3>1, Owner
  <2> QED
    BY <2>1, <2>2 DEF StackExclusive
<1> QED
  BY <1>1, Invariant, PTL

\* No wakeup is lost: a process asleep although the event has been posted still
\* has a wakeup coming to its slot, whether the waker keeps the condition lock
\* or releases it first (scheduler.zig:103-137).
THEOREM NoWakeupIsLost == Spec => []NoLostWakeup
<1>1. Covered => NoLostWakeup
  BY DEF Covered, NoLostWakeup, Waiting
<1> QED
  BY <1>1, Invariant, PTL

\* "intena is a property of this kernel thread, not this CPU"
\* (scheduler.zig:49-51): outside all locks a thread runs with the interrupt
\* setting it chose, on whatever CPU it was resumed.
THEOREM InterruptsAreTheThreads == Spec => []InterruptsFollowThread
<1>1. IInv => InterruptsFollowThread
  <2> SUFFICES ASSUME IInv, NEW c \in CPUs, NEW p \in Procs,
                      Thread(c, p, "kernel") \/ Thread(c, p, "woken")
               PROVE  cpu[c].intr = asked[p] /\ cpu[c].depth = 0
    BY DEF InterruptsFollowThread
  <2>1. stack[c] = p /\ wpc[c] = "none" /\ pc[p] \in {"kernel", "woken"}
    BY DEF Thread
  <2>2. cpu[c].depth = 0
    BY Here DEF ThreadSteps, ThreadDepth
  <2>3. cpu[c].intr <=> asked[p]
    BY <2>1 DEF IInv, Settings
  <2>4. cpu[c].intr \in BOOLEAN /\ asked[p] \in BOOLEAN
    BY DEF IInv, TypeOK
  <2> QED
    BY <2>2, <2>3, <2>4
<1> QED
  BY <1>1, Invariant, PTL
=============================================================================
