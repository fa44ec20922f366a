------------------------------ MODULE SpinLock ------------------------------
(***************************************************************************)
(* Spin locks and the interrupt nesting they rest on:                      *)
(* src/kernel/concurrency/spinlock.zig and interrupts.zig.                 *)
(*                                                                         *)
(* Every CPU executes a kernel thread, which an interrupt handler may      *)
(* suspend whenever sstatus.SIE is set.  Thread and handler both take      *)
(* locks.  The shared accesses of acquire and release are separate steps,  *)
(* and so is the window between reading and clearing SIE in pushOff.       *)
(* A CPU's own pushDepth and interruptsEnabled are touched with interrupts *)
(* off only, so the rest of pushOff and all of popOff are single steps.    *)
(* isHolding reads two fields in one step: the answer for a CPU depends on *)
(* stores of that CPU alone.  The pushOff and popOff around reading the    *)
(* current process (Process.getCurrent) touch nothing in between and are   *)
(* left out.                                                               *)
(***************************************************************************)
EXTENDS Naturals, FiniteSets

CONSTANTS CPUs, Locks,
          Rank,   \* the kernel's lock order: a lock is taken after lower ones
          NoCPU, NoLock

ASSUME SpinLockAssumption ==
  /\ NoCPU \notin CPUs /\ NoLock \notin Locks
  /\ IsFiniteSet(Locks)
  /\ Rank \in [Locks -> Nat]

Levels == {"thread", "irq"}

VARIABLES
  isLocked, owner,     \* SpinLock.isLocked and SpinLock.cpu
  intr,                \* sstatus.SIE of each CPU
  pushDepth,           \* Cpu.pushDepth
  interruptsEnabled,   \* Cpu.interruptsEnabled
  level,               \* what the CPU executes: its thread or a handler
  pc, want, prev,      \* per CPU and level: next step, lock, pushOff's local
  has,                 \* per CPU and level: the locks acquired and not released
  asked,               \* whether the thread last asked for interrupts on
  panic

lockVars == <<isLocked, owner>>
cpuVars  == <<intr, pushDepth, interruptsEnabled>>
ctlVars  == <<level, pc, want, prev, has, asked>>
vars     == <<lockVars, cpuVars, ctlVars, panic>>

Steps == {"run", "disable", "spin", "own", "unlock", "pop"}

TypeOK ==
  /\ isLocked \in [Locks -> BOOLEAN]
  /\ owner \in [Locks -> CPUs \cup {NoCPU}]
  /\ intr \in [CPUs -> BOOLEAN]
  /\ pushDepth \in [CPUs -> Nat]
  /\ interruptsEnabled \in [CPUs -> BOOLEAN]
  /\ level \in [CPUs -> Levels]
  /\ pc \in [CPUs -> [Levels -> Steps]]
  /\ want \in [CPUs -> [Levels -> Locks \cup {NoLock}]]
  /\ prev \in [CPUs -> [Levels -> BOOLEAN]]
  /\ has \in [CPUs -> [Levels -> SUBSET Locks]]
  /\ asked \in [CPUs -> BOOLEAN]
  /\ panic \in {"none", "acquire", "release", "pop_off - interruptible", "pop_off"}

Init ==
  /\ isLocked = [l \in Locks |-> FALSE]
  /\ owner = [l \in Locks |-> NoCPU]
  /\ intr \in [CPUs -> BOOLEAN]
  /\ pushDepth = [c \in CPUs |-> 0]
  /\ interruptsEnabled = [c \in CPUs |-> FALSE]
  /\ level = [c \in CPUs |-> "thread"]
  /\ pc = [c \in CPUs |-> [v \in Levels |-> "run"]]
  /\ want = [c \in CPUs |-> [v \in Levels |-> NoLock]]
  /\ prev = [c \in CPUs |-> [v \in Levels |-> FALSE]]
  /\ has = [c \in CPUs |-> [v \in Levels |-> {}]]
  /\ asked = intr
  /\ panic = "none"

-----------------------------------------------------------------------------
\* Mutant: any holder will do.
isHeld(c, l) == isLocked[l]

isHolding(c, l) == isLocked[l] /\ owner[l] = c

At(c, s) == panic = "none" /\ pc[c][level[c]] = s

Goto(c, s) == pc' = [pc EXCEPT ![c][level[c]] = s]

\* acquire(l) is entered: pushOff reads SIE.
acquire(c, l) ==
  /\ At(c, "run")
  /\ l \notin has[c][level[c]]
  /\ \A m \in has[c][level[c]] : Rank[m] < Rank[l]
  /\ prev' = [prev EXCEPT ![c][level[c]] = intr[c]]
  /\ want' = [want EXCEPT ![c][level[c]] = l]
  /\ Goto(c, "disable")
  /\ UNCHANGED <<lockVars, cpuVars, level, has, asked, panic>>

\* Mutants: SIE stays set; only the outermost pushOff is counted.
SIEKept(c) == intr
OutermostOnly(c) == [pushDepth EXCEPT ![c] = 1]

SIECleared(c) == [intr EXCEPT ![c] = FALSE]
OneDeeper(c) == [pushDepth EXCEPT ![c] = @ + 1]

\* pushOff clears SIE and counts; acquire then refuses a lock the CPU holds.
pushOff(c) ==
  /\ At(c, "disable")
  /\ intr' = SIECleared(c)
  /\ interruptsEnabled' = IF pushDepth[c] = 0
                          THEN [interruptsEnabled EXCEPT ![c] = prev[c][level[c]]]
                          ELSE interruptsEnabled
  /\ pushDepth' = OneDeeper(c)
  /\ panic' = IF isHolding(c, want[c][level[c]]) THEN "acquire" ELSE panic
  /\ Goto(c, "spin")
  /\ UNCHANGED <<lockVars, level, want, prev, has, asked>>

\* Mutant: the old value is not looked at.
AnyValue(c) == TRUE

FoundFree(c) == ~isLocked[want[c][level[c]]]

\* The exchange that finds the lock free ends the spinning.
exchange(c) ==
  /\ At(c, "spin") /\ FoundFree(c)
  /\ isLocked' = [isLocked EXCEPT ![want[c][level[c]]] = TRUE]
  /\ Goto(c, "own")
  /\ UNCHANGED <<owner, cpuVars, level, want, prev, has, asked, panic>>

setOwner(c) ==
  LET v == level[c]  l == want[c][v] IN
  /\ At(c, "own")
  /\ owner' = [owner EXCEPT ![l] = c]
  /\ has' = [has EXCEPT ![c][v] = @ \cup {l}]
  /\ want' = [want EXCEPT ![c][v] = NoLock]
  /\ Goto(c, "run")
  /\ UNCHANGED <<isLocked, cpuVars, level, prev, asked, panic>>

\* release(l), any lock of those held: the kernel does not nest them strictly
\* (exit releases waitLock and keeps the process lock).
release(c, l) ==
  /\ At(c, "run")
  /\ l \in has[c][level[c]]
  /\ \/ /\ ~isHolding(c, l)
        /\ panic' = "release"
        /\ UNCHANGED <<owner, has, want, pc>>
     \/ /\ isHolding(c, l)
        /\ owner' = [owner EXCEPT ![l] = NoCPU]
        /\ has' = [has EXCEPT ![c][level[c]] = @ \ {l}]
        /\ want' = [want EXCEPT ![c][level[c]] = l]
        /\ Goto(c, "unlock")
        /\ UNCHANGED panic
  /\ UNCHANGED <<isLocked, cpuVars, level, prev, asked>>

unlock(c) ==
  /\ At(c, "unlock")
  /\ isLocked' = [isLocked EXCEPT ![want[c][level[c]]] = FALSE]
  /\ Goto(c, "pop")
  /\ UNCHANGED <<owner, cpuVars, level, want, prev, has, asked, panic>>

\* Mutant: the state before the first pushOff is forgotten.
PopAlwaysEnables(c) == pushDepth[c] = 1

PopEnables(c) == pushDepth[c] = 1 /\ interruptsEnabled[c]

popOff(c) ==
  /\ At(c, "pop")
  /\ \/ /\ intr[c]
        /\ panic' = "pop_off - interruptible"
        /\ UNCHANGED <<cpuVars, pc, want>>
     \/ /\ ~intr[c] /\ pushDepth[c] < 1
        /\ panic' = "pop_off"
        /\ UNCHANGED <<cpuVars, pc, want>>
     \/ /\ ~intr[c] /\ pushDepth[c] >= 1
        /\ pushDepth' = [pushDepth EXCEPT ![c] = @ - 1]
        /\ intr' = [intr EXCEPT ![c] = PopEnables(c)]
        /\ Goto(c, "run")
        /\ want' = [want EXCEPT ![c][level[c]] = NoLock]
        /\ UNCHANGED <<interruptsEnabled, panic>>
  /\ UNCHANGED <<lockVars, level, prev, has, asked>>

-----------------------------------------------------------------------------
(* The rest of the kernel, as far as it touches SIE.                        *)

\* interrupts.enable() and disable(), called without locks: the scheduler loop
\* and system calls turn interrupts on, the return to user space turns them
\* off.
enable(c) ==
  /\ At(c, "run") /\ level[c] = "thread" /\ has[c]["thread"] = {}
  /\ intr' = [intr EXCEPT ![c] = TRUE]
  /\ asked' = [asked EXCEPT ![c] = TRUE]
  /\ UNCHANGED <<lockVars, pushDepth, interruptsEnabled, level, pc, want, prev, has,
                 panic>>

disable(c) ==
  /\ At(c, "run") /\ level[c] = "thread" /\ has[c]["thread"] = {}
  /\ intr' = [intr EXCEPT ![c] = FALSE]
  /\ asked' = [asked EXCEPT ![c] = FALSE]
  /\ UNCHANGED <<lockVars, pushDepth, interruptsEnabled, level, pc, want, prev, has,
                 panic>>

\* The hardware takes an interrupt: SIE is cleared, kerneltrap runs.
Interrupt(c) ==
  /\ panic = "none" /\ level[c] = "thread" /\ intr[c]
  /\ level' = [level EXCEPT ![c] = "irq"]
  /\ intr' = [intr EXCEPT ![c] = FALSE]
  /\ UNCHANGED <<lockVars, pushDepth, interruptsEnabled, pc, want, prev, has, asked,
                 panic>>

\* sret: the handler has released its locks, SIE comes back from SPIE.
ReturnFromInterrupt(c) ==
  /\ At(c, "run") /\ level[c] = "irq" /\ has[c]["irq"] = {}
  /\ level' = [level EXCEPT ![c] = "thread"]
  /\ intr' = [intr EXCEPT ![c] = TRUE]
  /\ UNCHANGED <<lockVars, pushDepth, interruptsEnabled, pc, want, prev, has, asked,
                 panic>>

CPUStep(c) ==
  \/ \E l \in Locks : acquire(c, l) \/ release(c, l)
  \/ pushOff(c) \/ exchange(c) \/ setOwner(c) \/ unlock(c) \/ popOff(c)
  \/ enable(c) \/ disable(c) \/ Interrupt(c) \/ ReturnFromInterrupt(c)

Next == \E c \in CPUs : CPUStep(c)

Spec == Init /\ [][Next]_vars

-----------------------------------------------------------------------------
(* Properties.                                                              *)

\* A CPU's thread or handler is between the exchange and the unlocking store.
Inside(c, v, l) == \/ l \in has[c][v]
                   \/ want[c][v] = l /\ pc[c][v] \in {"own", "unlock"}

\* A lock is inside at most one thread or handler of one CPU
\* (spinlock.zig:23, 34).
MutualExclusion ==
  \A l \in Locks, c, d \in CPUs, v, w \in Levels :
    Inside(c, v, l) /\ Inside(d, w, l) => c = d /\ v = w

\* No acquire, release or popOff reaches its @panic, whatever the
\* interleaving of CPUs and interrupts: isHolding is exact for locks that
\* other CPUs take and release meanwhile, and pushes and pops stay matched
\* (spinlock.zig:18, 29; interrupts.zig:36, 41).
NoPanic == panic = "none"

\* The locks whose pushOff has been counted and whose popOff has not.
Pushed(c, v) == has[c][v] \cup
  (IF pc[c][v] \in {"spin", "own", "unlock", "pop"} THEN {want[c][v]} ELSE {})

\* "it takes two pop_off()s to undo two push_off()s" (interrupts.zig:22):
\* pushDepth counts exactly the CPU's locks, in the thread and the handler.
DepthCountsLocks ==
  \A c \in CPUs : pushDepth[c] =
    Cardinality(Pushed(c, "thread")) + Cardinality(Pushed(c, "irq"))

\* "disable interrupts to avoid deadlock" (spinlock.zig:17): a handler never
\* finds a lock held or wanted by the thread it suspended.
NoInterruptWithLock ==
  \A c \in CPUs : intr[c] \/ level[c] = "irq" => Pushed(c, "thread") = {}

\* "if interrupts are initially off, then push_off, pop_off leaves them off"
\* (interrupts.zig:22-23), and if they were on they come back on.
InterruptsRestored ==
  \A c \in CPUs :
    level[c] = "thread" /\ pc[c]["thread"] = "run" /\ has[c]["thread"] = {}
      => intr[c] = asked[c]
=============================================================================
