------------------------------ MODULE Process ------------------------------
(***************************************************************************)
(* The process table: fork, exit, wait and kill of                         *)
(* src/kernel/execution/process.zig, called from the traps of              *)
(* src/kernel/traps/trap.zig.                                              *)
(*                                                                         *)
(* A section under a process lock is one step, except that kill keeps the  *)
(* lock over two, because init() frees a slot without that lock.  waitLock *)
(* is held over several steps.  Which of the runnable processes run is     *)
(* left open, so "runnable" stands for running as well, and going to sleep *)
(* while releasing waitLock is one step: module Scheduler shows both.      *)
(***************************************************************************)
EXTENDS Naturals, FiniteSets

CONSTANTS NProc,        \* param.NPROC, the slots of the process table
          MaxPid,       \* bound on nextProcessId
          KillTargets,  \* the arguments of kill that programs use
          AllocMayFail, \* whether allocPage can run out of pages in init()
          NoProc

ASSUME ProcessAssumption ==
  /\ NProc \in Nat \ {0} /\ MaxPid \in Nat \ {0}
  /\ KillTargets \subseteq Nat
  /\ AllocMayFail \in BOOLEAN
  /\ NoProc \notin 1 .. NProc

Procs == 1 .. NProc

\* The slot of initialProcess: the first that alloc finds.
initialProcess == 1

VARIABLES
  state, pid, killed, parent,  \* the fields of Process
  waitLock,   \* the process that holds it
  nextPid,    \* nextProcessId
  pc,         \* what each process does next
  slot,       \* its place in a scan of the table, or the child it makes
  haveKids,   \* wait's have_kids
  target,     \* kill's target_pid
  victims     \* pids kill was called with: a bound, programs use each once

table  == <<state, pid, killed, parent>>
locals == <<pc, slot, haveKids, target>>
vars   == <<table, waitLock, nextPid, locals, victims>>

Steps == {"none", "user", "return",
          "alloc", "freeUnlocked", "freeReset", "freeLast", "setParent", "setRunnable",
          "exit", "reparent", "exitWakeup", "zombie",
          "wait", "waitScan", "waitSleep", "asleep",
          "kill", "killMark"}

TypeOK ==
  /\ state \in [Procs -> {"unused", "used", "sleeping", "runnable", "zombie"}]
  /\ pid \in [Procs -> 0 .. MaxPid]
  /\ killed \in [Procs -> BOOLEAN]
  /\ parent \in [Procs -> Procs \cup {NoProc}]
  /\ waitLock \in Procs \cup {NoProc}
  /\ nextPid \in 1 .. MaxPid + 1
  /\ pc \in [Procs -> Steps]
  /\ slot \in [Procs -> 1 .. NProc + 1]
  /\ haveKids \in [Procs -> BOOLEAN]
  /\ target \in [Procs -> Nat]
  /\ victims \subseteq Nat

\* After initFirstUser, when the first process has reached user space.
Init ==
  /\ state = [p \in Procs |-> IF p = initialProcess THEN "runnable" ELSE "unused"]
  /\ pid = [p \in Procs |-> IF p = initialProcess THEN 1 ELSE 0]
  /\ killed = [p \in Procs |-> FALSE]
  /\ parent = [p \in Procs |-> NoProc]
  /\ waitLock = NoProc
  /\ nextPid = 2
  /\ pc = [p \in Procs |-> IF p = initialProcess THEN "user" ELSE "none"]
  /\ slot = [p \in Procs |-> 1]
  /\ haveKids = [p \in Procs |-> FALSE]
  /\ target = [p \in Procs |-> 0]
  /\ victims = {}

-----------------------------------------------------------------------------
\* p's thread runs and is at step s.
At(p, s) == state[p] = "runnable" /\ pc[p] = s

\* The lock of slot q is free: kill is not between its two steps there.
Unlocked(q) == \A k \in Procs : ~(pc[k] = "killMark" /\ slot[k] = q)

Goto(p, s) == pc' = [pc EXCEPT ![p] = s]

\* Mutant: the wakeup is forgotten.
NotWoken(st, q) == st

\* scheduler.wakeup(process): only the process itself sleeps on its address.
Woken(st, q) == IF st[q] = "sleeping" THEN [st EXCEPT ![q] = "runnable"] ELSE st

\* free() as seen by those who hold the slot's lock: all fields at once.
Freed(q) ==
  /\ state' = [state EXCEPT ![q] = "unused"]
  /\ pid' = [pid EXCEPT ![q] = 0]
  /\ killed' = [killed EXCEPT ![q] = FALSE]
  /\ parent' = [parent EXCEPT ![q] = NoProc]

-----------------------------------------------------------------------------
(* Traps.                                                                   *)

\* A system call.  usertrap starts it only for a process that is not killed.
Call(p, s) ==
  /\ At(p, "user") /\ ~killed[p] /\ Unlocked(p)
  /\ pc' = [pc EXCEPT ![p] = s]
  /\ slot' = [slot EXCEPT ![p] = 1]

syscall(p) ==
  /\ \/ nextPid <= MaxPid /\ Call(p, "alloc") /\ UNCHANGED <<target, victims>>
     \/ Call(p, "wait") /\ UNCHANGED <<target, victims>>
     \/ p # initialProcess /\ Call(p, "exit") /\ UNCHANGED <<target, victims>>
     \/ \E t \in KillTargets \ victims :
          /\ Call(p, "kill")
          /\ target' = [target EXCEPT ![p] = t]
          /\ victims' = victims \cup {t}
  /\ UNCHANGED <<table, waitLock, nextPid, haveKids>>

\* An exception in a program other than init kills it.
userFault(p) ==
  /\ At(p, "user") /\ p # initialProcess /\ Unlocked(p)
  /\ killed' = [killed EXCEPT ![p] = TRUE]
  /\ Goto(p, "return")
  /\ UNCHANGED <<state, pid, parent, waitLock, nextPid, slot, haveKids, target, victims>>

\* The checks of is_killed in usertrap, on the way in and on the way out.
checkKilled(p) ==
  /\ Unlocked(p)
  /\ \/ At(p, "user") /\ killed[p] /\ Goto(p, "exit")
     \/ At(p, "return") /\ Goto(p, IF killed[p] THEN "exit" ELSE "user")
  /\ slot' = [slot EXCEPT ![p] = 1]
  /\ UNCHANGED <<table, waitLock, nextPid, haveKids, target, victims>>

-----------------------------------------------------------------------------
(* fork.                                                                    *)

allocPid == nextPid' = nextPid + 1

\* alloc looks at one slot.  In an unused one it builds the child, all under
\* the child's lock: pid and state "used" first.  If init() runs out of memory
\* it releases the lock before it frees the slot; if copyPageTable does, the
\* slot is freed under the lock.
alloc(p) ==
  LET q == slot[p] IN
  /\ At(p, "alloc") /\ q \in Procs /\ Unlocked(q)
  /\ \/ /\ state[q] # "unused"
        /\ slot' = [slot EXCEPT ![p] = q + 1]
        /\ UNCHANGED <<table, nextPid, pc>>
     \/ /\ state[q] = "unused" /\ nextPid <= MaxPid
        /\ allocPid
        /\ \/ /\ state' = [state EXCEPT ![q] = "used"]
              /\ pid' = [pid EXCEPT ![q] = nextPid]
              /\ \/ Goto(p, "setParent")
                 \/ AllocMayFail /\ Goto(p, "freeUnlocked")
              /\ UNCHANGED <<killed, parent>>
           \/ /\ Freed(q)
              /\ Goto(p, "return")
        /\ UNCHANGED slot
  /\ UNCHANGED <<waitLock, haveKids, target, victims>>

\* No free slot, or no pid left under the bound: fork fails.
allocFails(p) ==
  /\ At(p, "alloc") /\ (slot[p] > NProc \/ nextPid > MaxPid)
  /\ Goto(p, "return")
  /\ UNCHANGED <<table, waitLock, nextPid, slot, haveKids, target, victims>>

\* free() without the lock after a failure in init(): its stores are visible
\* one after the other.
freeUnlocked(p) ==
  LET q == slot[p] IN
  /\ \/ /\ At(p, "freeUnlocked")
        /\ pid' = [pid EXCEPT ![q] = 0]
        /\ parent' = [parent EXCEPT ![q] = NoProc]
        /\ Goto(p, "freeReset")
        /\ UNCHANGED <<killed, state>>
     \/ /\ At(p, "freeReset")
        /\ killed' = [killed EXCEPT ![q] = FALSE]
        /\ Goto(p, "freeLast")
        /\ UNCHANGED <<pid, parent, state>>
     \/ /\ At(p, "freeLast")
        /\ state' = [state EXCEPT ![q] = "unused"]
        /\ Goto(p, "return")
        /\ UNCHANGED <<pid, parent, killed>>
  /\ UNCHANGED <<waitLock, nextPid, slot, haveKids, target, victims>>

forkSetParent(p) ==
  /\ At(p, "setParent") /\ waitLock = NoProc
  /\ parent' = [parent EXCEPT ![slot[p]] = p]
  /\ Goto(p, "setRunnable")
  /\ UNCHANGED <<state, pid, killed, waitLock, nextPid, slot, haveKids, target, victims>>

\* The child will start in user space.
forkSetRunnable(p) ==
  LET q == slot[p] IN
  /\ At(p, "setRunnable") /\ Unlocked(q)
  /\ state' = [state EXCEPT ![q] = "runnable"]
  /\ pc' = [pc EXCEPT ![p] = "return", ![q] = "return"]
  /\ UNCHANGED <<pid, killed, parent, waitLock, nextPid, slot, haveKids, target, victims>>

-----------------------------------------------------------------------------
(* exit.                                                                    *)

\* Mutant: the lock does not exclude.
IgnoreWaitLock(p) == waitLock' = p

TakeWaitLock(p) == waitLock = NoProc /\ waitLock' = p

\* Init exiting is a panic: the kernel stops, so init goes no further.
exit(p) ==
  /\ At(p, "exit") /\ p # initialProcess
  /\ TakeWaitLock(p)
  /\ Goto(p, "reparent")
  /\ slot' = [slot EXCEPT ![p] = 1]
  /\ UNCHANGED <<table, nextPid, haveKids, target, victims>>

\* Mutant: zombies stay with their parent.
AdoptsLiving(p, q) == parent[q] = p /\ state[q] # "zombie"

\* reparentChildren: a child is given to init, which is woken.
Adopts(p, q) == parent[q] = p

reparentChildren(p) ==
  LET q == slot[p] IN
  /\ At(p, "reparent")
  /\ \/ /\ q > NProc
        /\ Goto(p, "exitWakeup")
        /\ UNCHANGED <<state, parent, slot>>
     \/ /\ q \in Procs /\ ~Adopts(p, q)
        /\ slot' = [slot EXCEPT ![p] = q + 1]
        /\ UNCHANGED <<state, parent, pc>>
     \/ /\ q \in Procs /\ Adopts(p, q) /\ Unlocked(initialProcess)
        /\ parent' = [parent EXCEPT ![q] = initialProcess]
        /\ state' = Woken(state, initialProcess)
        /\ slot' = [slot EXCEPT ![p] = q + 1]
        /\ UNCHANGED pc
  /\ UNCHANGED <<pid, killed, waitLock, nextPid, haveKids, target, victims>>

exitWakeup(p) ==
  /\ At(p, "exitWakeup") /\ Unlocked(parent[p])
  /\ state' = Woken(state, parent[p])
  /\ Goto(p, "zombie")
  /\ UNCHANGED <<pid, killed, parent, waitLock, nextPid, slot, haveKids, target, victims>>

\* Under the process lock the process becomes a zombie, waitLock is released
\* and the CPU leaves the process for good.
exitZombie(p) ==
  /\ At(p, "zombie") /\ Unlocked(p)
  /\ state' = [state EXCEPT ![p] = "zombie"]
  /\ waitLock' = NoProc
  /\ Goto(p, "none")
  /\ UNCHANGED <<pid, killed, parent, nextPid, slot, haveKids, target, victims>>

-----------------------------------------------------------------------------
(* wait.                                                                    *)

\* wait takes waitLock when it is called and when it has been woken.
wait(p) ==
  /\ At(p, "wait") \/ At(p, "asleep")
  /\ TakeWaitLock(p)
  /\ Goto(p, "waitScan")
  /\ slot' = [slot EXCEPT ![p] = 1]
  /\ haveKids' = [haveKids EXCEPT ![p] = FALSE]
  /\ UNCHANGED <<table, nextPid, target, victims>>

\* One slot: a zombie child is freed and its pid returned, unless the status
\* cannot be copied out (init passes no address).
waitScan(p) ==
  LET q == slot[p] IN
  /\ At(p, "waitScan") /\ q \in Procs
  /\ \/ /\ parent[q] # p
        /\ slot' = [slot EXCEPT ![p] = q + 1]
        /\ UNCHANGED <<table, waitLock, pc, haveKids>>
     \/ /\ parent[q] = p /\ Unlocked(q) /\ state[q] # "zombie"
        /\ slot' = [slot EXCEPT ![p] = q + 1]
        /\ haveKids' = [haveKids EXCEPT ![p] = TRUE]
        /\ UNCHANGED <<table, waitLock, pc>>
     \/ /\ parent[q] = p /\ Unlocked(q) /\ state[q] = "zombie"
        /\ \/ Freed(q)
           \/ p # initialProcess /\ UNCHANGED table
        /\ waitLock' = NoProc
        /\ Goto(p, "return")
        /\ UNCHANGED <<slot, haveKids>>
  /\ UNCHANGED <<nextPid, target, victims>>

\* No zombie found: give up without children or when killed.
waitCheck(p) ==
  /\ At(p, "waitScan") /\ slot[p] > NProc /\ Unlocked(p)
  /\ IF ~haveKids[p] \/ killed[p]
     THEN waitLock' = NoProc /\ Goto(p, "return")
     ELSE UNCHANGED waitLock /\ Goto(p, "waitSleep")
  /\ UNCHANGED <<table, nextPid, slot, haveKids, target, victims>>

\* sleepWithLock(&waitLock, process).
waitSleep(p) ==
  /\ At(p, "waitSleep") /\ Unlocked(p)
  /\ state' = [state EXCEPT ![p] = "sleeping"]
  /\ waitLock' = NoProc
  /\ Goto(p, "asleep")
  /\ UNCHANGED <<pid, killed, parent, nextPid, slot, haveKids, target, victims>>

-----------------------------------------------------------------------------
(* kill.                                                                    *)

Matches(q, t) == pid[q] = t

kill(p) ==
  LET q == slot[p] IN
  /\ At(p, "kill")
  /\ \/ /\ q > NProc
        /\ Goto(p, "return")
        /\ UNCHANGED slot
     \/ /\ q \in Procs /\ Unlocked(q) /\ ~Matches(q, target[p])
        /\ slot' = [slot EXCEPT ![p] = q + 1]
        /\ UNCHANGED pc
     \/ /\ q \in Procs /\ Unlocked(q) /\ Matches(q, target[p])
        /\ Goto(p, "killMark")
        /\ UNCHANGED slot
  /\ UNCHANGED <<table, waitLock, nextPid, haveKids, target, victims>>

killMark(p) ==
  LET q == slot[p] IN
  /\ At(p, "killMark")
  /\ killed' = [killed EXCEPT ![q] = TRUE]
  /\ state' = Woken(state, q)
  /\ Goto(p, "return")
  /\ UNCHANGED <<pid, parent, waitLock, nextPid, slot, haveKids, target, victims>>

-----------------------------------------------------------------------------
\* What the kernel does for p once p is in it.
KernelStep(p) ==
  \/ checkKilled(p)
  \/ alloc(p) \/ allocFails(p) \/ freeUnlocked(p) \/ forkSetParent(p) \/ forkSetRunnable(p)
  \/ exit(p) \/ reparentChildren(p) \/ exitWakeup(p) \/ exitZombie(p)
  \/ wait(p) \/ waitScan(p) \/ waitCheck(p) \/ waitSleep(p)
  \/ kill(p) \/ killMark(p)

Next == \E p \in Procs : syscall(p) \/ userFault(p) \/ KernelStep(p)

Spec == Init /\ [][Next]_vars

\* The scheduler runs every runnable process, and a process that spins for a
\* free lock gets it in the end.  Whatever else the init program
\* (src/user/init.c) calls, it calls wait over and over.
Fairness ==
  /\ \A p \in Procs : SF_vars(KernelStep(p))
  /\ SF_vars(Call(initialProcess, "wait") /\ syscall(initialProcess))

FairSpec == Spec /\ Fairness

-----------------------------------------------------------------------------
(* Properties.                                                              *)

Alive == {"runnable", "sleeping"}

\* Every process that was made runnable has a parent that is not dead, so
\* somebody can wait for it and exit finds a parent to wake
\* (process.zig:358-372, 377-386, 420).
NoOrphan ==
  \A p \in Procs \ {initialProcess} : state[p] \in Alive \cup {"zombie"} =>
    parent[p] \in Procs /\ state[parent[p]] \in Alive

\* Nobody sleeps in wait while one of its children is a zombie: exit's wakeup
\* comes before the state change and is still not lost, because waitLock is
\* held over both (process.zig:412-425, 465).
NoMissedChild ==
  waitLock = NoProc =>
    \A p, q \in Procs : state[p] = "sleeping" /\ parent[q] = p => state[q] # "zombie"

\* A zombie whose parent died, or whose parent is init, is reaped: "Pass p's
\* abandoned children to init" (process.zig:377).
OrphanReaped ==
  \A p \in Procs :
    state[p] = "zombie" /\ parent[p] = initialProcess ~> state[p] = "unused"
=============================================================================
