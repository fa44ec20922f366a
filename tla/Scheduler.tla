----------------------------- MODULE Scheduler -----------------------------
(***************************************************************************)
(* Context switching, sleep and wakeup: src/kernel/execution/scheduler.zig *)
(* with the timer interrupt of src/kernel/traps/trap.zig that preempts a   *)
(* process.                                                                *)
(*                                                                         *)
(* A process's kernel thread calls yield, waits for an event under a       *)
(* condition lock (lk) with sleepWithLock, or posts the event and calls    *)
(* wakeup; an interrupt handler posts the event too.  A spin lock is the   *)
(* CPU that holds it; that acquire and release are atomic is what module   *)
(* SpinLock shows.  A process lock stays locked across switchContext: the  *)
(* process takes it, the scheduler of that CPU releases it, or the other   *)
(* way round.                                                              *)
(***************************************************************************)
EXTENDS Naturals

CONSTANTS CPUs,
          NProc,          \* param.NPROC, the slots of the process table
          NoCPU, NoProc

ASSUME SchedulerAssumption ==
  NProc \in Nat \ {0} /\ NoCPU \notin CPUs /\ NoProc \notin 1 .. NProc

Procs == 1 .. NProc

VARIABLES
  state,     \* Process.state_unsafe
  asleepOn,  \* Process.sleeping_channel_unsafe: waiting for the event or not
  plock,     \* Process.lock: the CPU that holds it
  lk,        \* the condition lock: the CPU that holds it
  event,     \* the condition processes wait for
  cpu,       \* Cpu.pushDepth, Cpu.interruptsEnabled and sstatus.SIE
  running,   \* Cpu.runningProcess
  stack,     \* the kernel stack the CPU executes on, NoProc for its scheduler
  slot,      \* the scheduler's place in its scan of the table
  spc,       \* the scheduler's next step
  pc,        \* the next step of each process's kernel thread
  saved,     \* previous_interrupt_state in switchToScheduler
  after,     \* how yield was called: by usertrap ("call"), or by kerneltrap
             \* for a timer interrupt at the step named
  wpc, wslot, wirq,  \* a wakeup on this CPU: next step, place in the table,
                     \* and whether an interrupt handler runs it
  asked,     \* the interrupt setting the thread chose for itself
  panic

schedVars == <<running, stack, slot, spc>>
wakeVars  == <<wpc, wslot, wirq>>
vars == <<state, asleepOn, plock, lk, event, cpu, schedVars, pc, saved, after, wakeVars,
          asked, panic>>

ThreadSteps == {"new", "kernel", "preempted", "yield", "yielded", "check", "locked",
                "released", "asleep", "tidy", "woken"}

TypeOK ==
  /\ state \in [Procs -> {"runnable", "running", "sleeping"}]
  /\ asleepOn \in [Procs -> BOOLEAN]
  /\ plock \in [Procs -> CPUs \cup {NoCPU}]
  /\ lk \in CPUs \cup {NoCPU}
  /\ event \in BOOLEAN
  /\ cpu \in [CPUs -> [depth : 0 .. 3, intena : BOOLEAN, intr : BOOLEAN]]
  /\ running \in [CPUs -> Procs \cup {NoProc}]
  /\ stack \in [CPUs -> Procs \cup {NoProc}]
  /\ slot \in [CPUs -> 1 .. NProc + 1]
  /\ spc \in [CPUs -> {"scan", "switch", "back"}]
  /\ pc \in [Procs -> ThreadSteps]
  /\ saved \in [Procs -> BOOLEAN]
  /\ after \in [Procs -> {"call", "kernel", "woken"}]
  /\ wpc \in [CPUs -> {"none", "post", "scan"}]
  /\ wslot \in [CPUs -> 1 .. NProc + 1]
  /\ wirq \in [CPUs -> BOOLEAN]
  /\ asked \in [Procs -> BOOLEAN]
  /\ panic \in {"none", "not_holding_process_lock", "process_is_running", "locks",
                "cannot_be_interrupted"}

\* The processes are ready to run for the first time, in forkReturn.
Init ==
  /\ state = [p \in Procs |-> "runnable"]
  /\ asleepOn = [p \in Procs |-> FALSE]
  /\ plock = [p \in Procs |-> NoCPU]
  /\ lk = NoCPU
  /\ event = FALSE
  /\ cpu = [c \in CPUs |-> [depth |-> 0, intena |-> FALSE, intr |-> TRUE]]
  /\ running = [c \in CPUs |-> NoProc]
  /\ stack = [c \in CPUs |-> NoProc]
  /\ slot = [c \in CPUs |-> 1]
  /\ spc = [c \in CPUs |-> "scan"]
  /\ pc = [p \in Procs |-> "new"]
  /\ saved = [p \in Procs |-> FALSE]
  /\ after = [p \in Procs |-> "call"]
  /\ wpc = [c \in CPUs |-> "none"]
  /\ wslot = [c \in CPUs |-> 1]
  /\ wirq = [c \in CPUs |-> FALSE]
  /\ asked = [p \in Procs |-> FALSE]
  /\ panic = "none"

-----------------------------------------------------------------------------
(* Interrupt state of a CPU after a lock was acquired or released.          *)
PushOff(r) == [depth |-> r.depth + 1,
               intena |-> IF r.depth = 0 THEN r.intr ELSE r.intena,
               intr |-> FALSE]

PopOff(r) == [r EXCEPT !.depth = @ - 1, !.intr = r.depth = 1 /\ r.intena]

Pushed(c) == cpu' = [cpu EXCEPT ![c] = PushOff(@)]
Popped(c) == cpu' = [cpu EXCEPT ![c] = PopOff(@)]

\* The CPU executes its scheduler, or the thread of p, and no handler.
InScheduler(c) == panic = "none" /\ stack[c] = NoProc /\ wpc[c] = "none"
Thread(c, p, s) == /\ panic = "none" /\ stack[c] = p /\ wpc[c] = "none"
                   /\ pc[p] = s

-----------------------------------------------------------------------------
(* scheduler.loop on CPU c.                                                 *)

\* Start of another round: devices may interrupt.
loopRound(c) ==
  /\ InScheduler(c) /\ spc[c] = "scan" /\ slot[c] > NProc
  /\ slot' = [slot EXCEPT ![c] = 1]
  /\ cpu' = [cpu EXCEPT ![c].intr = TRUE]
  /\ UNCHANGED <<state, asleepOn, plock, lk, event, running, stack, spc, pc, saved, after,
                 wakeVars, asked, panic>>

\* Mutant: the scheduler looks at a slot without its lock.
Unguarded(p) == TRUE

LockFree(p) == plock[p] = NoCPU

\* Lock the next slot, and skip a process that cannot run.
loopScan(c) ==
  LET p == slot[c] IN
  /\ InScheduler(c) /\ spc[c] = "scan" /\ p \in Procs
  /\ LockFree(p)
  /\ \/ /\ state[p] = "runnable"
        /\ plock' = [plock EXCEPT ![p] = c]
        /\ Pushed(c)
        /\ spc' = [spc EXCEPT ![c] = "switch"]
        /\ UNCHANGED slot
     \/ /\ state[p] # "runnable"
        /\ slot' = [slot EXCEPT ![c] = p + 1]
        /\ UNCHANGED <<plock, cpu, spc>>
  /\ UNCHANGED <<state, asleepOn, lk, event, running, stack, pc, saved, after, wakeVars, asked,
                 panic>>

\* Mutant: interruptsEnabled is left as the scheduler has it.
CPUSetting(p, r) == r

\* What the thread finds when switchContext returns into switchToScheduler:
\* the CPU gets the thread's interrupt setting.  A new thread starts in
\* forkReturn instead, with the setting of the CPU's scheduler.
Resumed(p, r) == IF pc[p] = "new" THEN r ELSE [r EXCEPT !.intena = saved[p]]

Chosen(p) == [state EXCEPT ![p] = "running"]

\* Switch to the chosen process.
loopSwitch(c) ==
  LET p == slot[c] IN
  /\ InScheduler(c) /\ spc[c] = "switch"
  /\ state' = Chosen(p)
  /\ running' = [running EXCEPT ![c] = p]
  /\ stack' = [stack EXCEPT ![c] = p]
  /\ cpu' = [cpu EXCEPT ![c] = Resumed(p, @)]
  /\ spc' = [spc EXCEPT ![c] = "back"]
  /\ UNCHANGED <<asleepOn, plock, lk, event, slot, pc, saved, after, wakeVars, asked, panic>>

\* Mutants: the current process is not cleared; the scan starts again at the
\* first slot.
StillCurrent(c) == running
FirstSlot(c) == [slot EXCEPT ![c] = 1]

NoCurrent(c) == [running EXCEPT ![c] = NoProc]
NextSlot(c) == [slot EXCEPT ![c] = @ + 1]

\* The process switched back; it changed its own state.
loopBack(c) ==
  LET p == slot[c] IN
  /\ InScheduler(c) /\ spc[c] = "back"
  /\ running' = NoCurrent(c)
  /\ plock' = [plock EXCEPT ![p] = NoCPU]
  /\ Popped(c)
  /\ slot' = NextSlot(c)
  /\ spc' = [spc EXCEPT ![c] = "scan"]
  /\ UNCHANGED <<state, asleepOn, lk, event, stack, pc, saved, after, wakeVars, asked, panic>>

-----------------------------------------------------------------------------
(* Kernel threads.                                                          *)

\* switchToScheduler's checks.
Failed(c, p) ==
  CASE plock[p] # c -> "not_holding_process_lock"
    [] plock[p] = c /\ state[p] = "running" -> "process_is_running"
    [] plock[p] = c /\ state[p] # "running" /\ cpu[c].depth # 1 -> "locks"
    [] plock[p] = c /\ state[p] # "running" /\ cpu[c].depth = 1 /\ cpu[c].intr ->
         "cannot_be_interrupted"
    [] OTHER -> "none"

\* p leaves its stack for the scheduler's, in yield or in putProcessToSleep.
\* It has changed its state already: only its lock keeps other CPUs away.
switchToScheduler(c, p) ==
  /\ \/ Thread(c, p, "yield") /\ pc' = [pc EXCEPT ![p] = "yielded"]
     \/ Thread(c, p, "asleep") /\ pc' = [pc EXCEPT ![p] = "tidy"]
  /\ panic' = Failed(c, p)
  /\ saved' = [saved EXCEPT ![p] = cpu[c].intena]
  /\ stack' = [stack EXCEPT ![c] = NoProc]
  /\ UNCHANGED <<state, asleepOn, plock, lk, event, cpu, running, slot, spc, after,
                 wakeVars, asked>>

\* A lock taken by the thread of p on CPU c.
TakeProcessLock(c, p) == /\ plock[p] = NoCPU
                         /\ plock' = [plock EXCEPT ![p] = c]
                         /\ Pushed(c)

\* A new process begins: the lock the scheduler took is released, and what
\* was the scheduler's interrupt setting is now the thread's.
forkReturn(c, p) ==
  /\ Thread(c, p, "new")
  /\ plock' = [plock EXCEPT ![p] = NoCPU]
  /\ Popped(c)
  /\ asked' = [asked EXCEPT ![p] = cpu'[c].intr]
  /\ pc' = [pc EXCEPT ![p] = "kernel"]
  /\ UNCHANGED <<state, asleepOn, lk, event, schedVars, saved, after, wakeVars, panic>>

\* A timer interrupt in the kernel: kerneltrap yields for a running process.
\* The hardware clears SIE; kerneltrap restores sstatus when it returns.
timerInterrupt(c, p) ==
  /\ \E s \in {"kernel", "woken"} : /\ Thread(c, p, s)
                                   /\ after' = [after EXCEPT ![p] = s]
  /\ cpu[c].intr /\ state[p] = "running"
  /\ cpu' = [cpu EXCEPT ![c].intr = FALSE]
  /\ pc' = [pc EXCEPT ![p] = "preempted"]
  /\ UNCHANGED <<state, asleepOn, plock, lk, event, schedVars, saved, wakeVars, asked,
                 panic>>

\* yield takes the process lock and makes the process runnable; usertrap calls
\* it with interrupts off.
yield(c, p) ==
  /\ \/ Thread(c, p, "kernel") /\ ~cpu[c].intr /\ after' = [after EXCEPT ![p] = "call"]
     \/ Thread(c, p, "preempted") /\ UNCHANGED after
  /\ TakeProcessLock(c, p)
  /\ state' = [state EXCEPT ![p] = "runnable"]
  /\ pc' = [pc EXCEPT ![p] = "yield"]
  /\ UNCHANGED <<asleepOn, lk, event, schedVars, saved, wakeVars, asked, panic>>

\* Back from the scheduler: yield releases the process lock and returns; if
\* the caller is kerneltrap, that restores sstatus.
yieldReturn(c, p) ==
  /\ Thread(c, p, "yielded")
  /\ plock' = [plock EXCEPT ![p] = NoCPU]
  /\ cpu' = [cpu EXCEPT ![c] = IF after[p] = "call" THEN PopOff(@)
                               ELSE [PopOff(@) EXCEPT !.intr = TRUE]]
  /\ pc' = [pc EXCEPT ![p] = IF after[p] = "woken" THEN "woken" ELSE "kernel"]
  /\ UNCHANGED <<state, asleepOn, lk, event, schedVars, saved, after, wakeVars, asked,
                 panic>>

\* A thread waits for the event: it takes the condition lock, and takes it
\* again after every sleep.
takeConditionLock(c, p) ==
  /\ Thread(c, p, "kernel") \/ Thread(c, p, "woken")
  /\ lk = NoCPU
  /\ lk' = c
  /\ Pushed(c)
  /\ pc' = [pc EXCEPT ![p] = "check"]
  /\ UNCHANGED <<state, asleepOn, plock, event, schedVars, saved, after, wakeVars, asked,
                 panic>>

\* The loop around sleepWithLock ends: the thread consumes the event.
consumeEvent(c, p) ==
  /\ Thread(c, p, "check") /\ event
  /\ event' = FALSE
  /\ lk' = NoCPU
  /\ Popped(c)
  /\ pc' = [pc EXCEPT ![p] = "kernel"]
  /\ UNCHANGED <<state, asleepOn, plock, schedVars, saved, after, wakeVars, asked, panic>>

\* sleepWithLock: the process lock first, then the condition lock is released.
sleepTakeLock(c, p) ==
  /\ Thread(c, p, "check") /\ ~event
  /\ TakeProcessLock(c, p)
  /\ pc' = [pc EXCEPT ![p] = "locked"]
  /\ UNCHANGED <<state, asleepOn, lk, event, schedVars, saved, after, wakeVars, asked,
                 panic>>

\* Mutant: the condition lock is kept while the process sleeps.
sleepKeep(c, p) ==
  /\ Thread(c, p, "locked")
  /\ pc' = [pc EXCEPT ![p] = "released"]
  /\ UNCHANGED <<state, asleepOn, plock, lk, event, cpu, schedVars, saved, after, wakeVars,
                 asked, panic>>

sleepRelease(c, p) ==
  /\ Thread(c, p, "locked")
  /\ lk' = NoCPU
  /\ Popped(c)
  /\ pc' = [pc EXCEPT ![p] = "released"]
  /\ UNCHANGED <<state, asleepOn, plock, event, schedVars, saved, after, wakeVars, asked,
                 panic>>

\* putProcessToSleep sets channel and state, before it switches away.
putProcessToSleep(c, p) ==
  /\ Thread(c, p, "released")
  /\ asleepOn' = [asleepOn EXCEPT ![p] = TRUE]
  /\ state' = [state EXCEPT ![p] = "sleeping"]
  /\ pc' = [pc EXCEPT ![p] = "asleep"]
  /\ UNCHANGED <<plock, lk, event, cpu, schedVars, saved, after, wakeVars, asked, panic>>

\* Awake again: the channel is cleared and the process lock released.
sleepTidy(c, p) ==
  /\ Thread(c, p, "tidy")
  /\ asleepOn' = [asleepOn EXCEPT ![p] = FALSE]
  /\ plock' = [plock EXCEPT ![p] = NoCPU]
  /\ Popped(c)
  /\ pc' = [pc EXCEPT ![p] = "woken"]
  /\ UNCHANGED <<state, lk, event, schedVars, saved, after, wakeVars, asked, panic>>

\* A system call turns interrupts on, the return to user space turns them off.
setInterrupts(c, p) ==
  /\ Thread(c, p, "kernel")
  /\ cpu' = [cpu EXCEPT ![c].intr = ~@]
  /\ asked' = [asked EXCEPT ![p] = ~@]
  /\ UNCHANGED <<state, asleepOn, plock, lk, event, schedVars, pc, saved, after, wakeVars,
                 panic>>

-----------------------------------------------------------------------------
(* The event is posted and wakeup called, by a thread or by the handler of  *)
(* a device interrupt that suspends whatever the CPU is doing.              *)
startWakeup(c) ==
  /\ panic = "none" /\ wpc[c] = "none"
  /\ \/ /\ stack[c] # NoProc /\ pc[stack[c]] = "kernel"
        /\ wirq' = [wirq EXCEPT ![c] = FALSE]
        /\ UNCHANGED cpu
     \/ /\ cpu[c].intr
        /\ wirq' = [wirq EXCEPT ![c] = TRUE]
        /\ cpu' = [cpu EXCEPT ![c].intr = FALSE]
  /\ wpc' = [wpc EXCEPT ![c] = "post"]
  /\ UNCHANGED <<state, asleepOn, plock, lk, event, schedVars, pc, saved, after, wslot,
                 asked, panic>>

\* Most callers hold the condition lock during wakeup.
postEvent(c) ==
  /\ panic = "none" /\ wpc[c] = "post" /\ lk = NoCPU
  /\ event' = TRUE
  /\ lk' = c
  /\ Pushed(c)
  /\ wslot' = [wslot EXCEPT ![c] = 1]
  /\ wpc' = [wpc EXCEPT ![c] = "scan"]
  /\ UNCHANGED <<state, asleepOn, plock, schedVars, pc, saved, after, wirq, asked, panic>>

\* Ticks.incrementSafe releases it before it calls wakeup.
releaseBeforeWakeup(c) ==
  /\ panic = "none" /\ wpc[c] = "scan" /\ wslot[c] = 1 /\ lk = c
  /\ lk' = NoCPU
  /\ Popped(c)
  /\ UNCHANGED <<state, asleepOn, plock, event, schedVars, pc, saved, after, wakeVars,
                 asked, panic>>

\* The processes a wakeup must make runnable.
Sleeper(p) == state[p] = "sleeping" /\ asleepOn[p]

\* wakeup looks at one slot under its lock; the current process is skipped.
wakeup(c) ==
  LET p == wslot[c] IN
  /\ panic = "none" /\ wpc[c] = "scan" /\ p \in Procs
  /\ p # running[c] => plock[p] = NoCPU
  /\ state' = IF p # running[c] /\ Sleeper(p) THEN [state EXCEPT ![p] = "runnable"]
                                              ELSE state
  /\ wslot' = [wslot EXCEPT ![c] = p + 1]
  /\ UNCHANGED <<asleepOn, plock, lk, event, cpu, schedVars, pc, saved, after, wpc, wirq,
                 asked, panic>>

\* wakeup is done; the lock, if still held, is released and the handler
\* returns.
endWakeup(c) ==
  /\ panic = "none" /\ wpc[c] = "scan" /\ wslot[c] > NProc
  /\ LET r == IF lk = c THEN PopOff(cpu[c]) ELSE cpu[c] IN
     cpu' = [cpu EXCEPT ![c] = IF wirq[c] THEN [r EXCEPT !.intr = TRUE] ELSE r]
  /\ lk' = IF lk = c THEN NoCPU ELSE lk
  /\ wpc' = [wpc EXCEPT ![c] = "none"]
  /\ wslot' = [wslot EXCEPT ![c] = 1]
  /\ UNCHANGED <<state, asleepOn, plock, event, schedVars, pc, saved, after, wirq, asked,
                 panic>>

-----------------------------------------------------------------------------
SchedulerStep(c) == loopRound(c) \/ loopScan(c) \/ loopSwitch(c) \/ loopBack(c)

\* Steps a thread takes once it is inside yield or sleepWithLock.
ThreadStep(c) == \E p \in Procs :
  \/ forkReturn(c, p)
  \/ Thread(c, p, "preempted") /\ yield(c, p)
  \/ switchToScheduler(c, p) \/ yieldReturn(c, p)
  \/ Thread(c, p, "woken") /\ takeConditionLock(c, p)
  \/ consumeEvent(c, p) \/ sleepTakeLock(c, p) \/ sleepRelease(c, p)
  \/ putProcessToSleep(c, p) \/ sleepTidy(c, p)

\* What a thread in the kernel may call, or not.
ThreadCall(c) == \E p \in Procs :
  Thread(c, p, "kernel") /\ (yield(c, p) \/ takeConditionLock(c, p))

SetInterrupts(c) == \E p \in Procs : setInterrupts(c, p)

WakeupStep(c) == postEvent(c) \/ wakeup(c) \/ endWakeup(c)

Preempt(c) == \E p \in Procs : timerInterrupt(c, p)

Next == \E c \in CPUs :
  \/ SchedulerStep(c) \/ ThreadStep(c) \/ ThreadCall(c) \/ SetInterrupts(c)
  \/ Preempt(c) \/ startWakeup(c) \/ releaseBeforeWakeup(c) \/ WakeupStep(c)

Spec == Init /\ [][Next]_vars

\* A CPU keeps executing the code it is in; device interrupts leave it time to
\* do so, which is why the fairness is strong.  A pending timer interrupt is
\* taken once interrupts are on, and kernel code running with interrupts off
\* turns them on again, at the latest when it returns to user space.
Fairness == \A c \in CPUs :
  /\ SF_vars(SchedulerStep(c)) /\ SF_vars(ThreadStep(c))
  /\ WF_vars(WakeupStep(c))
  /\ SF_vars(Preempt(c)) /\ SF_vars(SetInterrupts(c))

FairSpec == Spec /\ Fairness

-----------------------------------------------------------------------------
(* Properties.                                                              *)

\* No two CPUs execute on the same kernel stack: a process that has made
\* itself runnable is not picked by another CPU before it has left its stack
\* (scheduler.zig:33-38, 48). Nor does switchToScheduler find a lock, a state
\* or an interrupt setting it panics about (scheduler.zig:56-62).
StackExclusive ==
  /\ panic = "none"
  /\ \A c, d \in CPUs : c # d /\ stack[c] # NoProc => stack[c] # stack[d]

\* No wakeup is lost: a process asleep although the event has been posted
\* still has a wakeup coming to its slot (scheduler.zig:106-111).
NoLostWakeup ==
  \A p \in Procs : Sleeper(p) /\ event =>
    \E c \in CPUs : wpc[c] = "scan" /\ wslot[c] <= p

\* "intena is a property of this kernel thread, not this CPU"
\* (scheduler.zig:49-51): outside all locks a thread runs with the interrupt
\* setting it chose, although it slept or yielded on another CPU.
InterruptsFollowThread ==
  \A c \in CPUs, p \in Procs :
    Thread(c, p, "kernel") \/ Thread(c, p, "woken") => cpu[c].intr = asked[p] /\ cpu[c].depth = 0

\* A runnable process gets a CPU.
RunnableRuns == \A p \in Procs : state[p] = "runnable" ~> state[p] = "running"
=============================================================================
