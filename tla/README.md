# Verification of ZigmaOS

ZigmaOS is a small Unix for RISC-V multiprocessors, a port of xv6 from C to Zig
with a facility of its own: ring buffers that two processes share by name. This
directory holds TLA+ models of its kernel, of its user library and of its user
programs, model checking runs for TLC, and proofs for TLAPS. Every definition is
translated from the Zig or C source; `PROJECT.json` maps each one to its lines.
Paths below are relative to `src/`, so `src/kernel/filesystem/log.zig` is
`src/src/kernel/filesystem/log.zig` from the root of this tree.

## The system

The kernel runs on several CPUs. Each CPU executes its scheduler loop, the
kernel thread of a process, or an interrupt handler on top of one of these.
Everything the CPUs share is protected by spin locks, which also turn interrupts
off; whoever has to wait longer sleeps on a channel and is woken by somebody
else. The components, from the bottom up:

| Component | State | Operations | What makes it correct |
|---|---|---|---|
| spin locks, interrupt nesting (`concurrency/spinlock.zig`, `interrupts.zig`) | `isLocked`, owner CPU; per CPU `pushDepth`, `interruptsEnabled`, `sstatus.SIE` | acquire, release, pushOff, popOff | mutual exclusion; no handler interrupts a holder; the setting of before the first pushOff comes back with the last popOff |
| scheduler (`execution/scheduler.zig`, `cpu.zig`, `ticks.zig`) | process state and channel, current process and kernel stack of each CPU | loop, switchToScheduler, yield, sleepWithLock, wakeup, preemption | one CPU per stack; no lost wakeup; every runnable process runs |
| process table (`execution/process.zig`, `traps/trap.zig`) | state, pid, kill mark, parent of each slot; `waitLock` | fork, exit, wait, kill, user faults | every process has a live parent; a parent finds its zombies; orphans are reaped by init |
| redo log (`filesystem/log.zig`) | header in memory and on disk, log blocks, outstanding operations | beginOperation, write, endOperation, commit, recovery | calls are atomic and, once committed, durable over a power failure at any moment |
| buffer cache (`filesystem/buffer.zig`, `buffer_cache.zig`) | block, validity, reference count, sleep lock, data of each buffer | get_buffer, read, write, release, pin, unpin | whoever has a block locked sees what was last put in it |
| disk driver (`drivers/virtio/`) | descriptors, available and used ring, requests in flight, interrupt status | readOrWrite, the interrupt handler | no descriptor lost or used twice; every completion wakes its request |
| inodes (`filesystem/inode.zig`) | inodes on disk, the table of entries in memory with reference counts and sleep locks | alloc, get, lock, release, update, put | an inode is freed when, and only when, nothing refers to it |
| open files and file system calls (`filesystem/file.zig`, `directory.zig`, `traps/sysfile.zig`) | file table, descriptors, directory entries | open, create, link, unlink, dup, close; fork and exit of processes | references and links are exact |
| pipes (`filesystem/pipe.zig`) | 512 byte array, two 32 bit counters, open flags | read, write, close, and kill of a process inside | bytes in order, none lost; nobody sleeps without reason; a write returns |
| shared ring buffers (`datastructures/ringbuf.zig`) | slots with name, owners and pages; per process the mappings, a count and the next free page | open, close, and the release by exit, wait and exec | a process sees the pages of the ring buffers it owns, each twice in a row, and no freed page |
| ring buffer library (`user/ulib/uringbuf.zig`) | pages and two atomic counters shared by two processes | startWrite, finishWrite, startRead, finishRead | a byte stream without locks |
| memory (`memory/`) | free list, page tables | alloc, free, map, unmap, copy | pages are given back by whoever took them |
| console and UART (`drivers/`) | input line, transmit queue | read, write, interrupt handler | lines arrive whole and in order |
| init, shell (`user/init.c`, `sh.c`) | their descriptors, children and current directory | the loop of init; parsecmd, runcmd, the shell's loop | a line is parsed as its grammar says; the prompt means that the line before it is done; orphans are reaped |
| utilities (`user/cat.c`, `echo.c`, `rm.c`, `ln.c`, `mkdir.c`, `zombie.c`, `grep.c`, `wc.c`) | a buffer | main | the output does not depend on how reads cut the input |
| test programs (`user/usertests.c`, `grind.c`, `forktest.c`, `stressfs.c`, `rb_*.c`) | names, processes, memory | the tests | they pass in every interleaving, end, and leave nothing behind |
| C library (`user/ulib/`) | the list of free blocks | malloc, free, printf, string functions | no memory is lost or handed out twice; functions compute what they are to |

Interactions: file system calls run inside an operation of the log, which writes
through the buffer cache, which calls the disk driver, which sleeps until its
interrupt handler wakes it. Pipes and `wait` sleep and wake through the
scheduler. `fork`, `exit` and `exec` duplicate, close and unmap what the files
and the ring buffers count. Kernel and library share only the mapped pages of a
ring buffer. User programs meet in the system calls: through pipes, names, offsets
of inherited files, `wait` and `kill`, and in what they use up, processes, pages,
inodes and blocks.

What is hard here, and hardly reached by the tests in `src/user/usertests.c`: code
that gives up a lock and goes on with what it read under it (`put`, `release`,
`init`, `kill`); wakeups that race with sleeps; a process that changes CPUs in the
middle of a function; interrupts between any two instructions; a power failure
between any two disk writes, in recovery too; failures half way through a call
that has changed several tables; counters that wrap. In user space: the order in
which the processes of a pipeline run and close their ends of it, orphans, reads
that return a part of what was asked for, long sequences of malloc and free.
`PROJECT.json` lists these
under `hazards`, each at the line where it bites.

## Modules

| Module | Models | Grain of a step |
|---|---|---|
| `SpinLock` | acquire, release, pushOff, popOff and the interrupts between them | every shared access; reading and clearing SIE are two steps |
| `Scheduler` | loop, yield, sleepWithLock, wakeup, kerneltrap's yield | between two lock operations or context switches |
| `Process` | fork, exit, wait, kill, faults, failed allocation | a section under a process lock; `waitLock` is held over several |
| `Log` | the log, with the cached data, pins and sleep lock of a block | a section under `log.lock`; in commit and recovery, one disk write |
| `AtomicLog` | abstract: what the log promises | - |
| `VirtioDisk` | the driver and, external, the device | a section under `vdisk_lock`; the handler looks at the used ring one entry at a time |
| `BufferCache` | extends `VirtioDisk` by the cache and the processes that use it | a section under `cache.lock` or one operation on the sleep lock |
| `Inodes` | the inode table and the inodes on disk | a section under the table lock or the lock of the inode |
| `Files` | extends `Inodes` by file table, descriptors, the root directory and the system calls | a system call between two locks it takes |
| `Pipe` | a pipe | one turn of a loop |
| `ByteStream` | abstract: a bounded byte buffer | - |
| `Ringbuf` | the kernel's ring buffers and their mappings | a call, which holds the manager's lock |
| `UserRingBuf` | the library's data path | every load, store and fetchAdd |
| `UserCode` | a C function as a sequence of statements, and the control between its system calls | - |
| `Unix` | the system calls as programs see them: processes, descriptors, pipes, directory trees, file data, memory, ring buffers | a system call; a write to a pipe until it blocks |
| `ShellParser` | the shell's parser | a function |
| `Shell` | init, the shell's runcmd and loop, the utilities | programs over `Unix` |
| `Usertests` | forty-eight tests of `usertests` and its driver | programs over `Unix` |
| `Programs` | grind, forktest, stressfs and the ring buffer tests | programs over `Unix` |
| `UserPrograms` | composes the programs with `Unix` | a system call of any process |
| `Umalloc` | malloc, free, morecore | a turn of a loop |
| `Ulib` | string functions, printf, the matcher and the loops of grep and wc | functions |
| `UserLibrary` | composes `UserRingBuf`, `Umalloc`, `Ulib` and `ShellParser`, and has the reads of grep and wc | a read; else as in the parts |
| `SpinLockProofs`, `SchedulerProofs`, `ProcessProofs`, `LogProofs`, `BufferCacheProofs`, `PipeProofs` | theorems about the module they are named after | - |
| `FilesProofs` | theorems about `Files` and the `Inodes` it extends | - |
| `UserMemoryProofs` | theorems about `Ringbuf`, `UserRingBuf` and `Umalloc`: what programs share and keep in memory | - |

`MC...` modules give the constants model values and symmetry sets. Names of
variables and actions are those of the source. A variable `pc` (or `call`, `stage`,
`spc`, `wpc`) stands for the program counter of the code that gave up a lock, and
`panic` for the message the kernel stopped with; after a panic nothing happens.

The lower layers are used by the upper ones through what was shown of them. A spin
lock is atomic in `Scheduler` because `SpinLock` shows it to exclude; sleeping
while releasing a lock is one step in `Process`, `Pipe`, `VirtioDisk` and `Log`
because `Scheduler` shows that no wakeup is lost; `Files` has no power failures
because `Log` shows that each call is undone or kept as a whole. `Unix` makes each
call one step because `Process`, `Pipe`, `Files` and `Ringbuf` model the same calls
lock by lock and show that what they count stays exact in between.

What the models leave out, each where its data does not matter to the properties:

- `Scheduler` has one condition lock and one channel. `sleep()` has no caller.
- `Process` has no memory sizes, names and registers. "runnable" stands for running
  too, since `Scheduler` decides who runs. `victims` lets kill name each pid once.
- `Log` does not model the disk driver: a disk write is a step, and the disk
  has them in the order of the calls, because `Buffer.write` waits for each.
- `BufferCache` leaves open which unused buffer is recycled (the code takes the
  least recently used), and has no pins; these are in `Log`.
- `VirtioDisk` represents the rings as sets. A ring has as many entries as there
  are descriptors and every request takes three, so an entry is never overwritten
  while in use, and the device may complete in any order anyway.
- `Files` has one directory, the root; directories made in it stay empty. Contents,
  sizes and offsets of files are left out. Which free file or descriptor is taken
  is left open.
- `Pipe` has one pipe with its ends; who holds the descriptors is left to `Files`.
- `Ringbuf` has only the part of the address space the ring buffers use.
- `Unix`: data comes in units of a block. How long a sleep takes is left open, and
  so is which zombie `wait` finds. Page tables are one page per process, ring
  buffers take none, an executable takes one. `mknod` is left out: the disk has the
  console's node, which init makes on the first start. Kernel internals between two
  locks are those of the modules above; the races listed at the end of this file are
  not repeated in it.
- The programs leave out their messages and what they compute in their own memory.
  Loop counts, numbers of children, file sizes and name lengths are scaled to the
  constants of `Unix`, so that the tests still meet the limits they are about: the
  process table, memory, the disk, the inodes and the longest file are used up.
  A name is one character of a shell script. init starts one shell and then waits.
  grind makes one choice of its twenty-two per process.
- `Umalloc` counts addresses in headers. Sizes are integers: requests near 2^32
  bytes would wrap in the code (`umalloc.c:54,69`), and nobody makes them.
- `Ulib`: an int has `W` bits; characters of the filters are those of the alphabets
  in `UserLibrary`.
- `UserRingBuf` counts positions from the start of the stream; that positions a
  capacity apart are the same byte is what `Ringbuf`'s `MirrorMapped` shows.

## Runs

`tlc -config X.cfg M` checks a run; each takes from a second to about two minutes.

| Run | Instance | Properties |
|---|---|---|
| `spinlock` | 2 CPUs, 3 locks | `MutualExclusion`, `NoPanic`, `NoInterruptWithLock`, `InterruptsRestored` |
| `scheduler` | 2 CPUs, 2 processes | `StackExclusive`, `NoLostWakeup`, `InterruptsFollowThread` |
| `scheduler_live` | 1 CPU, 2 processes, fair | `RunnableRuns` |
| `process` | 3 slots, 3 pids, fair | `NoOrphan`, `NoMissedChild`, `OrphanReaped` |
| `log` | 2 processes, 4 blocks, 2 crashes | `CrashAtomic`, `QuietIsDurable`, `PinnedIffLogged`, `NoPanic` |
| `log_full` | the same with nlog = log_size | `NoPanic`, violated |
| `buffer_cache` | 3 processes, 3 buffers, 3 blocks, 7 descriptors | `SeesLatest`, `NothingIsLost`, `DeviceOwnsBuffer`, `NobodyWaitsInVain` |
| `files` | 2 processes, 2 names, 2 inodes, 2 entries, 2 files, 2 descriptors | `ReferencesExact`, `CopyIsCurrent`, `LinksExact`, `NothingDangles` |
| `pipe` | a writer, a reader, 2 bytes, counters of 4, fair | `BytesInOrder`, `NoneSleepsInVain`, `WriteReturns` |
| `ringbuf` | 2 processes, 2 names, 2 slots of 2 pages | `MappedIsOwned`, `BookkeepingCovers`, `MirrorMapped` |
| `user_library` | a ring of 3 bytes and a stream of 7; a heap of 9 units; texts of 4 to 6 characters | `SlicesApart`, `NoAssertFails`, `IsByteStream`; `HeapIsIntact`; `ParseIsGrammar`, `SplitDoesNotMatter`, `FunctionsCompute` |
| `user_programs` | 11 shell scripts, 48 tests, 9 other programs, up to 9 processes, fair | `TestsPass`, `PromptMeansDone`, `NothingLeftBehind`, `EveryProgramEnds` |

What they show, and why the bounds are enough; for the safety properties of the kernel
modules, of the ring buffer library and of malloc and free, the proofs of the next
section lift the bounds altogether:

**spinlock.** On two CPUs, threads and handlers take `waitLock`, a process lock and
the memory lock in the order of their ranks, release them in any order, and turn
interrupts on and off. Two CPUs give every race of the two-field test `isHolding`
with another CPU's store; three locks give nesting of depth two below a handler.

**scheduler.** Two processes yield, are preempted, wait for an event and are woken
by threads and by handlers, on two CPUs. The scheduler of either CPU can find either
process at any moment, and a wakeup can be anywhere in its scan while a process goes
to sleep; a third process only adds more of the same. A deadlock would be reported.

**scheduler_live.** `RunnableRuns`: a runnable process gets the CPU. With one CPU
nobody else can come to its help, which is the hard case.

**process.** Three slots are the first process, a parent and its child, or two
children; three pids make a slot be used again. `alloc` may run out of pages, which
opens the window in which `init` frees a slot without its lock. Kill targets pid 2,
which is a parent in some runs and a child in others.

**log.** Operations write up to two blocks each; the log has room for two of them
(`LogSize` 4, `MaxOpBlocks` 2, five log blocks with the header), so both processes
fill it and a third operation has to wait. Two crashes are one in commit and one in
the recovery from it. `CrashAtomic` is the refinement of `AtomicLog`: `durable` is
what recovery would make of the disk, `view` what the cache shows, and a commit moves
one to the other at the single write of the header. `QuietIsDurable` adds what the
abstract specification leaves open: when the last operation has returned, everything
is durable.

**buffer_cache.** Seven descriptors are two requests and one descriptor to spare, as
the eight of the code are, so allocation fails in the middle and gives back what it
got. Three buffers are as many as processes, so none of them finds the cache full
while each step of recycling happens. A change of a block gives it contents of its
own, so a stale buffer is seen. Deadlock is checked: a panic, a lost wakeup or a
forgotten interrupt would also show as one.

**files.** Two processes do everything to two names and two inodes, and run out of
files, of descriptors (but for `open`, see below) and of inodes. A second process is
enough to come into the gap of `put`, in which it can allocate, find, link, unlink
and free the same inode; two inodes let the entry be recycled for another. There is
an entry for each inode, so the table does not overflow here; with one entry `get`
panics, and the proofs say what holds then.

**pipe.** Chunks end at the end of the array and counters wrap at 4 instead of
2^32; a call asks for more than fits. The reader may be killed and may give bad
addresses. The system may come to rest when both ends are closed, so deadlock is not
checked. Overflow is undefined in the ReleaseSmall build of the kernel. The
run takes the outcome in which a sum that is only compared wraps too
(`OverflowWraps = TRUE`); with the other one a writer that
finds the pipe full at the wrap, after 4 GB, turns in its loop for ever with
`pipe.lock` held, and `WriteReturns` fails.

**ringbuf.** Every order of opens and closes of two names by two processes, failures
of `open` at each of its three places, exit, wait, fork and exec. 13 pages hold two
regions of 2 * 2 + 1 pages with their guard pages. `MaxCount` bounds a count that
failed opens only increase. The address space and that bound can be used up, so
deadlock is not checked.

**user_library.** A behaviour is about one part. *Ring buffer:* seven bytes go twice
around a ring of three with every interleaving of loads, stores and fetchAdds;
`IsByteStream` is the refinement of `ByteStream`, and the proofs lift the bound for
all three properties. *Heap:* requests of no byte, of one unit and of more than one chunk
grow the heap twice at most, and sbrk may refuse at any time, so a freed block is
found below, above and between free ones and joins either, both or none. `HeapIsIntact`
holds at every turn of the loops of malloc and free, not only between the calls; the
proofs lift these bounds too.
*Parser:* every line of up to five of the characters that tell its
branches apart, with arguments limited to two, against a grammar that is written down
as the set of trees of a sequence of tokens. *Filters:* every input of up to five or
six characters, cut by every sequence of reads, with a buffer of four, which a line
fills. *Functions:* every pattern, format and text of up to four characters; the ints
have eight bits, so all of them are printed. Each part ends, so deadlock is not
checked.

**user_programs.** init starts one program in place of the shell. Its processes
interleave at every system call. Limits are scaled so that each test reaches the one
it is about: nine processes, twenty pages, twelve inodes and blocks, files of four
blocks, pipes of two units. `MaxPid` bounds the processes of a behaviour; no program
needs more, for otherwise `EveryProgramEnds` would fail. `TestsPass`: no test reports
an error, and usertests finds as many free pages after it as before.
`PromptMeansDone` compares console and disk, whenever the shell reads a line, with
what the lines before it mean, a definition that knows nothing of processes and
pipes. `NothingLeftBehind`: when all is over, files, pipes, ring buffers, inodes and
pages are back. In the end init waits without children, over and over, so a deadlock
would be a process that nobody can help.

`TypeOK` of each module (`RingTypeOK` of `UserRingBuf`) documents its variables; it is
proved for every kernel module and for `UserRingBuf`.

### Fairness

- `Scheduler`: a CPU keeps executing the code it is in. Strong fairness, because an
  interrupt can disable a step again and again but leaves the CPU time for it. A timer
  interrupt is pending again and again and is taken once interrupts are on; kernel
  code that runs with interrupts off turns them on at the latest on its return to
  user space.
- `Process`: a process in the kernel makes progress, which is `RunnableRuns` of
  `Scheduler` and, for the locks, that spinning for a lock that is free over and over
  succeeds in the end. Init calls `wait` over and over (`src/user/init.c`). Nothing
  is assumed of other programs.
- `UserPrograms`: while a process can run, some process does. That is all: which one
  is left open, so an unfair scheduler is allowed to starve any of them for as long as
  others have something to do. `RunnableRuns` shows more of the scheduler. Killed
  processes die at their next system call or interrupt.
- `Pipe`: processes inside a call make progress; the reading program keeps reading,
  not always with a bad address; killed readers exit, which closes their end.

## Proofs

TLAPS checks all of the following for every value of the constants that the
assumptions named in the modules allow. Each component has one inductive
invariant, `IInv` (`StreamInv` for `UserRingBuf`, `HeapInv` for `Umalloc`), a lemma per
action that the action preserves it, and theorems that follow from it. Assumptions
beyond those of the constants stand in the theorem. A property that a run checks is
proved under its own name.

| Module | Theorems | Hypothesis |
|---|---|---|
| `SpinLockProofs` | `TypeCorrect`, `Exclusion`, `PanicFree`, `DepthIsExact`, `HandlersMeetNoLock`, `SettingRestored` | - |
| `SchedulerProofs` | `TypeCorrect`, `StacksAreExclusive`, `NoWakeupIsLost`, `InterruptsAreTheThreads` | - |
| `ProcessProofs` | `TypeCorrect`, `NobodyIsOrphaned`, `WaitMissesNoChild` | - |
| `LogProofs` | `TypeCorrect`, `PinsAreExact`, `LogIsCrashAtomic` | - |
| | `NeverPanics` | `Sized`: an operation writes at most `MaxOpBlocks` blocks and `LogSize < NLog` |
| | `QuietStateIsDurable` | `MaxOpBlocks <= LogSize` |
| `BufferCacheProofs` | `TypeCorrect`, `OnlyBuffersRunOut`, `HolderSeesLatest`, `CountsAreExact`, `DeviceStaysInBuffer`, `NobodyIsForgotten` | - |
| `PipeProofs` | `TypeCorrect`, `PipeKeepsOrder` | - |
| | `NoWakeupIsMissed` | no writer is in `Killable` |
| `FilesProofs` | `TypeCorrect`, `ReferencesAreExact`, `CopiesAreCurrent`, `LinksAreExact`, `OnlyAFullTablePanics` | `~OpenWhenFull` |
| | `NothingEverDangles` | `~OpenWhenFull`, and as many table entries as inodes |
| `UserMemoryProofs`, of `Ringbuf` | `TypeCorrect`, `BooksAreKept`, `MirrorIsMapped`, `MappingsAreOwned` | - |
| `UserMemoryProofs`, of `UserRingBuf` | `StreamInvariance`, `AssertionsHold`, `SlicesNeverOverlap`, `ReaderUndisturbed`, `RingIsByteStream` | - |
| `UserMemoryProofs`, of `Umalloc` | `HeapStaysIntact`, `HeldBlocksStay` | - |

The hypotheses are those the code needs. Without `LogSize < NLog` the log panics, which
is what `log_full` shows of the disk as it is formatted; a log too small for one
operation lets every call sleep for ever (the code has `log_size` three times
`max_num_operation_blocks`); with a killed writer a reader does sleep on data, as
described below. With `OpenWhenFull`, a process whose descriptors are all in use may
call `open`, which then drops its reference twice, as described below too: the counts are wrong
from then on, and nothing that rests on them holds. An inode table with fewer entries than inodes
overflows (50 and 200 in the code), so `NothingEverDangles` needs its second hypothesis
and `OnlyAFullTablePanics` says what is left without it.

**SpinLockProofs**, for any CPUs and any finite set of locks with an order
(`SpinLockAssumption`). The threads and handlers are assumed, as an enabling
condition of the model, to take locks in that order; this is the order of the
kernel's code, not a check in it. The inductive invariant `IInv` adds to the checked properties what
connects them: the lock a step wants is not one the CPU has (`WantsNewLock`); a
handler that is not running has no locks and no step under way (`HandlerIdle`); a
handler runs only over a thread that is between lock operations (`ThreadClear`) and
with interrupts off (`HandlerOff`); a lock that is inside somebody is locked
(`InsideLocked`) and its owner field names exactly the CPU that has it (`OwnerHas`),
which is why the unsynchronised test `isHolding` gives the right answer; `pushDepth`
is the number of locks counted (`DepthCountsLocks`); and the saved setting is the one
the thread chose (`SettingKept`). `Invariance` has one step per action, and the
theorems `TypeCorrect`, `Exclusion`, `PanicFree`, `DepthIsExact`,
`HandlersMeetNoLock` and `SettingRestored` follow from it.

**SchedulerProofs**, for any number of CPUs and processes. The thread of the
argument is who answers for a process: the scheduler that is in its slot, the CPU on
its stack and the holder of its lock are one CPU (`OneOwner`, `Switching`), and what a
process that nobody runs has left behind is fixed by its state (`Resting`, `Asleep`).
`Locks`, `Condition` and `Executing` say who holds which lock at which step, `Depth`
that `pushDepth` counts them and that interrupts are off with any, and `Settings` where the
interrupt setting of a thread is kept: in `sstatus`, in `interruptsEnabled` of the CPU
it is on, or on its own stack while it is switched away. `Covered` is the heart of
`NoWakeupIsLost`: while the event is there and a process sleeps for it, a scan of
`wakeup` has not passed the process's slot yet or is about to start; it is inductive
only because the sleeper takes its process lock before it gives up the condition lock.

**ProcessProofs**, for any number of slots and pids. `Threads` and `Holder` tie the
program counters to the states of their slots and to `waitLock`; `Builders` describes a
slot that `fork` is still building, or that a failed `init` is freeing without its
lock; `Parents` and `Initial` say that parents are slots that were built and that the
first process never goes. `Exiting` says how far `reparentChildren` has got: no slot
it has passed has the exiting process for its parent. `Zombies` is what `wait` relies
on: no child behind the place of its scan is a zombie, and nobody sleeps beside a child
that is a zombie or, past its wakeup, about to become one; `waitLock` keeps the two
apart. `exit` of the first process, which panics
(`process.zig:394`), is not an action of the model: its program never ends.

**LogProofs**, for any number of processes, blocks, crashes, and any sizes. The
invariant says for each stage of commit and of recovery what the two headers hold
(`Walk`), how far the log blocks and the home blocks have followed (`LogBlocks`), and
where the current contents of a block are (`Cached`): pinned once in the cache while
the running transaction needs them, at home otherwise. `Calls` ties the count of open
operations to the processes, so that no commit runs beside one. `LogIsCrashAtomic` shows the refinement of `AtomicLog` step by step: the write
of the header is the abstract commit, a crash discards what is not committed, and every
other write, those of a recovery that is repeated included, is a stutter.
`NeverPanics` and `QuietStateIsDurable` each add a part that needs its hypothesis: the
blocks logged and still reserved fit the log, and a process sleeps for room only while
an operation or a commit is under way.

**BufferCacheProofs**, for any number of processes, buffers, blocks and at least three
descriptors, with no relation between them assumed. The sleep lock carries the
argument (`Holders`): only the holder has a request for a buffer (`Calls`), so every
chain of descriptors belongs to one process (`Chains`, `Apart`, `Taken`), the rings
hold the heads of the processes that wait (`Rings`), and `disk_owned` is true exactly
of the buffers waited for (`OwnedByDisk`). `Contents` then says where the latest
contents of a block are: in its buffer, if valid or just filled, and on the disk unless
its holder is about to write them; reading is safe because the block is in one buffer
(`Distinct`) and the buffer has one holder. `OnlyBuffersRunOut` is not a property of
the run, which has a buffer for each process: no panic but that of a cache with all
buffers in use can be reached.

**PipeProofs**, for any size of the pipe, any width of the counters that the size
divides, and any number of readers and writers. The bytes between the counters are
those written and not read, by position modulo the width and modulo the size
(`PipeKeepsOrder`); lemmas on these two moduli carry each chunk over both wraps.
`NoWakeupIsMissed` adds `Sleepers`: what a sleeper sleeps for is out of date only while
the process that changed it still holds the pipe's lock, with bytes copied and the
wakeup before it.

**UserMemoryProofs**, on `Ringbuf`, for any processes, names, slots, buffer size and address space. One
part holds always: types, at most one side of a slot for a process, reference counts
that are exact, counts and next free page that cover what is owned. The other holds
until a panic and is about the mappings: regions lie above the next free page
(`Placed`), each is mapped in order and twice with an unmapped page below it
(`Mirror`), and nothing else is mapped unless an open has failed (`NoStray`). As each
page says which slot it belongs to, regions do not overlap and a close in any order
leaves the others whole. The two panics that `Ringbuf` reaches
(below) are why the parts are apart.

**UserMemoryProofs**, on `UserRingBuf`, for any capacity, stream length and byte values
(`UserRingBufAssumption`). The invariant relates each side's slice, computed from an
old value of the other side's counter, to the counters as they are now: what the
writer has seen of `read_done` is at most its value (`WriterView`), the reader's slice
lies below `write_done` (`ReaderView`), and the two counters are never more than
`Capacity` apart (`Bounded`). That the writer's stores leave the reader's slice alone
then rests on one lemma on positions modulo the capacity (`DifferentBytes`). The
theorems are `AssertionsHold`, `SlicesNeverOverlap` and `ReaderUndisturbed`, and
`RingIsByteStream`: under the mapping `Published`, the bytes between the two counters,
`finishWriteAdd` is a `Write` of `ByteStream` (or, of no byte, nothing),
`finishReadAdd` a `Read`, and every other step changes nothing. That holds of `put`
again by `DifferentBytes`: the byte stored lies beyond the published ones and less than
a capacity from the first of them.

**UserMemoryProofs**, on `Umalloc`, for any size of a header, of a chunk and of the heap,
any set of requests, and whenever sbrk refuses. The invariant `HeapInv` has two halves:
the blocks tile the heap (`Fills`), and the pointers of the free ones are a circle in
address order (`Circle`) in which no two touch (`Separate`). Every change of the heap is
composed from three changes of the tiling (`FillsGrow`, `FillsSplit`, `FillsJoin`) and two of the
circle (`CircleInsert`, `CircleRemove`), each a lemma about arbitrary sets and functions;
`insert`, with its four ways to join neighbours, is up to two joins and two changes of
the circle. As the loops are steps and not recursive operators, nothing has to be said of
how far they run: the invariant holds at each turn (`Searches`). That free's loop comes
to an end is in `HeapStaysIntact`: the circle leads through all free blocks, and the last
one below the freed block is a place for it (`LastBelow`). `HeldBlocksStay` is an action
property: a block that malloc has handed out stays as it is until the program frees it.

**FilesProofs**, for any finite number of processes, names, inodes, table entries, files
and descriptors. The records of the model are taken apart into a function per field
(`Place`, `Refs`, `DiskLinks`, ...), and every count is the number of places where such
a function has a value. So each action changes a function in one place and two counts by
one, and a single lemma, `CountExcept`, carries all the bookkeeping: references from
calls and open files (`SlotRefs`), from descriptors (`DescriptorRefs`), links from names
and from calls of `link` that are between their count and their entry (`NameLinks`), and
links of the root from its subdirectories (`DirectoryLinks`). The hard part is the
conjunct `CopyIsCurrent`, for `put` lets go of the table while it frees an inode. What
keeps the copy right: the sleep lock is with the call that took it (`HolderExact`), an
inode has one entry (`OneEntry`), a valid copy is that of the disk even while it is
locked, except for the inode just freed (`CopyExact`), `put` frees what only it refers to and what has
no name (`Freeing`), from then on nobody but that `put` refers to the inode (`FreeRefs`),
and when `create` allocates the same inode meanwhile, it waits for the lock `put` still holds
(`NewInode`). `RootHeld` and `UnlinkName` say that what was looked up in the directory
is still so when it is used, `FdsLeft` that `open` gets its descriptor. A panic of `get`
leaves a call half done, so the invariant has two parts, one for the running
system (`Running`) and one for a stopped one (`Stopped`), in which types, counts and
`CopyIsCurrent` still hold; TLC checked it with two table entries for two inodes and with one.
`CopyExact` is stronger than `CopyIsCurrent`, which is
about unlocked entries and does not survive a step by itself.

Only model-checked, because the prover has no liveness: `RunnableRuns`, `OrphanReaped`,
`WriteReturns` and `EveryProgramEnds`. `Unix`, `ShellParser` and `Ulib` are
built on recursive operators and recursive data, whose induction the provers cannot do:
`ParseIsGrammar`, `SplitDoesNotMatter`, `FunctionsCompute`, `TestsPass`,
`PromptMeansDone` and `NothingLeftBehind` stay with TLC. `DepthCountsLocks` and
`CopyIsIntact` are proved and not part of a run.

## Where the code departs from what it says

With a run:

- `log_full`. `build/MakeFilesystemStep.zig:28` makes `nlog` equal to `log_size`,
  which includes the header block, but `beginOperation` (`log.zig:134-136`) admits
  operations up to `log_size` data blocks. Operations that use all the blocks they
  may, three of them with the real constants, reach the panic in `log.zig:214`.

Seen in the models or in the source, without a run of their own:

- `NothingLeaks` of `Files` as an invariant is violated: `put` (`inode.zig:264-286`)
  decides under the table lock that its reference is the last, gives the lock up to
  free the inode, and drops the reference at the end without looking again. A process
  that allocates the same inode in the gap, and gives it up again before `put` ends,
  leaves an allocated inode without a name, against the comment at `inode.zig:258`.
- Setting `Ringbuf`'s `NoPanic` as an invariant shows two panics: a failed `open` of a
  ring buffer another process owns deactivates it (`ringbuf.zig:194`), and `exec` with a
  ring buffer open frees a page table with leaves (`exec.zig:146`).
- Adding a writer to `Killable` makes `NoneSleepsInVain` fail: a killed writer returns
  from `write` (`pipe.zig:77`) past the wakeup of the readers (`pipe.zig:98`), which
  sleep on a pipe with data until somebody writes or closes.
- `OpenWhenFull = TRUE` makes `NothingDangles` of `Files` fail: without a free descriptor,
  `open` closes the file, which puts the inode, and then releases and puts the inode
  again (`sysfile.zig:345-346`, which a TODO there suspects).
- Adding 0 to `KillTargets`: `kill(0)` finds an unused slot and marks it
  (`process.zig:477`); `init` does not clear the mark, so the next process in the slot
  is killed at once. A kill while a failed `init` frees its slot (`process.zig:175`)
  leaves the same mark.
- A kill between `wait`'s test of the mark and its sleep (`process.zig:463-465`) leaves
  the victim asleep until a child exits: `kill` does not take `waitLock`.
- A failed allocation of disk descriptors frees those it got, and freeing wakes the
  other waiters (`diskdriver.zig:191`): two waiters keep waking each other until a
  request completes.
- `create` locks the child while it holds the parent (`sysfile.zig:234`): it waits for
  itself with the name ".", and in the order opposite to `unlink` with "..".
- `get` panics with more than 50 inodes in use (`inode.zig:208`), fewer than the 100
  files that can be open.
- An inode that is unlinked while open stays allocated after a power failure; nothing
  looks for such inodes at the next start.
- In the library, `init` of a name that was opened and closed before returns the closed
  descriptor (`uringbuf.zig:65`).
- A console line of 128 characters has no room for its newline, which would wake the
  reader (`console.zig:142`).
- The free-page count of usertests can be taken while init has not yet reaped the
  orphans of `reparent` and `reparent2` (`usertests.c:3086`): the tests then report lost
  pages that come back. `TestsPass` leaves the count of these two out.
- `_main` ends with `exit(0)` whatever main returns (`ulib.c:13-14`), so the ring buffer
  tests' `return -1` is never seen by the parents that test for it (`rb_spsc_test.c:19`);
  the model looks for their complaint instead. The `wait` after the fourth fork of
  `rb_spsc_test.c` may reap the child of the third.
- The shell's `>>` writes over the start of a file instead of behind its end
  (`sh.c:393`); of two redirections of the output the first gets it; a line of more than
  99 characters is run in pieces (`sh.c:148`); when the second fork of a pipeline fails
  its first process is left alone with the pipe (`sh.c:112`).
- grep stops at the first line of 1023 characters, for the read that follows has no room
  and returns 0 (`grep.c:17`), and never looks at a last line without a newline.
  `SplitDoesNotMatter` states both.
- printf's `%l` takes 64 bits and prints 32 of them (`printf.c:70`).
- `pb.c:34-43` takes a short read for an error, and never ends at the end of its input.

## Not modelled

Register access, formatting and straight-line initialisation: the PLIC, `csr.zig`, the
kernel log, the boot code and the assembly, the set-up of the virtio device. Hardware
behaviour that matters (SIE, trap entry, the device's rings) is part of the modules that
use it. The build and the file system image; `nlog`, as the image has it, is a constant
of `log_full`.

In user space: `ls` and `kill`, which make single calls per file or pid; `pb`, `rb` and
`rb_basic`, whose subject is throughput and whose processes wait for each other by
sleeping; the tests of usertests that pass bad pointers, arguments that are too large or
touch a guard page (`copyin`, `copyout`, `copyinstr1` to `3`, `rwsbrk`, `validatetest`, `bsstest`,
`bigargtest`, `argptest`, `stacktest`, `textwrite`, `pgbug`, `sbrklast`, `sbrk8000`,
`badarg`, `badwrite`), because the model has no addresses but those of `sbrk`, and
`forkforkfork`, which forks until it is stopped. `strlen`, `strcpy`, `memset`, `memcmp`,
`memcpy` and `nulterminate` are single loops over data that the model does not have. The
headers in `user/kernel_legacy` declare registers, structures and constants.

## Plan

In order of importance:

1. `Memory`: the page allocator with page tables, every allocation able to fail. No
   page is lost, none is in two places, and a failed call gives back what it took.
2. `FileBlocks`: block allocation, `getBlock` with its indirect block, `truncate`.
   Every block is in the bitmap exactly if one inode uses it, over every failure half
   way; the writes of a call fit its reservation.
3. `Console` with the UART: line editing against the reader, the transmit queue
   against its interrupt handler.
4. Paths below the root in `Files`, with the lock order of directories; the descriptor
   table of the ring buffer library.
