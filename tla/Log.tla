-------------------------------- MODULE Log --------------------------------
(***************************************************************************)
(* The redo log of src/kernel/filesystem/log.zig, with the part of the     *)
(* buffer cache it depends on: a block's cached data, the pins that keep a *)
(* logged block cached, and the buffer's sleep lock (held).                *)
(*                                                                         *)
(* log.lock makes beginOperation, write and the two halves of endOperation *)
(* atomic.  commit and recoverFromLog run without it and write one disk    *)
(* block at a time, so every disk write is a step of its own and a crash   *)
(* can come between any two of them.                                       *)
(***************************************************************************)
EXTENDS Naturals, Sequences, FiniteSets

CONSTANTS Procs,        \* processes that make file system calls
          Blocks,       \* home blocks of the file system
          Values,       \* contents of a block
          MaxOpBlocks,  \* param.max_num_operation_blocks
          LogSize,      \* param.log_size
          NLog,         \* superblock.nlog: header block and data blocks
          OpWrites,     \* the most log writes a single operation really makes
          MaxCrashes,   \* bound on the number of crashes
          NoData, NoBlock

ASSUME LogAssumption ==
  /\ MaxOpBlocks \in Nat /\ LogSize \in Nat /\ NLog \in Nat \ {0}
  /\ OpWrites \in Nat /\ MaxCrashes \in Nat
  /\ NoData \notin Values /\ NoBlock \notin Blocks
  /\ Procs # {} /\ Values # {}
  /\ IsFiniteSet(Procs)

VARIABLES
  home,         \* disk: contents of the home blocks
  logData,      \* disk: contents of the log's data blocks
  diskHeader,   \* disk: the header block, as the sequence of its block numbers
  cache,        \* buffer data, NoData for a block that is not cached
  pins,         \* references to the buffer made by Buffer.pin
  header,       \* log.header
  outstanding,  \* log.outstanding
  is_commiting, \* log.is_commiting
  pc,           \* where a process is: "idle", "begin", "sleep", "op", "commit"
  held,         \* the buffer a process has locked inside its operation
  writes,       \* log writes the process has made in this operation
  stage, tail,  \* progress of commit() or of recoverFromLog()
  panic,        \* the message of the @panic that stopped the kernel
  crashes

disk   == <<home, logData, diskHeader>>
memory == <<cache, pins, header, outstanding, is_commiting>>
calls  == <<pc, held, writes>>
walk   == <<stage, tail>>
vars   == <<disk, memory, calls, walk, panic, crashes>>

CommitStages   == {"writeLog", "writeHead", "install", "erase", "finish"}
RecoveryStages == {"readHead", "recover", "recoverErase"}
Stages         == {"none"} \cup CommitStages \cup RecoveryStages

LogSlots == 1 .. (NLog - 1)

TypeOK ==
  /\ home \in [Blocks -> Values]
  /\ logData \in [LogSlots -> Values]
  /\ diskHeader \in Seq(Blocks) /\ Len(diskHeader) < NLog
  /\ cache \in [Blocks -> Values \cup {NoData}]
  /\ pins \in [Blocks -> Nat]
  /\ header \in Seq(Blocks) /\ Len(header) < NLog
  /\ outstanding \in Nat
  /\ is_commiting \in BOOLEAN
  /\ pc \in [Procs -> {"idle", "begin", "sleep", "op", "commit"}]
  /\ held \in [Procs -> Blocks \cup {NoBlock}]
  /\ writes \in [Procs -> Nat]
  /\ stage \in Stages
  /\ tail \in Nat
  /\ panic \in {"none", "too_big_a_transaction", "log_write_outside_of_trans",
                "log_commiting"}
  /\ crashes \in Nat

Logged == {header[i] : i \in 1 .. Len(header)}

\* Blocks a process is using; their buffers have a reference and are locked.
InUse == {held[p] : p \in Procs} \ {NoBlock}

\* The kernel takes no step after a @panic.
Running    == panic = "none"
Recovering == stage \in RecoveryStages

\* What a block reads as: Buffer.read takes the disk's contents when the block
\* is not cached.
Contents(b) == IF cache[b] = NoData THEN home[b] ELSE cache[b]

\* Mutant: the wakeup is forgotten.
NoWakeup(q) == q

\* scheduler.wakeup(&log): every process asleep in beginOperation runs again.
Wakeup(q) == [p \in Procs |-> IF q[p] = "sleep" THEN "begin" ELSE q[p]]

-----------------------------------------------------------------------------
(* A freshly started kernel goes through recoverFromLog before any process *)
(* makes a call.  The disk it starts from was left by mkfs: an empty log,   *)
(* all of its blocks zeroed.                                                *)
Init ==
  /\ home \in [Blocks -> Values]
  /\ \E zero \in Values : logData = [i \in LogSlots |-> zero]
  /\ diskHeader = <<>>
  /\ cache = [b \in Blocks |-> NoData]
  /\ pins = [b \in Blocks |-> 0]
  /\ header = <<>>
  /\ outstanding = 0
  /\ is_commiting = FALSE
  /\ pc = [p \in Procs |-> "idle"]
  /\ held = [p \in Procs |-> NoBlock]
  /\ writes = [p \in Procs |-> 0]
  /\ stage = "readHead"
  /\ tail = 0
  /\ panic = "none"
  /\ crashes = 0

-----------------------------------------------------------------------------
(* File system calls.                                                       *)

\* A file system call starts: it is about to call beginOperation.
StartCall(p) ==
  /\ Running /\ ~Recovering
  /\ pc[p] = "idle"
  /\ pc' = [pc EXCEPT ![p] = "begin"]
  /\ UNCHANGED <<disk, memory, held, writes, walk, panic, crashes>>

\* Mutant: the operation that asks is not counted.
NoRoomForOthers == is_commiting \/ Len(header) + outstanding * MaxOpBlocks > LogSize

NoRoom == is_commiting \/ Len(header) + (outstanding + 1) * MaxOpBlocks > LogSize

\* One turn of beginOperation's loop, entered at the call and after a wakeup.
beginOperation(p) ==
  /\ Running /\ pc[p] = "begin"
  /\ \/ /\ NoRoom
        /\ pc' = [pc EXCEPT ![p] = "sleep"]
        /\ UNCHANGED outstanding
     \/ /\ ~NoRoom
        /\ outstanding' = outstanding + 1
        /\ pc' = [pc EXCEPT ![p] = "op"]
  /\ UNCHANGED <<disk, cache, pins, header, is_commiting, held, writes, walk, panic,
                 crashes>>

\* The operation reads and locks a buffer and changes its data.
Modify(p, b, v) ==
  /\ Running /\ pc[p] = "op" /\ held[p] = NoBlock
  /\ writes[p] < OpWrites
  /\ b \notin InUse
  /\ cache' = [cache EXCEPT ![b] = v]
  /\ held' = [held EXCEPT ![p] = b]
  /\ UNCHANGED <<disk, pins, header, outstanding, is_commiting, pc, writes, walk,
                 panic, crashes>>

LogFull == Len(header) >= LogSize \/ Len(header) >= NLog - 1

\* log.write(buffer), then buffer.release().
write(p) ==
  /\ Running /\ held[p] # NoBlock
  /\ \/ /\ LogFull
        /\ panic' = "too_big_a_transaction"
        /\ UNCHANGED <<pins, header, held, writes>>
     \/ /\ ~LogFull /\ outstanding < 1
        /\ panic' = "log_write_outside_of_trans"
        /\ UNCHANGED <<pins, header, held, writes>>
     \/ /\ ~LogFull /\ outstanding >= 1
        /\ IF held[p] \in Logged
           THEN UNCHANGED <<pins, header>>
           ELSE /\ header' = Append(header, held[p])
                /\ pins' = [pins EXCEPT ![held[p]] = @ + 1]
        /\ held' = [held EXCEPT ![p] = NoBlock]
        /\ writes' = [writes EXCEPT ![p] = @ + 1]
        /\ UNCHANGED panic
  /\ UNCHANGED <<disk, cache, outstanding, is_commiting, pc, walk, crashes>>

\* Mutants: the commit point before the blocks are in the log; an off-by-one
\* that takes a transaction of one block for empty.
HeadBeforeLog == IF Len(header) > 0 THEN "writeHead" ELSE "finish"
SkipSingleBlock == IF Len(header) > 1 THEN "writeLog" ELSE "finish"

\* commit() does nothing for an empty transaction.
CommitEntry == IF Len(header) > 0 THEN "writeLog" ELSE "finish"

\* The first half of endOperation, under log.lock: the last operation out
\* turns its process into the committer.
endOperation(p) ==
  /\ Running /\ pc[p] = "op" /\ held[p] = NoBlock
  /\ outstanding' = outstanding - 1
  /\ writes' = [writes EXCEPT ![p] = 0]
  /\ \/ /\ is_commiting
        /\ panic' = "log_commiting"
        /\ UNCHANGED <<is_commiting, pc, walk>>
     \/ /\ ~is_commiting
        /\ UNCHANGED panic
        /\ IF outstanding = 1
           THEN /\ is_commiting' = TRUE
                /\ pc' = [pc EXCEPT ![p] = "commit"]
                /\ stage' = CommitEntry
                /\ tail' = 0
           ELSE /\ pc' = Wakeup([pc EXCEPT ![p] = "idle"])
                /\ UNCHANGED <<is_commiting, walk>>
  /\ UNCHANGED <<disk, cache, pins, header, held, crashes>>

-----------------------------------------------------------------------------
(* commit(), run by the committer without log.lock.                         *)

\* writeLog: one block copied from the cache to the log and written to disk.
writeLog ==
  /\ Running /\ stage = "writeLog"
  /\ IF tail < Len(header)
     THEN LET b == header[tail + 1] IN
          /\ logData' = [logData EXCEPT ![tail + 1] = Contents(b)]
          /\ cache' = [cache EXCEPT ![b] = Contents(b)]
          /\ tail' = tail + 1
          /\ UNCHANGED stage
     ELSE /\ stage' = "writeHead"
          /\ tail' = 0
          /\ UNCHANGED <<logData, cache>>
  /\ UNCHANGED <<home, diskHeader, pins, header, outstanding, is_commiting, calls,
                 panic, crashes>>

\* writeHead, the commit point in commit() and the erasure of the log at its
\* end and at the end of recovery.
writeHead ==
  /\ Running /\ stage \in {"writeHead", "erase", "recoverErase"}
  /\ diskHeader' = header
  /\ stage' = CASE stage = "writeHead" -> "install"
                [] stage = "erase" -> "finish"
                [] stage = "recoverErase" -> "none"
  /\ UNCHANGED <<home, logData, memory, calls, tail, panic, crashes>>

\* Mutant: recovery unpins too.
AlwaysUnpinned(b) == [pins EXCEPT ![b] = @ - 1]

\* Only commit() unpins: recovery finds no pins.
Unpinned(b) == IF stage = "install" THEN [pins EXCEPT ![b] = @ - 1] ELSE pins

\* installTransaction: one block copied from the log to its home.
installTransaction ==
  /\ Running /\ stage \in {"install", "recover"}
  /\ IF tail < Len(header)
     THEN LET b == header[tail + 1] IN
          /\ home' = [home EXCEPT ![b] = logData[tail + 1]]
          /\ cache' = [cache EXCEPT ![b] = logData[tail + 1]]
          /\ pins' = Unpinned(b)
          /\ tail' = tail + 1
          /\ UNCHANGED <<header, stage>>
     ELSE /\ header' = <<>>
          /\ stage' = IF stage = "install" THEN "erase" ELSE "recoverErase"
          /\ tail' = 0
          /\ UNCHANGED <<home, cache, pins>>
  /\ UNCHANGED <<logData, diskHeader, outstanding, is_commiting, calls, panic, crashes>>

\* The second half of endOperation, under log.lock.
finishCommit ==
  /\ Running /\ stage = "finish"
  /\ is_commiting' = FALSE
  /\ \E p \in Procs : pc[p] = "commit" /\ pc' = Wakeup([pc EXCEPT ![p] = "idle"])
  /\ stage' = "none"
  /\ UNCHANGED <<disk, cache, pins, header, outstanding, held, writes, tail,
                 panic, crashes>>

-----------------------------------------------------------------------------
(* The buffer cache and the machine.                                        *)

\* get_buffer recycles a buffer nobody refers to.
Evict(b) ==
  /\ Running /\ cache[b] # NoData
  /\ pins[b] = 0 /\ b \notin InUse
  /\ cache' = [cache EXCEPT ![b] = NoData]
  /\ UNCHANGED <<disk, pins, header, outstanding, is_commiting, calls, walk, panic,
                 crashes>>

\* Power failure and reboot: memory is gone, log.init starts the recovery.
Crash ==
  /\ Running /\ crashes < MaxCrashes
  /\ cache' = [b \in Blocks |-> NoData]
  /\ pins' = [b \in Blocks |-> 0]
  /\ header' = <<>>
  /\ outstanding' = 0
  /\ is_commiting' = FALSE
  /\ pc' = [p \in Procs |-> "idle"]
  /\ held' = [p \in Procs |-> NoBlock]
  /\ writes' = [p \in Procs |-> 0]
  /\ stage' = "readHead"
  /\ tail' = 0
  /\ crashes' = crashes + 1
  /\ UNCHANGED <<disk, panic>>

readHead ==
  /\ Running /\ stage = "readHead"
  /\ header' = diskHeader
  /\ stage' = "recover"
  /\ UNCHANGED <<disk, cache, pins, outstanding, is_commiting, calls, tail, panic,
                 crashes>>

-----------------------------------------------------------------------------
ProcStep(p) == \/ beginOperation(p) \/ write(p) \/ endOperation(p)

KernelStep == \/ writeLog \/ writeHead \/ installTransaction \/ finishCommit
              \/ readHead

Next == \/ \E p \in Procs : StartCall(p) \/ ProcStep(p)
        \/ \E p \in Procs, b \in Blocks, v \in Values : Modify(p, b, v)
        \/ KernelStep
        \/ \E b \in Blocks : Evict(b)
        \/ Crash

Spec == Init /\ [][Next]_vars

-----------------------------------------------------------------------------
(* Properties.                                                              *)

\* What recovery reconstructs from the disk alone: the home block, unless the
\* on-disk header names it.
Recovered(b) ==
  IF \E i \in 1 .. Len(diskHeader) : diskHeader[i] = b
  THEN logData[CHOOSE i \in 1 .. Len(diskHeader) : diskHeader[i] = b]
  ELSE home[b]

Active == {p \in Procs : pc[p] = "op"}

\* Crash atomicity: the log implements AtomicLog.  A restart finds exactly the
\* contents at the last commit, never a part of a file system call, wherever in
\* commit() or in recoverFromLog() the machine stops (log.zig:3-7, 108-110).
Abstract == INSTANCE AtomicLog WITH
  durable <- [b \in Blocks |-> Recovered(b)],
  view    <- [b \in Blocks |-> IF Recovering THEN Recovered(b) ELSE Contents(b)],
  active  <- Active

CrashAtomic == Abstract!Spec

\* Once no call is inside an operation and no commit runs, everything the
\* finished calls wrote survives a crash: endOperation lost nothing. And
\* whoever sleeps in beginOperation will be woken: an operation or a commit
\* is under way that ends with a wakeup (log.zig:162, 172).
QuietIsDurable ==
  /\ stage = "none" /\ outstanding = 0 =>
       \A b \in Blocks : Recovered(b) = Contents(b)
  /\ \A p \in Procs : pc[p] = "sleep" => Active # {} \/ is_commiting

\* log.write never runs out of log blocks and endOperation never meets a
\* commit: beginOperation reserved enough room (log.zig:153, 214, 215).
NoPanic == panic = "none"

\* A block is pinned exactly while the running transaction needs it, so the
\* cache neither drops a logged block nor leaks a buffer of its 30
\* (log.zig:93-95, 224-226).
PinnedIffLogged ==
  \A b \in Blocks : pins[b] =
    IF stage \in RecoveryStages THEN 0
    ELSE Cardinality({i \in 1 .. Len(header) : header[i] = b /\ (stage = "install" => i > tail)})

=============================================================================
