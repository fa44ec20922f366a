-------------------------------- MODULE Pipe --------------------------------
(***************************************************************************)
(* A pipe, src/kernel/filesystem/pipe.zig.                                 *)
(*                                                                         *)
(* pipe.lock is held over the loops of read and write, except while they   *)
(* sleep; each turn of a loop is a step, because kill changes a process's  *)
(* mark without pipe.lock.  Sleeping on a channel while releasing the lock *)
(* and waking all sleepers of a channel are atomic (module Scheduler).     *)
(* The counters are u32.  The kernel is built ReleaseSmall, where overflow *)
(* is undefined: a stored counter is truncated to 32 bits and so wraps at  *)
(* CountLimit; a sum that is only compared may be compared untruncated.    *)
(***************************************************************************)
EXTENDS Naturals, Sequences

CONSTANTS Writers, Readers,  \* processes that have the write or the read end open
          PipeSize,          \* pipe_size
          CountLimit,        \* 2^32, the range of read_count and write_count
          Bytes,             \* contents of a byte
          OverflowWraps,     \* whether a sum that is only compared wraps too
          MaxCount,          \* bound on the count argument of a call
          Killable,          \* processes that may be killed
          NoProc

ASSUME PipeAssumption ==
  /\ Writers \cap Readers = {}
  /\ PipeSize \in Nat \ {0} /\ MaxCount \in Nat
  /\ CountLimit \in Nat /\ CountLimit > PipeSize /\ CountLimit % PipeSize = 0
  /\ Bytes # {} /\ OverflowWraps \in BOOLEAN /\ Killable \subseteq Writers \cup Readers
  /\ NoProc \notin Writers \cup Readers

Procs == Writers \cup Readers

VARIABLES
  data, read_count, write_count, read_is_open, write_is_open,
  lock,    \* the process that holds pipe.lock
  pc,      \* "idle", "lock" (wants pipe.lock), "loop" (has it), "sleep"
  count,   \* the call's count argument
  done,    \* bytes_read or bytes_written
  killed,  \* Process.is_killed_unsafe
  sent     \* the bytes writers have handed over and readers have not got

pipe == <<data, read_count, write_count, read_is_open, write_is_open>>
vars == <<pipe, lock, pc, count, done, killed, sent>>

TypeOK ==
  /\ data \in [0 .. PipeSize - 1 -> Bytes]
  /\ read_count \in 0 .. CountLimit - 1
  /\ write_count \in 0 .. CountLimit - 1
  /\ read_is_open \in BOOLEAN /\ write_is_open \in BOOLEAN
  /\ lock \in Procs \cup {NoProc}
  /\ pc \in [Procs -> {"idle", "lock", "loop", "sleep"}]
  /\ count \in [Procs -> 0 .. MaxCount]
  /\ done \in [Procs -> 0 .. MaxCount]
  /\ killed \in [Procs -> BOOLEAN]
  /\ sent \in Seq(Bytes)

\* alloc.  The page it takes is not cleared.
Init ==
  /\ data \in [0 .. PipeSize - 1 -> Bytes]
  /\ read_count = 0 /\ write_count = 0
  /\ read_is_open = TRUE /\ write_is_open = TRUE
  /\ lock = NoProc
  /\ pc = [p \in Procs |-> "idle"]
  /\ count = [p \in Procs |-> 0]
  /\ done = [p \in Procs |-> 0]
  /\ killed = [p \in Procs |-> FALSE]
  /\ sent = <<>>

-----------------------------------------------------------------------------
Least(a, b) == IF a < b THEN a ELSE b

\* write_count - read_count, and whether the pipe is full, in u32.
InPipe == (write_count + CountLimit - read_count) % CountLimit
Full   == write_count = (read_count + PipeSize) % CountLimit
Empty  == read_count = write_count

\* What write_count == read_count + pipe_size gives.
SeenFull == Full /\ (OverflowWraps \/ read_count + PipeSize < CountLimit)

\* Mutant: the chunk runs over the array's end.
WholeChunk(position, n) == n

\* += on a u32 counter, stored.
Advanced(n, k) == (n + k) % CountLimit

\* The chunk a turn copies ends where the array ends.
Chunk(position, n) == Least(PipeSize - position, n)

\* Mutant: the wakeup is forgotten.
NotWoken(q, s) == q

\* wakeup of the processes in s that sleep.
Woken(q, s) == [p \in Procs |-> IF p \in s /\ q[p] = "sleep" THEN "lock" ELSE q[p]]

\* A call returns: the processes in s are woken and pipe.lock is released.
Return(p, s) ==
  /\ pc' = Woken([pc EXCEPT ![p] = "idle"], s)
  /\ lock' = NoProc
  /\ count' = [count EXCEPT ![p] = 0]
  /\ done' = [done EXCEPT ![p] = 0]

\* sleepOn, with the wakeup of s before it.
SleepOn(p, s) ==
  /\ pc' = Woken([pc EXCEPT ![p] = "sleep"], s)
  /\ lock' = NoProc
  /\ UNCHANGED <<count, done>>

-----------------------------------------------------------------------------
\* A process calls read or write.  A killed one makes no more calls.
start(p) ==
  /\ pc[p] = "idle" /\ ~killed[p]
  /\ IF p \in Writers THEN write_is_open ELSE read_is_open
  /\ \E n \in 0 .. MaxCount : count' = [count EXCEPT ![p] = n]
  /\ pc' = [pc EXCEPT ![p] = "lock"]
  /\ UNCHANGED <<pipe, lock, done, killed, sent>>

acquire(p) ==
  /\ pc[p] = "lock" /\ lock = NoProc
  /\ lock' = p
  /\ pc' = [pc EXCEPT ![p] = "loop"]
  /\ UNCHANGED <<pipe, count, done, killed, sent>>

\* One turn of write's loop; copyIn fails for a bad address, if there is
\* anything to copy.
write(p) ==
  LET position == write_count % PipeSize
      n == Chunk(position, Least(PipeSize - InPipe, count[p] - done[p]))
  IN
  /\ p \in Writers /\ pc[p] = "loop"
  /\ \/ /\ done[p] = count[p]
        /\ Return(p, Readers)
        /\ UNCHANGED <<data, write_count, sent>>
     \/ /\ done[p] < count[p] /\ (~read_is_open \/ killed[p])
        /\ Return(p, {})
        /\ UNCHANGED <<data, write_count, sent>>
     \/ /\ done[p] < count[p] /\ read_is_open /\ ~killed[p]
        /\ SeenFull
        /\ SleepOn(p, Readers)
        /\ UNCHANGED <<data, write_count, sent>>
     \/ /\ done[p] < count[p] /\ read_is_open /\ ~killed[p]
        /\ ~SeenFull /\ n > 0
        /\ Return(p, Readers)
        /\ UNCHANGED <<data, write_count, sent>>
     \/ /\ done[p] < count[p] /\ read_is_open /\ ~killed[p]
        /\ ~SeenFull
        /\ \E chunk \in [1 .. n -> Bytes] :
             /\ data' = [i \in DOMAIN data |->
                           IF i \in position .. position + n - 1
                           THEN chunk[i - position + 1] ELSE data[i]]
             /\ sent' = sent \o chunk
        /\ write_count' = Advanced(write_count, n)
        /\ done' = [done EXCEPT ![p] = @ + n]
        /\ UNCHANGED <<lock, pc, count>>
  /\ UNCHANGED <<read_count, read_is_open, write_is_open, killed>>

\* One turn of read's loops: wait while the pipe is empty and the write end is
\* open and nothing has been read; then copy out what there is.
read(p) ==
  LET n == Chunk(read_count % PipeSize, Least(InPipe, count[p] - done[p])) IN
  /\ p \in Readers /\ pc[p] = "loop"
  /\ \/ /\ Empty /\ write_is_open /\ done[p] = 0 /\ killed[p]
        /\ Return(p, {})
        /\ UNCHANGED <<read_count, sent>>
     \/ /\ Empty /\ write_is_open /\ done[p] = 0 /\ ~killed[p]
        /\ SleepOn(p, {})
        /\ UNCHANGED <<read_count, sent>>
     \/ /\ Empty => ~write_is_open \/ done[p] > 0
        /\ Return(p, Writers)      \* all read, pipe empty, or copyOut failed
        /\ UNCHANGED <<read_count, sent>>
     \/ /\ ~Empty /\ done[p] < count[p]
        /\ read_count' = Advanced(read_count, n)
        /\ sent' = SubSeq(sent, n + 1, Len(sent))
        /\ done' = [done EXCEPT ![p] = @ + n]
        /\ UNCHANGED <<lock, pc, count>>
  /\ UNCHANGED <<data, write_count, read_is_open, write_is_open, killed>>

\* close of the last descriptor of an end, when no call uses it any more.
closeWrite ==
  /\ write_is_open /\ lock = NoProc
  /\ \A p \in Writers : pc[p] = "idle"
  /\ write_is_open' = FALSE
  /\ pc' = Woken(pc, Readers)
  /\ UNCHANGED <<data, read_count, write_count, read_is_open, lock, count, done, killed,
                 sent>>

closeRead ==
  /\ read_is_open /\ lock = NoProc
  /\ \A p \in Readers : pc[p] = "idle"
  /\ read_is_open' = FALSE
  /\ pc' = Woken(pc, Writers)
  /\ UNCHANGED <<data, read_count, write_count, write_is_open, lock, count, done, killed,
                 sent>>

\* kill marks a process and wakes it, without pipe.lock.
kill(p) ==
  /\ p \in Killable /\ ~killed[p]
  /\ killed' = [killed EXCEPT ![p] = TRUE]
  /\ pc' = Woken(pc, {p})
  /\ UNCHANGED <<pipe, lock, count, done, sent>>

KernelStep(p) == acquire(p) \/ write(p) \/ read(p)

Next == \/ \E p \in Procs : start(p) \/ KernelStep(p) \/ kill(p)
        \/ closeWrite \/ closeRead

Spec == Init /\ [][Next]_vars

\* Processes inside a call keep running and get the lock in the end; the
\* reading program keeps reading, and not always with a bad address; killed
\* readers exit, and exit closes their files.
Fairness == /\ \A p \in Procs : SF_vars(KernelStep(p))
            /\ \A p \in Readers : /\ SF_vars(start(p) /\ count'[p] > 0)
                                  /\ SF_vars(read(p) /\ read_count' # read_count)
            /\ SF_vars((\A p \in Readers : killed[p]) /\ closeRead)

FairSpec == Spec /\ Fairness

-----------------------------------------------------------------------------
(* Properties.                                                              *)

\* Whatever the chunks, the wrap of the array and the wrap of the counters,
\* the next byte a reader gets is the oldest one that was written and not yet
\* read, and the pipe holds all the others behind it (pipe.zig:79-94, 119-131).
BytesInOrder == [i \in 1 .. InPipe |-> data[(read_count + i - 1) % PipeSize]] = sent

\* Whoever sleeps has a reason to while nobody has the lock: no wakeup of a
\* reader ("wait for data to enter pipe", pipe.zig:111) or a writer is missed.
NoneSleepsInVain ==
  lock = NoProc =>
    /\ \A p \in Readers : pc[p] = "sleep" => Empty /\ write_is_open
    /\ \A p \in Writers : pc[p] = "sleep" => Full /\ read_is_open

\* A write returns if the other side keeps reading or closes its end.
WriteReturns == \A p \in Writers : pc[p] # "idle" ~> pc[p] = "idle"
=============================================================================
