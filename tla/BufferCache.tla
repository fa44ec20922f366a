---------------------------- MODULE BufferCache ----------------------------
(***************************************************************************)
(* The buffer cache of src/kernel/filesystem/buffer.zig and                *)
(* buffer_cache.zig on the disk driver: processes read, change, write and  *)
(* release blocks.  cache.lock makes get_buffer and the second half of     *)
(* release atomic; a buffer's sleep lock is held from the return of        *)
(* get_buffer to the first half of release.  Which of the unused buffers   *)
(* is recycled, the least recently used one in the code, is left open.     *)
(* The log's pins are part of module Log.                                  *)
(***************************************************************************)
EXTENDS VirtioDisk

CONSTANTS MaxChanges,  \* bound on the number of changes of a block
          NoProc

ASSUME CacheAssumption ==
  /\ IsFiniteSet(Procs) /\ IsFiniteSet(Buffers)
  /\ MaxChanges \in Nat /\ Values = Blocks \cup 1 .. MaxChanges
  /\ NoProc \notin Procs

VARIABLES
  block, is_valid, reference_count,  \* fields of Buffer
  holder,   \* the process that holds the buffer's sleep lock
  pc,       \* what each process does next
  mine,     \* the buffer a process works with
  changes,  \* how often a block was changed: the n-th change makes its contents n
  latest,   \* what was last put in each block; at first, contents of its own
  cachePanic

cacheVars == <<block, is_valid, reference_count, holder, pc, mine, changes, latest,
               cachePanic>>
vars == <<diskVars, cacheVars>>

TypeOK ==
  /\ DiskTypeOK
  /\ block \in [Buffers -> Blocks \cup {NoBlock}]
  /\ is_valid \in [Buffers -> BOOLEAN]
  /\ reference_count \in [Buffers -> Nat]
  /\ holder \in [Buffers -> Procs \cup {NoProc}]
  /\ pc \in [Procs -> {"idle", "lock", "read", "use", "write", "release", "drop"}]
  /\ mine \in [Procs -> Buffers \cup {NoBuffer}]
  /\ changes \in 0 .. MaxChanges
  /\ latest \in [Blocks -> Values]
  /\ cachePanic \in {"none", "get_buffer_no_buffers", "buffer_write", "buffer_release"}

\* init_array.
Init ==
  /\ DiskInit
  /\ block = [i \in Buffers |-> NoBlock]
  /\ is_valid = [i \in Buffers |-> FALSE]
  /\ reference_count = [i \in Buffers |-> 0]
  /\ holder = [i \in Buffers |-> NoProc]
  /\ pc = [p \in Procs |-> "idle"]
  /\ mine = [p \in Procs |-> NoBuffer]
  /\ platter = [b \in Blocks |-> b] /\ latest = platter
  /\ changes = 0
  /\ cachePanic = "none"

Running == diskPanic = "none" /\ cachePanic = "none"

Goto(p, s) == pc' = [pc EXCEPT ![p] = s]

-----------------------------------------------------------------------------
Cached(b) == {i \in Buffers : block[i] = b}

Recyclable == {i \in Buffers : reference_count[i] = 0}

\* Mutant: the data of the block that was in the buffer counts as valid.
StillValid(i) == UNCHANGED is_valid

Invalidated(i) == is_valid' = [is_valid EXCEPT ![i] = FALSE]

\* get_buffer(block) up to the sleep lock.
get_buffer(p, b) ==
  /\ Running /\ pc[p] = "idle"
  /\ IF Cached(b) = {} /\ Recyclable = {}
     THEN /\ cachePanic' = "get_buffer_no_buffers"
          /\ UNCHANGED <<block, is_valid, reference_count, mine, pc>>
     ELSE /\ \/ \E i \in Cached(b) :
                  /\ reference_count' = [reference_count EXCEPT ![i] = @ + 1]
                  /\ mine' = [mine EXCEPT ![p] = i]
                  /\ UNCHANGED <<block, is_valid>>
             \/ \E i \in Recyclable :
                  /\ Cached(b) = {}
                  /\ block' = [block EXCEPT ![i] = b]
                  /\ Invalidated(i)
                  /\ reference_count' = [reference_count EXCEPT ![i] = 1]
                  /\ mine' = [mine EXCEPT ![p] = i]
          /\ Goto(p, "lock")
          /\ UNCHANGED cachePanic
  /\ UNCHANGED <<diskVars, holder, changes, latest>>

\* Mutant: the lock does not exclude.
Ignored(i) == TRUE

\* SleepLock.acquire sleeps while the lock is held.
Unlocked(i) == holder[i] = NoProc

\* The end of get_buffer, and Buffer.read for a block that is not valid.
lock(p) ==
  LET i == mine[p] IN
  /\ Running /\ pc[p] = "lock"
  /\ Unlocked(i)
  /\ holder' = [holder EXCEPT ![i] = p]
  /\ IF is_valid[i]
     THEN Goto(p, "use") /\ UNCHANGED diskVars
     ELSE /\ Goto(p, "read")
          /\ request' = [request EXCEPT ![p] = Call(i, FALSE)]
          /\ UNCHANGED <<platter, free, descriptor, operations, info, ring, pending,
                         handler, disk_owned, data, diskPanic>>
  /\ UNCHANGED <<block, is_valid, reference_count, mine, changes, latest, cachePanic>>

-----------------------------------------------------------------------------
\* The process changes the block and calls Buffer.write.
write(p) ==
  LET i == mine[p] IN
  /\ Running /\ pc[p] = "use" /\ changes < MaxChanges
  /\ changes' = changes + 1
  /\ data' = [data EXCEPT ![i] = changes']
  /\ latest' = [latest EXCEPT ![block[i]] = changes']
  /\ IF holder[i] # p
     THEN /\ cachePanic' = "buffer_write"
          /\ UNCHANGED <<request, pc>>
     ELSE /\ request' = [request EXCEPT ![p] = Call(i, TRUE)]
          /\ Goto(p, "write")
          /\ UNCHANGED cachePanic
  /\ UNCHANGED <<platter, free, descriptor, operations, info, ring, pending, handler,
                 disk_owned, diskPanic, block, is_valid, reference_count, holder, mine>>

\* Buffer.release: first the sleep lock, then, in a step of its own, the reference.
unlock(p) ==
  LET i == mine[p] IN
  /\ Running /\ pc[p] \in {"use", "release"}
  /\ IF holder[i] # p
     THEN /\ cachePanic' = "buffer_release"
          /\ UNCHANGED <<holder, pc>>
     ELSE /\ holder' = [holder EXCEPT ![i] = NoProc]
          /\ Goto(p, "drop")
          /\ UNCHANGED cachePanic
  /\ UNCHANGED <<diskVars, block, is_valid, reference_count, mine, changes, latest>>

\* Mutant: the reference is dropped for the lock and for the buffer.
DroppedTwice(i) == reference_count[i] - 2

Dropped(i) == reference_count[i] - 1

drop(p) ==
  LET i == mine[p] IN
  /\ Running /\ pc[p] = "drop"
  /\ reference_count' = [reference_count EXCEPT ![i] = Dropped(i)]
  /\ mine' = [mine EXCEPT ![p] = NoBuffer]
  /\ Goto(p, "idle")
  /\ UNCHANGED <<diskVars, block, is_valid, holder, changes, latest, cachePanic>>

-----------------------------------------------------------------------------
(* The disk.                                                                *)
diskRequest(p) ==
  /\ Running /\ mine[p] # NoBuffer
  /\ submitFails(p) \/ submit(p, block[mine[p]])
  /\ UNCHANGED cacheVars

\* readOrWrite returns; Buffer.read marks the data valid.
diskReturn(p) ==
  /\ Running /\ finish(p)
  /\ IF pc[p] = "read" /\ request'[p].at = "none"
     THEN is_valid' = [is_valid EXCEPT ![mine[p]] = TRUE] /\ Goto(p, "use")
     ELSE /\ IF request'[p].at = "none" THEN Goto(p, "release") ELSE UNCHANGED pc
          /\ UNCHANGED is_valid
  /\ UNCHANGED <<block, reference_count, holder, mine, changes, latest, cachePanic>>

Device == Running /\ deviceComplete /\ UNCHANGED cacheVars

Interrupt == Running /\ HandlerStep /\ UNCHANGED cacheVars

Next ==
  \/ \E p \in Procs :
       \/ \E b \in Blocks : get_buffer(p, b)
       \/ lock(p) \/ write(p) \/ unlock(p) \/ drop(p)
       \/ diskRequest(p) \/ diskReturn(p)
  \/ Device \/ Interrupt

Spec == Init /\ [][Next]_vars

-----------------------------------------------------------------------------
(* Properties.                                                              *)

\* Whoever has a block locked sees what was put in it last, although the buffer
\* may have been recycled and read again since, and although others changed
\* other blocks in the same buffer meanwhile (buffer.zig:46-54).
SeesLatest ==
  \A p \in Procs : pc[p] = "use" =>
    /\ holder[mine[p]] = p
    /\ data[mine[p]] = latest[block[mine[p]]]

\* reference_count is the number of processes that use the buffer or wait for
\* its lock: a buffer is never recycled under them and never lost to the cache
\* (buffer_cache.zig:46, 58, buffer.zig:72).
ReferencesExact ==
  \A i \in Buffers : reference_count[i] =
    Cardinality({p \in Procs : mine[p] = i})

\* The device only ever reads and writes the data of a buffer that is locked
\* by the process that waits for this request (diskdriver.zig:225-245).
DeviceOwnsBuffer ==
  \A h \in available :
    \E p \in Procs :
      /\ request[p].at = "wait" /\ request[p].head = h
      /\ holder[request[p].buffer] = p
      /\ info[h].buffer = request[p].buffer
      /\ descriptor[descriptor[h].next].buffer = request[p].buffer
      /\ operations[h].block = block[request[p].buffer]

\* Exactly the descriptors of requests under way are not free: none is leaked
\* when an allocation stops half way, none is in two chains
\* (diskdriver.zig:159-168).
DescriptorsAccounted ==
  Cardinality(Descriptors \ FreeDescriptors) =
    ChainLength * Cardinality({p \in Procs : request[p].at \in {"wait", "finish"}})

\* A completion the handler has not seen raises the interrupt: one that comes
\* while the handler runs is not lost (diskdriver.zig:255-260).
CompletionNoticed == used # {} => pending \/ handler = "loop"

\* A process that sleeps for descriptors will be woken: some request holds them
\* (diskdriver.zig:189-195).
SleepersHaveWaker ==
  \A p \in Procs : request[p].at = "asleep" =>
    \E q \in Procs : request[q].at \in {"submit", "wait", "finish"}

\* Nobody waits for the disk in vain, neither for descriptors nor for the
\* completion of a request.
NobodyWaitsInVain == CompletionNoticed /\ SleepersHaveWaker

\* Buffers and descriptors are counted exactly: none is lost to the cache or
\* to the disk, and none is used again while somebody still uses it.
NothingIsLost == ReferencesExact /\ DescriptorsAccounted
=============================================================================
