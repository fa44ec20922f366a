----------------------------- MODULE VirtioDisk -----------------------------
(***************************************************************************)
(* The disk driver, src/kernel/drivers/virtio/diskdriver.zig, and the      *)
(* device as the driver uses it.                                           *)
(*                                                                         *)
(* vdisk_lock is held between two sleeps of readOrWrite, so the submission *)
(* of a request and the part behind its completion are one step each.  The *)
(* interrupt handler takes several: it acknowledges and then looks at the  *)
(* used ring until it is empty, and the device can complete a request      *)
(* between any two of them.                                                *)
(*                                                                         *)
(* Every chain takes three descriptors, so the rings, which have as many   *)
(* entries as there are descriptors, never wrap over an entry in use.  The *)
(* device completes requests in any order and the handler looks at all it  *)
(* finds, so a ring is the set of heads put in and not yet taken out.      *)
(***************************************************************************)
EXTENDS Naturals, FiniteSets

CONSTANTS Procs,      \* processes that use the disk
          Buffers,    \* buffers of the cache, the addresses of the data
          Blocks,     \* block numbers, the sectors
          Values,     \* contents of a block
          garbage,    \* contents of a buffer that was never filled
          QueueSize,  \* Disk.queue_size, the number of descriptors
          NoBuffer, NoBlock

\* The length of descriptor_indexes: request, data and status.
ChainLength == 3

ASSUME DiskAssumption ==
  /\ QueueSize \in Nat /\ QueueSize >= ChainLength
  /\ NoBuffer \notin Buffers /\ NoBlock \notin Blocks

Descriptors == 1 .. QueueSize

\* In the last descriptor of a chain, where flags.next is not set.
NoNext == 0

VARIABLES
  platter,     \* the blocks on the disk
  free,        \* disk.free
  descriptor,  \* disk.descriptor: next_index, and the buffer of a data descriptor
  operations,  \* disk.operations, indexed by the first descriptor of a chain
  info,        \* disk.info, likewise
  available,   \* heads of the chains handed to the device
  used,        \* heads of the completed chains the driver has not seen
  pending,     \* the device's interrupt is raised
  handler,     \* where interrupt() is, which holds vdisk_lock behind its ack
  request,     \* readOrWrite of each process: how far it is, and its chain
  disk_owned,  \* Buffer.disk_owned
  data,        \* Buffer.data
  diskPanic

ring     == <<available, used>>
diskVars == <<platter, free, descriptor, operations, info, ring, pending, handler,
              request, disk_owned, data, diskPanic>>

Requests == [at : {"none", "submit", "asleep", "wait", "finish"}, write : BOOLEAN,
             buffer : Buffers \cup {NoBuffer}, head : {NoNext} \cup Descriptors]

NoRequest == [at |-> "none", write |-> FALSE, buffer |-> NoBuffer, head |-> NoNext]

DiskTypeOK ==
  /\ platter \in [Blocks -> Values]
  /\ free \in [Descriptors -> BOOLEAN]
  /\ descriptor \in [Descriptors -> [next : {NoNext} \cup Descriptors,
                                     buffer : Buffers \cup {NoBuffer}]]
  /\ operations \in [Descriptors -> [write : BOOLEAN, block : Blocks \cup {NoBlock}]]
  /\ info \in [Descriptors -> [buffer : Buffers \cup {NoBuffer}, ok : BOOLEAN]]
  /\ available \subseteq Descriptors /\ used \subseteq Descriptors
  /\ pending \in BOOLEAN /\ handler \in {"none", "loop", "return"}
  /\ request \in [Procs -> Requests]
  /\ disk_owned \in [Buffers -> BOOLEAN]
  /\ data \in [Buffers -> Values \cup {garbage}]
  /\ diskPanic \in {"none", "freeDescriptor_already_free",
                    "virtio_disk_interrupt_status", "virtio_null_completion_buffer"}

\* init().  What is on the disk is up to the module that uses it.
DiskInit ==
  /\ free = [d \in Descriptors |-> TRUE]
  /\ descriptor = [d \in Descriptors |-> [next |-> NoNext, buffer |-> NoBuffer]]
  /\ operations = [d \in Descriptors |-> [write |-> FALSE, block |-> NoBlock]]
  /\ info = [d \in Descriptors |-> [buffer |-> NoBuffer, ok |-> FALSE]]
  /\ available = {} /\ used = {}
  /\ pending = FALSE
  /\ handler = "none"
  /\ request = [p \in Procs |-> NoRequest]
  /\ disk_owned = [i \in Buffers |-> FALSE]
  /\ data = [i \in Buffers |-> garbage]
  /\ diskPanic = "none"

-----------------------------------------------------------------------------
(* Descriptors.                                                             *)

FreeDescriptors == {d \in Descriptors : free[d]}

\* allocDescriptor three times: the first free ones, in order.
IsNext(d, chain) ==
  /\ free[d] /\ d \notin chain
  /\ \A e \in FreeDescriptors \ chain : d <= e

\* Mutant: the wakeup is forgotten.
NoRetry(r) == r

\* wakeup(&disk.free[0]): every process that sleeps for descriptors tries again.
\* freeDescriptor does it for each descriptor it frees.
Retry(r) == [p \in Procs |-> IF r[p].at = "asleep" THEN [r[p] EXCEPT !.at = "submit"] ELSE r[p]]

\* Mutant: the last descriptor, which has no flags.next, is not freed.
WithoutLast(h) == {h, descriptor[h].next}

\* The descriptors freeDescriptorChain(h) frees.
Chain(h) == {h, descriptor[h].next, descriptor[descriptor[h].next].next}

\* wakeup(buffer).
Woken(r, i) ==
  [p \in Procs |-> IF r[p].at = "wait" /\ r[p].buffer = i THEN [r[p] EXCEPT !.at = "finish"] ELSE r[p]]

-----------------------------------------------------------------------------
(* readOrWrite(buffer, do_write).                                           *)

\* A call of read (w = FALSE) or write for buffer i.
Call(i, w) == [NoRequest EXCEPT !.at = "submit", !.write = w, !.buffer = i]

\* A request that finds too few descriptors frees those it got, which wakes
\* the others that sleep for some, and sleeps.
submitFails(p) ==
  /\ request[p].at = "submit" /\ handler = "none"
  /\ Cardinality(FreeDescriptors) < ChainLength
  /\ request' = [IF FreeDescriptors = {} THEN request ELSE Retry(request)
                   EXCEPT ![p].at = "asleep"]
  /\ UNCHANGED <<platter, free, descriptor, operations, info, ring, pending, handler,
                 disk_owned, data, diskPanic>>

\* The chain for the buffer, which holds block b, is built and handed over; the
\* process sleeps until the interrupt handler has taken the buffer back.
submit(p, b) ==
  \E d0, d1, d2 \in Descriptors : LET i == request[p].buffer IN
  /\ request[p].at = "submit" /\ handler = "none"
  /\ IsNext(d0, {}) /\ IsNext(d1, {d0}) /\ IsNext(d2, {d0, d1})
  /\ free' = [free EXCEPT ![d0] = FALSE, ![d1] = FALSE, ![d2] = FALSE]
  /\ operations' = [operations EXCEPT ![d0] = [write |-> request[p].write, block |-> b]]
  /\ descriptor' = [descriptor EXCEPT ![d0].next = d1,
                                      ![d1] = [next |-> d2, buffer |-> i],
                                      ![d2].next = NoNext]
  /\ info' = [info EXCEPT ![d0] = [buffer |-> i, ok |-> FALSE]]
  /\ disk_owned' = [disk_owned EXCEPT ![i] = TRUE]
  /\ available' = available \cup {d0}
  /\ request' = [request EXCEPT ![p].at = "wait", ![p].head = d0]
  /\ UNCHANGED <<platter, used, pending, handler, data, diskPanic>>

\* Behind the wait: the chain is freed and readOrWrite returns.  What stays in
\* the chain's operations and status is never read again and is forgotten here.
finish(p) ==
  LET h == request[p].head  i == request[p].buffer IN
  /\ request[p].at = "finish" /\ handler = "none"
  /\ IF disk_owned[i]
     THEN /\ request' = [request EXCEPT ![p].at = "wait"]
          /\ UNCHANGED <<free, descriptor, operations, info, diskPanic>>
     ELSE
        /\ info' = [info EXCEPT ![h] = [buffer |-> NoBuffer, ok |-> FALSE]]
        /\ operations' = [operations EXCEPT ![h] = [write |-> FALSE, block |-> NoBlock]]
        /\ free' = [d \in Descriptors |-> free[d] \/ d \in Chain(h)]
        /\ descriptor' = [d \in Descriptors |->
                            IF d \in Chain(h) THEN [next |-> NoNext, buffer |-> NoBuffer]
                            ELSE descriptor[d]]
        /\ diskPanic' = IF \E d \in Chain(h) : free[d] THEN "freeDescriptor_already_free"
                        ELSE diskPanic
        /\ request' = [Retry(request) EXCEPT ![p] = NoRequest]
  /\ UNCHANGED <<platter, ring, pending, handler, disk_owned, data>>

-----------------------------------------------------------------------------
(* The device.                                                              *)

\* A request is carried out and its head put in the used ring.
deviceComplete ==
  \E h \in available :
  LET op == operations[h]  i == descriptor[descriptor[h].next].buffer IN
  /\ IF op.write
     THEN platter' = [platter EXCEPT ![op.block] = data[i]] /\ UNCHANGED data
     ELSE data' = [data EXCEPT ![i] = platter[op.block]] /\ UNCHANGED platter
  /\ info' = [info EXCEPT ![h].ok = TRUE]
  /\ available' = available \ {h}
  /\ used' = used \cup {h}
  /\ pending' = TRUE
  /\ UNCHANGED <<free, descriptor, operations, handler, request, disk_owned, diskPanic>>

-----------------------------------------------------------------------------
(* interrupt().                                                             *)

interruptAck ==
  /\ pending /\ handler = "none"
  /\ handler' = "loop"
  /\ pending' = FALSE
  /\ UNCHANGED <<platter, free, descriptor, operations, info, ring, request, disk_owned,
                 data, diskPanic>>

\* One turn of the loop over the used ring.
interruptLoop ==
  \E h \in used : LET i == info[h].buffer IN
  /\ handler = "loop"
  /\ diskPanic' = CASE ~info[h].ok     -> "virtio_disk_interrupt_status"
                    [] i = NoBuffer    -> "virtio_null_completion_buffer"
                    [] OTHER           -> diskPanic
  /\ disk_owned' = [j \in Buffers |-> disk_owned[j] /\ j # i]
  /\ request' = Woken(request, i)
  /\ used' = used \ {h}
  /\ UNCHANGED <<platter, free, descriptor, operations, info, available, pending,
                 handler, data>>

\* The loop ends when it finds the ring empty; the device may fill it again
\* before the handler returns.
interruptLoopEnd ==
  /\ handler = "loop" /\ used = {}
  /\ handler' = "return"
  /\ UNCHANGED <<platter, free, descriptor, operations, info, ring, pending, request,
                 disk_owned, data, diskPanic>>

\* Mutant: the interrupt is acknowledged once everything has been seen.
LateAck == pending' = FALSE

\* The acknowledgement came before the loop and is not repeated behind it.
AckedBefore == UNCHANGED pending

interruptReturn ==
  /\ handler = "return"
  /\ handler' = "none"
  /\ AckedBefore
  /\ UNCHANGED <<platter, free, descriptor, operations, info, ring, request, disk_owned,
                 data, diskPanic>>

HandlerStep == interruptAck \/ interruptLoop \/ interruptLoopEnd \/ interruptReturn
=============================================================================
