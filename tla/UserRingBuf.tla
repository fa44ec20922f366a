---------------------------- MODULE UserRingBuf ----------------------------
(***************************************************************************)
(* A ring buffer as user programs use it: UserRingBuf in                   *)
(* src/user/ulib/uringbuf.zig over the Book of src/common/ringbuf.zig,     *)
(* with one process that writes and one that reads (src/user/rbz.zig).     *)
(*                                                                         *)
(* No lock is involved: the two processes share the pages and the two      *)
(* counters.  Every load of a counter, every byte stored or read and every *)
(* fetchAdd is a step.  A slice is its first position and its length,      *)
(* positions counted from the start of the stream.  The mapping makes      *)
(* positions a multiple of Capacity apart the same byte.  The counters are *)
(* u64 and never wrap in practice; MaxBytes bounds the stream.             *)
(***************************************************************************)
EXTENDS Naturals, Sequences

CONSTANTS Capacity,   \* BUF_CAPACITY
          Bytes,
          MaxBytes    \* bound on the bytes written

ASSUME UserRingBufAssumption ==
  Capacity \in Nat \ {0} /\ MaxBytes \in Nat /\ Bytes # {}

VARIABLES
  data,                     \* the shared pages
  read_done, write_done,    \* the shared Book
  wpc, rpc,                 \* the next step of the writer and of the reader
  wSeen, rSeen,             \* read_done as startWrite and startRead loaded it
  wStart, wLen,             \* the slice startWrite returned
  rStart, rLen,             \* the slice startRead returned
  filled,                   \* bytes of its slice the writer has stored
  copy,                     \* bytes of its slice the reader has read
  failed                    \* a failed assertion, or an overflow, which
                            \* ReleaseSafe checks

shared == <<data, read_done, write_done>>
writer == <<wpc, wSeen, wStart, wLen, filled>>
reader == <<rpc, rSeen, rStart, rLen, copy>>
ringVars == <<shared, writer, reader, failed>>

RingTypeOK ==
  /\ data \in [0 .. Capacity - 1 -> Bytes]
  /\ read_done \in Nat /\ write_done \in Nat
  /\ wpc \in {"idle", "loaded", "filling", "commit"}
  /\ rpc \in {"idle", "loaded", "reading", "commit"}
  /\ wSeen \in Nat /\ rSeen \in Nat
  /\ wStart \in Nat /\ rStart \in Nat /\ wLen \in Nat /\ rLen \in Nat
  /\ filled \in Nat /\ copy \in Seq(Bytes)
  /\ failed \in BOOLEAN

\* The pages come as they are from allocPage(.garbage).
RingInit ==
  /\ data \in [0 .. Capacity - 1 -> Bytes]
  /\ read_done = 0 /\ write_done = 0
  /\ wpc = "idle" /\ rpc = "idle"
  /\ wSeen = 0 /\ rSeen = 0
  /\ wStart = 0 /\ wLen = 0 /\ rStart = 0 /\ rLen = 0
  /\ filled = 0 /\ copy = <<>>
  /\ failed = FALSE

-----------------------------------------------------------------------------
(* The writer.                                                              *)

\* startWrite loads read_done ...
startWrite ==
  /\ ~failed /\ wpc = "idle"
  /\ wSeen' = read_done
  /\ wpc' = "loaded"
  /\ UNCHANGED <<shared, wStart, wLen, filled, reader, failed>>

\* Mutant: one byte more than there is room for.
RoomPlusOne(r, w) == Capacity - (w - r) + 1

Room(r, w) == Capacity - (w - r)

\* ... and write_done; the subtractions must not overflow.
startWriteReturn ==
  /\ ~failed /\ wpc = "loaded"
  /\ IF write_done >= wSeen /\ write_done - wSeen <= Capacity
     THEN /\ wStart' = write_done
          /\ wLen' = Room(wSeen, write_done)
          /\ UNCHANGED failed
     ELSE failed' = TRUE /\ UNCHANGED <<wStart, wLen>>
  /\ filled' = 0
  /\ wpc' = "filling"
  /\ UNCHANGED <<shared, wSeen, reader>>

\* The program stores the next byte of its slice.
put(b) ==
  /\ ~failed /\ wpc = "filling"
  /\ filled < wLen /\ wStart + filled < MaxBytes
  /\ data' = [data EXCEPT ![(wStart + filled) % Capacity] = b]
  /\ filled' = filled + 1
  /\ UNCHANGED <<read_done, write_done, wpc, wSeen, wStart, wLen, reader, failed>>

\* finishWrite for the bytes stored asserts that they fit ...
finishWrite ==
  /\ ~failed /\ wpc = "filling"
  /\ failed' = ~(write_done + filled >= read_done /\ write_done + filled - read_done <= Capacity)
  /\ wpc' = "commit"
  /\ UNCHANGED <<shared, wSeen, wStart, wLen, filled, reader>>

\* ... and publishes them.
finishWriteAdd ==
  /\ ~failed /\ wpc = "commit"
  /\ write_done' = write_done + filled
  /\ wpc' = "idle"
  /\ UNCHANGED <<data, read_done, wSeen, wStart, wLen, filled, reader, failed>>

-----------------------------------------------------------------------------
(* The reader.                                                              *)
startRead ==
  /\ ~failed /\ rpc = "idle"
  /\ rSeen' = read_done
  /\ rpc' = "loaded"
  /\ UNCHANGED <<shared, writer, rStart, rLen, copy, failed>>

\* Mutant: the other side's counter is taken for one byte more.
OnePastWritten(r, w) == w - r + 1

Available(r, w) == w - r

startReadReturn ==
  /\ ~failed /\ rpc = "loaded"
  /\ IF write_done >= rSeen
     THEN /\ rStart' = rSeen
          /\ rLen' = Available(rSeen, write_done)
          /\ UNCHANGED failed
     ELSE failed' = TRUE /\ UNCHANGED <<rStart, rLen>>
  /\ copy' = <<>>
  /\ rpc' = "reading"
  /\ UNCHANGED <<shared, writer, rSeen>>

\* The program reads the next byte of its slice.
get ==
  /\ ~failed /\ rpc = "reading"
  /\ Len(copy) < rLen
  /\ copy' = Append(copy, data[(rStart + Len(copy)) % Capacity])
  /\ UNCHANGED <<shared, writer, rpc, rSeen, rStart, rLen, failed>>

finishRead ==
  /\ ~failed /\ rpc = "reading"
  /\ failed' = ~(write_done >= read_done /\ write_done - read_done >= Len(copy))
  /\ rpc' = "commit"
  /\ UNCHANGED <<shared, writer, rSeen, rStart, rLen, copy>>

finishReadAdd ==
  /\ ~failed /\ rpc = "commit"
  /\ read_done' = read_done + Len(copy)
  /\ copy' = <<>>
  /\ rpc' = "idle"
  /\ UNCHANGED <<data, write_done, writer, rSeen, rStart, rLen, failed>>

-----------------------------------------------------------------------------
Writer == startWrite \/ startWriteReturn \/ (\E b \in Bytes : put(b)) \/ finishWrite
            \/ finishWriteAdd

Reader == startRead \/ startReadReturn \/ get \/ finishRead \/ finishReadAdd

RingNext == Writer \/ Reader

RingSpec == RingInit /\ [][RingNext]_ringVars

-----------------------------------------------------------------------------
(* Properties.                                                              *)

Filling == wpc \in {"filling", "commit"}
Reading == rpc \in {"reading", "commit"}

\* The writer's and the reader's slice have no byte in common, though each was
\* computed from a counter the other side has moved since: the reader's ends
\* before the writer's begins, and the writer's ends before it comes around
\* to the reader's (uringbuf.zig:42, 51).
SlicesApart ==
  ~failed /\ Filling /\ Reading =>
    rStart + rLen <= wStart /\ wStart + wLen <= rStart + Capacity

\* None of the assertions fails and no subtraction overflows
\* (uringbuf.zig:42, 45, 51, 54).
NoAssertFails == ~failed

\* What the reader has copied is still what the buffer holds, whatever the
\* writer stored meanwhile.
CopyIsIntact ==
  \A i \in 1 .. Len(copy) : copy[i] = data[(rStart + i - 1) % Capacity]

\* The bytes published and not yet consumed.
Published == [i \in 1 .. write_done - read_done |-> data[(read_done + i - 1) % Capacity]]

Stream == INSTANCE ByteStream WITH waiting <- Published

\* The ring buffer is a byte stream: bytes are consumed in the order they were
\* published, and bytes stored and not yet published change nothing
\* (uringbuf.zig:39-57).
IsByteStream == Stream!Spec
=============================================================================
