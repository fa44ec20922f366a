----------------------------- MODULE ByteStream -----------------------------
(***************************************************************************)
(* What a bounded byte buffer between writers and readers promises: bytes  *)
(* come out in the order they went in, none twice and none lost, and never *)
(* more than Capacity of them are waiting.                                 *)
(***************************************************************************)
EXTENDS Naturals, Sequences

CONSTANTS Capacity, Bytes

VARIABLE waiting   \* the bytes written and not yet read

Init == waiting = <<>>

Write == \E n \in 1 .. Capacity - Len(waiting) :
           \E chunk \in [1 .. n -> Bytes] : waiting' = waiting \o chunk

Read == \E n \in 1 .. Len(waiting) :
          waiting' = SubSeq(waiting, n + 1, Len(waiting))

Next == Write \/ Read

Spec == Init /\ [][Next]_waiting
=============================================================================
