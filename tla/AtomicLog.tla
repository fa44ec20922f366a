----------------------------- MODULE AtomicLog -----------------------------
(***************************************************************************)
(* What the logging layer (src/kernel/filesystem/log.zig) promises to the  *)
(* file system above it.  File system calls change blocks inside           *)
(* operations.  What the calls see is view; what survives a power failure  *)
(* is durable.  durable only ever moves to a view in which no operation is *)
(* half done, and a crash throws away everything since that moment, never  *)
(* a part of it.                                                           *)
(***************************************************************************)
CONSTANTS Procs, Blocks, Values

VARIABLES durable,  \* the contents a restart after a crash would find
          view,     \* the contents file system calls read
          active    \* the processes inside an operation

vars == <<durable, view, active>>

Init == /\ durable \in [Blocks -> Values]
        /\ view = durable
        /\ active = {}

Begin(p) == /\ p \notin active
            /\ active' = active \cup {p}
            /\ UNCHANGED <<durable, view>>

Update(p, b, v) == /\ p \in active
                   /\ view' = [view EXCEPT ![b] = v]
                   /\ UNCHANGED <<durable, active>>

End(p) == /\ p \in active
          /\ active' = active \ {p}
          /\ UNCHANGED <<durable, view>>

\* The commit point: everything done so far becomes durable at once.
Commit == /\ active = {}
          /\ durable' = view
          /\ UNCHANGED <<view, active>>

Crash == /\ view' = durable
         /\ active' = {}
         /\ UNCHANGED durable

Next == \/ \E p \in Procs : Begin(p) \/ End(p)
        \/ \E p \in Procs, b \in Blocks, v \in Values : Update(p, b, v)
        \/ Commit
        \/ Crash

Spec == Init /\ [][Next]_vars
=============================================================================
