----------------------------- MODULE UserCode -----------------------------
(* User programs as data. A C function is a sequence of statements: system *)
(* calls, and the control between them. What a program computes between    *)
(* two system calls touches only its own memory, so Settle runs it to the  *)
(* next call at once, and the steps of a process are its system calls.     *)
EXTENDS Integers, Sequences, SequencesExt, TLC

Endless == 1000     \* more than any result

(***************************************************************************)
(* System calls: operation, arguments, the variable that takes the result, *)
(* and what the program does when the result is outside lo..hi.            *)
(***************************************************************************)
Call(op, a, v) == [op |-> op, a |-> a, v |-> v, lo |-> -1, hi |-> Endless, fail |-> <<>>]

exit(n)              == Call("exit", <<n>>, "_")
exitWith(v)          == Call("exitWith", <<v>>, "_")
fork(v)              == Call("fork", <<>>, v)
wait(v, status)      == Call("wait", <<status>>, v)
kill(v)              == Call("kill", <<v>>, "_")
sleep                == Call("sleep", <<>>, "_")
sbrk(n, v)           == Call("sbrk", <<n>>, v)
exec(name, argv)     == Call("exec", <<name, argv>>, "_")
open(path, flags, v) == Call("open", <<path, flags>>, v)
close(v)             == Call("close", <<v>>, "_")
dup(v, w)            == Call("dup", <<v>>, w)
pipe(v, w)           == Call("pipe", <<v, w>>, "_")
read(v, n)           == Call("read", <<v, n>>, "n")      \* the data goes to buf
write(v, data)       == Call("write", <<v, data, 0>>, "_")
writeVar(v, w)       == Call("writeVar", <<v, w>>, "_")  \* the data is in w
mkdir(path)          == Call("mkdir", <<path>>, "_")
unlink(path)         == Call("unlink", <<path>>, "_")
link(old, new)       == Call("link", <<old, new>>, "_")
chdir(path)          == Call("chdir", <<path>>, "_")
fstat(v)             == Call("fstat", <<v>>, "_")        \* the size goes to size
ringbuf(name, o)     == Call("ringbuf", <<name, o>>, "_")
load(name, v)        == Call("load", <<name>>, v)
store(name, x)       == Call("store", <<name, x>>, "_")
getpid(v)            == Call("getpid", <<>>, v)
\* A memory access d bytes behind the address in v; a loop without system
\* calls, left only by a kill; a value the program computes from a seed.
touch(v, d)          == Call("touch", <<v, d>>, "_")
spin                 == Call("spin", <<>>, "_")
rand(v, S)           == Call("rand", <<S>>, v)

Failed          == <<exit(1)>>
Must(s)         == [s EXCEPT !.lo = 0, !.fail = Failed]
Refused(s)      == [s EXCEPT !.hi = -1, !.fail = Failed]
Gives(s, n)     == [s EXCEPT !.lo = n, !.hi = n, !.fail = Failed]
OrElse(s, code) == [s EXCEPT !.lo = 0, !.fail = code]

(***************************************************************************)
(* Control.                                                                *)
(***************************************************************************)
If(v, values, then, else) == [op |-> "if", v |-> v, values |-> values, then |-> then, else |-> else]
IfSame(v, w, then, else)  == [op |-> "same", v |-> v, w |-> w, then |-> then, else |-> else]
IfLess(v, w, then, else)  == [op |-> "less", v |-> v, w |-> w, then |-> then, else |-> else]
IfPrefix(v, x, then, else) == [op |-> "prefix", v |-> v, x |-> x, then |-> then, else |-> else]
Check(v, values)          == If(v, values, <<>>, Failed)
Loop(body)                == [op |-> "loop", body |-> body]
For(n, Body(_))           == [op |-> "for", rounds |-> [i \in 1..n |-> Body(i)]]
Break                     == [op |-> "break"]
Set(v, x)                 == [op |-> "set", v |-> v, x |-> x]
Add(v, x)                 == [op |-> "add", v |-> v, x |-> x]
Cat(v, w)                 == [op |-> "cat", v |-> v, w |-> w]
Fork(v, child)            == <<Must(fork(v)), If(v, {0}, child, <<>>)>>
IsLoop(s)                 == s.op \in {"loop", "for"}

\* The process q runs to its next system call.
RECURSIVE Settle(_)
Settle(q) ==
  LET s      == Head(q.code)
      rest   == Tail(q.code)
      To(c)  == Settle([q EXCEPT !.code = c])
      Let(x) == Settle([q EXCEPT !.code = rest, !.env = s.v :> x @@ @])
  IN CASE s.op = "if"    -> To((IF q.env[s.v] \in s.values THEN s.then ELSE s.else) \o rest)
       [] s.op = "same"  -> To((IF q.env[s.v] = q.env[s.w] THEN s.then ELSE s.else) \o rest)
       [] s.op = "less"  -> To((IF q.env[s.v] < q.env[s.w] THEN s.then ELSE s.else) \o rest)
       [] s.op = "prefix" -> To((IF IsPrefix(q.env[s.v], s.x) THEN s.then ELSE s.else) \o rest)
       [] s.op = "loop"  -> To(s.body \o q.code)
       [] s.op = "for"   -> To(IF s.rounds = <<>> THEN rest
                               ELSE Head(s.rounds) \o <<[s EXCEPT !.rounds = Tail(@)]>> \o rest)
       [] s.op = "break" -> To(SubSeq(rest, SelectInSeq(rest, IsLoop) + 1, Len(rest)))
       [] s.op = "set"   -> Let(s.x)
       [] s.op = "add"   -> Let(q.env[s.v] + s.x)
       [] s.op = "cat"   -> Let(q.env[s.v] \o q.env[s.w])
       [] s.op = "writeVar" ->
            To(<<[s EXCEPT !.op = "write", !.a = <<@[1], q.env[@[2]], 0>>]>> \o rest)
       [] OTHER          -> q
\* ulib's entry point: main returns, and the program exits with status 0.
_main(code) == code \o <<exit(0)>>
=============================================================================
