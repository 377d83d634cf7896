--------------------------- MODULE GoInstructions ---------------------------
(***************************************************************************)
(* The statements of the goroutine demos under 02-concurrency that touch   *)
(* something shared, as instructions of the machine of GoRuntime.  A jump  *)
(* is relative: 1 is the next instruction.  Printing is left out.          *)
(***************************************************************************)
EXTENDS Integers, Sequences, SequencesExt, TLC

\* Where a case of a select goes on: at `to`, or at `shut` when it received
\* from a channel that is closed and empty.
Receive(c, to, shut) ==
    [dir |-> "receive", ch |-> c, val |-> 0, to |-> to, shut |-> shut]
Deliver(c, v, to) ==
    [dir |-> "send", ch |-> c, val |-> v, to |-> to, shut |-> to]

Park == 0  \* a select without default
Select(cases, default) ==
    [op |-> "select", cases |-> cases, default |-> default]

Send(c, v) == Select(<<Deliver(c, v, 1)>>, Park)
Recv(c) == Select(<<Receive(c, 1, 1)>>, Park)
\* v, ok := <-c and range: `shut` is where the loop ends.
RecvOk(c, shut) == Select(<<Receive(c, 1, shut)>>, Park)
Close(c) == [op |-> "close", ch |-> c]

Go(g) == [op |-> "go", g |-> g]
Goto(d) == [op |-> "goto", d |-> d]
Sleep == Goto(1)  \* takes as long as the scheduler likes

Add(n) == [op |-> "add", n |-> n]
Done == Add(-1)
Wait == [op |-> "wait"]

Lock == <<[op |-> "claim"], [op |-> "exclude"]>>
Unlock == <<[op |-> "unlock"]>>
RLock == <<[op |-> "rlock"]>>
RUnlock == <<[op |-> "runlock"]>>

\* Plain memory; the others of these are atomic, or local to one goroutine.
Read(x) == [op |-> "read", x |-> x]
Incr(x) == [op |-> "incr", x |-> x]     \* stores one more than was read
Keep(x) == [op |-> "keep", x |-> x]     \* stores what was received or read
AtomicAdd(x, n) == [op |-> "atomic", x |-> x, n |-> n]
CompareAndSwap(x, old, new) ==
    [op |-> "cas", x |-> x, old |-> old, new |-> new]
SkipIf(x, d) == [op |-> "skipif", x |-> x, d |-> d]

WithParent(c) == [op |-> "context", ch |-> c]
Cancel(c) == <<[op |-> "cancel", ch |-> c], [op |-> "walk", ch |-> c]>>
Err(c, x) == [op |-> "err", ch |-> c, x |-> x]

Repeated(code, n) == FlattenSeq([i \in 1 .. n |-> code])
\* for i := 0; i < n; i++ { wg.Add(1); go ... } starts the goroutines after main.
StartAll(n) ==
    [i \in 1 .. 2 * n |-> IF i % 2 = 1 THEN Add(1) ELSE Go(i \div 2 + 1)]

\* The code of main, goroutine 1, and of n goroutines that do the same.
WithWorkers(n, mainCode, code) == <<mainCode>> \o [w \in 1 .. n |-> code]

\* What a program has unless it says otherwise: channels with capacities,
\* code of the goroutines, parents and deadlines of contexts, variables, and
\* what is expected of them when main returns and when all have ended,
\* upper bounds for some, and the goroutines that must, or may, never end.
Blank ==
    [chans |-> <<>>, code |-> <<>>, parent |-> <<>>, deadlines |-> {},
     vars |-> <<>>, returns |-> <<>>, rests |-> <<>>, bounds |-> <<>>,
     leaks |-> {}, perhaps |-> {}]
=============================================================================
