------------------------------ MODULE GoRuntime ------------------------------
(***************************************************************************)
(* What the demos of 02-concurrency use of Go: goroutines, channels and    *)
(* select by the rules of channel/main.go:80-99 and :144-151, wait groups, *)
(* the read-write lock of syncpkg/main.go:92-114, contexts that cancel     *)
(* their children by contextx/main.go:184-189, plain and atomic memory.    *)
(* The library is not part of the repository; it is modelled from these    *)
(* uses.  Programs gives each demo the code (GoInstructions) of its        *)
(* goroutines, main first; a behaviour runs one of the demos.              *)
(*                                                                         *)
(* Where Go would panic the step is disabled and Panics says so.           *)
(***************************************************************************)
EXTENDS Integers, Sequences, FiniteSetsExt

CONSTANT Programs

Nobody == 0

\* Capacities are numbers; a context is a channel.
ASSUME ProgramsAssumption ==
    \A d \in DOMAIN Programs :
        LET p == Programs[d]
        IN  /\ \A c \in DOMAIN p.chans : p.chans[c] \in Nat
            /\ DOMAIN p.parent \subseteq DOMAIN p.chans

VARIABLES demo,
          pc,      \* 0 before a goroutine starts
          reg,     \* what a goroutine received or read last
          buf,     \* the values in each channel
          closed,  \* the channels that are closed
          wg,
          writer,  \* the goroutine that has claimed the lock for writing
          held,    \* it has the lock: the readers have left
          readers,
          mem,     \* variables several goroutines or the properties look at
          made,    \* the contexts that exist; a context is its Done channel
          cause    \* ctx.Err()

chanVars == <<buf, closed>>
lockVars == <<writer, held, readers>>
ctxVars == <<made, cause>>
vars == <<demo, pc, reg, chanVars, wg, lockVars, mem, ctxVars>>

NoError == 0
Canceled == 1
DeadlineExceeded == 2

Program == Programs[demo]
Goroutines == DOMAIN Program.code
Channels == DOMAIN Program.chans
Contexts == DOMAIN Program.parent
Cap(c) == Program.chans[c]
Code(g) == Program.code[g]

Init ==
    /\ demo \in DOMAIN Programs
    /\ pc = [g \in Goroutines |-> IF g = 1 THEN 1 ELSE 0]
    /\ reg = [g \in Goroutines |-> 0]
    /\ buf = [c \in Channels |-> <<>>]
    /\ closed = {}
    /\ wg = 0
    /\ writer = Nobody /\ held = FALSE /\ readers = {}
    /\ mem = Program.vars
    /\ made = {}
    /\ cause = [c \in Contexts |-> NoError]

Running(g) == pc[g] \in 1 .. Len(Code(g))
Ended(g) == pc[g] = Len(Code(g)) + 1
At(g) == Code(g)[pc[g]]
Is(g, op) == Running(g) /\ At(g).op = op
Move(g, d) == pc' = [pc EXCEPT ![g] = @ + d]

-----------------------------------------------------------------------------
\* Channels.  A send or receive alone is a select with one case.
Cases(g) == {At(g).cases[k] : k \in DOMAIN At(g).cases}
Parked(g) == Is(g, "select") /\ At(g).default = 0

\* A goroutine waits at the other side of an unbuffered channel.
Partner(g, h, c, dir) ==
    /\ g # h /\ Parked(h)
    /\ \E k \in Cases(h) : k.ch = c /\ k.dir = dir

Ready(g, k) ==
    \/ k.ch \in closed
    \/ k.dir = "send" /\ Len(buf[k.ch]) < Cap(k.ch)
    \/ k.dir = "receive" /\ buf[k.ch] # <<>>
    \/ /\ Cap(k.ch) = 0
       /\ \E h \in Goroutines :
             Partner(g, h, k.ch, IF k.dir = "send" THEN "receive" ELSE "send")

SendBuffered(g) ==
    /\ Is(g, "select")
    /\ \E k \in Cases(g) :
          /\ k.dir = "send" /\ k.ch \notin closed
          /\ Len(buf[k.ch]) < Cap(k.ch)
          /\ buf' = [buf EXCEPT ![k.ch] = Append(@, k.val)]
          /\ Move(g, k.to)
    /\ UNCHANGED <<demo, reg, closed, wg, lockVars, mem, ctxVars>>

\* A closed channel still gives what is in it.
ReceiveBuffered(g) ==
    /\ Is(g, "select")
    /\ \E k \in Cases(g) :
          /\ k.dir = "receive" /\ buf[k.ch] # <<>>
          /\ reg' = [reg EXCEPT ![g] = Head(buf[k.ch])]
          /\ buf' = [buf EXCEPT ![k.ch] = Tail(@)]
          /\ Move(g, k.to)
    /\ UNCHANGED <<demo, closed, wg, lockVars, mem, ctxVars>>

\* The zero value, and ok = false.
ReceiveClosed(g) ==
    /\ Is(g, "select")
    /\ \E k \in Cases(g) :
          /\ k.dir = "receive" /\ k.ch \in closed /\ buf[k.ch] = <<>>
          /\ reg' = [reg EXCEPT ![g] = 0]
          /\ Move(g, k.shut)
    /\ UNCHANGED <<demo, chanVars, wg, lockVars, mem, ctxVars>>

\* Unbuffered: the value goes from hand to hand.  One of the two was waiting.
Rendezvous(g, h) ==
    /\ g # h /\ Is(g, "select") /\ Is(h, "select")
    /\ Parked(g) \/ Parked(h)
    /\ \E k \in Cases(g), l \in Cases(h) :
          /\ k.dir = "send" /\ l.dir = "receive" /\ k.ch = l.ch
          /\ k.ch \notin closed /\ Cap(k.ch) = 0
          /\ reg' = [reg EXCEPT ![h] = k.val]
          /\ pc' = [pc EXCEPT ![g] = @ + k.to, ![h] = @ + l.to]
    /\ UNCHANGED <<demo, chanVars, wg, lockVars, mem, ctxVars>>

\* default: only when no case is ready.
Default(g) ==
    /\ Is(g, "select") /\ At(g).default # 0
    /\ \A k \in Cases(g) : ~Ready(g, k)
    /\ Move(g, At(g).default)
    /\ UNCHANGED <<demo, reg, chanVars, wg, lockVars, mem, ctxVars>>

CloseChannel(g) ==
    /\ Is(g, "close") /\ At(g).ch \notin closed
    /\ closed' = closed \cup {At(g).ch}
    /\ Move(g, 1)
    /\ UNCHANGED <<demo, reg, buf, wg, lockVars, mem, ctxVars>>

-----------------------------------------------------------------------------
\* Goroutines and wait groups.
Start(g) ==
    /\ Is(g, "go")
    /\ pc' = [pc EXCEPT ![g] = @ + 1, ![At(g).g] = 1]
    /\ UNCHANGED <<demo, reg, chanVars, wg, lockVars, mem, ctxVars>>

Jump(g) ==
    /\ Is(g, "goto")
    /\ Move(g, At(g).d)
    /\ UNCHANGED <<demo, reg, chanVars, wg, lockVars, mem, ctxVars>>

AddToGroup(g) ==
    /\ Is(g, "add") /\ wg + At(g).n >= 0
    /\ wg' = wg + At(g).n
    /\ Move(g, 1)
    /\ UNCHANGED <<demo, reg, chanVars, lockVars, mem, ctxVars>>

WaitForGroup(g) ==
    /\ Is(g, "wait") /\ wg = 0
    /\ Move(g, 1)
    /\ UNCHANGED <<demo, reg, chanVars, wg, lockVars, mem, ctxVars>>

-----------------------------------------------------------------------------
\* The lock.  A writer first keeps new readers and writers out, then waits for
\* the readers inside.  A Mutex is a lock nobody takes for reading.
Claim(g) ==
    /\ Is(g, "claim") /\ writer = Nobody
    /\ writer' = g
    /\ Move(g, 1)
    /\ UNCHANGED <<demo, reg, chanVars, wg, held, readers, mem, ctxVars>>

Exclude(g) ==
    /\ Is(g, "exclude") /\ writer = g /\ readers = {}
    /\ held' = TRUE
    /\ Move(g, 1)
    /\ UNCHANGED <<demo, reg, chanVars, wg, writer, readers, mem, ctxVars>>

Release(g) ==
    /\ Is(g, "unlock") /\ held
    /\ held' = FALSE /\ writer' = Nobody
    /\ Move(g, 1)
    /\ UNCHANGED <<demo, reg, chanVars, wg, readers, mem, ctxVars>>

Enter(g) ==
    /\ Is(g, "rlock") /\ writer = Nobody
    /\ readers' = readers \cup {g}
    /\ Move(g, 1)
    /\ UNCHANGED <<demo, reg, chanVars, wg, writer, held, mem, ctxVars>>

Leave(g) ==
    /\ Is(g, "runlock") /\ g \in readers
    /\ readers' = readers \ {g}
    /\ Move(g, 1)
    /\ UNCHANGED <<demo, reg, chanVars, wg, writer, held, mem, ctxVars>>

-----------------------------------------------------------------------------
\* Memory.
Load(g) ==
    /\ Is(g, "read")
    /\ reg' = [reg EXCEPT ![g] = mem[At(g).x]]
    /\ Move(g, 1)
    /\ UNCHANGED <<demo, chanVars, wg, lockVars, mem, ctxVars>>

Store(g) ==
    /\ \/ /\ Is(g, "incr")
          /\ mem' = [mem EXCEPT ![At(g).x] = reg[g] + 1]
       \/ /\ Is(g, "keep")
          /\ mem' = [mem EXCEPT ![At(g).x] = reg[g]]
    /\ Move(g, 1)
    /\ UNCHANGED <<demo, reg, chanVars, wg, lockVars, ctxVars>>

Atomic(g) ==
    /\ \/ /\ Is(g, "atomic")
          /\ mem' = [mem EXCEPT ![At(g).x] = @ + At(g).n]
       \/ /\ Is(g, "cas")
          /\ mem' = [mem EXCEPT ![At(g).x] = IF @ = At(g).old THEN At(g).new
                                                             ELSE @]
    /\ Move(g, 1)
    /\ UNCHANGED <<demo, reg, chanVars, wg, lockVars, ctxVars>>

Branch(g) ==
    /\ Is(g, "skipif")
    /\ Move(g, IF mem[At(g).x] # 0 THEN At(g).d ELSE 1)
    /\ UNCHANGED <<demo, reg, chanVars, wg, lockVars, mem, ctxVars>>

-----------------------------------------------------------------------------
\* Contexts.
Above(c) == Program.parent[c]
Live(c) == c \in made /\ c \notin closed

StopSilently(c, why) ==  \* variant: the cause is not recorded
    /\ closed' = closed \cup {c}
    /\ UNCHANGED cause

Stop(c, why) ==
    /\ closed' = closed \cup {c}
    /\ cause' = [cause EXCEPT ![c] = why]

\* A child of a cancelled context is born cancelled.
MakeContext(g) ==
    /\ Is(g, "context")
    /\ made' = made \cup {At(g).ch}
    /\ IF Above(At(g).ch) \in closed
       THEN Stop(At(g).ch, cause[Above(At(g).ch)])
       ELSE UNCHANGED <<closed, cause>>
    /\ Move(g, 1)
    /\ UNCHANGED <<demo, reg, buf, wg, lockVars, mem>>

\* cancel(): the first to come sets the cause, the others return at once.
CancelContext(g) ==
    /\ Is(g, "cancel")
    /\ IF Live(At(g).ch)
       THEN Stop(At(g).ch, Canceled) /\ Move(g, 1)
       ELSE Move(g, 2) /\ UNCHANGED <<closed, cause>>
    /\ UNCHANGED <<demo, reg, buf, wg, lockVars, mem, made>>

\* The walk over the children, one at a time.
Propagate(c) ==
    /\ Live(c) /\ Above(c) \in closed
    /\ Stop(c, cause[Above(c)])
    /\ UNCHANGED <<demo, pc, reg, buf, wg, lockVars, mem, made>>

\* cancel() returns when the walk has been to every context below.
Below(c) ==
    LET reach[n \in Nat] ==
            IF n = 0 THEN {c}
            ELSE {d \in made : Above(d) \in reach[n - 1]} \cup reach[n - 1]
    IN  reach[Cardinality(made)]

Walked(g) ==
    /\ Is(g, "walk") /\ Below(At(g).ch) \subseteq closed
    /\ Move(g, 1)
    /\ UNCHANGED <<demo, reg, chanVars, wg, lockVars, mem, ctxVars>>

\* The timer of a context with a deadline.
Expire(c) ==
    /\ Live(c) /\ c \in Program.deadlines
    /\ Stop(c, DeadlineExceeded)
    /\ UNCHANGED <<demo, pc, reg, buf, wg, lockVars, mem, made>>

ReadErr(g) ==
    /\ Is(g, "err")
    /\ mem' = [mem EXCEPT ![At(g).x] = cause[At(g).ch]]
    /\ Move(g, 1)
    /\ UNCHANGED <<demo, reg, chanVars, wg, lockVars, ctxVars>>

-----------------------------------------------------------------------------
Terminated == Ended(1) /\ UNCHANGED vars

Step(g) ==
    \/ SendBuffered(g) \/ ReceiveBuffered(g) \/ ReceiveClosed(g)
    \/ \E h \in Goroutines : Rendezvous(g, h)
    \/ Default(g) \/ CloseChannel(g)
    \/ Start(g) \/ Jump(g) \/ AddToGroup(g) \/ WaitForGroup(g)
    \/ Claim(g) \/ Exclude(g) \/ Release(g) \/ Enter(g) \/ Leave(g)
    \/ Load(g) \/ Store(g) \/ Atomic(g) \/ Branch(g)
    \/ MakeContext(g) \/ CancelContext(g) \/ Walked(g) \/ ReadErr(g)

Next ==
    \/ \E g \in Goroutines : Step(g)
    \/ \E c \in Contexts : Propagate(c) \/ Expire(c)
    \/ Terminated

Spec == Init /\ [][Next]_vars

\* Every program's goroutines, to quantify over outside of a state.
AllGoroutines == 1 .. Max({Len(Programs[d].code) : d \in DOMAIN Programs})
AllContexts == UNION {DOMAIN Programs[d].parent : d \in DOMAIN Programs}

\* The scheduler lets every goroutine go on, timers fire, and a select does not
\* starve a case that is ready again and again (it picks at random).
FairSpec ==
    /\ Spec
    /\ \A g \in AllGoroutines :
          /\ WF_vars(g \in Goroutines /\ Step(g))
          /\ SF_vars(g \in Goroutines /\ ReceiveClosed(g))
    /\ \A c \in AllContexts :
          /\ WF_vars(c \in Contexts /\ Propagate(c))
          /\ WF_vars(c \in Contexts /\ Expire(c))

-----------------------------------------------------------------------------
\* The program counters, channels, locks and contexts of the machine: nobody
\* runs out of its code, and a context has a cause when it is closed.
TypeOK ==
    /\ demo \in DOMAIN Programs
    /\ DOMAIN pc = Goroutines /\ DOMAIN reg = Goroutines
    /\ \A g \in Goroutines : pc[g] \in 0 .. Len(Code(g)) + 1
    /\ buf \in [Channels -> Seq(Int)]
    /\ closed \subseteq Channels
    /\ wg \in Nat
    /\ writer \in Goroutines \cup {Nobody} /\ held \in BOOLEAN
    /\ readers \subseteq Goroutines
    /\ DOMAIN mem = DOMAIN Program.vars
    /\ made \subseteq Contexts
    /\ cause \in [Contexts -> {NoError, Canceled, DeadlineExceeded}]
    /\ \A c \in Contexts : cause[c] # NoError <=> c \in closed

\* The goroutine is about to do what makes Go panic: send on or close a closed
\* channel, take more from a wait group than is in it, unlock what it has not.
Panics(g) ==
    \/ Is(g, "select") /\ \E k \in Cases(g) : k.dir = "send" /\ k.ch \in closed
    \/ Is(g, "close") /\ At(g).ch \in closed
    \/ Is(g, "add") /\ wg + At(g).n < 0
    \/ Is(g, "unlock") /\ ~held
    \/ Is(g, "runlock") /\ g \notin readers

Touches(g, x) == \E op \in {"read", "incr", "keep"} : Is(g, op) /\ At(g).x = x
Writes(g, x) == \E op \in {"incr", "keep"} : Is(g, op) /\ At(g).x = x

\* Two goroutines may touch the same plain variable at once, one to write it.
Races(g, h) ==
    \E x \in DOMAIN mem : g # h /\ Writes(g, x) /\ Touches(h, x)
=============================================================================
