------------------------------ MODULE FanInOut ------------------------------
(***************************************************************************)
(* fanInOut of 02-concurrency/pattern/main.go: one generator, processors   *)
(* that range over its channel, one forwarder per processor inside merge,  *)
(* a goroutine that closes the merged channel, and main ranging over it.   *)
(* All channels are unbuffered: a send and its receive are one step, taken *)
(* when the sender is at its send and the receiver at its receive.         *)
(***************************************************************************)
EXTENDS PatternParameters, Sequences

VARIABLES next, inClosed,  \* the generator's loop variable and its channel
          proc,            \* per processor: "recv", "send" or "closed"
          procVal,         \* the value it received
          fwd,             \* per forwarder: "recv", "send" or "left"
          fwdVal,
          outClosed,       \* the merged channel
          main,            \* "ranging" or "done"
          collected

vars == <<next, inClosed, proc, procVal, fwd, fwdVal, outClosed, main, collected>>

Values == 0 .. NumItems - 1
Squared(v) == v * v

TypeOK ==
    /\ next \in 0 .. NumItems
    /\ inClosed \in BOOLEAN /\ outClosed \in BOOLEAN
    /\ proc \in [Procs -> {"recv", "send", "closed"}]
    /\ procVal \in [Procs -> Nat]
    /\ fwd \in [Procs -> {"recv", "send", "left"}]
    /\ fwdVal \in [Procs -> Nat]
    /\ main \in {"ranging", "done"}
    /\ collected \in Seq(Nat)

Init ==
    /\ next = 0 /\ inClosed = FALSE
    /\ proc = [p \in Procs |-> "recv"] /\ procVal = [p \in Procs |-> 0]
    /\ fwd = [p \in Procs |-> "recv"] /\ fwdVal = [p \in Procs |-> 0]
    /\ outClosed = FALSE
    /\ main = "ranging" /\ collected = <<>>

-----------------------------------------------------------------------------
\* ch <- i, received by processor p.
Feed(p) ==
    /\ next < NumItems /\ proc[p] = "recv"
    /\ next' = next + 1
    /\ proc' = [proc EXCEPT ![p] = "send"]
    /\ procVal' = [procVal EXCEPT ![p] = next]
    /\ UNCHANGED <<inClosed, fwd, fwdVal, outClosed, main, collected>>

CloseIn ==
    /\ next = NumItems /\ ~inClosed
    /\ inClosed' = TRUE
    /\ UNCHANGED <<next, proc, procVal, fwd, fwdVal, outClosed, main, collected>>

\* out <- v * v, received by the processor's forwarder.
Process(p) ==
    /\ proc[p] = "send" /\ fwd[p] = "recv"
    /\ proc' = [proc EXCEPT ![p] = "recv"]
    /\ fwd' = [fwd EXCEPT ![p] = "send"]
    /\ fwdVal' = [fwdVal EXCEPT ![p] = Squared(procVal[p])]
    /\ UNCHANGED <<next, inClosed, procVal, outClosed, main, collected>>

\* The range over in ends; the deferred close(out).
CloseProc(p) ==
    /\ proc[p] = "recv" /\ inClosed
    /\ proc' = [proc EXCEPT ![p] = "closed"]
    /\ UNCHANGED <<next, inClosed, procVal, fwd, fwdVal, outClosed, main, collected>>

ForwardTwice(p) ==  \* variant: the forwarder stays at its send
    /\ fwd[p] = "send" /\ main = "ranging" /\ ~outClosed
    /\ Len(collected) < 2 * NumItems
    /\ collected' = Append(collected, fwdVal[p])
    /\ \E after \in {"send", "recv"} : fwd' = [fwd EXCEPT ![p] = after]
    /\ UNCHANGED <<next, inClosed, proc, procVal, fwdVal, outClosed, main>>

\* out <- v of merge, received by main.
Forward(p) ==
    /\ fwd[p] = "send" /\ main = "ranging" /\ ~outClosed
    /\ collected' = Append(collected, fwdVal[p])
    /\ fwd' = [fwd EXCEPT ![p] = "recv"]
    /\ UNCHANGED <<next, inClosed, proc, procVal, fwdVal, outClosed, main>>

\* The range over c ends; wg.Done.
LeaveMerge(p) ==
    /\ fwd[p] = "recv" /\ proc[p] = "closed"
    /\ fwd' = [fwd EXCEPT ![p] = "left"]
    /\ UNCHANGED <<next, inClosed, proc, procVal, fwdVal, outClosed, main, collected>>

AllLeft == \A p \in Procs : fwd[p] = "left"

CloseOutEarly ==  \* variant: the closer waits for the source, not the forwarders
    /\ ~outClosed /\ inClosed
    /\ outClosed' = TRUE
    /\ UNCHANGED <<next, inClosed, proc, procVal, fwd, fwdVal, main, collected>>

\* wg.Wait returns; close(out).
CloseOut ==
    /\ ~outClosed /\ AllLeft
    /\ outClosed' = TRUE
    /\ UNCHANGED <<next, inClosed, proc, procVal, fwd, fwdVal, main, collected>>

Finish ==
    /\ main = "ranging" /\ outClosed
    /\ main' = "done"
    /\ UNCHANGED <<next, inClosed, proc, procVal, fwd, fwdVal, outClosed, collected>>

Terminated == main = "done" /\ UNCHANGED vars

Next ==
    \/ CloseIn \/ CloseOut \/ Finish \/ Terminated
    \/ \E p \in Procs :
          Feed(p) \/ Process(p) \/ CloseProc(p) \/ Forward(p) \/ LeaveMerge(p)

Spec == Init /\ [][Next]_vars

\* A goroutine that can go on, alone or with its partner on a channel, does.
FairSpec == Spec /\ WF_vars(Next)

-----------------------------------------------------------------------------
\* Closing follows the flow of the data: nobody sends on a closed channel,
\* whoever is told that a channel is closed has seen all of it, and when main
\* sees the last one closed every goroutine has come to its end.
CloseCascade ==
    /\ inClosed => next = NumItems
    /\ \A p \in Procs : /\ proc[p] = "closed" => inClosed
                        /\ fwd[p] = "left" => proc[p] = "closed"
    /\ outClosed => \A p \in Procs : fwd[p] = "left"

\* The items under way are no more than the goroutines that can hold one.
Backpressure ==
    next - Len(collected) =   Cardinality({p \in Procs : proc[p] = "send"})
                            + Cardinality({p \in Procs : fwd[p] = "send"})

\* Main receives the square of every generated number once, in some order.
Fan == INSTANCE Delivery WITH Items <- {Squared(v) : v \in Values},
                              delivered <- collected
ExactlyOnce == Fan!Spec

Completes == <>(main = "done" /\ Len(collected) = NumItems)
=============================================================================
