------------------------------ MODULE Pipeline ------------------------------
(***************************************************************************)
(* pipeline of 02-concurrency/pattern/main.go: gen, square and filter, one *)
(* goroutine each, joined by unbuffered channels, and main ranging over    *)
(* the last one.  Every send is a select with ctx.Done(); a receive is     *)
(* not.  When both cases of a select are ready either may be taken.        *)
(***************************************************************************)
EXTENDS PatternParameters, Selections, SequencesExt

VARIABLES ctx,          \* "live", "expired" (timeout) or "cancelled" (by main)
          genNext,      \* the value gen sends next
          genClosed,
          square, squareVal,  \* "recv", "send" or "closed", and v * v
          filter, filterVal,
          main,         \* "ranging" or "done"
          printed

vars == <<ctx, genNext, genClosed, square, squareVal, filter, filterVal, main, printed>>

TypeOK ==
    /\ ctx \in {"live", "expired", "cancelled"}
    /\ genNext \in 1 .. NumValues + 1
    /\ genClosed \in BOOLEAN
    /\ square \in {"recv", "send", "closed"} /\ squareVal \in Nat
    /\ filter \in {"recv", "send", "closed"} /\ filterVal \in Nat
    /\ main \in {"ranging", "done"}
    /\ printed \in Seq(Nat)

Init ==
    /\ ctx = "live"
    /\ genNext = 1 /\ genClosed = FALSE
    /\ square = "recv" /\ squareVal = 0
    /\ filter = "recv" /\ filterVal = 0
    /\ main = "ranging" /\ printed = <<>>

Done == ctx # "live"

\* The timeout.
Expire ==
    /\ ctx = "live"
    /\ ctx' = "expired"
    /\ UNCHANGED <<genNext, genClosed, square, squareVal, filter, filterVal,
                   main, printed>>

-----------------------------------------------------------------------------
GenSendPast ==  \* variant: one value too many
    /\ ~genClosed /\ genNext <= NumValues + 1 /\ square = "recv"
    /\ genNext' = genNext + 1
    /\ square' = "send" /\ squareVal' = genNext * genNext
    /\ UNCHANGED <<ctx, genClosed, filter, filterVal, main, printed>>

\* gen: `ch <- v`, received by square.
GenSend ==
    /\ ~genClosed /\ genNext <= NumValues /\ square = "recv"
    /\ genNext' = genNext + 1
    /\ square' = "send" /\ squareVal' = genNext * genNext
    /\ UNCHANGED <<ctx, genClosed, filter, filterVal, main, printed>>

GenReturnEager ==  \* variant: the channel is closed with a value to send
    /\ ~genClosed /\ (genNext >= NumValues \/ Done)
    /\ genClosed' = TRUE
    /\ UNCHANGED <<ctx, genNext, square, squareVal, filter, filterVal, main, printed>>

\* gen returns, at the end of the values or on ctx.Done().
GenReturn ==
    /\ ~genClosed /\ (genNext > NumValues \/ Done)
    /\ genClosed' = TRUE
    /\ UNCHANGED <<ctx, genNext, square, squareVal, filter, filterVal, main, printed>>

keep(v) == v > Floor

SquareSkip ==  \* variant: the send has a default case
    /\ square = "send"
    /\ square' = "recv"
    /\ filter' = IF filter = "recv" /\ keep(squareVal) THEN "send" ELSE filter
    /\ filterVal' = IF filter = "recv" /\ keep(squareVal) THEN squareVal ELSE filterVal
    /\ UNCHANGED <<ctx, genNext, genClosed, squareVal, main, printed>>

\* square: `out <- v * v`, received by filter, which drops what it need not keep.
SquareSend ==
    /\ square = "send" /\ filter = "recv"
    /\ square' = "recv"
    /\ IF keep(squareVal)
       THEN filter' = "send" /\ filterVal' = squareVal
       ELSE UNCHANGED <<filter, filterVal>>
    /\ UNCHANGED <<ctx, genNext, genClosed, squareVal, main, printed>>

SquareReturnDeaf ==  \* variant: a plain send, without ctx.Done()
    /\ square = "recv" /\ genClosed
    /\ square' = "closed"
    /\ UNCHANGED <<ctx, genNext, genClosed, squareVal, filter, filterVal, main, printed>>

\* square returns, when gen has closed its channel or on ctx.Done().
SquareReturn ==
    /\ \/ square = "recv" /\ genClosed
       \/ square = "send" /\ Done
    /\ square' = "closed"
    /\ UNCHANGED <<ctx, genNext, genClosed, squareVal, filter, filterVal, main, printed>>

\* filter: `out <- v`, received by main.
FilterSend ==
    /\ filter = "send" /\ main = "ranging"
    /\ printed' = Append(printed, filterVal)
    /\ filter' = "recv"
    /\ UNCHANGED <<ctx, genNext, genClosed, square, squareVal, filterVal, main>>

\* filter returns, when square has closed its channel or on ctx.Done().
FilterReturn ==
    /\ \/ filter = "recv" /\ square = "closed"
       \/ filter = "send" /\ Done
    /\ filter' = "closed"
    /\ UNCHANGED <<ctx, genNext, genClosed, square, squareVal, filterVal, main, printed>>

\* main's range ends; the deferred cancel().
Finish ==
    /\ main = "ranging" /\ filter = "closed"
    /\ main' = "done"
    /\ ctx' = IF Done THEN ctx ELSE "cancelled"
    /\ UNCHANGED <<genNext, genClosed, square, squareVal, filter, filterVal, printed>>

Gone == main = "done" /\ genClosed /\ square = "closed" /\ filter = "closed"

Terminated == Gone /\ UNCHANGED vars

Gen == GenSend \/ GenReturn
Square == SquareSend \/ SquareReturn
Filter == FilterSend \/ FilterReturn

Next == Expire \/ Terminated \/ Gen \/ Square \/ Filter \/ Finish

Spec == Init /\ [][Next]_vars

\* Every goroutine that can go on does; the timeout need not come.
FairSpec ==
    Spec /\ WF_vars(Gen) /\ WF_vars(Square) /\ WF_vars(Filter) /\ WF_vars(Finish)

-----------------------------------------------------------------------------
\* What the three functions compute, one after the other.
Expected ==
    Kept([i \in 1 .. NumValues |-> i * i], {v \in Nat : v > Floor})

\* Whenever the timeout strikes, what main has seen is an initial part of the
\* result: nothing is skipped, repeated or out of order.
PrefixOfResult == IsPrefix(printed, Expected)

\* Only the timeout cuts the result short: the stages are closed by the end
\* of the values and not by the cancel that main defers.
CompleteUnlessExpired == main = "done" /\ ctx = "cancelled" => printed = Expected

\* A stage that returned is not sent to for ever: all goroutines come to their
\* end, with or without the timeout, although receives ignore the context.
AllReturn == <>[]Gone
=============================================================================
