----------------------------- MODULE Middleware -----------------------------
(***************************************************************************)
(* 05-webframework/middleware/main.go: the closures of onionModel and the  *)
(* simulated Gin context, both as calls on a stack.  A handler is the      *)
(* sequence of calls it makes: "next" or "abort".                          *)
(***************************************************************************)
EXTENDS Integers, Sequences

CONSTANTS MaxHandlers,  \* in a chain, the last one included
          MaxCalls      \* of next and abort in one handler

VARIABLES style,     \* "onion" or "gin"
          handlers,  \* their calls
          index, aborted,  \* c.index counts from 1 here
          stack,     \* of [handler, rest of its calls, whether next loops]
          trace      \* history: what began and ended

chainVars == <<style, handlers, index, aborted, stack, trace>>

Frame(n) == [handler |-> n, rest |-> handlers[n], loops |-> FALSE]
Begin(n) == <<"begin", n>>
End(n) == <<"end", n>>
Top == Head(stack)

\* What a Gin handler may call.
HandlerCalls == UNION {[1 .. c -> {"next", "abort"}] : c \in 0 .. MaxCalls}

\* A middleware of the onion calls its next once, and the final handler
\* nothing; in Gin a handler calls what it likes.
Init ==
    /\ style \in {"onion", "gin"}
    /\ \E n \in 1 .. MaxHandlers :
          IF style = "onion"
          THEN handlers = [k \in 1 .. n |-> IF k = n THEN <<>> ELSE <<"next">>]
          ELSE handlers \in [1 .. n -> HandlerCalls]
    /\ index = 1 /\ aborted = FALSE
    /\ stack = <<Frame(1)>>
    /\ trace = <<Begin(1)>>

-----------------------------------------------------------------------------
Invoke(n, below) ==
    /\ stack' = <<Frame(n)>> \o below
    /\ trace' = Append(trace, Begin(n))

\* The closure of the onion was made with the one it wraps.
callInner ==
    /\ style = "onion" /\ stack # <<>> /\ Top.rest # <<>>
    /\ Invoke(Top.handler + 1, <<[Top EXCEPT !.rest = <<>>]>> \o Tail(stack))
    /\ UNCHANGED <<style, handlers, index, aborted>>

\* next moves the index on and enters its loop.
next ==
    /\ style = "gin" /\ stack # <<>> /\ ~Top.loops
    /\ Top.rest # <<>> /\ Head(Top.rest) = "next"
    /\ index' = index + 1
    /\ stack' = <<[Top EXCEPT !.loops = TRUE, !.rest = Tail(Top.rest)]>> \o Tail(stack)
    /\ UNCHANGED <<style, handlers, aborted, trace>>

loopDeaf ==  \* variant: the loop does not look at aborted
    /\ style = "gin" /\ stack # <<>> /\ Top.loops
    /\ IF index <= Len(handlers)
       THEN Invoke(index, stack)
       ELSE /\ stack' = <<[Top EXCEPT !.loops = FALSE]>> \o Tail(stack)
            /\ UNCHANGED trace
    /\ UNCHANGED <<style, handlers, index, aborted>>

loop ==
    /\ style = "gin" /\ stack # <<>> /\ Top.loops
    /\ IF index <= Len(handlers) /\ ~aborted
       THEN Invoke(index, stack)
       ELSE /\ stack' = <<[Top EXCEPT !.loops = FALSE]>> \o Tail(stack)
            /\ UNCHANGED trace
    /\ UNCHANGED <<style, handlers, index, aborted>>

abort ==
    /\ stack # <<>> /\ ~Top.loops
    /\ Top.rest # <<>> /\ Head(Top.rest) = "abort"
    /\ aborted' = TRUE
    /\ stack' = <<[Top EXCEPT !.rest = Tail(@)]>> \o Tail(stack)
    /\ UNCHANGED <<style, handlers, index, trace>>

\* A handler returns, and the loop that called it moves the index on.
return ==
    /\ stack # <<>> /\ ~Top.loops /\ Top.rest = <<>>
    /\ stack' = Tail(stack)
    /\ trace' = Append(trace, End(Top.handler))
    /\ index' = IF style = "gin" /\ Tail(stack) # <<>> THEN index + 1 ELSE index
    /\ UNCHANGED <<style, handlers, aborted>>

Terminated == stack = <<>> /\ UNCHANGED chainVars

Next == callInner \/ next \/ loop \/ abort \/ return \/ Terminated

-----------------------------------------------------------------------------
Began == {n \in DOMAIN handlers : \E k \in DOMAIN trace : trace[k] = Begin(n)}
Position(event) == CHOOSE k \in DOMAIN trace : trace[k] = event
Calls(n, what) == \E k \in DOMAIN handlers[n] : handlers[n][k] = what

\* Handlers run at most once, in order, and none begins after one has called
\* abort; a handler that called next ends after all it let in; and with nobody
\* aborting every handler runs, if the first calls next.
ChainRunsInOrder ==
    /\ \E b \in 0 .. Len(handlers) : Began = 1 .. b
    /\ \A m, n \in Began : m < n => Position(Begin(m)) < Position(Begin(n))
    /\ \A k, l \in DOMAIN trace : k # l => trace[k] # trace[l]
    /\ stack = <<>> =>
          /\ \A n \in Began : \E k \in DOMAIN trace : trace[k] = End(n)
          /\ \A a \in Began : Calls(a, "abort") =>
                \A n \in Began : n > a =>
                   /\ Head(handlers[a]) = "next"
                   /\ Position(End(n)) < Position(End(a))
          /\ (\A n \in DOMAIN handlers : ~Calls(n, "abort"))
             /\ (Len(handlers) > 1 => Calls(1, "next")) => Began = DOMAIN handlers

\* The onion: the handlers end in the opposite order.
OnionIsNested ==
    style = "onion" /\ stack = <<>> =>
    \A m, n \in DOMAIN handlers : m < n => Position(End(n)) < Position(End(m))
=============================================================================
