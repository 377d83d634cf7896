----------------------------- MODULE DeferDemos -----------------------------
(***************************************************************************)
(* The functions of 01-basics/defer/main.go on a stack of calls.  A call   *)
(* keeps its variables, its result and the functions it has deferred, the  *)
(* latest first.  What Go does with them is modelled by the rules the file *)
(* gives at lines 33-35, 49-50, 76-81 and 178-179.                         *)
(***************************************************************************)
EXTENDS Integers, Sequences, TLC

VARIABLES stack,     \* of calls, the running one first
          panicking,
          out,       \* what was printed
          results    \* what the functions returned

deferVars == <<stack, panicking, out, results>>

Say(t) == [op |-> "print", t |-> t]
SayVar(x) == [op |-> "sayVar", x |-> x]
Assign(x, v) == [op |-> "assign", x |-> x, v |-> v]
Call(f) == [op |-> "call", f |-> f]
Return(v) == [op |-> "return", v |-> v]
ReturnVar(x) == [op |-> "returnVar", x |-> x]
Panic == [op |-> "panic"]
\* defer f(x): the argument is evaluated now; a closure looks x up when it runs.
Defer(f, x) == [op |-> "defer", f |-> f, x |-> x]

Nil == 0
Recovered == -1

-----------------------------------------------------------------------------
executionOrder ==
    <<Say("start"), Assign("x", 1), Defer("print", "x"), Assign("x", 2),
      Defer("print", "x"), Assign("x", 3), Defer("print", "x"), Say("end")>>

argumentEvaluation ==
    <<Assign("x", 10), Defer("print", "x"), Assign("x", 20), SayVar("x"),
      Assign("y", 10), Defer("closure", "y"), Assign("y", 20)>>

func1 == <<Assign("x", 1), Defer("increment", "x"), ReturnVar("x")>>
func2 == <<Defer("increment", "result"), Return(1)>>
namedReturnFunc == <<Defer("one", "result"), Return(0)>>
recoverFunc == <<Defer("recover", "result"), Panic>>

process == <<Defer("print", "i"), SayVar("i")>>
loopDefer == <<Call("process"), Call("process"), Call("process"), Say("end")>>

catches == <<Defer("recover", "caught"), Panic>>
wrongRecover == <<Defer("doRecover", "caught")>>
\* The goroutine, for which its starter waits: Done is deferred first.
goroutine == <<Defer("Done", "x"), Defer("recover", "caught"), Panic>>
deferRecover ==
    <<Call("catches"), Call("wrongRecover"), Call("goroutine")>>

Code ==
    [executionOrder |-> executionOrder, argumentEvaluation |-> argumentEvaluation,
     func1 |-> func1, func2 |-> func2, namedReturnFunc |-> namedReturnFunc,
     recoverFunc |-> recoverFunc, process |-> process, loopDefer |-> loopDefer,
     catches |-> catches, wrongRecover |-> wrongRecover, goroutine |-> goroutine,
     deferRecover |-> deferRecover]

\* What main() calls, and deferAndReturn and namedReturn for it.
Mains == {"executionOrder", "argumentEvaluation", "func1", "func2",
          "namedReturnFunc", "recoverFunc", "loopDefer", "deferRecover"}

Frame(f, i) ==
    [f |-> f, rest |-> Code[f], leaving |-> FALSE, deferred |-> <<>>,
     vars |-> [x |-> 0, y |-> 0, i |-> i, caught |-> Nil, result |-> Nil]]

Init ==
    /\ \E f \in Mains : stack = <<Frame(f, 0)>>
    /\ panicking = FALSE
    /\ out = <<>>
    /\ results = << >>

-----------------------------------------------------------------------------
Top == Head(stack)
SetTop(frame) == stack' = <<frame>> \o Tail(stack)
Next1 == [Top EXCEPT !.rest = Tail(Top.rest)]
At(op) == stack # <<>> /\ ~Top.leaving /\ Top.rest # <<>> /\ Head(Top.rest).op = op
Instr == Head(Top.rest)

print ==
    /\ At("print") \/ At("sayVar")
    /\ out' = Append(out, IF Instr.op = "print" THEN Instr.t ELSE Top.vars[Instr.x])
    /\ SetTop(Next1)
    /\ UNCHANGED <<panicking, results>>

assign ==
    /\ At("assign")
    /\ SetTop([Next1 EXCEPT !.vars[Instr.x] = Instr.v])
    /\ UNCHANGED <<panicking, out, results>>

defer ==
    /\ At("defer")
    /\ SetTop([Next1 EXCEPT !.deferred =
                 <<[f |-> Instr.f, x |-> Instr.x, arg |-> Top.vars[Instr.x]]>> \o @])
    /\ UNCHANGED <<panicking, out, results>>

\* loopDefer's calls are numbered; i says how many it has made.
call ==
    /\ At("call")
    /\ stack' = <<Frame(Instr.f, Top.vars.i)>>
                \o <<[Next1 EXCEPT !.vars.i = @ + 1]>> \o Tail(stack)
    /\ UNCHANGED <<panicking, out, results>>

\* The result is set before the deferred functions run.
leave ==
    /\ \/ /\ At("return")
          /\ SetTop([Top EXCEPT !.leaving = TRUE, !.vars.result = Instr.v])
          /\ UNCHANGED panicking
       \/ /\ At("returnVar")
          /\ SetTop([Top EXCEPT !.leaving = TRUE, !.vars.result = Top.vars[Instr.x]])
          /\ UNCHANGED panicking
       \/ /\ At("panic")
          /\ SetTop([Top EXCEPT !.leaving = TRUE])
          /\ panicking' = TRUE
       \/ /\ stack # <<>> /\ ~Top.leaving /\ Top.rest = <<>>
          /\ SetTop([Top EXCEPT !.leaving = TRUE])
          /\ UNCHANGED panicking
    /\ UNCHANGED <<out, results>>

runDeferred ==
    /\ stack # <<>> /\ Top.leaving /\ Top.deferred # <<>>
    /\ LET d == Head(Top.deferred)
           popped == [Top EXCEPT !.deferred = Tail(@)]
           Stores(v) == SetTop([popped EXCEPT !.vars[d.x] = v])
       IN  \/ /\ d.f \in {"print", "closure", "Done"}
              /\ out' = Append(out, CASE d.f = "print" -> d.arg
                                      [] d.f = "closure" -> Top.vars[d.x]
                                      [] d.f = "Done" -> "Done")
              /\ SetTop(popped)
              /\ UNCHANGED panicking
           \/ /\ d.f = "increment" /\ Stores(Top.vars[d.x] + 1)
              /\ UNCHANGED <<out, panicking>>
           \/ /\ d.f = "one" /\ Stores(1)
              /\ UNCHANGED <<out, panicking>>
           \/ \* recover() in the deferred function stops the panic
              /\ d.f = "recover"
              /\ Stores(IF panicking THEN Recovered ELSE Top.vars[d.x])
              /\ out' = IF panicking THEN Append(out, "recovered") ELSE out
              /\ panicking' = FALSE
           \/ \* in a function called by it, it returns nil
              /\ d.f = "doRecover"
              /\ SetTop(popped)
              /\ out' = Append(out, "nil")
              /\ UNCHANGED panicking
    /\ UNCHANGED results

\* A panic nobody recovered goes on in the caller.
returned ==
    /\ stack # <<>> /\ Top.leaving /\ Top.deferred = <<>>
    /\ results' = (Top.f :> Top.vars.result) @@ results
    /\ stack' = IF panicking /\ Len(stack) > 1
                THEN <<[stack[2] EXCEPT !.leaving = TRUE]>> \o SubSeq(stack, 3, Len(stack))
                ELSE Tail(stack)
    /\ UNCHANGED <<panicking, out>>

Terminated == stack = <<>> /\ UNCHANGED deferVars

Next == print \/ assign \/ defer \/ call \/ leave \/ runDeferred \/ returned
        \/ Terminated

-----------------------------------------------------------------------------
\* What the comments say is printed (main.go:44, 60, 70) and returned (:99,
\* :112, :124), and no panic gets out of main.  A goroutine has recovered before
\* its Done lets main go on (:199-207).
DefersAsCommented ==
    LET printed ==
          [executionOrder |-> <<"start", "end", 3, 2, 1>>,
           argumentEvaluation |-> <<20, 20, 10>>,
           loopDefer |-> <<0, 0, 1, 1, 2, 2, "end">>,
           deferRecover |-> <<"recovered", "nil", "recovered", "Done">>]
        given == [func1 |-> 1, func2 |-> 2, namedReturnFunc |-> 1,
                  recoverFunc |-> Recovered]
    IN  stack = <<>> =>
        /\ ~panicking
        /\ \A f \in DOMAIN results :
              /\ f \in DOMAIN printed => out = printed[f]
              /\ f \in DOMAIN given => results[f] = given[f]
=============================================================================
