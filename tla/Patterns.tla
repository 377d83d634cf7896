------------------------------ MODULE Patterns ------------------------------
(***************************************************************************)
(* The concurrency patterns main() of 02-concurrency/pattern/main.go runs. *)
(* It runs them one after the other and each keeps its state in local      *)
(* variables, so what one does cannot depend on another: a behaviour here  *)
(* is a behaviour of one of them, chosen at the start.                     *)
(***************************************************************************)
EXTENDS PatternParameters, Sequences

VARIABLES demo,
          \* workerPool
          poolMain, sent, taken, pc, job, results, resultsClosed, poolCollected,
          \* fanInOut
          next, inClosed, proc, procVal, fwd, fwdVal, outClosed,
          fanMain, fanCollected,
          \* errgroupPattern
          task, given, err, onceUsed, groupCtx, waiter, failed,
          \* pipeline
          ctx, genNext, genClosed, square, squareVal, filter, filterVal,
          stagesMain, printed,
          \* rateLimiting
          loop, started, sem, wg, running, leaving

poolVars == <<poolMain, sent, taken, pc, job, results, resultsClosed, poolCollected>>
fanVars == <<next, inClosed, proc, procVal, fwd, fwdVal, outClosed,
             fanMain, fanCollected>>
groupVars == <<task, given, err, onceUsed, groupCtx, waiter, failed>>
stagesVars == <<ctx, genNext, genClosed, square, squareVal, filter, filterVal,
                stagesMain, printed>>
semVars == <<loop, started, sem, wg, running, leaving>>
vars == <<demo, poolVars, fanVars, groupVars, stagesVars, semVars>>

Pool == INSTANCE WorkerPool WITH main <- poolMain, collected <- poolCollected
Fan == INSTANCE FanInOut WITH main <- fanMain, collected <- fanCollected
Group == INSTANCE ErrGroup
Stages == INSTANCE Pipeline WITH main <- stagesMain
Limited == INSTANCE Semaphore

Init ==
    /\ demo \in {"workerPool", "fanInOut", "errgroupPattern", "pipeline",
                "rateLimiting"}
    /\ Pool!Init /\ Fan!Init /\ Group!Init /\ Stages!Init /\ Limited!Init

workerPool ==
    /\ demo = "workerPool" /\ Pool!Next
    /\ UNCHANGED <<demo, fanVars, groupVars, stagesVars, semVars>>

fanInOut ==
    /\ demo = "fanInOut" /\ Fan!Next
    /\ UNCHANGED <<demo, poolVars, groupVars, stagesVars, semVars>>

errgroupPattern ==
    /\ demo = "errgroupPattern" /\ Group!Next
    /\ UNCHANGED <<demo, poolVars, fanVars, stagesVars, semVars>>

pipeline ==
    /\ demo = "pipeline" /\ Stages!Next
    /\ UNCHANGED <<demo, poolVars, fanVars, groupVars, semVars>>

rateLimiting ==
    /\ demo = "rateLimiting" /\ Limited!Next
    /\ UNCHANGED <<demo, poolVars, fanVars, groupVars, stagesVars>>

Next == workerPool \/ fanInOut \/ errgroupPattern \/ pipeline \/ rateLimiting

Spec == Init /\ [][Next]_vars

\* A goroutine that can go on, alone or with its partner on a channel, does;
\* tasks return sooner or later; the pipeline's timeout need not come.
FairSpec ==
    /\ Spec
    /\ WF_poolVars(demo = "workerPool" /\ Pool!Main)
    /\ WF_poolVars(demo = "workerPool" /\ Pool!CloseResults)
    /\ \A w \in Workers : WF_poolVars(demo = "workerPool" /\ Pool!Worker(w))
    /\ WF_fanVars(demo = "fanInOut" /\ Fan!Next)
    /\ WF_groupVars(demo = "errgroupPattern" /\ Group!Caller)
    /\ \A t \in Tasks : WF_groupVars(demo = "errgroupPattern" /\ Group!Task(t))
    /\ WF_stagesVars(demo = "pipeline" /\ Stages!Gen)
    /\ WF_stagesVars(demo = "pipeline" /\ Stages!Square)
    /\ WF_stagesVars(demo = "pipeline" /\ Stages!Filter)
    /\ WF_stagesVars(demo = "pipeline" /\ Stages!Finish)
    /\ WF_semVars(demo = "rateLimiting" /\ Limited!Loop)
    /\ \A t \in 1 .. NumLimited :
          WF_semVars(demo = "rateLimiting" /\ Limited!Task(t))

-----------------------------------------------------------------------------
\* The variables, channels and goroutine states of the five demos.
TypeOK ==
    Pool!TypeOK /\ Fan!TypeOK /\ Group!TypeOK /\ Stages!TypeOK /\ Limited!TypeOK

\* workerPool and fanInOut: what was sent and not yet collected is in a
\* channel or in the hands of a goroutine, once.
Accounting == Pool!Accounting /\ Pool!OneCopy /\ Fan!Backpressure

\* workerPool and fanInOut: a channel is closed when nobody can send on it
\* any more, and whoever sees it closed has seen all that was sent on it.
ClosedInOrder == Pool!ClosedInOrder /\ Fan!CloseCascade

\* workerPool: although main collects nothing while it sends, somebody can
\* always move.
NeverStuck == Pool!NeverStuck

\* workerPool and fanInOut: main gets each result exactly once.
ExactlyOnce == Pool!ExactlyOnce /\ Fan!ExactlyOnce

\* errGroup: Wait is a barrier, and returns an error exactly when a task did.
WaitReportsFailure == Group!WaitReportsFailure

\* errGroup: no later failure replaces the first error recorded.
FirstErrorStays == Group!FirstErrorStays

\* pipeline: wherever the timeout strikes, main has printed an initial part of
\* the result, and nothing but the timeout cuts it short.
PrintsTheResult == Stages!PrefixOfResult /\ Stages!CompleteUnlessExpired

\* rateLimiting: permits and wait group agree with the tasks that run; all
\* permits are back when Wait returns.
PermitsAccounted == Limited!PermitsAccounted /\ Limited!WaitGroupAccounted

\* Every demo comes to its end with all its goroutines, the first two with
\* every result collected.
Completes ==
    /\ demo = "workerPool" => Pool!Completes
    /\ demo = "fanInOut" => Fan!Completes
    /\ demo = "errgroupPattern" => Group!WaitReturns
    /\ demo = "pipeline" => Stages!AllReturn
    /\ demo = "rateLimiting" => Limited!Completes

-----------------------------------------------------------------------------
\* What a comment says and the code does not do.
\* main.go:214 "the first error cancels the others".
FirstErrorCancels == Group!FirstErrorCancels
=============================================================================
