------------------------------ MODULE ErrGroup ------------------------------
(***************************************************************************)
(* errGroup of 02-concurrency/pattern/main.go: Go starts a task with a     *)
(* context, the first task to fail leaves its error and cancels, Wait      *)
(* waits for all tasks.  What a task does is up to it: it may return nil   *)
(* or an error at any time.                                                *)
(***************************************************************************)
EXTENDS PatternParameters

VARIABLES task,     \* per task: "new", "running", "failed" or "done"
          given,    \* whose context its function was called with
          err,      \* g.err: the task whose error it is, or Nil
          onceUsed, \* errOnce has run
          groupCtx, \* the context of newErrGroup: "live" or "cancelled"
          waiter,   \* the caller: "starting", "waiting" or "returned"
          failed    \* history: the tasks that returned an error

vars == <<task, given, err, onceUsed, groupCtx, waiter, failed>>

TypeOK ==
    /\ task \in [Tasks -> {"new", "running", "failed", "done"}]
    /\ given \in [Tasks -> {"none", "group", "own"}]
    /\ err \in Tasks \cup {Nil}
    /\ onceUsed = (err # Nil)
    /\ groupCtx \in {"live", "cancelled"}
    /\ waiter \in {"starting", "waiting", "returned"}
    /\ failed \subseteq Tasks

Init ==
    /\ task = [t \in Tasks |-> "new"]
    /\ given = [t \in Tasks |-> "none"]
    /\ err = Nil /\ onceUsed = FALSE
    /\ groupCtx = "live"
    /\ waiter = "starting"
    /\ failed = {}

-----------------------------------------------------------------------------
\* cancelCtx: a new context, whose cancel function nobody keeps.
cancelCtx == "own"

Go(t) ==
    /\ waiter = "starting" /\ task[t] = "new"
    /\ task' = [task EXCEPT ![t] = "running"]
    /\ given' = [given EXCEPT ![t] = cancelCtx]
    /\ UNCHANGED <<err, onceUsed, groupCtx, waiter, failed>>

\* f returns nil; wg.Done.
Succeed(t) ==
    /\ task[t] = "running"
    /\ task' = [task EXCEPT ![t] = "done"]
    /\ UNCHANGED <<given, err, onceUsed, groupCtx, waiter, failed>>

\* f returns an error; errOnce.Do comes next.
Fail(t) ==
    /\ task[t] = "running"
    /\ task' = [task EXCEPT ![t] = "failed"]
    /\ failed' = failed \cup {t}
    /\ UNCHANGED <<given, err, onceUsed, groupCtx, waiter>>

ReportLast(t) ==  \* variant: no Once, the last error wins
    /\ task[t] = "failed"
    /\ err' = t /\ groupCtx' = "cancelled"
    /\ task' = [task EXCEPT ![t] = "done"]
    /\ UNCHANGED <<given, onceUsed, waiter, failed>>

\* errOnce.Do, then wg.Done.
Report(t) ==
    /\ task[t] = "failed"
    /\ IF onceUsed
       THEN UNCHANGED <<err, groupCtx, onceUsed>>
       ELSE err' = t /\ groupCtx' = "cancelled" /\ onceUsed' = TRUE
    /\ task' = [task EXCEPT ![t] = "done"]
    /\ UNCHANGED <<given, waiter, failed>>

CallWait ==
    /\ waiter = "starting"
    /\ \A t \in Tasks : task[t] # "new"
    /\ waiter' = "waiting"
    /\ UNCHANGED <<task, given, err, onceUsed, groupCtx, failed>>

AllDoneButFailing ==  \* variant: Done runs before the error is recorded
    \A t \in Tasks : task[t] \in {"done", "failed"}

AllDone == \A t \in Tasks : task[t] = "done"

Wait ==
    /\ waiter = "waiting" /\ AllDone
    /\ groupCtx' = "cancelled"
    /\ waiter' = "returned"
    /\ UNCHANGED <<task, given, err, onceUsed, failed>>

Terminated == waiter = "returned" /\ UNCHANGED vars

Caller == CallWait \/ Wait \/ \E t \in Tasks : Go(t)
Task(t) == Succeed(t) \/ Fail(t) \/ Report(t)

Next == Caller \/ Terminated \/ \E t \in Tasks : Task(t)

Spec == Init /\ [][Next]_vars

\* The caller goes on, tasks return sooner or later, goroutines are scheduled.
FairSpec == Spec /\ WF_vars(Caller) /\ \A t \in Tasks : WF_vars(Task(t))

-----------------------------------------------------------------------------
\* Wait returns an error exactly when some task failed, and it is the error
\* of a task that did.
WaitReportsFailure ==
    waiter = "returned" => IF failed = {} THEN err = Nil ELSE err \in failed

\* Once an error is recorded no later failure replaces it: the error Wait
\* returns is the one that cancelled the group's context.
FirstErrorStays == [][err # Nil => err' = err]_vars

\* Wait returns once the tasks have.
WaitReturns == <>(waiter = "returned")

-----------------------------------------------------------------------------
\* What the comment says and the code does not do.
\* pattern/main.go:214 "the first error cancels the others": from the moment
\* an error is recorded, a task that still runs finds its context cancelled.
FirstErrorCancels ==
    err # Nil => \A t \in Tasks :
                    task[t] = "running" => given[t] = "group" /\ groupCtx = "cancelled"
=============================================================================
