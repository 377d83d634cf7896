------------------------------ MODULE Semaphore ------------------------------
(***************************************************************************)
(* rateLimiting of 02-concurrency/pattern/main.go: a buffered channel used *)
(* as a semaphore.  The loop that starts the tasks takes a permit BEFORE   *)
(* it starts each, so it waits when all permits are out; a task gives its  *)
(* permit back in a deferred function and then, deferred before it, calls  *)
(* wg.Done.                                                                *)
(***************************************************************************)
EXTENDS PatternParameters

VARIABLES loop,     \* the loop is at "Add", "acquire", "go" or past it: "Wait"
          started,  \* tasks the loop has started
          sem,      \* permits in the channel
          wg,       \* counter of the wait group
          running,  \* tasks that hold a permit
          leaving   \* tasks between their two deferred functions

vars == <<loop, started, sem, wg, running, leaving>>

TypeOK ==
    /\ loop \in {"Add", "acquire", "go", "Wait", "done"}
    /\ started \in 0 .. NumLimited
    /\ sem \in 0 .. Permits
    /\ wg \in 0 .. NumLimited
    /\ running \subseteq 1 .. started
    /\ leaving \subseteq 1 .. started

Init ==
    /\ loop = "Add"
    /\ started = 0 /\ sem = 0 /\ wg = 0
    /\ running = {} /\ leaving = {}

-----------------------------------------------------------------------------
\* wg.Add(1), for every task, then the loop ends.
Add ==
    /\ loop = "Add"
    /\ IF started < NumLimited
       THEN loop' = "acquire" /\ wg' = wg + 1
       ELSE loop' = "Wait" /\ UNCHANGED wg
    /\ UNCHANGED <<started, sem, running, leaving>>

AcquireTry ==  \* variant: the send has a default case
    /\ loop = "acquire"
    /\ sem' = IF sem < Permits THEN sem + 1 ELSE sem
    /\ loop' = "go"
    /\ UNCHANGED <<started, wg, running, leaving>>

\* sem <- struct{}{}
Acquire ==
    /\ loop = "acquire" /\ sem < Permits
    /\ sem' = sem + 1
    /\ loop' = "go"
    /\ UNCHANGED <<started, wg, running, leaving>>

Start ==
    /\ loop = "go"
    /\ started' = started + 1
    /\ running' = running \cup {started'}
    /\ loop' = "Add"
    /\ UNCHANGED <<sem, wg, leaving>>

\* <-sem, the function deferred last.
Release(t) ==
    /\ t \in running
    /\ sem' = sem - 1
    /\ running' = running \ {t}
    /\ leaving' = leaving \cup {t}
    /\ UNCHANGED <<loop, started, wg>>

\* wg.Done, the function deferred first.
Leave(t) ==
    /\ t \in leaving
    /\ wg' = wg - 1
    /\ leaving' = leaving \ {t}
    /\ UNCHANGED <<loop, started, sem, running>>

\* wg.Wait returns.
Wait ==
    /\ loop = "Wait" /\ wg = 0
    /\ loop' = "done"
    /\ UNCHANGED <<started, sem, wg, running, leaving>>

Terminated == loop = "done" /\ UNCHANGED vars

Loop == Add \/ Acquire \/ Start \/ Wait
Task(t) == Release(t) \/ Leave(t)

Next == Loop \/ Terminated \/ \E t \in 1 .. started : Task(t)

Spec == Init /\ [][Next]_vars

FairSpec == Spec /\ WF_vars(Loop) /\ \A t \in 1 .. NumLimited : WF_vars(Task(t))

-----------------------------------------------------------------------------
\* Every permit out is held by a task that runs, or by the loop for the task
\* it is about to start, so no more than Permits tasks run; and because a task
\* releases before it calls wg.Done, all permits are back when Wait returns.
PermitsAccounted ==
    /\ sem = Cardinality(running) + (IF loop = "go" THEN 1 ELSE 0)
    /\ sem <= Permits
    /\ loop = "done" => sem = 0

\* The wait group counts the tasks that are not through, and the one the loop
\* is about to start: Wait cannot return between Add and go.
WaitGroupAccounted ==
    wg =   Cardinality(running) + Cardinality(leaving)
         + (IF loop \in {"acquire", "go"} THEN 1 ELSE 0)

\* The loop gets all its tasks started and Wait returns.
Completes == <>(loop = "done")
=============================================================================
