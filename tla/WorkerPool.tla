----------------------------- MODULE WorkerPool -----------------------------
(***************************************************************************)
(* workerPool of 02-concurrency/pattern/main.go: main sends all jobs into  *)
(* a buffered channel and closes it, the workers range over it and send a  *)
(* result for each job, a goroutine that waits for the workers closes the  *)
(* results, and only then does main begin to collect.                      *)
(*                                                                         *)
(* The jobs channel is FIFO with one sender, so it holds the jobs from     *)
(* taken to sent - 1 and two counters describe it.  The wait group is at   *)
(* zero when every worker has left, since Add runs before each go.         *)
(***************************************************************************)
EXTENDS PatternParameters, Sequences

VARIABLES main,           \* what main is doing
          sent, taken,    \* jobs sent to and received from the jobs channel
          pc, job,        \* per worker: what it is at, and its loop variable
          results,        \* the results channel
          resultsClosed,
          collected       \* what main received

vars == <<main, sent, taken, pc, job, results, resultsClosed, collected>>

Jobs == 0 .. NumJobs - 1
Result(j) == j * 2

TypeOK ==
    /\ main \in {"sending", "collecting", "done"}
    /\ sent \in 0 .. NumJobs
    /\ taken \in 0 .. sent
    /\ pc \in [Workers -> {"receiving", "sending", "left"}]
    /\ job \in [Workers -> Nat]
    /\ results \in Seq(Nat)
    /\ resultsClosed \in BOOLEAN
    /\ collected \in Seq(Nat)

Init ==
    /\ main = "sending"
    /\ sent = 0 /\ taken = 0
    /\ pc = [w \in Workers |-> "receiving"]
    /\ job = [w \in Workers |-> 0]
    /\ results = <<>> /\ collected = <<>>
    /\ resultsClosed = FALSE

JobsClosed == main # "sending"
Sending == {w \in Workers : pc[w] = "sending"}
AllLeft == \A w \in Workers : pc[w] = "left"

-----------------------------------------------------------------------------
CanSend == sent < NumJobs /\ sent - taken < JobCap

SendJob ==
    /\ main = "sending" /\ CanSend
    /\ sent' = sent + 1
    /\ UNCHANGED <<main, taken, pc, job, results, resultsClosed, collected>>

\* close(jobs), then the closer and the collecting loop start.
CloseJobs ==
    /\ main = "sending" /\ sent = NumJobs
    /\ main' = "collecting"
    /\ UNCHANGED <<sent, taken, pc, job, results, resultsClosed, collected>>

TakeShared(w) ==  \* variant: one loop variable for all workers
    /\ pc[w] = "receiving" /\ taken < sent
    /\ taken' = taken + 1
    /\ job' = [v \in Workers |-> taken]
    /\ pc' = [pc EXCEPT ![w] = "sending"]
    /\ UNCHANGED <<main, sent, results, resultsClosed, collected>>

Take(w) ==
    /\ pc[w] = "receiving" /\ taken < sent
    /\ taken' = taken + 1
    /\ job' = [job EXCEPT ![w] = taken]
    /\ pc' = [pc EXCEPT ![w] = "sending"]
    /\ UNCHANGED <<main, sent, results, resultsClosed, collected>>

PutOnce(w) ==  \* variant: a worker leaves after its first result
    /\ pc[w] = "sending" /\ ~resultsClosed /\ Len(results) < ResultCap
    /\ results' = Append(results, Result(job[w]))
    /\ pc' = [pc EXCEPT ![w] = "left"]
    /\ UNCHANGED <<main, sent, taken, job, resultsClosed, collected>>

Put(w) ==
    /\ pc[w] = "sending" /\ ~resultsClosed /\ Len(results) < ResultCap
    /\ results' = Append(results, Result(job[w]))
    /\ pc' = [pc EXCEPT ![w] = "receiving"]
    /\ UNCHANGED <<main, sent, taken, job, resultsClosed, collected>>

\* The range loop ends on a closed and drained channel; wg.Done.
Leave(w) ==
    /\ pc[w] = "receiving" /\ JobsClosed /\ taken = sent
    /\ pc' = [pc EXCEPT ![w] = "left"]
    /\ UNCHANGED <<main, sent, taken, job, results, resultsClosed, collected>>

\* wg.Wait returns; close(results).
CloseResults ==
    /\ JobsClosed /\ ~resultsClosed /\ AllLeft
    /\ resultsClosed' = TRUE
    /\ UNCHANGED <<main, sent, taken, pc, job, results, collected>>

Collect ==
    /\ main = "collecting" /\ results # <<>>
    /\ collected' = Append(collected, Head(results))
    /\ results' = Tail(results)
    /\ UNCHANGED <<main, sent, taken, pc, job, resultsClosed>>

Finish ==
    /\ main = "collecting" /\ resultsClosed /\ results = <<>>
    /\ main' = "done"
    /\ UNCHANGED <<sent, taken, pc, job, results, resultsClosed, collected>>

Terminated == main = "done" /\ UNCHANGED vars

Main == SendJob \/ CloseJobs \/ Collect \/ Finish
Worker(w) == Take(w) \/ Put(w) \/ Leave(w)

Next == Main \/ CloseResults \/ Terminated \/ \E w \in Workers : Worker(w)

Spec == Init /\ [][Next]_vars

\* Every goroutine that can run is scheduled again and again.
FairSpec ==
    /\ Spec
    /\ WF_vars(Main) /\ WF_vars(CloseResults)
    /\ \A w \in Workers : WF_vars(Worker(w))

-----------------------------------------------------------------------------
\* Every job received from the channel is with a worker, in the results or
\* collected; channels respect their capacities.
Accounting ==
    /\ taken = Cardinality(Sending) + Len(results) + Len(collected)
    /\ sent - taken <= JobCap
    /\ Len(results) <= ResultCap

\* When the results are closed no worker can send on them any more (it would
\* panic), and main stops with nothing left in the channel.
ClosedInOrder ==
    /\ resultsClosed => AllLeft
    /\ main = "done" => resultsClosed /\ results = <<>>
    /\ \A w \in Workers : pc[w] = "left" => JobsClosed /\ taken = sent

\* Main collects nothing while it sends, so the jobs must fit into the two
\* channels and the workers' hands; then somebody can always move.
Fits == NumJobs <= JobCap + ResultCap + Cardinality(Workers)

SomeoneCanMove ==
    \/ main = "sending" /\ (CanSend \/ sent = NumJobs)
    \/ main = "collecting" /\ (results # <<>> \/ resultsClosed)
    \/ \E w \in Workers : \/ pc[w] = "receiving" /\ (taken < sent \/ JobsClosed)
                          \/ pc[w] = "sending" /\ Len(results) < ResultCap
    \/ JobsClosed /\ ~resultsClosed /\ AllLeft

NeverStuck == Fits /\ main # "done" => SomeoneCanMove

\* Main gets the result of every job exactly once, in some order.
Pool == INSTANCE Delivery WITH Items <- {Result(j) : j \in Jobs},
                               delivered <- collected
ExactlyOnce == Pool!Spec

\* The invariant behind it: a job that was taken has one copy of itself or of
\* its result among the workers, the results and what main collected.
OneCopy ==
    /\ \A v, w \in Sending : job[v] = job[w] => v = w
    /\ \A w \in Sending :
          /\ job[w] < taken
          /\ \A i \in 1 .. Len(results) : results[i] # Result(job[w])
          /\ \A i \in 1 .. Len(collected) : collected[i] # Result(job[w])
    /\ \A i, k \in 1 .. Len(results) : results[i] = results[k] => i = k
    /\ \A i \in 1 .. Len(results), k \in 1 .. Len(collected) :
          results[i] # collected[k]
    /\ \A i \in 1 .. Len(results) :
          \E j \in 0 .. taken - 1 : results[i] = Result(j)
    /\ \A i \in 1 .. Len(collected) :
          \E j \in 0 .. taken - 1 : collected[i] = Result(j)

\* The pool winds down, with every result collected.
Completes == <>(main = "done" /\ Len(collected) = NumJobs)
=============================================================================
