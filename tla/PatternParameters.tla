------------------------- MODULE PatternParameters --------------------------
(***************************************************************************)
(* The sizes of the concurrency patterns of 02-concurrency/pattern/main.go *)
(* and the actors in them.                                                 *)
(***************************************************************************)
EXTENDS Integers, FiniteSets

CONSTANTS Workers,    \* workerPool: the workers,
          NumJobs,    \* the jobs main sends,
          JobCap,     \* the capacity of the jobs channel,
          ResultCap,  \* and of the results channel
          Procs,      \* fanInOut: one processor and one forwarder each,
          NumItems,   \* and what the generator sends
          Tasks,      \* errGroup: the tasks,
          Nil,        \* and no error
          NumValues,  \* pipeline: gen emits 1 .. NumValues,
          Floor,      \* and filter keeps v > Floor
          NumLimited, \* rateLimiting: the tasks,
          Permits     \* and how many of them may run at once

ASSUME PoolAssumption ==
    /\ IsFiniteSet(Workers) /\ Workers # {}
    /\ NumJobs \in Nat
    /\ JobCap \in Nat \ {0}
    /\ ResultCap \in Nat \ {0}

ASSUME FanAssumption == IsFiniteSet(Procs) /\ NumItems \in Nat

ASSUME GroupAssumption == IsFiniteSet(Tasks) /\ Nil \notin Tasks

ASSUME PipelineAssumption == NumValues \in Nat /\ Floor \in Nat

ASSUME LimitAssumption == NumLimited \in Nat /\ Permits \in Nat \ {0}
=============================================================================
