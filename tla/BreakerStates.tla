---------------------------- MODULE BreakerStates ----------------------------
(***************************************************************************)
(* What a circuit breaker promises: the three-state diagram of the comment *)
(* at 07-microservice/circuitbreaker/main.go:170-182.  `quiet` says that   *)
(* the open timeout has run out since the breaker last recorded a failure  *)
(* while it was being opened.                                              *)
(***************************************************************************)
VARIABLES state, quiet

vars == <<state, quiet>>

Init == /\ state = "Closed"
        /\ quiet = TRUE

\* Enough failures, or one failed probe: the breaker opens and the timeout
\* starts afresh.  A failure reported while it is already open restarts it.
Trip == /\ state' = "Open"
        /\ quiet' = FALSE

\* Time passes.
Elapse == /\ quiet' = TRUE
          /\ UNCHANGED state

\* An open breaker may only be left through a probe, after the timeout.
Probe == /\ state = "Open"
         /\ quiet
         /\ state' = "HalfOpen"
         /\ UNCHANGED quiet

\* A half-open breaker closes when a call is reported successful.
Recover == /\ state = "HalfOpen"
           /\ state' = "Closed"
           /\ UNCHANGED quiet

Next == Trip \/ Elapse \/ Probe \/ Recover

Spec == Init /\ [][Next]_vars
==============================================================================
