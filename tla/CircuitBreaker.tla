--------------------------- MODULE CircuitBreaker ---------------------------
(***************************************************************************)
(* CircuitBreaker of 07-microservice/circuitbreaker/main.go, shared by     *)
(* concurrent callers.  Every method holds cb.mu from its first to its     *)
(* last statement, so a method is one step; a caller's request is in       *)
(* flight between the step that lets it in and the step that reports its   *)
(* outcome, and any number of steps of other callers may come between.     *)
(*                                                                         *)
(* Time: the code only ever compares time.Since(openedAt) with             *)
(* openTimeout, so the clock is the number of ticks since openedAt, and it *)
(* stops at OpenTimeout + 1, after which the comparison cannot change.     *)
(***************************************************************************)
EXTENDS Naturals, FiniteSets

CONSTANTS Callers,      \* goroutines that share the breaker
          Threshold,    \* failures that open a closed breaker
          OpenTimeout   \* ticks an open breaker refuses calls

ASSUME BreakerAssumption ==
    /\ IsFiniteSet(Callers)
    /\ Threshold \in Nat \ {0}
    /\ OpenTimeout \in Nat

VARIABLES state, failures, successes,  \* the fields cb.mu protects
          sinceOpened,                 \* time.Since(cb.openedAt), saturated
          call                         \* per caller: the state its request in
                                       \* flight was let in under, or "idle"

breakerVars == <<state, failures, successes>>
vars == <<state, failures, successes, sinceOpened, call>>

States == {"Closed", "Open", "HalfOpen"}

TypeOK ==
    /\ state \in States
    /\ failures \in Nat
    /\ successes \in Nat
    /\ sinceOpened \in 0 .. OpenTimeout + 1
    /\ call \in [Callers -> {"idle", "Closed", "HalfOpen"}]

InFlight == {c \in Callers : call[c] # "idle"}

\* The zero openedAt lies further back than any timeout.
Init ==
    /\ state = "Closed"
    /\ failures = 0
    /\ successes = 0
    /\ sinceOpened = OpenTimeout + 1
    /\ call = [c \in Callers |-> "idle"]

-----------------------------------------------------------------------------
TimedOutSwapped == sinceOpened <= OpenTimeout  \* variant: comparison swapped

TimedOut == sinceOpened > OpenTimeout

AllowDirty(c) ==  \* variant: half-open starts with the old counters
    /\ call[c] = "idle"
    /\ state = "Open" => TimedOut
    /\ state' = IF state = "Closed" THEN "Closed" ELSE "HalfOpen"
    /\ call' = [call EXCEPT ![c] = state']
    /\ UNCHANGED <<failures, successes, sinceOpened>>

\* Allow: a closed breaker lets the caller in; an open one refuses until the
\* timeout, then becomes half-open with fresh counters and lets it in; a
\* half-open one lets it in unless a success has been counted.
Allow(c) ==
    /\ call[c] = "idle"
    /\ \/ /\ state = "Closed"
          /\ call' = [call EXCEPT ![c] = "Closed"]
          /\ UNCHANGED breakerVars
       \/ /\ state = "Open"
          /\ TimedOut
          /\ state' = "HalfOpen"
          /\ successes' = 0
          /\ failures' = 0
          /\ call' = [call EXCEPT ![c] = "HalfOpen"]
       \/ /\ state = "HalfOpen"
          /\ successes < 1
          /\ call' = [call EXCEPT ![c] = "HalfOpen"]
          /\ UNCHANGED breakerVars
       \/ /\ \/ state = "Open" /\ ~TimedOut
             \/ state = "HalfOpen" /\ successes >= 1
          /\ UNCHANGED <<breakerVars, call>>
    /\ UNCHANGED sinceOpened

RecordSuccessForgives(c) ==  \* variant: a success takes back one failure
    /\ call[c] # "idle"
    /\ call' = [call EXCEPT ![c] = "idle"]
    /\ failures' = failures - 1
    /\ UNCHANGED <<state, successes, sinceOpened>>

RecordSuccessEager(c) ==  \* variant: a success closes the breaker in any state
    /\ call[c] # "idle"
    /\ call' = [call EXCEPT ![c] = "idle"]
    /\ state' = "Closed"
    /\ failures' = 0
    /\ UNCHANGED <<successes, sinceOpened>>

RecordSuccessStuck(c) ==  \* variant: the success is counted, the state kept
    /\ call[c] # "idle"
    /\ call' = [call EXCEPT ![c] = "idle"]
    /\ successes' = IF state = "HalfOpen" THEN 1 ELSE successes
    /\ UNCHANGED <<state, failures, sinceOpened>>

\* RecordSuccess: only a half-open breaker looks at it; one success closes it.
RecordSuccess(c) ==
    /\ call[c] # "idle"
    /\ call' = [call EXCEPT ![c] = "idle"]
    /\ IF state = "HalfOpen"
       THEN /\ successes' = successes + 1
            /\ IF successes' >= 1
               THEN state' = "Closed" /\ failures' = 0
               ELSE UNCHANGED <<state, failures>>
       ELSE UNCHANGED breakerVars
    /\ UNCHANGED sinceOpened

TripsLate(n) == state = "HalfOpen" \/ n > Threshold  \* variant: > for >=
\* The condition under which the n-th failure opens (or re-opens) the breaker.
Trips(n) == state = "HalfOpen" \/ n >= Threshold

\* RecordFailure: counts in every state, also when the breaker is open
\* already, and every failure at or past the threshold restarts the timeout.
RecordFailure(c) ==
    /\ call[c] # "idle"
    /\ call' = [call EXCEPT ![c] = "idle"]
    /\ failures' = failures + 1
    /\ IF Trips(failures')
       THEN state' = "Open" /\ sinceOpened' = 0
       ELSE UNCHANGED <<state, sinceOpened>>
    /\ UNCHANGED successes

Tick ==
    /\ sinceOpened <= OpenTimeout
    /\ sinceOpened' = sinceOpened + 1
    /\ UNCHANGED <<breakerVars, call>>

Next ==
    \/ Tick
    \/ \E c \in Callers : Allow(c) \/ RecordSuccess(c) \/ RecordFailure(c)

Spec == Init /\ [][Next]_vars

\* Time passes, callers that were refused try again, calls return.
Fairness ==
    /\ WF_vars(Tick)
    /\ \A c \in Callers : /\ WF_vars(Allow(c))
                          /\ WF_vars(RecordSuccess(c) \/ RecordFailure(c))

FairSpec == Spec /\ Fairness

-----------------------------------------------------------------------------
\* A closed breaker always has failures left to spend: no interleaving of
\* reports, late ones included, leaves it closed with its threshold used up.
ClosedHasBudget == state = "Closed" => failures < Threshold

\* A half-open breaker has counted nothing: its first report, whoever makes
\* it, decides, and the guard `successes < 1` of Allow never refuses anyone.
HalfOpenUndecided == state = "HalfOpen" => failures = 0 /\ successes = 0

\* The counters of RecordSuccess and RecordFailure as the state confines them.
CounterInv == ClosedHasBudget /\ HalfOpenUndecided

\* The failure counter is bounded although RecordFailure also counts in an
\* open breaker: reports of calls let in earlier are all that can still come.
LateFailuresBounded ==
    state = "Open" =>
        failures + Cardinality(InFlight) < Threshold + Cardinality(Callers)

\* The breaker goes through the documented states in the documented order,
\* and leaves Open by the timeout only, however reports are interleaved.
Diagram == INSTANCE BreakerStates WITH quiet <- TimedOut
FollowsDiagram == Diagram!Spec

\* Late failures may postpone the probe, but not for ever.
OpenLeadsToProbe == state = "Open" ~> state = "HalfOpen"

\* Once the service stops failing, the breaker ends up closed for good.
RecoversForGood ==
    <>[][\A c \in Callers : ~RecordFailure(c)]_vars => <>[](state = "Closed")

-----------------------------------------------------------------------------
\* What the comments say and the code does not do.

\* main.go:225 "only a few requests are let through" in Half-Open: whatever
\* "few" is, it is not everyone who asks.
ProbesAreFew == ~ \A c \in Callers : call[c] = "HalfOpen"
=============================================================================
