------------------------ MODULE CircuitBreakerProofs ------------------------
(***************************************************************************)
(* Proofs about CircuitBreaker for every finite set of callers, every      *)
(* threshold and every timeout.                                            *)
(***************************************************************************)
EXTENDS CircuitBreaker, FiniteSetTheorems, TLAPS

\* The fields of the breaker and the calls in flight keep their types,
\* whatever order callers are let in and report in.
THEOREM TypeCorrect == Spec => []TypeOK
<1>1. Init => TypeOK
  BY BreakerAssumption DEF Init, TypeOK, States
<1>2. TypeOK /\ [Next]_vars => TypeOK'
  <2> SUFFICES ASSUME TypeOK, [Next]_vars
               PROVE  TypeOK'
    OBVIOUS
  <2> USE BreakerAssumption DEF TypeOK, States
  <2>1. CASE Tick
    BY <2>1 DEF Tick, breakerVars
  <2>2. ASSUME NEW c \in Callers, Allow(c)
        PROVE  TypeOK'
    BY <2>2 DEF Allow, breakerVars
  <2>3. ASSUME NEW c \in Callers, RecordSuccess(c)
        PROVE  TypeOK'
    BY <2>3 DEF RecordSuccess, breakerVars
  <2>4. ASSUME NEW c \in Callers, RecordFailure(c)
        PROVE  TypeOK'
    BY <2>4 DEF RecordFailure
  <2>5. CASE UNCHANGED vars
    BY <2>5 DEF vars
  <2>. QED
    BY <2>1, <2>2, <2>3, <2>4, <2>5 DEF Next
<1>. QED
  BY <1>1, <1>2, PTL DEF Spec

\* However late reports interleave, a closed breaker has failures left to
\* spend and a half-open one has counted nothing yet.
THEOREM CountersConfined == Spec => []CounterInv
<1>1. Init => CounterInv
  BY BreakerAssumption DEF Init, CounterInv, ClosedHasBudget, HalfOpenUndecided
<1>2. TypeOK /\ CounterInv /\ [Next]_vars => CounterInv'
  <2> SUFFICES ASSUME TypeOK, CounterInv, [Next]_vars
               PROVE  CounterInv'
    OBVIOUS
  <2> USE BreakerAssumption
      DEF TypeOK, States, CounterInv, ClosedHasBudget, HalfOpenUndecided
  <2>1. CASE Tick
    BY <2>1 DEF Tick, breakerVars
  <2>2. ASSUME NEW c \in Callers, Allow(c)
        PROVE  CounterInv'
    BY <2>2 DEF Allow, breakerVars
  <2>3. ASSUME NEW c \in Callers, RecordSuccess(c)
        PROVE  CounterInv'
    BY <2>3 DEF RecordSuccess, breakerVars
  <2>4. ASSUME NEW c \in Callers, RecordFailure(c)
        PROVE  CounterInv'
    BY <2>4 DEF RecordFailure, Trips
  <2>5. CASE UNCHANGED vars
    BY <2>5 DEF vars
  <2>. QED
    BY <2>1, <2>2, <2>3, <2>4, <2>5 DEF Next
<1>. QED
  BY <1>1, <1>2, TypeCorrect, PTL DEF Spec

-----------------------------------------------------------------------------
\* A report takes exactly its caller out of the set of calls in flight.
LEMMA ReportLeavesFlight ==
  ASSUME TypeOK, NEW c \in Callers, call[c] # "idle",
         call' = [call EXCEPT ![c] = "idle"]
  PROVE  /\ IsFiniteSet(InFlight)
         /\ Cardinality(InFlight') = Cardinality(InFlight) - 1
         /\ Cardinality(InFlight) \in Nat \ {0}
         /\ Cardinality(InFlight) <= Cardinality(Callers)
         /\ Cardinality(Callers) \in Nat
<1>1. IsFiniteSet(InFlight) /\ Cardinality(InFlight) <= Cardinality(Callers)
  BY FS_Subset, BreakerAssumption DEF InFlight
<1>2. c \in InFlight /\ InFlight' = InFlight \ {c}
  BY DEF InFlight, TypeOK
<1>3. Cardinality(InFlight') = Cardinality(InFlight) - 1
  BY <1>1, <1>2, FS_RemoveElement
<1>4. Cardinality(InFlight) \in Nat /\ Cardinality(InFlight) # 0
  BY <1>1, <1>2, FS_CardinalityType, FS_EmptySet
<1>. QED
  BY <1>1, <1>3, <1>4, BreakerAssumption, FS_CardinalityType

\* RecordFailure goes on counting while the breaker is open, yet the counter
\* stays below Threshold plus the number of callers.
THEOREM LateFailuresAreBounded == Spec => []LateFailuresBounded
<1>1. Init => LateFailuresBounded
  BY DEF Init, LateFailuresBounded
<1>2. TypeOK /\ CounterInv /\ LateFailuresBounded /\ [Next]_vars
        => LateFailuresBounded'
  <2> SUFFICES ASSUME TypeOK, CounterInv, LateFailuresBounded, [Next]_vars
               PROVE  LateFailuresBounded'
    OBVIOUS
  <2> USE BreakerAssumption
  <2>1. CASE Tick
    BY <2>1 DEF Tick, breakerVars, LateFailuresBounded, InFlight
  <2>2. ASSUME NEW c \in Callers, Allow(c)
        PROVE  LateFailuresBounded'
    BY <2>2 DEF Allow, breakerVars, LateFailuresBounded, InFlight
  <2>3. ASSUME NEW c \in Callers, RecordSuccess(c)
        PROVE  LateFailuresBounded'
    <3>1. Cardinality(InFlight') = Cardinality(InFlight) - 1
          /\ Cardinality(InFlight) \in Nat \ {0} /\ Cardinality(Callers) \in Nat
      BY <2>3, ReportLeavesFlight DEF RecordSuccess
    <3>2. state' = "Open" => state = "Open" /\ failures' = failures
      BY <2>3 DEF RecordSuccess, breakerVars
    <3>. QED
      BY <3>1, <3>2 DEF LateFailuresBounded, TypeOK
  <2>4. ASSUME NEW c \in Callers, RecordFailure(c)
        PROVE  LateFailuresBounded'
    <3>1. /\ Cardinality(InFlight') = Cardinality(InFlight) - 1
          /\ Cardinality(InFlight) \in Nat \ {0}
          /\ Cardinality(InFlight) <= Cardinality(Callers)
          /\ Cardinality(Callers) \in Nat
      BY <2>4, ReportLeavesFlight DEF RecordFailure
    <3>2. failures' = failures + 1
      BY <2>4 DEF RecordFailure
    <3>3. CASE state = "Open"
      BY <3>1, <3>2, <3>3 DEF LateFailuresBounded, TypeOK
    <3>4. CASE state # "Open"
      <4>1. failures < Threshold
        BY <3>4 DEF CounterInv, ClosedHasBudget, HalfOpenUndecided, TypeOK, States
      <4>. QED
        BY <3>1, <3>2, <4>1 DEF LateFailuresBounded, TypeOK
    <3>. QED
      BY <3>3, <3>4
  <2>5. CASE UNCHANGED vars
    BY <2>5 DEF vars, LateFailuresBounded, InFlight
  <2>. QED
    BY <2>1, <2>2, <2>3, <2>4, <2>5 DEF Next
<1>. QED
  BY <1>1, <1>2, TypeCorrect, CountersConfined, PTL DEF Spec

-----------------------------------------------------------------------------
\* Every step of the breaker is a step of the documented three-state diagram
\* or leaves the diagram alone.
THEOREM ImplementsDiagram == Spec => FollowsDiagram
<1>1. Init => Diagram!Init
  BY BreakerAssumption DEF Init, Diagram!Init, TimedOut
<1>2. TypeOK /\ [Next]_vars => [Diagram!Next]_(Diagram!vars)
  <2> SUFFICES ASSUME TypeOK, [Next]_vars
               PROVE  [Diagram!Next]_(Diagram!vars)
    OBVIOUS
  <2> USE BreakerAssumption
      DEF TypeOK, States, TimedOut, Diagram!Next, Diagram!vars
  <2>1. CASE Tick
    BY <2>1 DEF Tick, breakerVars, Diagram!Elapse
  <2>2. ASSUME NEW c \in Callers, Allow(c)
        PROVE  [Diagram!Next]_(Diagram!vars)
    BY <2>2 DEF Allow, breakerVars, Diagram!Probe
  <2>3. ASSUME NEW c \in Callers, RecordSuccess(c)
        PROVE  [Diagram!Next]_(Diagram!vars)
    BY <2>3 DEF RecordSuccess, breakerVars, Diagram!Recover
  <2>4. ASSUME NEW c \in Callers, RecordFailure(c)
        PROVE  [Diagram!Next]_(Diagram!vars)
    BY <2>4 DEF RecordFailure, Diagram!Trip
  <2>5. CASE UNCHANGED vars
    BY <2>5 DEF vars
  <2>. QED
    BY <2>1, <2>2, <2>3, <2>4, <2>5 DEF Next
<1>. QED
  BY <1>1, <1>2, TypeCorrect, PTL DEF Spec, FollowsDiagram, Diagram!Spec
=============================================================================
