--------------------------- MODULE PatternsProofs ---------------------------
(***************************************************************************)
(* Proofs about the suite of patterns, for every size of each: the         *)
(* semaphore, the error group, fanInOut, the pipeline and the worker pool, *)
(* and in the end what the suite promises.                                 *)
(***************************************************************************)
EXTENDS Patterns, Selections, FiniteSetTheorems, TLAPS

\* Adding to, and taking from, finite sets.
LEMMA Counting ==
    ASSUME NEW T, IsFiniteSet(T), NEW S \in SUBSET T
    PROVE  /\ IsFiniteSet(S) /\ Cardinality(S) \in Nat
           /\ Cardinality(S) = 0 => S = {}
           /\ \A x : Cardinality(S \cup {x}) =
                       IF x \in S THEN Cardinality(S) ELSE Cardinality(S) + 1
           /\ \A x : Cardinality(S \ {x}) =
                       IF x \in S THEN Cardinality(S) - 1 ELSE Cardinality(S)
<1>1. IsFiniteSet(S)
  BY FS_Subset
<1> QED
  BY <1>1, FS_CardinalityType, FS_EmptySet, FS_AddElement, FS_RemoveElement

LEMMA CountingTasks ==
    ASSUME NEW n \in Nat, NEW S \in SUBSET (1 .. n)
    PROVE  /\ IsFiniteSet(S) /\ Cardinality(S) \in Nat
           /\ Cardinality(S) = 0 => S = {}
           /\ \A x : Cardinality(S \cup {x}) =
                       IF x \in S THEN Cardinality(S) ELSE Cardinality(S) + 1
           /\ \A x : Cardinality(S \ {x}) =
                       IF x \in S THEN Cardinality(S) - 1 ELSE Cardinality(S)
<1>1. IsFiniteSet(1 .. n)
  BY FS_Interval
<1> QED BY <1>1, Counting

-----------------------------------------------------------------------------
\* Permits and wait group are counted by the tasks of which they are; a task
\* is in one place, and Wait has let main go on when no task is left.
SemInv ==
    /\ loop \in {"Add", "acquire", "go", "Wait", "done"}
    /\ started \in Nat
    /\ running \subseteq 1 .. started /\ leaving \subseteq 1 .. started
    /\ running \cap leaving = {}
    /\ sem = Cardinality(running) + (IF loop = "go" THEN 1 ELSE 0)
    /\ wg =   Cardinality(running) + Cardinality(leaving)
            + (IF loop \in {"acquire", "go"} THEN 1 ELSE 0)
    /\ sem <= Permits
    /\ loop = "done" => running = {} /\ leaving = {}

LEMMA SemStep ==
    ASSUME SemInv, Limited!Next
    PROVE  SemInv'
<1>1. /\ Cardinality(running) \in Nat /\ Cardinality(leaving) \in Nat
      /\ Cardinality(running) = 0 => running = {}
      /\ Cardinality(leaving) = 0 => leaving = {}
  BY CountingTasks DEF SemInv
<1>2. CASE Limited!Add
  BY <1>1, <1>2 DEF SemInv, Limited!Add
<1>3. CASE Limited!Acquire
  BY <1>1, <1>3, LimitAssumption DEF SemInv, Limited!Acquire
<1>4. CASE Limited!Start
  <2>1. running' = running \cup {started + 1} /\ started' = started + 1
    BY <1>4 DEF Limited!Start
  <2>2. started + 1 \notin running /\ started + 1 \notin leaving
    BY DEF SemInv
  <2>3. Cardinality(running') = Cardinality(running) + 1
    BY <2>1, <2>2, CountingTasks DEF SemInv
  <2> QED
    BY <1>1, <1>4, <2>1, <2>2, <2>3 DEF SemInv, Limited!Start
<1>5. ASSUME NEW t \in 1 .. started, Limited!Release(t)
      PROVE  SemInv'
  <2>1. /\ t \in running /\ t \notin leaving
        /\ running' = running \ {t} /\ leaving' = leaving \cup {t}
        /\ sem' = sem - 1 /\ UNCHANGED <<loop, started, wg>>
    BY <1>5 DEF Limited!Release, SemInv
  <2>2. /\ Cardinality(running') = Cardinality(running) - 1
        /\ Cardinality(leaving') = Cardinality(leaving) + 1
    BY <2>1, CountingTasks DEF SemInv
  <2>3. running # {}
    BY <2>1
  <2> QED
    BY <1>1, <2>1, <2>2, <2>3, LimitAssumption DEF SemInv
<1>6. ASSUME NEW t \in 1 .. started, Limited!Leave(t)
      PROVE  SemInv'
  <2>1. /\ t \in leaving /\ leaving' = leaving \ {t} /\ wg' = wg - 1
        /\ UNCHANGED <<loop, started, sem, running>>
    BY <1>6 DEF Limited!Leave
  <2>2. Cardinality(leaving') = Cardinality(leaving) - 1
    BY <2>1, CountingTasks DEF SemInv
  <2> QED
    BY <1>1, <2>1, <2>2 DEF SemInv
<1>7. CASE Limited!Wait
  <2>1. Cardinality(running) = 0 /\ Cardinality(leaving) = 0
    BY <1>1, <1>7 DEF SemInv, Limited!Wait
  <2>2. running = {} /\ leaving = {}
    BY <1>1, <2>1
  <2> QED
    BY <1>7, <2>2 DEF SemInv, Limited!Wait
<1>8. CASE Limited!Terminated
  BY <1>8 DEF SemInv, Limited!Terminated, Limited!vars
<1> QED
  BY <1>2, <1>3, <1>4, <1>5, <1>6, <1>7, <1>8
  DEF Limited!Next, Limited!Loop, Limited!Task

\* An instance has its own copy of the operator.
LEMMA SameCardinality == \A S : Limited!Cardinality(S) = Cardinality(S)
BY DEF Limited!Cardinality, Cardinality

\* The counters agree with the tasks whatever the number of permits.
THEOREM SemCorrect == Spec => []SemInv
<1>1. Init => SemInv
  BY FS_EmptySet, LimitAssumption DEF Init, Limited!Init, SemInv
<1>2. SemInv /\ [Next]_vars => SemInv'
  <2> SUFFICES ASSUME SemInv, [Next]_vars PROVE SemInv'
    OBVIOUS
  <2>1. CASE rateLimiting
    BY <2>1, SemStep DEF rateLimiting
  <2>2. CASE UNCHANGED semVars
    BY <2>2 DEF semVars, SemInv
  <2> QED
    BY <2>1, <2>2
    DEF Next, workerPool, fanInOut, errgroupPattern, pipeline, vars
<1> QED BY <1>1, <1>2, PTL DEF Spec

\* No more tasks of rateLimiting run than there are permits, and all permits
\* are back, and all tasks through, when Wait returns.
THEOREM PermitsAreAccounted == Spec => []PermitsAccounted
<1>1. SemInv => PermitsAccounted
  <2>1. /\ Limited!Cardinality(running) = Cardinality(running)
        /\ Limited!Cardinality(leaving) = Cardinality(leaving)
    BY SameCardinality
  <2>2. running = {} => Cardinality(running) = 0
    BY FS_EmptySet
  <2> QED
    BY <2>1, <2>2
    DEF SemInv, PermitsAccounted, Limited!PermitsAccounted, Limited!WaitGroupAccounted
<1> QED BY <1>1, SemCorrect, PTL

\* The loop starts no more tasks than there are, and neither the permits nor
\* the wait group count beyond their range.
THEOREM LimitedTypeCorrect == Spec => []Limited!TypeOK
<1> DEFINE Started == /\ started <= NumLimited
                      /\ loop \in {"acquire", "go"} => started < NumLimited
<1>1. SemInv /\ Started => Limited!TypeOK
  <2> SUFFICES ASSUME SemInv, Started PROVE Limited!TypeOK
    OBVIOUS
  <2> DEFINE r == Cardinality(running)  l == Cardinality(leaving)
             u == Cardinality(running \cup leaving)
  <2>1. started \in Nat /\ running \cup leaving \subseteq 1 .. started
    BY DEF SemInv
  <2>2. IsFiniteSet(1 .. started) /\ Cardinality(1 .. started) = started
    BY <2>1, FS_Interval
  <2>3. u <= started
    BY <2>1, <2>2, FS_Subset
  <2>4. IsFiniteSet(running) /\ IsFiniteSet(leaving) /\ r \in Nat /\ l \in Nat
    BY CountingTasks DEF SemInv
  <2>5. u = r + l
    <3>1. u = r + l - Cardinality(running \cap leaving)
      BY <2>4, FS_Union
    <3>2. Cardinality(running \cap leaving) = 0
      BY FS_EmptySet DEF SemInv
    <3> HIDE DEF u, r, l
    <3> QED BY <2>4, <3>1, <3>2
  <2>6. /\ sem = r + (IF loop = "go" THEN 1 ELSE 0)
        /\ wg = r + l + (IF loop \in {"acquire", "go"} THEN 1 ELSE 0)
    BY DEF SemInv
  <2> HIDE DEF u, r, l
  <2>7. sem \in 0 .. Permits /\ wg \in 0 .. NumLimited /\ started \in 0 .. NumLimited
    BY <2>1, <2>3, <2>4, <2>5, <2>6, LimitAssumption DEF SemInv
  <2> QED BY <2>7 DEF SemInv, Limited!TypeOK
<1>2. Init => Started
  BY LimitAssumption DEF Init, Limited!Init
<1>3. SemInv /\ Started /\ [Next]_vars => Started'
  <2> SUFFICES ASSUME SemInv, Started, [Next]_vars PROVE Started'
    OBVIOUS
  <2>1. started \in Nat
    BY DEF SemInv
  <2>2. CASE rateLimiting
    BY <2>1, <2>2, LimitAssumption
    DEF rateLimiting, Limited!Next, Limited!Loop, Limited!Task, Limited!Add,
        Limited!Acquire, Limited!Start, Limited!Wait, Limited!Release,
        Limited!Leave, Limited!Terminated, Limited!vars
  <2>3. CASE UNCHANGED semVars
    BY <2>3 DEF semVars
  <2> QED
    BY <2>2, <2>3
    DEF Next, workerPool, fanInOut, errgroupPattern, pipeline, vars
<1> HIDE DEF Started
<1> QED BY <1>1, <1>2, <1>3, SemCorrect, PTL DEF Spec

-----------------------------------------------------------------------------
\* The error is that of a task that failed; the Once has run exactly when it
\* is set; a task that failed reports before it is done.
GroupInv ==
    /\ task \in [Tasks -> {"new", "running", "failed", "done"}]
    /\ onceUsed <=> err # Nil
    /\ err \in failed \cup {Nil} /\ failed \subseteq Tasks
    /\ \A t \in Tasks : task[t] = "failed" => t \in failed
    /\ \A t \in failed : task[t] \in {"failed", "done"}
    /\ \A t \in failed : task[t] = "done" => err # Nil
    /\ waiter = "returned" => \A t \in Tasks : task[t] = "done"

LEMMA GroupStep ==
    ASSUME GroupInv, Group!Next
    PROVE  GroupInv' /\ (err # Nil => err' = err)
<1>1. CASE Group!CallWait \/ Group!Wait
  BY <1>1 DEF GroupInv, Group!CallWait, Group!Wait, Group!AllDone
<1>2. ASSUME NEW t \in Tasks, Group!Go(t)
      PROVE  GroupInv' /\ (err # Nil => err' = err)
  BY <1>2 DEF GroupInv, Group!Go
<1>3. ASSUME NEW t \in Tasks, Group!Succeed(t) \/ Group!Fail(t)
      PROVE  GroupInv' /\ (err # Nil => err' = err)
  BY <1>3 DEF GroupInv, Group!Succeed, Group!Fail
<1>4. ASSUME NEW t \in Tasks, Group!Report(t)
      PROVE  GroupInv' /\ (err # Nil => err' = err)
  <2>1. /\ task[t] = "failed" /\ task' = [task EXCEPT ![t] = "done"]
        /\ UNCHANGED <<waiter, failed>> /\ t \in failed /\ t # Nil
    BY <1>4, GroupAssumption DEF GroupInv, Group!Report
  <2>2. CASE onceUsed
    BY <1>4, <2>1, <2>2 DEF GroupInv, Group!Report
  <2>3. CASE ~onceUsed
    BY <1>4, <2>1, <2>3 DEF GroupInv, Group!Report
  <2> QED BY <2>2, <2>3
<1>5. CASE Group!Terminated
  BY <1>5 DEF GroupInv, Group!Terminated, Group!vars
<1> QED
  BY <1>1, <1>2, <1>3, <1>4, <1>5 DEF Group!Next, Group!Caller, Group!Task

LEMMA GroupInductive ==
    /\ Init => GroupInv
    /\ GroupInv /\ [Next]_vars => GroupInv' /\ [err # Nil => err' = err]_groupVars
<1>1. Init => GroupInv
  BY DEF Init, Group!Init, GroupInv
<1>2. ASSUME GroupInv, [Next]_vars
      PROVE  GroupInv' /\ [err # Nil => err' = err]_groupVars
  <2>1. CASE errgroupPattern
    BY <1>2, <2>1, GroupStep DEF errgroupPattern
  <2>2. CASE UNCHANGED groupVars
    BY <1>2, <2>2 DEF groupVars, GroupInv
  <2> QED
    BY <1>2, <2>1, <2>2
    DEF Next, workerPool, fanInOut, pipeline, rateLimiting, vars
<1> QED BY <1>1, <1>2

\* No task of the error group takes a variable out of its range.
THEOREM GroupTypeCorrect == Spec => []Group!TypeOK
<1>1. Init => Group!TypeOK
  BY DEF Init, Group!Init, Group!TypeOK
<1>2. ASSUME Group!TypeOK, Group!Next PROVE Group!TypeOK'
  <2>1. CASE Group!CallWait \/ Group!Wait
    BY <1>2, <2>1 DEF Group!TypeOK, Group!CallWait, Group!Wait
  <2>2. ASSUME NEW t \in Tasks, Group!Go(t) PROVE Group!TypeOK'
    BY <1>2, <2>2 DEF Group!TypeOK, Group!Go, Group!cancelCtx
  <2>3. ASSUME NEW t \in Tasks, Group!Succeed(t) \/ Group!Fail(t) PROVE Group!TypeOK'
    BY <1>2, <2>3 DEF Group!TypeOK, Group!Succeed, Group!Fail
  <2>4. ASSUME NEW t \in Tasks, Group!Report(t) PROVE Group!TypeOK'
    <3>1. t # Nil
      BY GroupAssumption
    <3>2. CASE onceUsed
      BY <1>2, <2>4, <3>2 DEF Group!TypeOK, Group!Report
    <3>3. CASE ~onceUsed
      BY <1>2, <2>4, <3>1, <3>3 DEF Group!TypeOK, Group!Report
    <3> QED BY <3>2, <3>3
  <2>5. CASE Group!Terminated
    BY <1>2, <2>5 DEF Group!TypeOK, Group!Terminated, Group!vars
  <2> QED
    BY <1>2, <2>1, <2>2, <2>3, <2>4, <2>5 DEF Group!Next, Group!Caller, Group!Task
<1>3. Group!TypeOK /\ [Next]_vars => Group!TypeOK'
  <2> SUFFICES ASSUME Group!TypeOK, [Next]_vars PROVE Group!TypeOK'
    OBVIOUS
  <2>1. CASE errgroupPattern
    BY <1>2, <2>1 DEF errgroupPattern
  <2>2. CASE UNCHANGED groupVars
    BY <2>2 DEF groupVars, Group!TypeOK
  <2> QED
    BY <2>1, <2>2
    DEF Next, workerPool, fanInOut, pipeline, rateLimiting, vars
<1> QED BY <1>1, <1>3, PTL DEF Spec

\* When Wait returns, every task is through, and it returns an error exactly
\* when a task did, one that a task returned.
THEOREM WaitReports == Spec => []WaitReportsFailure
<1>1. GroupInv => WaitReportsFailure
  BY DEF GroupInv, WaitReportsFailure, Group!WaitReportsFailure
<1> QED BY <1>1, GroupInductive, PTL DEF Spec

\* No later failure replaces the first error recorded.
THEOREM ErrorStays == Spec => FirstErrorStays
<1>1. groupVars = Group!vars
  BY DEF groupVars, Group!vars
<1>2. [err # Nil => err' = err]_groupVars => [err # Nil => err' = err]_(Group!vars)
  BY DEF groupVars, Group!vars
<1> QED
  BY <1>2, GroupInductive, PTL DEF Spec, FirstErrorStays, Group!FirstErrorStays

-----------------------------------------------------------------------------
Squares == {Fan!Squared(v) : v \in 0 .. next - 1}
Holding == {p \in Procs : proc[p] = "send"}
Passing == {p \in Procs : fwd[p] = "send"}

\* A number the generator sent has one copy of itself or of its square among
\* the processors, the forwarders and what main collected.
FanCopies ==
    /\ \A p \in Holding : procVal[p] \in 0 .. next - 1
    /\ \A p, q \in Holding : procVal[p] = procVal[q] => p = q
    /\ \A p \in Passing : fwdVal[p] \in Squares
    /\ \A p, q \in Passing : fwdVal[p] = fwdVal[q] => p = q
    /\ \A p \in Holding, q \in Passing : Fan!Squared(procVal[p]) # fwdVal[q]
    /\ \A i \in 1 .. Len(fanCollected) :
          /\ fanCollected[i] \in Squares
          /\ \A p \in Holding : Fan!Squared(procVal[p]) # fanCollected[i]
          /\ \A p \in Passing : fwdVal[p] # fanCollected[i]

\* The items under way are counted by the goroutines that hold them.
FanInv ==
    /\ Fan!TypeOK /\ Fan!CloseCascade /\ FanCopies
    /\ next - Len(fanCollected) = Cardinality(Holding) + Cardinality(Passing)

LEMMA SquaresDiffer ==
    /\ \A v \in Nat : Fan!Squared(v) \in Nat
    /\ \A v, w \in Nat : Fan!Squared(v) = Fan!Squared(w) => v = w
<1>1. \A v, w \in Nat : v < w => v * v < w * w
  <2> SUFFICES ASSUME NEW v \in Nat, NEW w \in Nat, v < w PROVE v * v < w * w
    OBVIOUS
  <2> DEFINE d == w - v
  <2>1. d \in Nat /\ d > 0 /\ w = v + d
    OBVIOUS
  <2> HIDE DEF d
  <2>2. w * w = v * v + 2 * (v * d) + d * d
    BY <2>1
  <2>3. v * d >= 0 /\ d * d > 0 /\ v * d \in Int /\ d * d \in Int /\ v * v \in Int
    BY <2>1
  <2> QED BY <2>2, <2>3
<1> QED BY <1>1 DEF Fan!Squared

\* One step of the fan, action by action.
LEMMA FanTypes == ASSUME Fan!TypeOK, Fan!Next PROVE Fan!TypeOK'
<1> USE FanAssumption DEF Fan!TypeOK
<1>1. CASE Fan!CloseIn \/ Fan!CloseOut \/ Fan!Finish \/ Fan!Terminated
  BY <1>1 DEF Fan!CloseIn, Fan!CloseOut, Fan!Finish, Fan!Terminated, Fan!vars
<1>2. ASSUME NEW p \in Procs, Fan!Feed(p) PROVE Fan!TypeOK'
  BY <1>2 DEF Fan!Feed
<1>3. ASSUME NEW p \in Procs, Fan!Process(p) PROVE Fan!TypeOK'
  BY <1>3, SquaresDiffer DEF Fan!Process
<1>4. ASSUME NEW p \in Procs, Fan!CloseProc(p) \/ Fan!LeaveMerge(p)
      PROVE  Fan!TypeOK'
  BY <1>4 DEF Fan!CloseProc, Fan!LeaveMerge
<1>5. ASSUME NEW p \in Procs, Fan!Forward(p) PROVE Fan!TypeOK'
  <2>1. fwdVal[p] \in Nat /\ fanCollected' \in Seq(Nat)
    BY <1>5 DEF Fan!Forward
  <2> QED BY <1>5, <2>1 DEF Fan!Forward
<1> QED BY <1>1, <1>2, <1>3, <1>4, <1>5 DEF Fan!Next

LEMMA FanCascade ==
    ASSUME Fan!TypeOK, Fan!CloseCascade, Fan!Next
    PROVE  Fan!CloseCascade'
<1> USE FanAssumption DEF Fan!TypeOK, Fan!CloseCascade
<1>1. CASE Fan!CloseIn \/ Fan!CloseOut \/ Fan!Finish \/ Fan!Terminated
  BY <1>1
  DEF Fan!CloseIn, Fan!CloseOut, Fan!AllLeft, Fan!Finish, Fan!Terminated, Fan!vars
<1>2. ASSUME NEW p \in Procs, Fan!Feed(p) \/ Fan!Process(p)
      PROVE  Fan!CloseCascade'
  BY <1>2 DEF Fan!Feed, Fan!Process
<1>3. ASSUME NEW p \in Procs, Fan!CloseProc(p) \/ Fan!LeaveMerge(p)
      PROVE  Fan!CloseCascade'
  BY <1>3 DEF Fan!CloseProc, Fan!LeaveMerge
<1>4. ASSUME NEW p \in Procs, Fan!Forward(p) PROVE Fan!CloseCascade'
  BY <1>4 DEF Fan!Forward
<1> QED BY <1>1, <1>2, <1>3, <1>4 DEF Fan!Next

LEMMA FanStep == ASSUME FanInv, Fan!Next PROVE FanInv'
<1>1. Fan!TypeOK' /\ Fan!CloseCascade'
  BY FanTypes, FanCascade DEF FanInv
<1>2. /\ Cardinality(Holding) \in Nat /\ Cardinality(Passing) \in Nat
      /\ Len(fanCollected) \in Nat
      /\ \A p : /\ Cardinality(Holding \cup {p}) =
                     IF p \in Holding THEN Cardinality(Holding)
                                      ELSE Cardinality(Holding) + 1
                /\ Cardinality(Holding \ {p}) =
                     IF p \in Holding THEN Cardinality(Holding) - 1
                                      ELSE Cardinality(Holding)
                /\ Cardinality(Passing \cup {p}) =
                     IF p \in Passing THEN Cardinality(Passing)
                                      ELSE Cardinality(Passing) + 1
                /\ Cardinality(Passing \ {p}) =
                     IF p \in Passing THEN Cardinality(Passing) - 1
                                      ELSE Cardinality(Passing)
  <2>1. Holding \in SUBSET Procs /\ Passing \in SUBSET Procs
    BY DEF Holding, Passing
  <2>2. Len(fanCollected) \in Nat
    BY DEF FanInv, Fan!TypeOK
  <2> QED BY <2>1, <2>2, Counting, FanAssumption
<1>3. CASE Fan!CloseIn \/ Fan!CloseOut \/ Fan!Finish \/ Fan!Terminated
  BY <1>1, <1>3
  DEF FanInv, FanCopies, Holding, Passing, Squares,
      Fan!CloseIn, Fan!CloseOut, Fan!Finish, Fan!Terminated, Fan!vars
<1>4. ASSUME NEW p \in Procs, Fan!CloseProc(p) \/ Fan!LeaveMerge(p)
      PROVE  FanInv'
  <2>1. /\ Holding' = Holding /\ Passing' = Passing
        /\ UNCHANGED <<next, procVal, fwdVal, fanCollected>>
    BY <1>4 DEF FanInv, Fan!TypeOK, Holding, Passing, Fan!CloseProc, Fan!LeaveMerge
  <2> QED BY <1>1, <2>1 DEF FanInv, FanCopies, Squares
<1>5. ASSUME NEW p \in Procs, Fan!Feed(p) PROVE FanInv'
  <2>1. /\ Holding' = Holding \cup {p} /\ p \notin Holding /\ Passing' = Passing
        /\ next \in Nat /\ next' = next + 1 /\ procVal'[p] = next
        /\ \A q \in Holding : procVal'[q] = procVal[q]
        /\ UNCHANGED <<fwdVal, fanCollected>>
    BY <1>5, FanAssumption DEF FanInv, Fan!TypeOK, Holding, Passing, Fan!Feed
  <2>2. Squares \subseteq Squares' /\ Fan!Squared(next) \notin Squares
    BY <2>1, SquaresDiffer DEF Squares
  <2>3. FanCopies'
    BY <2>1, <2>2 DEF FanInv, FanCopies
  <2>4. /\ Cardinality(Holding') = Cardinality(Holding) + 1
        /\ Cardinality(Passing') = Cardinality(Passing)
        /\ Len(fanCollected') = Len(fanCollected)
    BY <1>2, <2>1
  <2>5. next' - Len(fanCollected') = Cardinality(Holding') + Cardinality(Passing')
    BY <1>2, <2>1, <2>4 DEF FanInv
  <2> QED BY <1>1, <2>3, <2>5 DEF FanInv
<1>6. ASSUME NEW p \in Procs, Fan!Process(p) PROVE FanInv'
  <2>1. /\ Holding' = Holding \ {p} /\ p \in Holding
        /\ Passing' = Passing \cup {p} /\ p \notin Passing
        /\ fwdVal'[p] = Fan!Squared(procVal[p])
        /\ \A q \in Passing : fwdVal'[q] = fwdVal[q]
        /\ UNCHANGED <<next, procVal, fanCollected>>
    BY <1>6 DEF FanInv, Fan!TypeOK, Holding, Passing, Fan!Process
  <2>2. \A q \in Holding' : Fan!Squared(procVal[q]) # Fan!Squared(procVal[p])
    BY <2>1, SquaresDiffer DEF FanInv, FanCopies
  <2>3. Squares' = Squares /\ Fan!Squared(procVal[p]) \in Squares
    BY <2>1 DEF FanInv, FanCopies, Squares
  <2>4. FanCopies'
    BY <2>1, <2>2, <2>3 DEF FanInv, FanCopies
  <2> QED BY <1>1, <1>2, <2>1, <2>4 DEF FanInv
<1>7. ASSUME NEW p \in Procs, Fan!Forward(p) PROVE FanInv'
  <2>1. /\ Holding' = Holding /\ Passing' = Passing \ {p} /\ p \in Passing
        /\ fanCollected' = Append(fanCollected, fwdVal[p])
        /\ UNCHANGED <<next, procVal, fwdVal>>
    BY <1>7 DEF FanInv, Fan!TypeOK, Holding, Passing, Fan!Forward
  <2>2. /\ Len(fanCollected') = Len(fanCollected) + 1
        /\ \A i \in 1 .. Len(fanCollected') :
              \/ i \in 1 .. Len(fanCollected) /\ fanCollected'[i] = fanCollected[i]
              \/ fanCollected'[i] = fwdVal[p]
    BY <2>1 DEF FanInv, Fan!TypeOK, Passing
  <2>3. Squares' = Squares
    BY <2>1 DEF Squares
  <2>4. FanCopies'
    BY <2>1, <2>2, <2>3 DEF FanInv, FanCopies
  <2>5. /\ Cardinality(Holding') = Cardinality(Holding)
        /\ Cardinality(Passing') = Cardinality(Passing) - 1
        /\ next \in Nat
    BY <1>2, <2>1 DEF FanInv, Fan!TypeOK
  <2>6. next' - Len(fanCollected') = Cardinality(Holding') + Cardinality(Passing')
    <3>1. next - Len(fanCollected) = Cardinality(Holding) + Cardinality(Passing)
      BY DEF FanInv
    <3>2. next' = next /\ Len(fanCollected') = Len(fanCollected) + 1
      BY <2>1, <2>2
    <3> QED BY <1>2, <2>5, <3>1, <3>2
  <2> QED BY <1>1, <2>4, <2>6 DEF FanInv
<1> QED BY <1>3, <1>4, <1>5, <1>6, <1>7 DEF Fan!Next

\* fanInOut: types, the order of closing and the copies are inductive together.
THEOREM FanCorrect == Spec => []FanInv
<1>1. Init => FanInv
  <2> SUFFICES ASSUME Init PROVE FanInv
    OBVIOUS
  <2>1. Holding = {} /\ Passing = {} /\ fanCollected = <<>> /\ next = 0
    BY DEF Init, Fan!Init, Holding, Passing
  <2>2. fanCollected \in Seq(Nat) /\ Len(fanCollected) = 0
    BY <2>1
  <2>3. Fan!TypeOK
    <3>1. Fan!Init
      BY DEF Init
    <3>2. 0 \in 0 .. NumItems
      BY FanAssumption
    <3> QED BY <2>2, <3>1, <3>2 DEF Fan!Init, Fan!TypeOK
  <2>4. Fan!CloseCascade
    BY DEF Init, Fan!Init, Fan!CloseCascade
  <2> QED BY <2>1, <2>2, <2>3, <2>4, FS_EmptySet DEF FanInv, FanCopies
<1>2. FanInv /\ [Next]_vars => FanInv'
  <2> SUFFICES ASSUME FanInv, [Next]_vars PROVE FanInv'
    OBVIOUS
  <2>1. CASE fanInOut
    BY <2>1, FanStep DEF fanInOut
  <2>2. CASE UNCHANGED fanVars
    BY <2>2
    DEF fanVars, FanInv, Fan!TypeOK, Fan!CloseCascade, FanCopies, Holding,
        Passing, Squares
  <2> QED
    BY <2>1, <2>2
    DEF Next, workerPool, errgroupPattern, pipeline, rateLimiting, vars
<1> QED BY <1>1, <1>2, PTL DEF Spec

\* Main collects squares of the numbers generated, each at most once.
THEOREM FanDelivers == Spec => Fan!ExactlyOnce
<1>1. Init => Fan!Fan!Init
  BY DEF Init, Fan!Init, Fan!Fan!Init
<1>2. FanInv /\ [Next]_vars => [Fan!Fan!Deliver]_fanCollected
  <2> SUFFICES ASSUME FanInv, NEW p \in Procs, Fan!Forward(p)
               PROVE  Fan!Fan!Deliver
    BY DEF Next, fanInOut, workerPool, errgroupPattern, pipeline, rateLimiting,
           vars, fanVars, Fan!Next, Fan!CloseIn, Fan!CloseOut, Fan!Finish,
           Fan!Terminated, Fan!vars, Fan!Feed, Fan!Process, Fan!CloseProc,
           Fan!LeaveMerge
  <2>1. p \in Passing /\ fanCollected' = Append(fanCollected, fwdVal[p])
    BY DEF Fan!Forward, Passing
  <2>2. fwdVal[p] \in {Fan!Squared(v) : v \in Fan!Values}
    BY <2>1, FanAssumption DEF FanInv, FanCopies, Fan!TypeOK, Squares, Fan!Values
  <2>3. fwdVal[p] \notin Fan!Fan!Got
    <3>1. DOMAIN fanCollected = 1 .. Len(fanCollected)
      BY DEF FanInv, Fan!TypeOK
    <3> QED BY <2>1, <3>1 DEF FanInv, FanCopies, Fan!Fan!Got
  <2> QED BY <2>1, <2>2, <2>3 DEF Fan!Fan!Deliver
<1> QED BY <1>1, <1>2, FanCorrect, PTL DEF Fan!ExactlyOnce, Fan!Fan!Spec, Spec

-----------------------------------------------------------------------------
(*                               Worker pool                               *)

\* An instance has its own copy of the operator.
LEMMA PoolCounts == \A S : /\ Pool!Cardinality(S) = Cardinality(S)
                           /\ Fan!Cardinality(S) = Cardinality(S)
BY DEF Pool!Cardinality, Fan!Cardinality, Cardinality

\* The channels hold numbers, the counters stay in order.
THEOREM PoolTypeCorrect == Pool!Spec => []Pool!TypeOK
<1> USE PoolAssumption DEF Pool!TypeOK
<1>1. Pool!Init => Pool!TypeOK
  <2> SUFFICES ASSUME Pool!Init PROVE Pool!TypeOK
    OBVIOUS
  <2>1. <<>> \in Seq(Nat)
    OBVIOUS
  <2>2. results \in Seq(Nat) /\ poolCollected \in Seq(Nat)
    BY <2>1 DEF Pool!Init
  <2>3. /\ sent \in 0 .. NumJobs /\ taken \in 0 .. sent
        /\ poolMain \in {"sending", "collecting", "done"}
    BY DEF Pool!Init
  <2>5. resultsClosed \in BOOLEAN
    BY DEF Pool!Init
  <2>4. /\ pc \in [Workers -> {"receiving", "sending", "left"}]
        /\ job \in [Workers -> Nat]
    BY DEF Pool!Init
  <2> QED BY <2>2, <2>3, <2>4, <2>5
<1>2. Pool!TypeOK /\ [Pool!Next]_(Pool!vars) => Pool!TypeOK'
  <2> SUFFICES ASSUME Pool!TypeOK, [Pool!Next]_(Pool!vars) PROVE Pool!TypeOK'
    OBVIOUS
  <2>1. CASE Pool!SendJob
    BY <2>1 DEF Pool!SendJob, Pool!CanSend
  <2>2. CASE Pool!CloseJobs
    BY <2>2 DEF Pool!CloseJobs
  <2>3. CASE Pool!Collect
    BY <2>3 DEF Pool!Collect
  <2>4. CASE Pool!Finish
    BY <2>4 DEF Pool!Finish
  <2>5. CASE Pool!CloseResults
    BY <2>5 DEF Pool!CloseResults
  <2>6. ASSUME NEW w \in Workers, Pool!Take(w) PROVE Pool!TypeOK'
    BY <2>6 DEF Pool!Take
  <2>7. ASSUME NEW w \in Workers, Pool!Put(w) PROVE Pool!TypeOK'
    BY <2>7 DEF Pool!Put, Pool!Result
  <2>8. ASSUME NEW w \in Workers, Pool!Leave(w) PROVE Pool!TypeOK'
    BY <2>8 DEF Pool!Leave
  <2>9. CASE UNCHANGED Pool!vars
    BY <2>9 DEF Pool!vars
  <2> QED BY <2>1, <2>2, <2>3, <2>4, <2>5, <2>6, <2>7, <2>8, <2>9
          DEF Pool!Next, Pool!Main, Pool!Worker, Pool!Terminated
<1> QED BY <1>1, <1>2, PTL DEF Pool!Spec

-----------------------------------------------------------------------------
\* The number of workers that hold a job, before and after a step of one.
LEMMA SendingCounts ==
    ASSUME Pool!TypeOK
    PROVE  /\ IsFiniteSet(Pool!Sending) /\ Pool!Cardinality(Pool!Sending) \in Nat
           /\ Pool!Cardinality(Pool!Sending) <= Pool!Cardinality(Workers)
           /\ Pool!Cardinality(Workers) \in Nat
           /\ \A w \in Workers :
                 /\ Pool!Take(w) => Pool!Cardinality(Pool!Sending)' =
                                    Pool!Cardinality(Pool!Sending) + 1
                 /\ Pool!Put(w) => Pool!Cardinality(Pool!Sending)' =
                                   Pool!Cardinality(Pool!Sending) - 1
<1> USE PoolAssumption DEF Pool!TypeOK
<1>1. /\ IsFiniteSet(Pool!Sending)
      /\ Pool!Cardinality(Pool!Sending) <= Pool!Cardinality(Workers)
  BY FS_Subset, PoolCounts DEF Pool!Sending
<1>2. Pool!Cardinality(Pool!Sending) \in Nat /\ Pool!Cardinality(Workers) \in Nat
  BY <1>1, FS_CardinalityType, PoolCounts
<1>3. ASSUME NEW w \in Workers, Pool!Take(w)
      PROVE  Pool!Cardinality(Pool!Sending)' = Pool!Cardinality(Pool!Sending) + 1
  <2>1. Pool!Sending' = Pool!Sending \cup {w} /\ w \notin Pool!Sending
    BY <1>3 DEF Pool!Sending, Pool!Take
  <2> QED BY <1>1, <2>1, FS_AddElement, PoolCounts
<1>4. ASSUME NEW w \in Workers, Pool!Put(w)
      PROVE  Pool!Cardinality(Pool!Sending)' = Pool!Cardinality(Pool!Sending) - 1
  <2>1. Pool!Sending' = Pool!Sending \ {w} /\ w \in Pool!Sending
    BY <1>4 DEF Pool!Sending, Pool!Put
  <2> QED BY <1>1, <2>1, FS_RemoveElement, PoolCounts
<1> QED BY <1>1, <1>2, <1>3, <1>4

\* Jobs taken are held, in the results or collected; capacities are respected.
THEOREM BooksBalance == Pool!Spec => []Pool!Accounting
<1> USE PoolAssumption DEF Pool!TypeOK
<1>1. Pool!Init => Pool!Accounting
  <2> SUFFICES ASSUME Pool!Init PROVE Pool!Accounting
    OBVIOUS
  <2>1. Pool!Sending = {}
    BY DEF Pool!Init, Pool!Sending
  <2> QED BY <2>1, FS_EmptySet, PoolCounts DEF Pool!Init, Pool!Accounting
<1>2. Pool!TypeOK /\ Pool!Accounting /\ [Pool!Next]_(Pool!vars) => Pool!Accounting'
  <2> SUFFICES ASSUME Pool!TypeOK, Pool!Accounting, [Pool!Next]_(Pool!vars)
               PROVE  Pool!Accounting'
    OBVIOUS
  <2>0. /\ Pool!Cardinality(Pool!Sending) \in Nat
        /\ Len(results) \in Nat /\ Len(poolCollected) \in Nat
        /\ sent \in Nat /\ taken \in Nat
        /\ UNCHANGED pc =>
              Pool!Cardinality(Pool!Sending)' = Pool!Cardinality(Pool!Sending)
    <3>1. UNCHANGED pc => Pool!Cardinality(Pool!Sending)' = Pool!Cardinality(Pool!Sending)
      BY DEF Pool!Sending
    <3>2. Len(results) \in Nat /\ Len(poolCollected) \in Nat
      OBVIOUS
    <3>3. sent \in Nat /\ taken \in Nat
      OBVIOUS
    <3> QED BY <3>1, <3>2, <3>3, SendingCounts
  <2> HIDE DEF Pool!TypeOK
  <2>1. CASE Pool!SendJob
    BY <2>0, <2>1 DEF Pool!SendJob, Pool!CanSend, Pool!Accounting
  <2>2. CASE Pool!CloseJobs
    BY <2>0, <2>2 DEF Pool!CloseJobs, Pool!Accounting
  <2>3. CASE Pool!Collect
    <3>1. Len(results') = Len(results) - 1 /\ Len(poolCollected') = Len(poolCollected) + 1
      BY <2>3 DEF Pool!Collect, Pool!TypeOK
    <3>2. UNCHANGED <<sent, taken, pc>>
      BY <2>3 DEF Pool!Collect
    <3>3. /\ Pool!Cardinality(Pool!Sending)' = Pool!Cardinality(Pool!Sending)
          /\ sent' = sent /\ taken' = taken
      BY <2>0, <3>2
    <3>4. taken' = Pool!Cardinality(Pool!Sending)' + Len(results') + Len(poolCollected')
      BY <2>0, <3>1, <3>3 DEF Pool!Accounting
    <3> QED BY <2>0, <3>1, <3>3, <3>4 DEF Pool!Accounting
  <2>4. CASE Pool!Finish
    BY <2>0, <2>4 DEF Pool!Finish, Pool!Accounting
  <2>5. CASE Pool!CloseResults
    BY <2>0, <2>5 DEF Pool!CloseResults, Pool!Accounting
  <2>6. ASSUME NEW w \in Workers, Pool!Take(w) PROVE Pool!Accounting'
    <3>1. taken' = taken + 1 /\ taken < sent /\ UNCHANGED <<sent, results, poolCollected>>
      BY <2>6 DEF Pool!Take
    <3>2. Pool!Cardinality(Pool!Sending)' = Pool!Cardinality(Pool!Sending) + 1
      BY <2>6, SendingCounts
    <3>3. /\ sent' = sent /\ Len(results') = Len(results)
          /\ Len(poolCollected') = Len(poolCollected)
      BY <3>1
    <3>4. taken' = Pool!Cardinality(Pool!Sending)' + Len(results') + Len(poolCollected')
      BY <2>0, <3>1, <3>2, <3>3 DEF Pool!Accounting
    <3> QED BY <2>0, <3>1, <3>3, <3>4 DEF Pool!Accounting
  <2>7. ASSUME NEW w \in Workers, Pool!Put(w) PROVE Pool!Accounting'
    <3>1. /\ Len(results') = Len(results) + 1 /\ Len(results) < ResultCap
          /\ UNCHANGED <<sent, taken, poolCollected>>
      BY <2>7 DEF Pool!Put, Pool!TypeOK
    <3>2. Pool!Cardinality(Pool!Sending)' = Pool!Cardinality(Pool!Sending) - 1
      BY <2>7, SendingCounts
    <3>3. taken' = taken /\ sent' = sent /\ Len(poolCollected') = Len(poolCollected)
      BY <3>1
    <3>4. taken' = Pool!Cardinality(Pool!Sending)' + Len(results') + Len(poolCollected')
      BY <2>0, <3>1, <3>2, <3>3 DEF Pool!Accounting
    <3> QED BY <2>0, <3>1, <3>3, <3>4 DEF Pool!Accounting
  <2>8. ASSUME NEW w \in Workers, Pool!Leave(w) PROVE Pool!Accounting'
    <3>1. Pool!Sending' = Pool!Sending
      BY <2>8 DEF Pool!Leave, Pool!Sending
    <3> QED BY <2>8, <3>1 DEF Pool!Leave, Pool!Accounting
  <2>9. CASE UNCHANGED Pool!vars
    BY <2>0, <2>9 DEF Pool!vars, Pool!Accounting
  <2> QED BY <2>1, <2>2, <2>3, <2>4, <2>5, <2>6, <2>7, <2>8, <2>9
          DEF Pool!Next, Pool!Main, Pool!Worker, Pool!Terminated
<1> QED BY <1>1, <1>2, PoolTypeCorrect, PTL DEF Pool!Spec

\* Nobody sends on the closed results channel, and main drains it.
THEOREM PoolClosesInOrder == Pool!Spec => []Pool!ClosedInOrder
<1> USE PoolAssumption DEF Pool!TypeOK
<1>1. Pool!Init => Pool!ClosedInOrder
  BY DEF Pool!Init, Pool!ClosedInOrder
<1>2. Pool!TypeOK /\ Pool!ClosedInOrder /\ [Pool!Next]_(Pool!vars) => Pool!ClosedInOrder'
  <2> SUFFICES ASSUME Pool!TypeOK, Pool!ClosedInOrder, [Pool!Next]_(Pool!vars)
               PROVE  Pool!ClosedInOrder'
    OBVIOUS
  <2> USE DEF Pool!ClosedInOrder, Pool!AllLeft, Pool!JobsClosed
  <2>1. CASE Pool!SendJob
    BY <2>1 DEF Pool!SendJob
  <2>2. CASE Pool!CloseJobs
    BY <2>2 DEF Pool!CloseJobs
  <2>3. CASE Pool!Collect
    BY <2>3 DEF Pool!Collect
  <2>4. CASE Pool!Finish
    BY <2>4 DEF Pool!Finish
  <2>5. CASE Pool!CloseResults
    BY <2>5 DEF Pool!CloseResults
  <2>6. ASSUME NEW w \in Workers, Pool!Take(w) PROVE Pool!ClosedInOrder'
    BY <2>6 DEF Pool!Take
  <2>7. ASSUME NEW w \in Workers, Pool!Put(w) PROVE Pool!ClosedInOrder'
    BY <2>7 DEF Pool!Put
  <2>8. ASSUME NEW w \in Workers, Pool!Leave(w) PROVE Pool!ClosedInOrder'
    BY <2>8 DEF Pool!Leave
  <2>9. CASE UNCHANGED Pool!vars
    BY <2>9 DEF Pool!vars
  <2> QED BY <2>1, <2>2, <2>3, <2>4, <2>5, <2>6, <2>7, <2>8, <2>9
          DEF Pool!Next, Pool!Main, Pool!Worker, Pool!Terminated
<1> QED BY <1>1, <1>2, PoolTypeCorrect, PTL DEF Pool!Spec

-----------------------------------------------------------------------------
\* As long as the jobs fit into the channels and the workers' hands, some
\* goroutine can move until main is done.
THEOREM NeverGetsStuck == Pool!Spec => []Pool!NeverStuck
<1>1. Pool!TypeOK /\ Pool!Accounting /\ Pool!ClosedInOrder => Pool!NeverStuck
  <2> SUFFICES ASSUME Pool!TypeOK, Pool!Accounting, Pool!ClosedInOrder, Pool!Fits,
                      poolMain # "done", ~Pool!SomeoneCanMove
               PROVE  FALSE
    BY DEF Pool!NeverStuck
  <2> USE PoolAssumption DEF Pool!TypeOK, Pool!SomeoneCanMove, Pool!JobsClosed
  <2>1. CASE poolMain = "sending"
    <3>1. sent < NumJobs /\ sent - taken = JobCap
      BY <2>1 DEF Pool!CanSend, Pool!Accounting
    <3>2. Pool!Sending = Workers
      BY <2>1, <3>1 DEF Pool!ClosedInOrder, Pool!Sending
    <3>3. Len(results) = ResultCap
      <4>1. PICK w \in Workers : pc[w] = "sending"
        BY <3>2 DEF Pool!Sending
      <4> QED BY <4>1 DEF Pool!Accounting
    <3> QED BY <3>1, <3>2, <3>3, SendingCounts DEF Pool!Accounting, Pool!Fits
  <2>2. CASE poolMain = "collecting"
    <3>1. results = <<>> /\ ~resultsClosed
      BY <2>2
    <3>2. Pool!AllLeft
      BY <2>2, <3>1 DEF Pool!AllLeft
    <3> QED BY <2>2, <3>1, <3>2
  <2> QED BY <2>1, <2>2
<1> QED BY <1>1, PoolTypeCorrect, BooksBalance, PoolClosesInOrder, PTL

-----------------------------------------------------------------------------
\* A taken job exists once, wherever it is.
THEOREM JobsAreUnique == Pool!Spec => []Pool!OneCopy
<1> USE PoolAssumption DEF Pool!TypeOK
<1>1. Pool!Init => Pool!OneCopy
  BY DEF Pool!Init, Pool!OneCopy, Pool!Sending
<1>2. Pool!TypeOK /\ Pool!OneCopy /\ [Pool!Next]_(Pool!vars) => Pool!OneCopy'
  <2> SUFFICES ASSUME Pool!TypeOK, Pool!OneCopy, [Pool!Next]_(Pool!vars)
               PROVE  Pool!OneCopy'
    OBVIOUS
  <2> USE DEF Pool!OneCopy, Pool!Result
  <2>1. CASE Pool!SendJob
    BY <2>1 DEF Pool!SendJob, Pool!Sending
  <2>2. CASE Pool!CloseJobs
    BY <2>2 DEF Pool!CloseJobs, Pool!Sending
  <2>3. CASE Pool!Collect
    <3>1. /\ results' = Tail(results) /\ results # <<>>
          /\ poolCollected' = Append(poolCollected, Head(results))
          /\ UNCHANGED <<pc, job, taken>>
      BY <2>3 DEF Pool!Collect
    <3>2. /\ Len(results) \in Nat \ {0} /\ Len(results') = Len(results) - 1
          /\ \A i \in 1 .. Len(results') : results'[i] = results[i + 1]
      BY <3>1
    <3>3. /\ Len(poolCollected) \in Nat /\ Len(poolCollected') = Len(poolCollected) + 1
          /\ \A i \in 1 .. Len(poolCollected) : poolCollected'[i] = poolCollected[i]
          /\ poolCollected'[Len(poolCollected')] = results[1]
      BY <3>1, <3>2
    <3>4. Pool!Sending' = Pool!Sending
      BY <3>1 DEF Pool!Sending
    <3>5. \A i \in 1 .. Len(results') : i + 1 \in 1 .. Len(results)
      BY <3>2
    <3>6. \A k \in 1 .. Len(poolCollected') :
             k \in 1 .. Len(poolCollected) \/ k = Len(poolCollected')
      <4>1. \A n \in Nat : \A k \in 1 .. n + 1 : k \in 1 .. n \/ k = n + 1
        OBVIOUS
      <4> QED BY <3>3, <4>1
    <3> HIDE DEF Pool!TypeOK
    <3>7. \A i, k \in 1 .. Len(results') : results'[i] = results'[k] => i = k
      <4> SUFFICES ASSUME NEW i \in 1 .. Len(results'), NEW k \in 1 .. Len(results'),
                          results'[i] = results'[k]
                   PROVE  i = k
        OBVIOUS
      <4>1. i + 1 = k + 1
        BY <3>2, <3>5
      <4> QED BY <4>1
    <3>8. \A i \in 1 .. Len(results'), k \in 1 .. Len(poolCollected') :
             results'[i] # poolCollected'[k]
      <4> SUFFICES ASSUME NEW i \in 1 .. Len(results'), NEW k \in 1 .. Len(poolCollected')
                   PROVE  results'[i] # poolCollected'[k]
        OBVIOUS
      <4>1. results'[i] = results[i + 1] /\ i + 1 \in 1 .. Len(results)
        BY <3>2, <3>5
      <4>2. CASE k \in 1 .. Len(poolCollected)
        BY <3>3, <4>1, <4>2
      <4>3. CASE k = Len(poolCollected')
        <5>1. 1 \in 1 .. Len(results) /\ i + 1 # 1
          BY <3>2
        <5> QED BY <3>3, <4>1, <4>3, <5>1
      <4> QED BY <3>6, <4>2, <4>3
    <3>9. ASSUME NEW w \in Pool!Sending
          PROVE  /\ job[w] < taken
                 /\ \A i \in 1 .. Len(results') : results'[i] # Pool!Result(job[w])
                 /\ \A i \in 1 .. Len(poolCollected') :
                       poolCollected'[i] # Pool!Result(job[w])
      <4>1. \A i \in 1 .. Len(results') : results'[i] # Pool!Result(job[w])
        BY <3>2, <3>5
      <4>2. results[1] # Pool!Result(job[w])
        BY <3>2
      <4> QED BY <3>3, <3>6, <4>1, <4>2
    <3>10. \A i \in 1 .. Len(results') :
             \E j \in 0 .. taken - 1 : results'[i] = Pool!Result(j)
      BY <3>2, <3>5
    <3>11. \A i \in 1 .. Len(poolCollected') :
              \E j \in 0 .. taken - 1 : poolCollected'[i] = Pool!Result(j)
      <4>1. \E j \in 0 .. taken - 1 : results[1] = Pool!Result(j)
        BY <3>2
      <4> QED BY <3>3, <3>6, <4>1
    <3> QED BY <3>1, <3>4, <3>7, <3>8, <3>9, <3>10, <3>11
  <2>4. CASE Pool!Finish
    BY <2>4 DEF Pool!Finish, Pool!Sending
  <2>5. CASE Pool!CloseResults
    BY <2>5 DEF Pool!CloseResults, Pool!Sending
  <2>6. ASSUME NEW w \in Workers, Pool!Take(w) PROVE Pool!OneCopy'
    BY <2>6 DEF Pool!Take, Pool!Sending
  <2>7. ASSUME NEW w \in Workers, Pool!Put(w) PROVE Pool!OneCopy'
    <3>1. /\ results' = Append(results, Pool!Result(job[w]))
          /\ UNCHANGED <<job, taken, poolCollected>>
      BY <2>7 DEF Pool!Put
    <3>2. /\ Len(results) \in Nat /\ Len(results') = Len(results) + 1
          /\ \A i \in 1 .. Len(results) : results'[i] = results[i]
          /\ results'[Len(results')] = Pool!Result(job[w])
      BY <3>1
    <3>3. \A i \in 1 .. Len(results') : i \in 1 .. Len(results) \/ i = Len(results')
      BY <3>2
    <3>4. Pool!Sending' = Pool!Sending \ {w} /\ w \in Pool!Sending
      BY <2>7 DEF Pool!Put, Pool!Sending
    <3>5. job[w] \in 0 .. taken - 1
      BY <3>4
    <3>6. ASSUME NEW v \in Pool!Sending'
          PROVE  \A i \in 1 .. Len(results') : results'[i] # Pool!Result(job[v])
      <4>1. v \in Pool!Sending /\ v # w /\ job[v] # job[w] /\ v \in Workers
        BY <3>4 DEF Pool!Sending
      <4>2. Pool!Result(job[v]) # Pool!Result(job[w])
        BY <4>1
      <4>3. \A i \in 1 .. Len(results) : results'[i] # Pool!Result(job[v])
        BY <3>2, <4>1
      <4> QED BY <3>2, <3>3, <4>2, <4>3
    <3>7. \A i, k \in 1 .. Len(results') : results'[i] = results'[k] => i = k
      <4>1. \A i \in 1 .. Len(results) : results'[i] # Pool!Result(job[w])
        BY <3>2, <3>4
      <4> QED BY <3>2, <3>3, <4>1
    <3>8. \A i \in 1 .. Len(results'), k \in 1 .. Len(poolCollected) :
             results'[i] # poolCollected[k]
      BY <3>2, <3>3, <3>4
    <3>9. \A i \in 1 .. Len(results') :
             \E j \in 0 .. taken - 1 : results'[i] = Pool!Result(j)
      <4> SUFFICES ASSUME NEW i \in 1 .. Len(results')
                   PROVE  \E j \in 0 .. taken - 1 : results'[i] = Pool!Result(j)
        OBVIOUS
      <4>1. CASE i \in 1 .. Len(results)
        BY <3>2, <4>1
      <4>2. CASE i = Len(results')
        BY <3>2, <3>5, <4>2
      <4> QED BY <3>3, <4>1, <4>2
    <3> QED BY <3>1, <3>4, <3>6, <3>7, <3>8, <3>9
  <2>8. ASSUME NEW w \in Workers, Pool!Leave(w) PROVE Pool!OneCopy'
    BY <2>8 DEF Pool!Leave, Pool!Sending
  <2>9. CASE UNCHANGED Pool!vars
    BY <2>9 DEF Pool!vars, Pool!Sending
  <2> QED BY <2>1, <2>2, <2>3, <2>4, <2>5, <2>6, <2>7, <2>8, <2>9
          DEF Pool!Next, Pool!Main, Pool!Worker, Pool!Terminated
<1> QED BY <1>1, <1>2, PoolTypeCorrect, PTL DEF Pool!Spec

\* Main collects results of jobs, each at most once.
THEOREM PoolDelivers == Pool!Spec => Pool!ExactlyOnce
<1> USE PoolAssumption DEF Pool!TypeOK
<1>1. Pool!Init => Pool!Pool!Init
  BY DEF Pool!Init, Pool!Pool!Init
<1>2. Pool!TypeOK /\ Pool!OneCopy /\ [Pool!Next]_(Pool!vars)
        => [Pool!Pool!Deliver]_poolCollected
  <2> SUFFICES ASSUME Pool!TypeOK, Pool!OneCopy, Pool!Collect PROVE Pool!Pool!Deliver
    BY DEF Pool!Next, Pool!Main, Pool!Worker, Pool!Terminated, Pool!vars,
           Pool!SendJob, Pool!CloseJobs, Pool!Finish, Pool!CloseResults,
           Pool!Take, Pool!Put, Pool!Leave
  <2>1. poolCollected' = Append(poolCollected, results[1]) /\ 1 \in DOMAIN results
    BY DEF Pool!Collect
  <2>2. results[1] \in {Pool!Result(j) : j \in Pool!Jobs}
    BY <2>1 DEF Pool!OneCopy, Pool!Jobs
  <2>3. results[1] \notin Pool!Pool!Got
    <3>1. 1 \in 1 .. Len(results) /\ DOMAIN poolCollected = 1 .. Len(poolCollected)
      BY <2>1
    <3>2. \A k \in 1 .. Len(poolCollected) : results[1] # poolCollected[k]
      BY <3>1 DEF Pool!OneCopy
    <3> QED BY <3>1, <3>2 DEF Pool!Pool!Got
  <2> QED BY <2>1, <2>2, <2>3 DEF Pool!Pool!Deliver
<1> QED BY <1>1, <1>2, PoolTypeCorrect, JobsAreUnique, PTL
        DEF Pool!Spec, Pool!ExactlyOnce, Pool!Pool!Spec

-----------------------------------------------------------------------------
(*                                Pipeline                                 *)

\* What the stages make of the first n values.
Squared(n) == [i \in 1 .. n |-> i * i]
Wanted == {v \in Nat : v > Floor}
ResultOf(n) == Kept(Squared(n), Wanted)

\* What filter was given and kept, and how many values it was given.
Delivered == IF filter = "send" THEN Append(printed, filterVal) ELSE printed
Given == IF square = "send" THEN genNext - 2 ELSE genNext - 1

\* As long as no stage has given up, filter has delivered what the values it
\* was given yield; whatever happens, it has delivered the result of some of
\* the first values, and without the context's end the stages close in order.
StagesInv ==
    /\ Stages!TypeOK
    /\ square = "send" => genNext > 1 /\ squareVal = (genNext - 1) * (genNext - 1)
    /\ ctx = "live" \/ (square # "closed" /\ filter # "closed")
          => Delivered = ResultOf(Given)
    /\ filter # "closed" => \E n \in 0 .. NumValues : Delivered = ResultOf(n)
    /\ \E n \in 0 .. NumValues :
          /\ Len(printed) <= Len(ResultOf(n))
          /\ \A i \in 1 .. Len(printed) : printed[i] = ResultOf(n)[i]
    /\ ctx = "live" /\ genClosed => genNext = NumValues + 1
    /\ ctx = "live" /\ square = "closed" => genClosed
    /\ ctx = "live" /\ filter = "closed" => square = "closed"
    /\ ctx = "cancelled" => stagesMain = "done" /\ printed = ResultOf(NumValues)
    /\ stagesMain = "done" => filter = "closed"

\* What filter keeps is the selection of Selections.
LEMMA StagesKept == \A s, S : Stages!Kept(s, S) = Kept(s, S)
BY DEF Stages!Kept, Stages!KeptUpTo, Kept, KeptUpTo

\* The squares of the first n values are a sequence.
LEMMA SquaredIsSeq == \A n \in Nat : Squared(n) \in Seq(Nat)
<1> SUFFICES ASSUME NEW n \in Nat PROVE Squared(n) \in Seq(Nat)
  OBVIOUS
<1>1. \A i \in 1 .. n : i * i \in Nat
  OBVIOUS
<1> QED BY <1>1 DEF Squared

\* One value more yields one result more, or none.
LEMMA ResultSteps ==
    /\ ResultOf(0) = <<>>
    /\ \A n \in Nat :
          /\ ResultOf(n) \in Seq(Nat)
          /\ ResultOf(n + 1) = IF (n + 1) * (n + 1) > Floor
                               THEN Append(ResultOf(n), (n + 1) * (n + 1))
                               ELSE ResultOf(n)
<1>1. ResultOf(0) = <<>>
  <2>1. Squared(0) = <<>>
    BY DEF Squared
  <2> QED BY <2>1, KeptOfEmpty DEF ResultOf
<1>2. ASSUME NEW n \in Nat
      PROVE  /\ ResultOf(n) \in Seq(Nat)
             /\ ResultOf(n + 1) = IF (n + 1) * (n + 1) > Floor
                                  THEN Append(ResultOf(n), (n + 1) * (n + 1))
                                  ELSE ResultOf(n)
  <2> DEFINE sq == (n + 1) * (n + 1)
  <2>1. sq \in Nat /\ Squared(n) \in Seq(Nat)
    <3>1. sq \in Nat
      OBVIOUS
    <3>2. Squared(n) \in Seq(Nat)
      BY SquaredIsSeq
    <3> QED BY <3>1, <3>2
  <2>2. Squared(n + 1) = Append(Squared(n), sq)
    <3> DEFINE a == Squared(n)  b == Squared(n + 1)
    <3>1. /\ a \in Seq(Nat) /\ Len(a) = n /\ \A i \in 1 .. n : a[i] = i * i
          /\ b = [i \in 1 .. n + 1 |-> i * i]
      BY SquaredIsSeq DEF Squared
    <3> HIDE DEF a, b
    <3>2. Append(a, sq) = [i \in 1 .. n + 1 |-> IF i = n + 1 THEN sq ELSE a[i]]
      BY <3>1
    <3>3. \A i \in 1 .. n + 1 : i * i = IF i = n + 1 THEN sq ELSE a[i]
      BY <3>1
    <3> HIDE DEF sq
    <3>4. Append(a, sq) = b
      BY <3>1, <3>2, <3>3
    <3> QED BY <3>4 DEF a, b
  <2>3. sq \in Wanted <=> sq > Floor
    BY <2>1 DEF Wanted
  <2> HIDE DEF sq
  <2>4. ResultOf(n + 1) = IF sq > Floor THEN Append(ResultOf(n), sq) ELSE ResultOf(n)
    BY <2>1, <2>2, <2>3, KeptOfAppend DEF ResultOf
  <2>5. ResultOf(n) \in Seq(Nat)
    BY <2>1, KeptType DEF ResultOf
  <2> QED BY <2>4, <2>5 DEF sq
<1> QED BY <1>1, <1>2

\* The result of the first values begins the result of more of them.
LEMMA ResultsGrow ==
    ASSUME NEW m \in Nat, NEW n \in Nat, m <= n
    PROVE  /\ Len(ResultOf(m)) <= Len(ResultOf(n))
           /\ \A i \in 1 .. Len(ResultOf(m)) : ResultOf(m)[i] = ResultOf(n)[i]
<1> DEFINE Grown == {k \in Nat : /\ Len(ResultOf(m)) <= Len(ResultOf(m + k))
                                 /\ \A i \in 1 .. Len(ResultOf(m)) :
                                       ResultOf(m)[i] = ResultOf(m + k)[i]}
<1>1. 0 \in Grown
  BY ResultSteps
<1>2. ASSUME NEW k \in Nat, k \in Grown PROVE k + 1 \in Grown
  <2> DEFINE a == ResultOf(m)  b == ResultOf(m + k)  sq == (m + k + 1) * (m + k + 1)
             c == ResultOf(m + (k + 1))
  <2>1. a \in Seq(Nat) /\ b \in Seq(Nat) /\ sq \in Nat
    <3>1. m + k \in Nat
      OBVIOUS
    <3>2. sq \in Nat
      BY <3>1
    <3> HIDE DEF sq
    <3> QED BY <3>1, <3>2, ResultSteps
  <2>2. c = Append(b, sq) \/ c = b
    <3>1. m + k \in Nat /\ (m + k) + 1 = m + (k + 1)
      OBVIOUS
    <3> QED BY <3>1, ResultSteps
  <2>3. Len(a) <= Len(b) /\ \A i \in 1 .. Len(a) : a[i] = b[i]
    BY <1>2
  <2> HIDE DEF a, b, c, sq
  <2>4. Len(b) <= Len(c) /\ \A i \in 1 .. Len(b) : c[i] = b[i]
    <3>1. CASE c = b
      BY <2>1, <3>1
    <3>2. CASE c = Append(b, sq)
      BY <2>1, <3>2
    <3> QED BY <2>2, <3>1, <3>2
  <2>5. Len(a) <= Len(c) /\ \A i \in 1 .. Len(a) : a[i] = c[i]
    <3>1. Len(a) \in Nat /\ Len(b) \in Nat /\ Len(c) \in Nat
      BY <2>1, <2>2
    <3> QED BY <2>3, <2>4, <3>1
  <2> QED BY <2>5 DEF a, c
<1> HIDE DEF Grown
<1>3. n - m \in Grown
  BY <1>1, <1>2, InductionOnNumbers
<1>4. m + (n - m) = n
  OBVIOUS
<1> QED BY <1>3, <1>4 DEF Grown

\* No step of the pipeline takes a variable out of its range.
LEMMA StagesTypes == ASSUME Stages!TypeOK, Stages!Next PROVE Stages!TypeOK'
<1> USE PipelineAssumption DEF Stages!TypeOK
<1>1. CASE Stages!Expire \/ Stages!Finish \/ Stages!Terminated
  BY <1>1 DEF Stages!Expire, Stages!Finish, Stages!Terminated, Stages!vars
<1>2. CASE Stages!GenSend
  <2>1. genNext * genNext \in Nat
    OBVIOUS
  <2> DEFINE sq == genNext * genNext
  <2>2. /\ squareVal' = sq /\ genNext' = genNext + 1 /\ genNext <= NumValues /\ square' = "send"
        /\ UNCHANGED <<ctx, genClosed, filter, filterVal, stagesMain, printed>>
    BY <1>2 DEF Stages!GenSend
  <2> HIDE DEF sq
  <2> QED BY <2>1, <2>2 DEF sq
<1>3. CASE Stages!GenReturn \/ Stages!SquareReturn \/ Stages!FilterReturn
  BY <1>3 DEF Stages!GenReturn, Stages!SquareReturn, Stages!FilterReturn
<1>4. CASE Stages!SquareSend
  BY <1>4 DEF Stages!SquareSend
<1>5. CASE Stages!FilterSend
  <2>1. Append(printed, filterVal) \in Seq(Nat)
    OBVIOUS
  <2> QED BY <1>5, <2>1 DEF Stages!FilterSend
<1> QED BY <1>1, <1>2, <1>3, <1>4, <1>5
        DEF Stages!Next, Stages!Gen, Stages!Square, Stages!Filter

\* One step of the pipeline, action by action.
LEMMA StagesStep == ASSUME StagesInv, Stages!Next PROVE StagesInv'
<1> USE PipelineAssumption
<1>1. Stages!TypeOK'
  BY StagesTypes DEF StagesInv
<1>2. /\ genNext \in Nat /\ NumValues \in Nat /\ printed \in Seq(Nat)
      /\ filterVal \in Nat /\ squareVal \in Nat
      /\ genNext <= NumValues + 1 /\ 1 <= genNext
  BY DEF StagesInv, Stages!TypeOK
<1>3. CASE Stages!Expire
  <2>1. /\ ctx' = "expired"
        /\ UNCHANGED <<genNext, genClosed, square, squareVal, filter, filterVal,
                       stagesMain, printed>>
    BY <1>3 DEF Stages!Expire
  <2> QED BY <1>1, <1>3, <2>1 DEF StagesInv, Delivered, Given, Stages!Expire
<1>4. CASE Stages!GenSend
  <2>1. /\ genNext' = genNext + 1 /\ square = "recv" /\ square' = "send"
        /\ squareVal' = genNext * genNext /\ ~genClosed
        /\ UNCHANGED <<ctx, genClosed, filter, filterVal, stagesMain, printed>>
    BY <1>4 DEF Stages!GenSend
  <2>2. Given' = Given /\ Delivered' = Delivered
    BY <1>2, <2>1 DEF Given, Delivered
  <2>3. genNext' > 1 /\ genNext' - 1 = genNext
    BY <1>2, <2>1
  <2> QED BY <1>1, <2>1, <2>2, <2>3 DEF StagesInv
<1>5. CASE Stages!GenReturn
  <2>1. /\ genClosed' = TRUE /\ (genNext > NumValues \/ ctx # "live")
        /\ UNCHANGED <<ctx, genNext, square, squareVal, filter, filterVal,
                       stagesMain, printed>>
    BY <1>5 DEF Stages!GenReturn, Stages!Done
  <2>2. genNext > NumValues => genNext = NumValues + 1
    BY <1>2
  <2> QED BY <1>1, <2>1, <2>2 DEF StagesInv, Given, Delivered
<1>6. CASE Stages!SquareSend
  <2>1. /\ square = "send" /\ filter = "recv" /\ square' = "recv"
        /\ UNCHANGED <<ctx, genNext, genClosed, squareVal, stagesMain, printed>>
        /\ IF squareVal > Floor THEN filter' = "send" /\ filterVal' = squareVal
                                ELSE UNCHANGED <<filter, filterVal>>
    BY <1>6 DEF Stages!SquareSend, Stages!keep
  <2> DEFINE g == genNext - 2
  <2>2. g \in Nat /\ g + 1 = genNext - 1 /\ squareVal = (g + 1) * (g + 1)
    BY <1>2, <2>1 DEF StagesInv
  <2>3. Delivered = ResultOf(g) /\ Delivered = printed /\ Given' = g + 1
    BY <2>1, <2>2 DEF StagesInv, Delivered, Given
  <2> HIDE DEF g
  <2>4. ResultOf(g + 1) = IF squareVal > Floor THEN Append(printed, squareVal)
                          ELSE printed
    BY <2>2, <2>3, ResultSteps
  <2>5. Delivered' = ResultOf(g + 1)
    BY <2>1, <2>4 DEF Delivered
  <2>6. g + 1 \in 0 .. NumValues
    BY <1>2, <2>2
  <2>7. filter' # "closed" /\ square' # "closed"
    BY <2>1
  <2> QED BY <1>1, <2>1, <2>3, <2>5, <2>6, <2>7 DEF StagesInv
<1>7. CASE Stages!SquareReturn
  <2>1. /\ \/ square = "recv" /\ genClosed
           \/ square = "send" /\ ctx # "live"
        /\ square' = "closed"
        /\ UNCHANGED <<ctx, genNext, genClosed, squareVal, filter, filterVal,
                       stagesMain, printed>>
    BY <1>7 DEF Stages!SquareReturn, Stages!Done
  <2>2. Delivered' = Delivered /\ (ctx = "live" => Given' = Given)
    BY <2>1 DEF Delivered, Given
  <2> QED BY <1>1, <2>1, <2>2 DEF StagesInv
<1>8. CASE Stages!FilterSend
  <2>1. /\ filter = "send" /\ filter' = "recv"
        /\ printed' = Append(printed, filterVal) /\ stagesMain = "ranging"
        /\ UNCHANGED <<ctx, genNext, genClosed, square, squareVal, filterVal,
                       stagesMain>>
    BY <1>8 DEF Stages!FilterSend
  <2>2. Delivered' = Delivered /\ Given' = Given /\ printed' = Delivered
    BY <2>1 DEF Delivered, Given
  <2>3. PICK n \in 0 .. NumValues : Delivered = ResultOf(n)
    BY <2>1 DEF StagesInv
  <2>4. /\ Len(printed') <= Len(ResultOf(n))
        /\ \A i \in 1 .. Len(printed') : printed'[i] = ResultOf(n)[i]
    <3>1. printed' = ResultOf(n)
      BY <2>2, <2>3
    <3>2. ResultOf(n) \in Seq(Nat)
      BY ResultSteps
    <3> QED BY <3>1, <3>2
  <2>5. ctx # "cancelled"
    BY <2>1 DEF StagesInv
  <2> QED BY <1>1, <2>1, <2>2, <2>3, <2>4, <2>5 DEF StagesInv
<1>9. CASE Stages!FilterReturn
  <2>1. /\ \/ filter = "recv" /\ square = "closed"
           \/ filter = "send" /\ ctx # "live"
        /\ filter' = "closed"
        /\ UNCHANGED <<ctx, genNext, genClosed, square, squareVal, filterVal,
                       stagesMain, printed>>
    BY <1>9 DEF Stages!FilterReturn, Stages!Done
  <2>2. Given' = Given /\ (ctx = "live" => Delivered' = Delivered)
    BY <2>1 DEF Delivered, Given
  <2> QED BY <1>1, <2>1, <2>2 DEF StagesInv
<1>10. CASE Stages!Finish
  <2>1. /\ stagesMain = "ranging" /\ filter = "closed" /\ stagesMain' = "done"
        /\ ctx' = IF ctx # "live" THEN ctx ELSE "cancelled"
        /\ UNCHANGED <<genNext, genClosed, square, squareVal, filter, filterVal,
                       printed>>
    BY <1>10 DEF Stages!Finish, Stages!Done
  <2>2. Delivered' = Delivered /\ Given' = Given
    BY <2>1 DEF Delivered, Given
  <2>3. ctx = "live" => printed = ResultOf(NumValues)
    <3> SUFFICES ASSUME ctx = "live" PROVE printed = ResultOf(NumValues)
      OBVIOUS
    <3>1. square = "closed" /\ genNext = NumValues + 1
      BY <2>1 DEF StagesInv
    <3>2. Given = NumValues /\ Delivered = printed
      BY <1>2, <2>1, <3>1 DEF Given, Delivered
    <3> QED BY <3>2 DEF StagesInv
  <2>4. ctx' # "live"
    BY <2>1
  <2> QED BY <1>1, <2>1, <2>2, <2>3, <2>4 DEF StagesInv
<1>11. CASE Stages!Terminated
  BY <1>1, <1>11 DEF Stages!Terminated, Stages!vars, StagesInv, Given, Delivered
<1> QED
  BY <1>3, <1>4, <1>5, <1>6, <1>7, <1>8, <1>9, <1>10, <1>11
  DEF Stages!Next, Stages!Gen, Stages!Square, Stages!Filter

\* The pipeline, wherever its context ends.
THEOREM StagesCorrect == Spec => []StagesInv
<1> USE PipelineAssumption
<1>1. Init => StagesInv
  <2> SUFFICES ASSUME Init PROVE StagesInv
    OBVIOUS
  <2>1. /\ ctx = "live" /\ genNext = 1 /\ genClosed = FALSE
        /\ square = "recv" /\ squareVal = 0 /\ filter = "recv" /\ filterVal = 0
        /\ stagesMain = "ranging" /\ printed = <<>>
    BY DEF Init, Stages!Init
  <2>2. printed \in Seq(Nat) /\ Len(printed) = 0
    BY <2>1
  <2>3. Stages!TypeOK
    <3>1. genNext \in 1 .. NumValues + 1 /\ squareVal \in Nat /\ filterVal \in Nat
      BY <2>1
    <3>2. /\ ctx \in {"live", "expired", "cancelled"} /\ genClosed \in BOOLEAN
          /\ square \in {"recv", "send", "closed"} /\ filter \in {"recv", "send", "closed"}
          /\ stagesMain \in {"ranging", "done"}
      BY <2>1
    <3> QED BY <2>2, <3>1, <3>2, Zenon DEF Stages!TypeOK
  <2>4. Delivered = ResultOf(0) /\ Given = 0
    BY <2>1, ResultSteps DEF Delivered, Given
  <2>5. /\ Len(printed) <= Len(ResultOf(0))
        /\ \A i \in 1 .. Len(printed) : printed[i] = ResultOf(0)[i]
    BY <2>1, <2>2, ResultSteps
  <2>6. 0 \in 0 .. NumValues
    OBVIOUS
  <2> QED BY <2>1, <2>3, <2>4, <2>5, <2>6 DEF StagesInv
<1>2. StagesInv /\ [Next]_vars => StagesInv'
  <2> SUFFICES ASSUME StagesInv, [Next]_vars PROVE StagesInv'
    OBVIOUS
  <2>1. CASE pipeline
    BY <2>1, StagesStep DEF pipeline
  <2>2. CASE UNCHANGED stagesVars
    BY <2>2 DEF stagesVars, StagesInv, Stages!TypeOK, Given, Delivered
  <2> QED
    BY <2>1, <2>2
    DEF Next, workerPool, fanInOut, errgroupPattern, rateLimiting, vars
<1> QED BY <1>1, <1>2, PTL DEF Spec

\* What Expected abbreviates.
LEMMA ExpectedResult == Stages!Expected = ResultOf(NumValues)
BY StagesKept DEF Stages!Expected, ResultOf, Squared, Wanted

\* For any number of values and any floor: wherever the timeout strikes, main
\* has printed an initial part of the result, in order, skipping nothing; only
\* the timeout cuts it short, as the cancel that main defers comes after
\* everything was printed.
THEOREM PrinterSeesResult == Spec => []PrintsTheResult
<1>1. StagesInv => Stages!PrefixOfResult
  <2> SUFFICES ASSUME StagesInv PROVE Stages!PrefixOfResult
    OBVIOUS
  <2>1. PICK n \in 0 .. NumValues :
               /\ Len(printed) <= Len(ResultOf(n))
               /\ \A i \in 1 .. Len(printed) : printed[i] = ResultOf(n)[i]
    BY DEF StagesInv
  <2> DEFINE r == ResultOf(NumValues)  k == ResultOf(n)
  <2>2. /\ r \in Seq(Nat) /\ k \in Seq(Nat) /\ printed \in Seq(Nat)
        /\ Len(k) <= Len(r) /\ \A i \in 1 .. Len(k) : k[i] = r[i]
    <3>1. n \in Nat /\ NumValues \in Nat /\ n <= NumValues
      BY PipelineAssumption
    <3>2. r \in Seq(Nat) /\ k \in Seq(Nat)
      BY <3>1, ResultSteps
    <3>3. Len(k) <= Len(r) /\ \A i \in 1 .. Len(k) : k[i] = r[i]
      BY <3>1, ResultsGrow
    <3>4. printed \in Seq(Nat)
      BY DEF StagesInv, Stages!TypeOK
    <3> QED BY <3>2, <3>3, <3>4
  <2>3. Stages!Expected = r
    BY ExpectedResult
  <2> HIDE DEF r, k
  <2>4. Len(printed) <= Len(r) /\ \A i \in 1 .. Len(printed) : printed[i] = r[i]
    BY <2>1, <2>2 DEF k
  <2>5. SubSeq(printed, 1, Len(printed)) = SubSeq(r, 1, Len(printed))
    BY <2>2, <2>4
  <2> QED BY <2>3, <2>4, <2>5 DEF Stages!PrefixOfResult, Stages!IsPrefix
<1>2. StagesInv => Stages!CompleteUnlessExpired
  BY ExpectedResult DEF StagesInv, Stages!CompleteUnlessExpired
<1> QED BY <1>1, <1>2, StagesCorrect, PTL DEF PrintsTheResult

-----------------------------------------------------------------------------
(*                                The suite                                *)

\* The pool of the suite behaves as the pool alone.
LEMMA SuiteRunsPool == Spec => Pool!Spec
<1>1. Init => Pool!Init
  BY DEF Init
<1>2. [Next]_vars => [Pool!Next]_(Pool!vars)
  BY DEF Next, workerPool, errgroupPattern, fanInOut, pipeline, rateLimiting,
         vars, poolVars, Pool!vars
<1> QED BY <1>1, <1>2, PTL DEF Spec, Pool!Spec

\* No demo takes a variable out of its range, for any sizes of each.
THEOREM TypeCorrect == Spec => []TypeOK
<1>1. FanInv => Fan!TypeOK
  BY DEF FanInv
<1>2. StagesInv => Stages!TypeOK
  BY DEF StagesInv
<1> QED BY <1>1, <1>2, SuiteRunsPool, PoolTypeCorrect, FanCorrect, StagesCorrect,
           GroupTypeCorrect, LimitedTypeCorrect, PTL DEF TypeOK

\* For any numbers of jobs, workers and places in the channels, as long as the
\* jobs fit: somebody can always move while main sends or collects.
THEOREM PoolNeverStuck == Spec => []NeverStuck
BY SuiteRunsPool, NeverGetsStuck, PTL DEF NeverStuck

\* In the pool and the fan, for any sizes: a channel is closed after its last
\* send, and whoever sees it closed has had all of it.
THEOREM ChannelsClosedInOrder == Spec => []ClosedInOrder
<1>1. FanInv => Fan!CloseCascade
  BY DEF FanInv
<1> QED BY <1>1, SuiteRunsPool, PoolClosesInOrder, FanCorrect, PTL DEF ClosedInOrder

\* In the pool and the fan, for any sizes: what was sent and not yet collected
\* is in a channel or a goroutine's hands, in one copy.
THEOREM NothingIsLost == Spec => []Accounting
<1>1. FanInv => Fan!Backpressure
  BY PoolCounts DEF FanInv, Holding, Passing, Fan!Backpressure
<1> QED BY <1>1, SuiteRunsPool, BooksBalance, JobsAreUnique, FanCorrect, PTL
        DEF Accounting

\* The pool and the fan implement the delivery of every item, each at most
\* once, for any sizes.
THEOREM EachDeliveredOnce == Spec => ExactlyOnce
BY SuiteRunsPool, PoolDelivers, FanDelivers, PTL DEF ExactlyOnce
=============================================================================
