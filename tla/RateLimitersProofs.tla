-------------------------- MODULE RateLimitersProofs --------------------------
(***************************************************************************)
(* Proofs about the three limiters, for every size, rate, window, limit    *)
(* and clock bound: first each alone, then the three under one traffic.    *)
(*                                                                         *)
(* What is tied to the whole history of grants is inductive, and what the  *)
(* limiters promise is not: the level of the bucket (LevelInv), the        *)
(* counter of the fixed window and the span before it (WindowInv), the     *)
(* requests the sliding window keeps (RequestsExact, HistoryLawful).       *)
(***************************************************************************)
EXTENDS RateLimiters, Selections

(*                              Token bucket                               *)

\* The two facts about products the proofs need.
LEMMA Product ==
    /\ \A a, b \in Nat : a * b \in Nat
    /\ \A a, b, c \in Int : (a + b) * c = a * c + b * c
OBVIOUS

\* What passing or refusing does to the history.
LEMMA BucketAllowCases ==
    ASSUME Bucket!TypeOK, Bucket!Allow
    PROVE  \/ /\ Bucket!Enough(Bucket!Refilled)
              /\ tokens' = Bucket!Refilled - Unit
              /\ bucketGranted' = Bucket!Limiter!Granting
              /\ bucketVerdict' = "pass"
           \/ /\ ~Bucket!Enough(Bucket!Refilled)
              /\ tokens' = Bucket!Refilled
              /\ bucketGranted' = bucketGranted
              /\ bucketVerdict' = "refuse"
BY DEF Bucket!Allow, Bucket!Limiter!Granting, Bucket!Times, Bucket!TypeOK

\* The level is a number of fractions that fits the bucket, the previous call
\* lies in the past, and the history counts.
THEOREM BucketTypeCorrect == Bucket!Spec => []Bucket!TypeOK
<1>1. Bucket!Init => Bucket!TypeOK
  BY BucketAssumption DEF Bucket!Init, Bucket!TypeOK, Bucket!Times
<1>2. Bucket!TypeOK /\ [Bucket!Next]_(Bucket!vars) => Bucket!TypeOK'
  <2> SUFFICES ASSUME Bucket!TypeOK, [Bucket!Next]_(Bucket!vars) PROVE Bucket!TypeOK'
    OBVIOUS
  <2> USE BucketAssumption DEF Bucket!TypeOK, Bucket!Times
  <2>1. CASE Bucket!Allow
    <3>1. (now - lastTime) * Rate \in Nat
      <4>1. now - lastTime \in Nat
        OBVIOUS
      <4> QED BY <4>1, Product
    <3>2. Bucket!Refilled \in 0 .. Capacity
      BY <3>1 DEF Bucket!Refilled
    <3>3. tokens' \in 0 .. Capacity
      BY <2>1, <3>2 DEF Bucket!Allow, Bucket!Enough
    <3>4. bucketGranted' \in [Bucket!Times -> Nat]
      <4>1. [s \in Bucket!Times |-> IF s <= now
                                    THEN bucketGranted[s] + 1 ELSE bucketGranted[s]]
              \in [Bucket!Times -> Nat]
        OBVIOUS
      <4> QED BY <2>1, <4>1 DEF Bucket!Allow
    <3>5. now' \in Bucket!Times /\ lastTime' \in 0 .. now'
      BY <2>1 DEF Bucket!Allow
    <3>6. bucketVerdict' \in {"none", "pass", "refuse"}
      BY <2>1 DEF Bucket!Allow
    <3> QED BY <3>3, <3>4, <3>5, <3>6
  <2>2. CASE Bucket!Tick
    BY <2>2 DEF Bucket!Tick
  <2>3. CASE UNCHANGED Bucket!vars
    BY <2>3 DEF Bucket!vars
  <2> QED BY <2>1, <2>2, <2>3 DEF Bucket!Next
<1> QED BY <1>1, <1>2, PTL DEF Bucket!Spec

-----------------------------------------------------------------------------
\* After refilling, the level is still the tightest bound, seen from now.
LEMMA RefilledLevel ==
    ASSUME Bucket!TypeOK, Bucket!LevelInv
    PROVE  /\ Bucket!Refilled \in 0 .. Capacity
           /\ \A s \in 0 .. now : bucketGranted[s] * Unit + Bucket!Refilled
                                    <= Capacity + (now - s) * Rate
           /\ \E s \in 0 .. now : bucketGranted[s] * Unit + Bucket!Refilled
                                    = Capacity + (now - s) * Rate
<1> USE BucketAssumption DEF Bucket!TypeOK, Bucket!Times
<1> DEFINE brought == (now - lastTime) * Rate
<1>1. brought \in Nat
  <2>1. now - lastTime \in Nat
    OBVIOUS
  <2> QED BY <2>1, Product
<1>2. ASSUME NEW s \in 0 .. lastTime
      PROVE  /\ bucketGranted[s] * Unit \in Nat
             /\ (lastTime - s) * Rate \in Nat
             /\ (now - s) * Rate = (lastTime - s) * Rate + brought
  <2>1. bucketGranted[s] \in Nat /\ lastTime - s \in Nat
    OBVIOUS
  <2>2. now - s = (lastTime - s) + (now - lastTime)
    OBVIOUS
  <2>3. (now - s) * Rate = (lastTime - s) * Rate + brought
    BY <2>2, Product
  <2> QED BY <2>1, <2>3, Product
<1>3. ASSUME NEW s \in 0 .. now, s > lastTime
      PROVE  bucketGranted[s] * Unit = 0 /\ (now - s) * Rate \in Nat
  <2>1. bucketGranted[s] = 0 /\ now - s \in Nat
    BY <1>3 DEF Bucket!LevelInv
  <2> QED BY <2>1, Product
<1> HIDE DEF brought
<1>4. Bucket!Refilled = IF tokens + brought > Capacity
                        THEN Capacity ELSE tokens + brought
  BY DEF Bucket!Refilled, brought
<1>5. Bucket!Refilled \in 0 .. Capacity
  BY <1>1, <1>4
<1>6. ASSUME NEW s \in 0 .. now
      PROVE  bucketGranted[s] * Unit + Bucket!Refilled <= Capacity + (now - s) * Rate
  <2>1. CASE s <= lastTime
    <3>1. s \in 0 .. lastTime
      BY <2>1
    <3>2. tokens <= Capacity + (lastTime - s) * Rate - bucketGranted[s] * Unit
      BY <3>1 DEF Bucket!LevelInv, Bucket!Room
    <3> DEFINE spent == bucketGranted[s] * Unit
               room == (lastTime - s) * Rate
               later == (now - s) * Rate
    <3>3. /\ spent \in Nat /\ room \in Nat
          /\ later = room + brought /\ tokens <= Capacity + room - spent
      BY <1>2, <3>1, <3>2
    <3> HIDE DEF spent, room, later
    <3>4. spent + Bucket!Refilled <= Capacity + later
      BY <1>1, <1>4, <3>3
    <3> QED BY <3>4 DEF spent, later
  <2>2. CASE s > lastTime
    <3> DEFINE later == (now - s) * Rate
    <3>1. bucketGranted[s] * Unit = 0 /\ later \in Nat
      BY <1>3, <2>2
    <3> HIDE DEF later
    <3>2. 0 + Bucket!Refilled <= Capacity + later
      BY <1>5, <3>1
    <3> QED BY <3>1, <3>2 DEF later
  <2> QED BY <2>1, <2>2
<1>7. \E s \in 0 .. now : bucketGranted[s] * Unit + Bucket!Refilled
            = Capacity + (now - s) * Rate
  <2>1. PICK s \in 0 .. lastTime :
               tokens = Capacity + (lastTime - s) * Rate - bucketGranted[s] * Unit
    BY DEF Bucket!LevelInv, Bucket!Room
  <2>2. CASE Bucket!Refilled = tokens + brought
    <3> DEFINE spent == bucketGranted[s] * Unit
               room == (lastTime - s) * Rate
               later == (now - s) * Rate
    <3>1. /\ spent \in Nat /\ room \in Nat
          /\ later = room + brought /\ tokens = Capacity + room - spent
      BY <1>2, <2>1
    <3> HIDE DEF spent, room, later
    <3>2. spent + Bucket!Refilled = Capacity + later
      BY <1>1, <2>2, <3>1
    <3> QED BY <3>2 DEF spent, later
  <2>3. CASE Bucket!Refilled = Capacity /\ now > lastTime
    <3>1. bucketGranted[now] * Unit = 0
      BY <1>3, <2>3
    <3>2. (now - now) * Rate = 0
      OBVIOUS
    <3> QED BY <2>3, <3>1, <3>2
  <2>4. CASE now = lastTime
    <3>1. brought = 0
      BY <2>4 DEF brought
    <3> QED BY <1>4, <2>2, <3>1
  <2> QED BY <1>4, <2>2, <2>3, <2>4
<1> QED BY <1>5, <1>6, <1>7

\* The level says all the burst law says.
LEMMA LevelBounds ==
    ASSUME Bucket!TypeOK, Bucket!LevelInv
    PROVE  Bucket!BurstLaw
<1> USE BucketAssumption DEF Bucket!TypeOK, Bucket!Times
<1> SUFFICES ASSUME NEW s \in 0 .. now
             PROVE  bucketGranted[s] * Unit <= Capacity + (now - s) * Rate
  BY DEF Bucket!BurstLaw, Bucket!BurstFits
<1>1. bucketGranted[s] \in Nat /\ now - s \in Nat
  OBVIOUS
<1>2. bucketGranted[s] * Unit \in Nat /\ (now - s) * Rate \in Nat
  BY <1>1, Product
<1> QED BY <1>2, RefilledLevel

\* Adding one grant now is lawful exactly when a token is there.
LEMMA RefilledDecides ==
    ASSUME Bucket!TypeOK, Bucket!LevelInv
    PROVE  Bucket!Enough(Bucket!Refilled)
               <=> Bucket!BurstFits(Bucket!Limiter!Granting, now)
<1> USE BucketAssumption DEF Bucket!TypeOK, Bucket!Times
<1>1. ASSUME NEW s \in 0 .. now
      PROVE  /\ Bucket!Limiter!Granting[s] * Unit = bucketGranted[s] * Unit + Unit
             /\ bucketGranted[s] * Unit \in Nat
             /\ (now - s) * Rate \in Nat
  <2>1. bucketGranted[s] \in Nat /\ now - s \in Nat
    OBVIOUS
  <2>2. Bucket!Limiter!Granting[s] = bucketGranted[s] + 1
    BY DEF Bucket!Limiter!Granting
  <2>3. (bucketGranted[s] + 1) * Unit = bucketGranted[s] * Unit + 1 * Unit
    BY <2>1, Product
  <2> QED BY <2>1, <2>2, <2>3, Product
<1>2. ASSUME Bucket!Enough(Bucket!Refilled)
      PROVE  Bucket!BurstFits(Bucket!Limiter!Granting, now)
  <2> SUFFICES ASSUME NEW s \in 0 .. now
               PROVE  Bucket!Limiter!Granting[s] * Unit <= Capacity + (now - s) * Rate
    BY DEF Bucket!BurstFits
  <2> DEFINE spent == bucketGranted[s] * Unit
             more == Bucket!Limiter!Granting[s] * Unit
             later == (now - s) * Rate
  <2>1. more = spent + Unit /\ spent \in Nat /\ later \in Nat
    BY <1>1
  <2>2. spent + Bucket!Refilled <= Capacity + later /\ Bucket!Refilled \in Nat
    BY RefilledLevel
  <2> HIDE DEF spent, more, later
  <2>3. more <= Capacity + later
    BY <1>2, <2>1, <2>2 DEF Bucket!Enough
  <2> QED BY <2>3 DEF more, later
<1>3. ASSUME Bucket!BurstFits(Bucket!Limiter!Granting, now)
      PROVE  Bucket!Enough(Bucket!Refilled)
  <2>1. PICK s \in 0 .. now :
               bucketGranted[s] * Unit + Bucket!Refilled = Capacity + (now - s) * Rate
    BY RefilledLevel
  <2>2. bucketGranted[s] * Unit + Unit <= Capacity + (now - s) * Rate
    <3>1. Bucket!Limiter!Granting[s] * Unit <= Capacity + (now - s) * Rate
      BY <1>3 DEF Bucket!BurstFits
    <3> QED BY <1>1, <3>1
  <2> DEFINE spent == bucketGranted[s] * Unit
             later == (now - s) * Rate
  <2>3. /\ spent \in Nat /\ later \in Nat /\ Bucket!Refilled \in Nat
        /\ spent + Bucket!Refilled = Capacity + later
        /\ spent + Unit <= Capacity + later
    BY <1>1, <2>1, <2>2, RefilledLevel
  <2> HIDE DEF spent, later
  <2> QED BY <2>3 DEF Bucket!Enough
<1> QED BY <1>2, <1>3

\* Bucket!Allow leaves the tightest bound again, counted from now.
LEMMA AllowLevel ==
    ASSUME Bucket!TypeOK, Bucket!LevelInv, Bucket!Allow
    PROVE  Bucket!LevelInv'
<1> USE BucketAssumption DEF Bucket!TypeOK, Bucket!Times
<1>1. lastTime' = now /\ now' = now
  BY DEF Bucket!Allow
<1>2. ASSUME NEW s \in 0 .. now
      PROVE  /\ tokens' <= Bucket!Room(s)'
             /\ bucketGranted[s] * Unit + Bucket!Refilled = Capacity + (now - s) * Rate
                  => tokens' = Bucket!Room(s)'
  <2> DEFINE spent == bucketGranted[s] * Unit
             spent1 == bucketGranted'[s] * Unit
             later == (now - s) * Rate
  <2>1. bucketGranted[s] \in Nat /\ now - s \in Nat
    OBVIOUS
  <2>2. spent \in Nat /\ later \in Nat
    BY <2>1, Product
  <2>3. (bucketGranted[s] + 1) * Unit = spent + Unit
    BY <2>1, Product
  <2>4. Bucket!Room(s)' = Capacity + later - spent1
    BY <1>1 DEF Bucket!Room
  <2>5. spent + Bucket!Refilled <= Capacity + later /\ Bucket!Refilled \in Nat
    BY RefilledLevel
  <2>6. tokens' = Bucket!Refilled - (spent1 - spent)
    <3>1. CASE tokens' = Bucket!Refilled - Unit
               /\ bucketGranted' = Bucket!Limiter!Granting
      <4>1. bucketGranted'[s] = bucketGranted[s] + 1
        BY <3>1 DEF Bucket!Limiter!Granting
      <4>2. spent1 = spent + Unit
        BY <2>3, <4>1
      <4> HIDE DEF spent, spent1
      <4> QED BY <2>2, <2>5, <3>1, <4>2
    <3>2. CASE tokens' = Bucket!Refilled /\ bucketGranted' = bucketGranted
      <4>1. spent1 = spent
        BY <3>2
      <4> HIDE DEF spent, spent1
      <4> QED BY <2>2, <2>5, <3>2, <4>1
    <3> QED BY <3>1, <3>2, BucketAllowCases
  <2>7. spent1 \in Nat
    <3>1. bucketGranted'[s] \in Nat
      BY <2>1, BucketAllowCases DEF Bucket!Limiter!Granting
    <3> QED BY <3>1, Product
  <2>8. /\ tokens' <= Capacity + later - spent1
        /\ spent + Bucket!Refilled = Capacity + later
            => tokens' = Capacity + later - spent1
    <3> HIDE DEF spent, spent1, later
    <3> QED BY <2>2, <2>5, <2>6, <2>7
  <2> QED BY <2>4, <2>8
<1>3. \A s \in 0 .. now : tokens' <= Bucket!Room(s)'
  BY <1>2
<1>4. \E s \in 0 .. now : tokens' = Bucket!Room(s)'
  <2>1. PICK s \in 0 .. now :
               bucketGranted[s] * Unit + Bucket!Refilled = Capacity + (now - s) * Rate
    BY RefilledLevel
  <2> QED BY <1>2, <2>1
<1>5. \A s \in Bucket!Times : s > now => bucketGranted'[s] = 0
  BY BucketAllowCases DEF Bucket!LevelInv, Bucket!Limiter!Granting
<1> QED BY <1>1, <1>3, <1>4, <1>5 DEF Bucket!LevelInv

\* The level is the tightest bound the burst law has set so far.
THEOREM LevelCorrect == Bucket!Spec => []Bucket!LevelInv
<1>1. Bucket!Init => Bucket!LevelInv
  <2> SUFFICES ASSUME Bucket!Init PROVE Bucket!LevelInv
    OBVIOUS
  <2>1. Bucket!Room(0) = Capacity
    BY BucketAssumption DEF Bucket!Init, Bucket!Room, Bucket!Times
  <2> QED BY <2>1, BucketAssumption DEF Bucket!Init, Bucket!LevelInv, Bucket!Times
<1>2. Bucket!TypeOK /\ Bucket!LevelInv /\ [Bucket!Next]_(Bucket!vars)
          => Bucket!LevelInv'
  <2> SUFFICES ASSUME Bucket!TypeOK, Bucket!LevelInv, [Bucket!Next]_(Bucket!vars)
               PROVE  Bucket!LevelInv'
    OBVIOUS
  <2> USE BucketAssumption DEF Bucket!TypeOK, Bucket!Times
  <2>1. CASE Bucket!Allow
    BY <2>1, AllowLevel
  <2>2. CASE Bucket!Tick
    BY <2>2 DEF Bucket!Tick, Bucket!LevelInv, Bucket!Room
  <2>3. CASE UNCHANGED Bucket!vars
    BY <2>3 DEF Bucket!vars, Bucket!LevelInv, Bucket!Room
  <2> QED BY <2>1, <2>2, <2>3 DEF Bucket!Next
<1> QED BY <1>1, <1>2, BucketTypeCorrect, PTL DEF Bucket!Spec

\* From any moment on, passes stay within a full bucket plus the rate.
THEOREM BurstIsBounded == Bucket!Spec => []Bucket!BurstLaw
<1>1. Bucket!TypeOK /\ Bucket!LevelInv => Bucket!BurstLaw
  BY LevelBounds
<1> QED BY <1>1, BucketTypeCorrect, LevelCorrect, PTL

\* The bucket lets through exactly what the burst law allows: it implements
\* the limiter that remembers every grant.
THEOREM BucketImplementsBurstLimiter == Bucket!Spec => Bucket!ExactlyTheBurstLaw
<1>1. Bucket!Init => Bucket!Limiter!Init
  BY DEF Bucket!Init, Bucket!Limiter!Init, Bucket!Times
<1>2. Bucket!TypeOK /\ Bucket!LevelInv /\ [Bucket!Next]_(Bucket!vars)
          => [Bucket!Limiter!Next]_(Bucket!Limiter!vars)
  <2> SUFFICES ASSUME Bucket!TypeOK, Bucket!LevelInv, [Bucket!Next]_(Bucket!vars)
               PROVE  [Bucket!Limiter!Next]_(Bucket!Limiter!vars)
    OBVIOUS
  <2>1. CASE Bucket!Allow
    <3>1. Bucket!Enough(Bucket!Refilled)
              <=> Bucket!BurstFits(Bucket!Limiter!Granting, now)
      BY RefilledDecides
    <3>2. UNCHANGED now
      BY <2>1 DEF Bucket!Allow
    <3>3. Bucket!Limiter!Pass \/ Bucket!Limiter!Refuse
      BY <2>1, <3>1, <3>2, BucketAllowCases
      DEF Bucket!Limiter!Pass, Bucket!Limiter!Refuse
    <3> QED BY <3>3 DEF Bucket!Limiter!Next
  <2>2. CASE Bucket!Tick
    BY <2>2 DEF Bucket!Tick, Bucket!Limiter!Next, Bucket!Limiter!Tick
  <2>3. CASE UNCHANGED Bucket!vars
    BY <2>3 DEF Bucket!vars, Bucket!Limiter!vars
  <2> QED BY <2>1, <2>2, <2>3 DEF Bucket!Next
<1> QED BY <1>1, <1>2, BucketTypeCorrect, LevelCorrect, PTL
        DEF Bucket!Spec, Bucket!ExactlyTheBurstLaw, Bucket!Limiter!Spec

-----------------------------------------------------------------------------
(*                              Fixed window                               *)

\* No call and no tick takes a field out of its range.
LEMMA FixedTypeStep == Fixed!TypeOK /\ [Fixed!Next]_(Fixed!vars) => Fixed!TypeOK'
<1> USE WindowAssumption DEF Fixed!TypeOK, Fixed!Times
<1> SUFFICES ASSUME Fixed!TypeOK, [Fixed!Next]_(Fixed!vars) PROVE Fixed!TypeOK'
  OBVIOUS
<1>1. CASE Fixed!Allow
  <2>1. [s \in Fixed!Times |-> IF s <= now
                               THEN fixedGranted[s] + 1 ELSE fixedGranted[s]]
            \in [Fixed!Times -> Nat]
    OBVIOUS
  <2>2. fixedGranted' \in [Fixed!Times -> Nat]
    BY <1>1, <2>1 DEF Fixed!Allow
  <2>3. count' \in 0 .. Limit
    BY <1>1 DEF Fixed!Allow, Fixed!Counted
  <2>4. now' \in Fixed!Times /\ resetAt' \in Window .. now' + Window
    BY <1>1 DEF Fixed!Allow
  <2>5. fixedVerdict' \in {"none", "pass", "refuse"}
    BY <1>1 DEF Fixed!Allow
  <2> QED BY <2>2, <2>3, <2>4, <2>5
<1>2. CASE Fixed!Tick
  BY <1>2 DEF Fixed!Tick
<1>3. CASE UNCHANGED Fixed!vars
  BY <1>3 DEF Fixed!vars
<1> QED BY <1>1, <1>2, <1>3 DEF Fixed!Next

\* The counter never passes the limit and resetAt is at most a window away.
THEOREM FixedTypeCorrect == Fixed!Spec => []Fixed!TypeOK
<1>1. Fixed!Init => Fixed!TypeOK
  BY WindowAssumption DEF Fixed!Init, Fixed!TypeOK, Fixed!Times
<1> QED BY <1>1, FixedTypeStep, PTL DEF Fixed!Spec

-----------------------------------------------------------------------------
\* Before Fixed!Allow counts the caller, the window it counts in is already the one
\* it will leave behind, and that window satisfies Fixed!WindowInv.
LEMMA AfterReset ==
    ASSUME Fixed!TypeOK, Fixed!WindowInv, Fixed!Allow
    PROVE  /\ Fixed!Start' \in 0 .. now
           /\ now <= Fixed!Start' + Window
           /\ Fixed!Counted \in 0 .. Limit
           /\ fixedGranted[Fixed!Start'] = Fixed!Counted
           /\ \A s \in Fixed!Times : s >= Fixed!Start' - Window - 1
               => fixedGranted[s] <= Fixed!Counted + Limit
<1> USE WindowAssumption DEF Fixed!TypeOK, Fixed!Times
<1>1. CASE Fixed!ResetDue
  <2>1. Fixed!Start' = now /\ Fixed!Counted = 0
    BY <1>1 DEF Fixed!Allow, Fixed!Start, Fixed!Counted
  <2>2. now > Fixed!Start + Window
    BY <1>1 DEF Fixed!ResetDue, Fixed!Start
  <2>3. Fixed!Start \in Fixed!Times /\ fixedGranted[Fixed!Start] = count
    BY <2>2 DEF Fixed!Start, Fixed!WindowInv, Fixed!From
  <2>4. ASSUME NEW s \in Fixed!Times, s >= now - Window - 1
        PROVE  fixedGranted[s] <= Limit
    <3>1. s >= Fixed!Start
      BY <2>2, <2>3, <2>4
    <3>2. fixedGranted[s] <= fixedGranted[Fixed!Start]
      BY <2>3, <3>1 DEF Fixed!WindowInv
    <3> QED BY <2>3, <3>2
  <2>5. fixedGranted[now] = 0
    BY <2>2 DEF Fixed!Start, Fixed!WindowInv
  <2> QED BY <2>1, <2>4, <2>5
<1>2. CASE ~Fixed!ResetDue
  <2>1. Fixed!Start' = Fixed!Start /\ Fixed!Counted = count
    BY <1>2 DEF Fixed!Allow, Fixed!Start, Fixed!Counted
  <2>2. now <= Fixed!Start + Window /\ Fixed!Start \in 0 .. now
    BY <1>2 DEF Fixed!ResetDue, Fixed!Start
  <2> QED BY <2>1, <2>2 DEF Fixed!WindowInv, Fixed!From
<1> QED BY <1>1, <1>2

\* What Fixed!Allow does to the history and the counter.
LEMMA FixedAllowCases ==
    ASSUME Fixed!TypeOK, Fixed!Allow
    PROVE  /\ now' = now
           /\ \/ /\ Fixed!Counted < Limit
                 /\ count' = Fixed!Counted + 1
                 /\ \A s \in Fixed!Times :
                       fixedGranted'[s] = fixedGranted[s] + (IF s <= now THEN 1 ELSE 0)
              \/ /\ Fixed!Counted >= Limit
                 /\ count' = Fixed!Counted
                 /\ fixedGranted' = fixedGranted
BY WindowAssumption DEF Fixed!Allow, Fixed!TypeOK, Fixed!Times, Fixed!Counted

\* Fixed!Allow leaves a counter that again agrees with the history.
LEMMA AllowWindow ==
    ASSUME Fixed!TypeOK, Fixed!WindowInv, Fixed!Allow
    PROVE  Fixed!WindowInv'
<1> USE WindowAssumption DEF Fixed!TypeOK, Fixed!Times
<1>1. Fixed!From(Fixed!Start)' = count'
  BY AfterReset, FixedAllowCases DEF Fixed!From
<1>2. ASSUME NEW s \in Fixed!Times, s >= Fixed!Start' - Window - 1
      PROVE  Fixed!From(s)' <= count' + Limit
  <2>1. fixedGranted[s] <= Fixed!Counted + Limit /\ fixedGranted[s] \in Nat
        /\ Fixed!Counted \in Nat
    BY <1>2, AfterReset
  <2>2. \/ /\ count' = Fixed!Counted + 1
           /\ fixedGranted'[s] \in {fixedGranted[s], fixedGranted[s] + 1}
        \/ count' = Fixed!Counted /\ fixedGranted'[s] = fixedGranted[s]
    BY <2>1, FixedAllowCases
  <2>3. Fixed!From(s)' = fixedGranted'[s]
    BY DEF Fixed!From
  <2> QED BY <2>1, <2>2, <2>3
<1>3. \A s \in Fixed!Times : s > now' \/ s > resetAt' => fixedGranted'[s] = 0
  <2>1. resetAt' = Fixed!Start' + Window
    BY DEF Fixed!Start, Fixed!Allow
  <2>2. ASSUME NEW s \in Fixed!Times, s > now
        PROVE  fixedGranted'[s] = 0
    <3>1. fixedGranted[s] = 0
      BY <2>2 DEF Fixed!WindowInv
    <3> QED BY <2>2, <3>1, FixedAllowCases
  <2>3. now <= resetAt' /\ resetAt' \in Int /\ now' = now
    BY <2>1, AfterReset, FixedAllowCases
  <2> QED BY <2>2, <2>3
<1>4. \A s, t \in Fixed!Times : s <= t => fixedGranted'[t] <= fixedGranted'[s]
  <2> SUFFICES ASSUME NEW s \in Fixed!Times, NEW t \in Fixed!Times, s <= t
               PROVE  fixedGranted'[t] <= fixedGranted'[s]
    OBVIOUS
  <2>1. fixedGranted[t] <= fixedGranted[s] /\ fixedGranted[t] \in Nat
        /\ fixedGranted[s] \in Nat
    BY DEF Fixed!WindowInv
  <2> QED BY <2>1, FixedAllowCases
<1> QED BY <1>1, <1>2, <1>3, <1>4 DEF Fixed!WindowInv

\* The counter agrees with the history, as far back as it has to.
THEOREM CounterCorrect == Fixed!Spec => []Fixed!WindowInv
<1> USE WindowAssumption DEF Fixed!TypeOK, Fixed!Times
<1>1. Fixed!Init => Fixed!WindowInv
  BY DEF Fixed!Init, Fixed!WindowInv, Fixed!From, Fixed!Start
<1>2. Fixed!TypeOK /\ Fixed!WindowInv /\ [Fixed!Next]_(Fixed!vars) => Fixed!WindowInv'
  <2> SUFFICES ASSUME Fixed!TypeOK, Fixed!WindowInv, [Fixed!Next]_(Fixed!vars)
               PROVE  Fixed!WindowInv'
    OBVIOUS
  <2>1. CASE Fixed!Allow
    BY <2>1, AllowWindow
  <2>2. CASE Fixed!Tick
    BY <2>2 DEF Fixed!Tick, Fixed!WindowInv, Fixed!From, Fixed!Start
  <2>3. CASE UNCHANGED Fixed!vars
    BY <2>3 DEF Fixed!vars, Fixed!WindowInv, Fixed!From, Fixed!Start
  <2> QED BY <2>1, <2>2, <2>3 DEF Fixed!Next
<1> QED BY <1>1, <1>2, FixedTypeCorrect, PTL DEF Fixed!Spec

-----------------------------------------------------------------------------
\* No span as long as a window ever sees more than two windows' worth.
THEOREM FixedTwoWindowsAtMost == Fixed!Spec => []Fixed!AtMostTwoWindows
<1> USE WindowAssumption DEF Fixed!TypeOK, Fixed!Times
<1>1. Fixed!Init => Fixed!AtMostTwoWindows
  BY DEF Fixed!Init, Fixed!AtMostTwoWindows, Fixed!InSpan, Fixed!From
<1>2. Fixed!TypeOK /\ Fixed!WindowInv /\ Fixed!AtMostTwoWindows
      /\ [Fixed!Next]_(Fixed!vars) => Fixed!AtMostTwoWindows'
  <2> SUFFICES ASSUME Fixed!TypeOK, Fixed!WindowInv, Fixed!AtMostTwoWindows,
                      [Fixed!Next]_(Fixed!vars)
               PROVE  Fixed!AtMostTwoWindows'
    OBVIOUS
  <2>1. CASE Fixed!Allow
    <3> SUFFICES ASSUME NEW s \in Fixed!Times PROVE Fixed!InSpan(s)' <= 2 * Limit
      BY DEF Fixed!AtMostTwoWindows
    <3>1. CASE now \in s .. s + Window
      <4> HIDE DEF Fixed!TypeOK
      <4>1. Fixed!TypeOK' /\ Fixed!WindowInv'
        BY <2>1, FixedTypeStep, AllowWindow
      <4>2. Fixed!Start' \in 0 .. now
        BY <2>1, AfterReset
      <4>3. s >= Fixed!Start' - Window - 1
        <5>1. now \in Nat /\ Fixed!Start' \in Nat /\ Fixed!Start' <= now
              /\ now <= s + Window
          BY <3>1, <4>2 DEF Fixed!TypeOK
        <5>2. s \in Nat /\ Window \in Nat
          OBVIOUS
        <5>3. \A a, b, c, w \in Nat : a <= b /\ b <= c + w => c >= a - w - 1
          OBVIOUS
        <5> QED BY ONLY <5>1, <5>2, <5>3
      <4>4. Fixed!From(s)' <= count' + Limit
        BY <4>1, <4>3 DEF Fixed!WindowInv
      <4>5. count' \in 0 .. Limit /\ fixedGranted' \in [Fixed!Times -> Nat]
        BY <4>1 DEF Fixed!TypeOK
      <4>6. Fixed!From(s)' \in Nat /\ Fixed!From(s + Window + 1)' \in Nat
        BY <4>5 DEF Fixed!From
      <4> QED BY <4>4, <4>5, <4>6 DEF Fixed!InSpan
    <3>2. CASE now < s \/ s + Window < now
      <4>1. Fixed!InSpan(s)' = Fixed!InSpan(s)
        <5>1. CASE now < s
          BY <2>1, <5>1, FixedAllowCases DEF Fixed!InSpan, Fixed!From
        <5>2. CASE s + Window < now
          BY <2>1, <5>2, FixedAllowCases DEF Fixed!InSpan, Fixed!From
        <5> QED BY <3>2, <5>1, <5>2
      <4> QED BY <4>1 DEF Fixed!AtMostTwoWindows
    <3> QED BY <3>1, <3>2
  <2>2. CASE Fixed!Tick
    BY <2>2 DEF Fixed!Tick, Fixed!AtMostTwoWindows, Fixed!InSpan, Fixed!From
  <2>3. CASE UNCHANGED Fixed!vars
    BY <2>3 DEF Fixed!vars, Fixed!AtMostTwoWindows, Fixed!InSpan, Fixed!From
  <2> QED BY <2>1, <2>2, <2>3 DEF Fixed!Next
<1> QED BY <1>1, <1>2, FixedTypeCorrect, CounterCorrect, PTL DEF Fixed!Spec

\* A refused caller finds Limit grants within the last Window ticks.
THEOREM FixedRefusalsAreEarned == Fixed!Spec => []Fixed!RefusalIsEarned
<1> USE WindowAssumption DEF Fixed!TypeOK, Fixed!Times
<1>1. Fixed!Init => Fixed!RefusalIsEarned
  BY DEF Fixed!Init, Fixed!RefusalIsEarned
<1>2. Fixed!TypeOK /\ Fixed!WindowInv /\ Fixed!RefusalIsEarned
      /\ [Fixed!Next]_(Fixed!vars) => Fixed!RefusalIsEarned'
  <2> SUFFICES ASSUME Fixed!TypeOK, Fixed!WindowInv, Fixed!RefusalIsEarned,
                      [Fixed!Next]_(Fixed!vars)
               PROVE  Fixed!RefusalIsEarned'
    OBVIOUS
  <2>1. CASE Fixed!Allow
    <3> SUFFICES ASSUME fixedVerdict' = "refuse"
                 PROVE  \E s \in Fixed!Times : s >= now' - Window
                        /\ fixedGranted'[s] >= Limit
      BY DEF Fixed!RefusalIsEarned
    <3>1. Fixed!Counted >= Limit /\ fixedGranted' = fixedGranted /\ now' = now
      BY <2>1 DEF Fixed!Allow, Fixed!Counted
    <3> QED BY <2>1, <3>1, AfterReset
  <2>2. CASE Fixed!Tick
    BY <2>2 DEF Fixed!Tick, Fixed!RefusalIsEarned
  <2>3. CASE UNCHANGED Fixed!vars
    BY <2>3 DEF Fixed!vars, Fixed!RefusalIsEarned
  <2> QED BY <2>1, <2>2, <2>3 DEF Fixed!Next
<1> QED BY <1>1, <1>2, FixedTypeCorrect, CounterCorrect, PTL DEF Fixed!Spec

-----------------------------------------------------------------------------
(*                             Sliding window                              *)

\* The slice of the sliding window is filtered by the loop of Selections.
LEMMA SlidingKept == \A s, S : Sliding!Kept(s, S) = Kept(s, S)
BY DEF Sliding!Kept, Sliding!KeptUpTo, Kept, KeptUpTo

\* No call and no tick takes a field out of its range.
LEMMA SlidingTypeStep == Sliding!TypeOK /\ [Sliding!Next]_(Sliding!vars)
    => Sliding!TypeOK'
<1> USE WindowAssumption DEF Sliding!TypeOK, Sliding!Times
<1> SUFFICES ASSUME Sliding!TypeOK, [Sliding!Next]_(Sliding!vars)
             PROVE  Sliding!TypeOK'
  OBVIOUS
<1>1. CASE Sliding!Allow
  <2> DEFINE valid == Sliding!Kept(requests, Sliding!StillValid)
  <2>1. valid \in Seq(Sliding!Times)
    BY SlidingKept, KeptType
  <2>2. requests' = Append(valid, now) \/ requests' = valid
    BY <1>1 DEF Sliding!Allow
  <2> HIDE DEF valid
  <2>3. requests' \in Seq(Sliding!Times)
    <3>1. \A T : valid \in Seq(T) /\ now \in T => Append(valid, now) \in Seq(T)
      OBVIOUS
    <3> QED BY <2>1, <2>2, <3>1
  <2>4. slidingGranted' \in [Sliding!Times -> Nat]
    <3>1. Sliding!Limiter!Granting \in [Sliding!Times -> Nat]
      BY DEF Sliding!Limiter!Granting
    <3> QED BY <1>1, <3>1 DEF Sliding!Allow
  <2>5. now' \in Sliding!Times /\ slidingVerdict' \in {"none", "pass", "refuse"}
    BY <1>1 DEF Sliding!Allow
  <2> QED BY <2>3, <2>4, <2>5
<1>2. CASE Sliding!Tick
  BY <1>2 DEF Sliding!Tick
<1>3. CASE UNCHANGED Sliding!vars
  BY <1>3 DEF Sliding!vars
<1> QED BY <1>1, <1>2, <1>3 DEF Sliding!Next

-----------------------------------------------------------------------------
\* The requests Allow keeps are in order, none of them lies ahead, and a later
\* time within the window counts the same in them as in the slice before.
LEMMA ValidRequests ==
    ASSUME Sliding!TypeOK, Sliding!RequestsExact, Sliding!HistoryLawful
    PROVE  LET valid == Kept(requests, Sliding!StillValid)
           IN  /\ valid \in Seq(Sliding!Times)
               /\ Len(valid) <= Limit
               /\ \A i, j \in 1 .. Len(valid) : i <= j => valid[i] <= valid[j]
               /\ \A i \in 1 .. Len(valid) : valid[i] <= now
               /\ \A s \in Sliding!Times : s > now - Window =>
                     slidingGranted[s] = Len(Kept(valid, {t \in Sliding!Times : t >= s}))
<1> USE WindowAssumption
<1> DEFINE V == Sliding!StillValid  valid == Kept(requests, V)
<1>1. requests \in Seq(Sliding!Times) /\ Sliding!Times \in SUBSET Int /\ now \in Int
  BY DEF Sliding!TypeOK, Sliding!Times
<1>2. valid \in Seq(Sliding!Times) /\ Len(valid) <= Len(requests)
  BY <1>1, KeptType
<1>3. Len(valid) <= Limit
  BY <1>1, <1>2 DEF Sliding!RequestsExact
<1>4. \A i, j \in 1 .. Len(requests) : i <= j => requests[i] <= requests[j]
  BY <1>1 DEF Sliding!RequestsExact
<1>5. \A i, j \in 1 .. Len(valid) : i <= j => valid[i] <= valid[j]
  BY <1>1, <1>4, KeptAscends
<1>6. ASSUME NEW i \in 1 .. Len(valid) PROVE valid[i] <= now
  <2>1. PICK e : Places(e, requests, V)
    BY <1>1, KeptPlaces
  <2>2. valid[i] = requests[e[i]] /\ e[i] \in 1 .. Len(requests)
    BY <2>1 DEF Places
  <2>3. \A j \in 1 .. Len(requests) : requests[j] <= now
    BY <1>1 DEF Sliding!HistoryLawful
  <2> HIDE DEF valid, V
  <2> QED BY <2>2, <2>3
<1>7. ASSUME NEW s \in Sliding!Times, s > now - Window
      PROVE  slidingGranted[s] = Len(Kept(valid, {t \in Sliding!Times : t >= s}))
  <2> DEFINE From == {t \in Sliding!Times : t >= s}
  <2>1. V \cap From = From
    BY <1>1, <1>7 DEF Sliding!StillValid, Sliding!Times
  <2>2. slidingGranted[s] = Len(Kept(requests, From))
    BY <1>7, SlidingKept DEF Sliding!RequestsExact
  <2> HIDE DEF From, V
  <2>3. Kept(valid, From) = Kept(requests, V \cap From)
    BY <1>1, KeptTwice
  <2>4. slidingGranted[s] = Len(Kept(valid, From))
    BY <2>1, <2>2, <2>3
  <2> QED BY <2>4 DEF From
<1> QED BY <1>2, <1>3, <1>5, <1>6, <1>7

\* There is room among them exactly when the window law allows one more grant,
\* whatever stretch of time it is applied to.
LEMMA RoomDecides ==
    ASSUME Sliding!TypeOK, Sliding!RequestsExact, Sliding!HistoryLawful
    PROVE  Len(Kept(requests, Sliding!StillValid)) < Limit
             <=> Sliding!WindowFits(Sliding!Limiter!Granting, now)
<1> USE WindowAssumption DEF Sliding!Times
<1> DEFINE g == slidingGranted  h == Sliding!Limiter!Granting
           c == IF now - Window + 1 >= 0 THEN now - Window + 1 ELSE 0
           room == Limit - Len(Kept(requests, Sliding!StillValid))
<1>1. g \in [0 .. MaxTime -> Nat] /\ now \in 0 .. MaxTime
  BY DEF Sliding!TypeOK
<1>2. c \in 0 .. now /\ c + Window > now /\ c > now - Window
  BY <1>1
<1>3. g[c] = Len(Kept(requests, Sliding!StillValid))
  <2>1. {t \in Sliding!Times : t >= c} = Sliding!StillValid
    BY <1>1 DEF Sliding!StillValid
  <2> HIDE DEF c
  <2>2. g[c] = Len(Sliding!Kept(requests, {t \in Sliding!Times : t >= c}))
    BY <1>1, <1>2 DEF Sliding!RequestsExact
  <2> QED BY <2>1, <2>2, SlidingKept
<1>4. \A s \in 0 .. MaxTime : h[s] = IF s <= now THEN g[s] + 1 ELSE g[s]
  BY DEF Sliding!Limiter!Granting
<1>5. /\ \A s \in 0 .. MaxTime : s > now => g[s] = 0
      /\ \A s, t \in 0 .. MaxTime : s <= t => g[t] <= g[s]
      /\ \A s \in 0 .. now : Sliding!From(g, s) - Sliding!From(g, s + Window) <= Limit
  BY DEF Sliding!HistoryLawful, Sliding!WindowFits
<1> HIDE DEF c, g, h
<1>6. ASSUME g[c] < Limit PROVE Sliding!WindowFits(h, now)
  <2> SUFFICES ASSUME NEW s \in 0 .. now
               PROVE  Sliding!From(h, s) - Sliding!From(h, s + Window) <= Limit
    BY DEF Sliding!WindowFits
  <2>1. s \in 0 .. MaxTime /\ h[s] = g[s] + 1 /\ g[s] \in Nat
    BY <1>1, <1>4
  <2>2. CASE s + Window <= now
    <3>1. s + Window \in 0 .. MaxTime /\ h[s + Window] = g[s + Window] + 1
          /\ g[s + Window] \in Nat
      BY <1>1, <1>4, <2>2
    <3>2. g[s] - g[s + Window] <= Limit
      BY <1>5, <2>1, <3>1 DEF Sliding!From
    <3> QED BY <2>1, <3>1, <3>2 DEF Sliding!From
  <2>3. CASE s + Window > now
    <3>1. c <= s
      BY <1>1, <2>3 DEF c
    <3>2. g[s] <= g[c] /\ g[c] \in Nat
      BY <1>1, <1>2, <1>5, <2>1, <3>1
    <3>3. Sliding!From(h, s + Window) \in Nat
      <4>1. s + Window \in 0 .. MaxTime => h[s + Window] \in Nat
        BY <1>1, <1>4
      <4> QED BY <4>1 DEF Sliding!From
    <3>4. Sliding!From(h, s) = g[s] + 1
      BY <2>1 DEF Sliding!From
    <3> QED BY <1>6, <2>1, <3>2, <3>3, <3>4
  <2> QED BY <1>1, <2>2, <2>3
<1>7. ASSUME Sliding!WindowFits(h, now) PROVE g[c] < Limit
  <2>1. Sliding!From(h, c) - Sliding!From(h, c + Window) <= Limit
    BY <1>2, <1>7 DEF Sliding!WindowFits
  <2>2. Sliding!From(h, c) = g[c] + 1 /\ g[c] \in Nat
    BY <1>1, <1>2, <1>4 DEF Sliding!From
  <2>3. Sliding!From(h, c + Window) = 0
    <3>1. c + Window \in 0 .. MaxTime => h[c + Window] = 0
      BY <1>1, <1>2, <1>4, <1>5
    <3> QED BY <3>1 DEF Sliding!From
  <2> QED BY <2>1, <2>2, <2>3
<1> QED BY <1>3, <1>6, <1>7 DEF h

\* What Allow does to the slice and the history.
LEMMA SlidingAllowCases ==
    ASSUME Sliding!TypeOK, Sliding!Allow
    PROVE  LET valid == Kept(requests, Sliding!StillValid)
           IN  /\ now' = now
               /\ \/ /\ Len(valid) < Limit
                     /\ requests' = Append(valid, now)
                     /\ slidingGranted' = Sliding!Limiter!Granting
                     /\ slidingVerdict' = "pass"
                  \/ /\ ~(Len(valid) < Limit)
                     /\ requests' = valid
                     /\ slidingGranted' = slidingGranted
                     /\ slidingVerdict' = "refuse"
BY SlidingKept DEF Sliding!Allow

\* Allow leaves a slice that again has a request for each grant of the window.
LEMMA AllowRequests ==
    ASSUME Sliding!TypeOK, Sliding!RequestsExact, Sliding!HistoryLawful, Sliding!Allow
    PROVE  Sliding!RequestsExact' /\ Sliding!HistoryLawful'
<1> USE WindowAssumption
<1> DEFINE valid == Kept(requests, Sliding!StillValid)
           Since(s) == {t \in Sliding!Times : t >= s}
<1>1. /\ valid \in Seq(Sliding!Times) /\ Len(valid) \in Nat /\ Len(valid) <= Limit
      /\ \A i, j \in 1 .. Len(valid) : i <= j => valid[i] <= valid[j]
      /\ \A i \in 1 .. Len(valid) : valid[i] <= now
      /\ \A s \in Sliding!Times : s > now - Window =>
            slidingGranted[s] = Len(Kept(valid, Since(s)))
  BY ValidRequests
<1>2. now \in 0 .. MaxTime /\ slidingGranted \in [0 .. MaxTime -> Nat]
  BY DEF Sliding!TypeOK, Sliding!Times
<1>3. /\ Sliding!WindowFits(slidingGranted, now)
      /\ \A s \in Sliding!Times : s > now => slidingGranted[s] = 0
      /\ \A s, t \in Sliding!Times : s <= t => slidingGranted[t] <= slidingGranted[s]
  BY DEF Sliding!HistoryLawful
<1>4. CASE /\ ~(Len(valid) < Limit) /\ now' = now
           /\ requests' = valid /\ slidingGranted' = slidingGranted
  <2>1. Sliding!HistoryLawful'
    <3>1. \A i \in DOMAIN valid : valid[i] <= now
      BY <1>1
    <3> HIDE DEF valid
    <3> QED BY <1>3, <1>4, <3>1
        DEF Sliding!HistoryLawful, Sliding!WindowFits, Sliding!From
  <2>2. Sliding!RequestsExact'
    <3>1. DOMAIN valid = 1 .. Len(valid)
      BY <1>1
    <3>2. \A s \in Sliding!Times : s > now - Window =>
            slidingGranted[s] = Len(Sliding!Kept(valid, {t \in Sliding!Times : t >= s}))
      BY <1>1, SlidingKept
    <3> HIDE DEF valid
    <3> QED BY <1>1, <1>4, <3>1, <3>2 DEF Sliding!RequestsExact
  <2> QED BY <2>1, <2>2
<1>5. CASE /\ Len(valid) < Limit /\ now' = now
           /\ requests' = Append(valid, now)
           /\ slidingGranted' = Sliding!Limiter!Granting
  <2> DEFINE r == Append(valid, now)  g == slidingGranted  h == Sliding!Limiter!Granting
  <2>1. \A s \in Sliding!Times : h[s] = IF s <= now THEN g[s] + 1 ELSE g[s]
    BY DEF Sliding!Limiter!Granting, Sliding!Times
  <2>2. now \in Sliding!Times
    BY <1>2 DEF Sliding!Times
  <2>3. /\ DOMAIN r = 1 .. Len(r) /\ Len(r) = Len(valid) + 1 /\ r[Len(r)] = now
        /\ \A i \in 1 .. Len(valid) : r[i] = valid[i]
    BY <1>1, <2>2
  <2>4. Sliding!WindowFits(h, now)
    BY <1>5, RoomDecides
  <2>5. ASSUME NEW s \in Sliding!Times, s > now - Window
        PROVE  h[s] = Len(Sliding!Kept(r, Since(s)))
    <3>1. Kept(r, Since(s)) = IF now \in Since(s)
                              THEN Append(Kept(valid, Since(s)), now)
                              ELSE Kept(valid, Since(s))
      BY <1>1, <2>2, KeptOfAppend
    <3>2. Kept(valid, Since(s)) \in Seq(Sliding!Times)
      BY <1>1, KeptType
    <3>3. g[s] = Len(Kept(valid, Since(s)))
      BY <1>1, <2>5
    <3>4. now \in Since(s) <=> s <= now
      BY <2>2, <1>2 DEF Sliding!Times
    <3> DEFINE k == Kept(valid, Since(s))
    <3>5. k \in Seq(Sliding!Times) => Len(Append(k, now)) = Len(k) + 1
      BY <2>2
    <3> HIDE DEF Since, k, r, h, valid, g
    <3>6. h[s] = Len(Kept(r, Since(s)))
      BY <2>1, <3>1, <3>2, <3>3, <3>4, <3>5 DEF k
    <3> QED BY <3>6, SlidingKept
  <2> HIDE DEF r, g, h, valid
  <2>6. \A i \in 1 .. Len(r) : i = Len(r) \/ i \in 1 .. Len(valid)
    BY <1>1, <2>3
  <2>7. \A i \in 1 .. Len(r) : r[i] <= now
    <3> SUFFICES ASSUME NEW i \in 1 .. Len(r) PROVE r[i] <= now
      OBVIOUS
    <3>1. i = Len(r) => r[i] <= now
      BY <1>2, <2>3
    <3>2. i \in 1 .. Len(valid) => r[i] <= now
      BY <1>1, <2>3
    <3> QED BY <2>6, <3>1, <3>2
  <2>8. \A i, j \in 1 .. Len(r) : i <= j => r[i] <= r[j]
    <3> SUFFICES ASSUME NEW i \in 1 .. Len(r), NEW j \in 1 .. Len(r), i <= j
                 PROVE  r[i] <= r[j]
      OBVIOUS
    <3>1. CASE j = Len(r)
      BY <3>1, <2>3, <2>7
    <3>2. CASE j \in 1 .. Len(valid)
      <4>1. i \in 1 .. Len(valid)
        BY <3>2, <1>1
      <4> QED BY <4>1, <3>2, <1>1, <2>3
    <3> QED BY <2>6, <3>1, <3>2
  <2>9. Sliding!RequestsExact'
    <3>1. Len(r) <= Limit
      BY <1>1, <1>5, <2>3
    <3> QED BY <1>5, <2>3, <2>5, <2>8, <3>1 DEF Sliding!RequestsExact, r, h
  <2>10. Sliding!HistoryLawful'
    <3>1. \A s \in Sliding!Times : s > now => h[s] = 0
      BY <1>2, <1>3, <2>1 DEF Sliding!Times, g
    <3>2. \A s, t \in Sliding!Times : s <= t => h[t] <= h[s]
      BY <1>2, <1>3, <2>1 DEF Sliding!Times, g
    <3>3. Sliding!WindowFits(slidingGranted, now)'
      BY <1>5, <2>4 DEF Sliding!WindowFits, Sliding!From, h
    <3>4. \A i \in DOMAIN requests' : requests'[i] <= now'
      BY <1>5, <2>3, <2>7 DEF r
    <3> QED BY <1>5, <3>1, <3>2, <3>3, <3>4 DEF Sliding!HistoryLawful, h
  <2> QED BY <2>9, <2>10
<1> QED BY <1>4, <1>5, SlidingAllowCases

\* No field of the sliding window leaves its range.
THEOREM SlidingTypeCorrect == Sliding!Spec => []Sliding!TypeOK
<1>1. Sliding!Init => Sliding!TypeOK
  <2> USE WindowAssumption DEF Sliding!Init, Sliding!TypeOK, Sliding!Times
  <2>1. <<>> \in Seq(0 .. MaxTime)
    OBVIOUS
  <2> QED BY <2>1
<1> QED BY <1>1, SlidingTypeStep, PTL DEF Sliding!Spec

\* The slice the sliding window filters in place is in order and holds one
\* request for each grant of the latest window, and the history is lawful.
THEOREM RequestsCorrect ==
    Sliding!Spec => [](Sliding!RequestsExact /\ Sliding!HistoryLawful)
<1> USE WindowAssumption DEF Sliding!Times
<1>1. Sliding!Init => Sliding!RequestsExact /\ Sliding!HistoryLawful
  <2> SUFFICES ASSUME Sliding!Init
               PROVE  Sliding!RequestsExact /\ Sliding!HistoryLawful
    OBVIOUS
  <2>1. requests = <<>> /\ Len(requests) = 0 /\ DOMAIN requests = {}
    BY DEF Sliding!Init
  <2>2. \A S : Sliding!Kept(requests, S) = <<>>
    BY <2>1, SlidingKept, KeptOfEmpty
  <2>3. now = 0 /\ \A s \in 0 .. MaxTime : slidingGranted[s] = 0
    BY DEF Sliding!Init
  <2>4. Sliding!RequestsExact
    <3>1. \A S : Len(Sliding!Kept(requests, S)) = 0
      BY <2>2
    <3> QED BY <2>1, <2>3, <3>1 DEF Sliding!RequestsExact
  <2>5. Sliding!HistoryLawful
    BY <2>1, <2>3 DEF Sliding!HistoryLawful, Sliding!WindowFits, Sliding!From
  <2> QED BY <2>4, <2>5
<1>2. Sliding!TypeOK /\ Sliding!RequestsExact /\ Sliding!HistoryLawful
        /\ [Sliding!Next]_(Sliding!vars)
        => Sliding!RequestsExact' /\ Sliding!HistoryLawful'
  <2> SUFFICES ASSUME Sliding!TypeOK, Sliding!RequestsExact, Sliding!HistoryLawful,
                      [Sliding!Next]_(Sliding!vars)
               PROVE  Sliding!RequestsExact' /\ Sliding!HistoryLawful'
    OBVIOUS
  <2>1. CASE Sliding!Allow
    BY <2>1, AllowRequests
  <2>2. CASE Sliding!Tick
    <3>1. /\ now' = now + 1 /\ now \in 0 .. MaxTime /\ now + 1 <= MaxTime
          /\ requests' = requests /\ slidingGranted' = slidingGranted
      BY <2>2 DEF Sliding!Tick, Sliding!TypeOK
    <3>2. Sliding!RequestsExact'
      BY <3>1 DEF Sliding!RequestsExact
    <3>3. Sliding!WindowFits(slidingGranted, now)'
      <4> SUFFICES ASSUME NEW s \in 0 .. now + 1
                   PROVE  Sliding!From(slidingGranted, s)
                            - Sliding!From(slidingGranted, s + Window) <= Limit
        BY <3>1 DEF Sliding!WindowFits, Sliding!From
      <4>1. CASE s <= now
        BY <3>1, <4>1 DEF Sliding!HistoryLawful, Sliding!WindowFits
      <4>2. CASE s = now + 1
        <5>1. slidingGranted[s] = 0
          BY <3>1, <4>2 DEF Sliding!HistoryLawful
        <5>2. s + Window \in 0 .. MaxTime => slidingGranted[s + Window] \in Nat
          BY DEF Sliding!TypeOK
        <5> QED BY <3>1, <4>2, <5>1, <5>2 DEF Sliding!From
      <4> QED BY <3>1, <4>1, <4>2
    <3>4. \A i \in DOMAIN requests : requests[i] <= now + 1
      <4> SUFFICES ASSUME NEW i \in DOMAIN requests PROVE requests[i] <= now + 1
        OBVIOUS
      <4>1. requests[i] \in 0 .. MaxTime
        BY DEF Sliding!TypeOK
      <4>2. requests[i] <= now
        BY DEF Sliding!HistoryLawful
      <4> QED BY <3>1, <4>1, <4>2
    <3>5. Sliding!HistoryLawful'
      BY <3>1, <3>3, <3>4 DEF Sliding!HistoryLawful
    <3> QED BY <3>2, <3>5
  <2>3. CASE UNCHANGED Sliding!vars
    BY <2>3 DEF Sliding!vars, Sliding!RequestsExact, Sliding!HistoryLawful,
                Sliding!WindowFits, Sliding!From
  <2> QED BY <2>1, <2>2, <2>3 DEF Sliding!Next
<1> QED BY <1>1, <1>2, SlidingTypeCorrect, PTL DEF Sliding!Spec

\* The sliding window lets through exactly what the window law allows for
\* every stretch of time: it implements the limiter that remembers every grant.
THEOREM SlidingImplementsLimiter == Sliding!Spec => Sliding!ExactlyTheWindowLaw
<1>1. Sliding!Init => Sliding!Limiter!Init
  BY DEF Sliding!Init, Sliding!Limiter!Init, Sliding!Times
<1>2. Sliding!TypeOK /\ Sliding!RequestsExact /\ Sliding!HistoryLawful
        /\ [Sliding!Next]_(Sliding!vars)
        => [Sliding!Limiter!Next]_(Sliding!Limiter!vars)
  <2> SUFFICES ASSUME Sliding!TypeOK, Sliding!RequestsExact, Sliding!HistoryLawful,
                      [Sliding!Next]_(Sliding!vars)
               PROVE  [Sliding!Limiter!Next]_(Sliding!Limiter!vars)
    OBVIOUS
  <2>1. CASE Sliding!Allow
    <3>1. Sliding!Limiter!Pass \/ Sliding!Limiter!Refuse
      BY <2>1, RoomDecides, SlidingAllowCases
      DEF Sliding!Limiter!Pass, Sliding!Limiter!Refuse
    <3> QED BY <3>1 DEF Sliding!Limiter!Next
  <2>2. CASE Sliding!Tick
    BY <2>2 DEF Sliding!Tick, Sliding!Limiter!Next, Sliding!Limiter!Tick
  <2>3. CASE UNCHANGED Sliding!vars
    BY <2>3 DEF Sliding!vars, Sliding!Limiter!vars
  <2> QED BY <2>1, <2>2, <2>3 DEF Sliding!Next
<1> QED BY <1>1, <1>2, SlidingTypeCorrect, RequestsCorrect, PTL
        DEF Sliding!Spec, Sliding!ExactlyTheWindowLaw, Sliding!Limiter!Spec

-----------------------------------------------------------------------------
(*                     The three under the same traffic                    *)

\* Whatever calls arrive, each limiter behaves as it does alone.
LEMMA EachAlone == Spec => Fixed!Spec /\ Bucket!Spec /\ Sliding!Spec
<1>1. Init => Fixed!Init /\ Bucket!Init /\ Sliding!Init
  BY DEF Init
<1>2. [Next]_vars => /\ [Fixed!Next]_(Fixed!vars)
                     /\ [Bucket!Next]_(Bucket!vars)
                     /\ [Sliding!Next]_(Sliding!vars)
  BY DEF Next, Arrive, Tick, vars, Fixed!Next, Fixed!vars, Bucket!Next, Bucket!vars,
         Sliding!Next, Sliding!vars
<1> QED BY <1>1, <1>2, PTL DEF Spec, Fixed!Spec, Bucket!Spec, Sliding!Spec

\* Under any traffic every field of the three limiters stays in its range.
THEOREM TypeCorrect == Spec => []TypeOK
BY EachAlone, FixedTypeCorrect, BucketTypeCorrect, SlidingTypeCorrect, PTL DEF TypeOK

\* Under any traffic the counter, the level and the slice are what the history
\* of grants implies.
THEOREM FieldsCorrect == Spec => []FieldsMatchHistory
BY EachAlone, CounterCorrect, LevelCorrect, RequestsCorrect, PTL DEF FieldsMatchHistory

\* Under any traffic the token bucket implements the limiter that remembers
\* every grant and keeps the burst law.
THEOREM ImplementsBurstLimiter == Spec => ExactlyTheBurstLaw
BY EachAlone, BucketImplementsBurstLimiter, PTL DEF ExactlyTheBurstLaw

\* Under any traffic the sliding window implements the limiter that remembers
\* every grant and keeps the window law.
THEOREM ImplementsWindowLimiter == Spec => ExactlyTheWindowLaw
BY EachAlone, SlidingImplementsLimiter, PTL DEF ExactlyTheWindowLaw

\* Under any traffic the fixed window lets no more than twice its limit
\* through in a span as long as a window.
THEOREM TwoWindowsAtMost == Spec => []AtMostTwoWindows
BY EachAlone, FixedTwoWindowsAtMost, PTL DEF AtMostTwoWindows

\* Under any traffic the fixed window refuses nobody before a full limit of
\* grants within the last window.
THEOREM RefusalsAreEarned == Spec => []RefusalIsEarned
BY EachAlone, FixedRefusalsAreEarned, PTL DEF RefusalIsEarned
=============================================================================
