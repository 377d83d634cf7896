----------------------- MODULE ConcurrencyDemosProofs -----------------------
(***************************************************************************)
(* Proofs about two programs of channel/main.go for every number of        *)
(* goroutines: the counter under a mutex, 1000 goroutines there, and the   *)
(* channel that is a semaphore, 10 there.  Both start all workers in a     *)
(* loop and wait for them (StartAll, Wait); that part is shared.           *)
(***************************************************************************)
EXTENDS ConcurrencyDemos, FiniteSetTheorems, SequenceTheorems, TLAPS

Loop == 1 .. Workers

LEMMA ConcatIs ==
    ASSUME NEW S, NEW s, NEW t, s \in Seq(S), t \in Seq(S)
    PROVE  /\ s \o t \in Seq(S) /\ Len(s \o t) = Len(s) + Len(t)
           /\ Len(s) \in Nat /\ Len(t) \in Nat
           /\ \A i \in 1 .. Len(s) : (s \o t)[i] = s[i]
           /\ \A i \in 1 .. Len(t) : (s \o t)[Len(s) + i] = t[i]
<1>1. Len(s) \in Nat /\ Len(t) \in Nat  BY LenProperties
<1>2. /\ s \o t \in Seq(S) /\ Len(s \o t) = Len(s) + Len(t)
      /\ \A i \in 1 .. Len(s) + Len(t) :
            (s \o t)[i] = IF i <= Len(s) THEN s[i] ELSE t[i - Len(s)]
  BY ConcatProperties, Zenon
<1> DEFINE c == s \o t  l == Len(s)  m == Len(t)
<1> HIDE DEF c, l, m
<1>3. \A i \in 1 .. l + m : c[i] = IF i <= l THEN s[i] ELSE t[i - l]
  BY <1>2 DEF c, l, m
<1>4. l \in Nat /\ m \in Nat  BY <1>1 DEF l, m
<1>5. \A i \in 1 .. l : c[i] = s[i]  BY <1>3, <1>4
<1>6. \A i \in 1 .. m : c[l + i] = t[i]
  <2> SUFFICES ASSUME NEW i \in 1 .. m PROVE c[l + i] = t[i]  OBVIOUS
  <2>1. l + i \in 1 .. l + m /\ ~(l + i <= l) /\ (l + i) - l = i  BY <1>4
  <2> QED BY <1>3, <2>1
<1> QED BY <1>1, <1>2, <1>5, <1>6 DEF c, l, m

-----------------------------------------------------------------------------
(*                    Starting all workers and waiting                     *)

LEMMA StartAllIs ==
    /\ StartAll(Workers) \in Seq({Add(1)} \cup {Go(w + 1) : w \in Loop})
    /\ Len(StartAll(Workers)) = 2 * Workers
    /\ \A w \in Loop : /\ StartAll(Workers)[2 * w - 1] = Add(1)
                       /\ StartAll(Workers)[2 * w] = Go(w + 1)
<1> DEFINE n == 2 * Workers
           S == {Add(1)} \cup {Go(w + 1) : w \in Loop}
           at(i) == IF i % 2 = 1 THEN Add(1) ELSE Go(i \div 2 + 1)
<1>1. n \in Nat  BY SizesAssumption
<1>2. \A i \in 1 .. n : at(i) \in S
  <2> SUFFICES ASSUME NEW i \in 1 .. n PROVE at(i) \in S  OBVIOUS
  <2>1. i % 2 = 1 \/ i \div 2 \in Loop  BY SizesAssumption DEF Loop
  <2> QED BY <2>1
<1>3. [i \in 1 .. n |-> at(i)] \in Seq(S)
  <2> HIDE DEF n, S, at
  <2> QED BY <1>1, <1>2, IsASeq
<1>4. StartAll(Workers) = [i \in 1 .. n |-> at(i)]  BY DEF StartAll
<1>5. Len([i \in 1 .. n |-> at(i)]) = n  BY <1>1, <1>3, LenProperties
<1>6. ASSUME NEW w \in Loop
      PROVE  /\ 2 * w - 1 \in 1 .. n /\ (2 * w - 1) % 2 = 1
             /\ 2 * w \in 1 .. n /\ (2 * w) % 2 # 1 /\ (2 * w) \div 2 = w
  BY SizesAssumption DEF Loop
<1> QED BY <1>3, <1>4, <1>5, <1>6

\* The code of main is StartAll(Workers) \o after, with the Wait and what follows it.
LEMMA MainIs ==
    ASSUME NEW after \in Seq({Wait, Read("counter")})
    PROVE  LET code == StartAll(Workers) \o after
           IN  /\ Len(code) = 2 * Workers + Len(after)
               /\ \A w \in Loop : code[2 * w - 1] = Add(1) /\ code[2 * w] = Go(w + 1)
               /\ \A i \in 1 .. Len(after) : code[2 * Workers + i] = after[i]
<1> DEFINE S == {Add(1), Wait, Read("counter")} \cup {Go(w + 1) : w \in Loop}
           s == StartAll(Workers)
           n == 2 * Workers
<1>1. s \in Seq(S) /\ after \in Seq(S)  BY StartAllIs
<1>2. /\ Len(s) = n
      /\ \A w \in Loop : 2 * w - 1 \in 1 .. n /\ 2 * w \in 1 .. n
      /\ \A w \in Loop : s[2 * w - 1] = Add(1) /\ s[2 * w] = Go(w + 1)
  BY StartAllIs, SizesAssumption DEF Loop
<1> HIDE DEF S, s, n
<1>3. /\ Len(s \o after) = n + Len(after)
      /\ \A i \in 1 .. n : (s \o after)[i] = s[i]
      /\ \A i \in 1 .. Len(after) : (s \o after)[n + i] = after[i]
  <2>1. /\ Len(s \o after) = Len(s) + Len(after)
        /\ \A i \in 1 .. Len(s) : (s \o after)[i] = s[i]
        /\ \A i \in 1 .. Len(after) : (s \o after)[Len(s) + i] = after[i]
    BY <1>1, ConcatIs
  <2> QED BY <1>2, <2>1, Zenon
<1> DEFINE c == s \o after
<1> HIDE DEF c
<1>4. \A w \in Loop : c[2 * w - 1] = Add(1) /\ c[2 * w] = Go(w + 1)
  BY <1>2, <1>3 DEF c
<1> QED BY <1>3, <1>4 DEF c, s, n

\* The code of a counting goroutine: Lock, counter++, Unlock, Done.
CounterWorker ==
    Lock \o <<Read("counter"), Incr("counter")>> \o Unlock \o <<Done>>

LEMMA CounterWorkerIs ==
    /\ Len(CounterWorker) = 6
    /\ CounterWorker[1] = [op |-> "claim"] /\ CounterWorker[2] = [op |-> "exclude"]
    /\ CounterWorker[3] = Read("counter") /\ CounterWorker[4] = Incr("counter")
    /\ CounterWorker[5] = [op |-> "unlock"] /\ CounterWorker[6] = Done
<1> DEFINE S == {[op |-> "claim"], [op |-> "exclude"], Read("counter"),
                 Incr("counter"), [op |-> "unlock"], Done}
           a == <<[op |-> "claim"], [op |-> "exclude"]>>
           b == <<Read("counter"), Incr("counter")>>
           c == <<[op |-> "unlock"]>>
           d == <<Done>>
<1>1. a \in Seq(S) /\ b \in Seq(S) /\ c \in Seq(S) /\ d \in Seq(S)  OBVIOUS
<1>2. Len(a) = 2 /\ Len(b) = 2 /\ Len(c) = 1 /\ Len(d) = 1  OBVIOUS
<1>3. /\ a[1] = [op |-> "claim"] /\ a[2] = [op |-> "exclude"]
      /\ b[1] = Read("counter") /\ b[2] = Incr("counter")
      /\ c[1] = [op |-> "unlock"] /\ d[1] = Done
  OBVIOUS
<1>4. CounterWorker = a \o b \o c \o d  BY DEF CounterWorker, Lock, Unlock
<1> DEFINE ab == a \o b
           abc == ab \o c
<1> HIDE DEF S, a, b, c, d
<1>5. ab \in Seq(S) /\ Len(ab) = 4 /\ ab[1] = a[1] /\ ab[2] = a[2]
      /\ ab[3] = b[1] /\ ab[4] = b[2]
  <2>1. /\ ab \in Seq(S) /\ Len(ab) = Len(a) + Len(b)
        /\ \A i \in 1 .. Len(a) : ab[i] = a[i]
        /\ \A i \in 1 .. Len(b) : ab[Len(a) + i] = b[i]
    BY <1>1, ConcatIs
  <2> HIDE DEF ab
  <2> QED BY <1>2, <2>1
<1> HIDE DEF ab
<1>6. abc \in Seq(S) /\ Len(abc) = 5 /\ abc[1] = a[1] /\ abc[2] = a[2]
      /\ abc[3] = b[1] /\ abc[4] = b[2] /\ abc[5] = c[1]
  <2>1. /\ abc \in Seq(S) /\ Len(abc) = Len(ab) + Len(c)
        /\ \A i \in 1 .. Len(ab) : abc[i] = ab[i]
        /\ \A i \in 1 .. Len(c) : abc[Len(ab) + i] = c[i]
    <3>1. ab \in Seq(S) /\ c \in Seq(S)  BY <1>1, <1>5
    <3> QED BY <3>1, ConcatIs
  <2> HIDE DEF abc
  <2> QED BY <1>2, <1>5, <2>1
<1> HIDE DEF abc
<1>7. CounterWorker = abc \o d  BY <1>4 DEF abc, ab
<1> DEFINE w == abc \o d
<1>8. Len(w) = 6 /\ w[1] = a[1] /\ w[2] = a[2]
      /\ w[3] = b[1] /\ w[4] = b[2] /\ w[5] = c[1] /\ w[6] = d[1]
  <2>1. /\ Len(w) = Len(abc) + Len(d)
        /\ \A i \in 1 .. Len(abc) : w[i] = abc[i]
        /\ \A i \in 1 .. Len(d) : w[Len(abc) + i] = d[i]
    <3>1. abc \in Seq(S) /\ d \in Seq(S)  BY <1>1, <1>6
    <3> QED BY <3>1, ConcatIs
  <2> HIDE DEF w
  <2> QED BY <1>2, <1>6, <2>1
<1> QED BY <1>3, <1>7, <1>8

\* The goroutines of a program with workers: main, then the workers.
Crew == 2 .. Workers + 1

LEMMA WithWorkersIs ==
    ASSUME NEW p, NEW mainCode, NEW code,
           p = WithWorkers(Workers, mainCode, code)
    PROVE  /\ DOMAIN p = {1} \cup Crew
           /\ p[1] = mainCode
           /\ \A g \in Crew : p[g] = code
<1> DEFINE S == {mainCode, code}
           a == <<mainCode>>
           b == [w \in 1 .. Workers |-> code]
<1>0. p = a \o b  BY DEF WithWorkers
<1>1. a \in Seq(S) /\ Len(a) = 1 /\ a[1] = mainCode  OBVIOUS
<1>2. b \in Seq(S) /\ Len(b) = Workers /\ \A w \in 1 .. Workers : b[w] = code
  BY SizesAssumption
<1> HIDE DEF S, a, b
<1>3. /\ p \in Seq(S) /\ Len(p) = Len(a) + Len(b)
      /\ \A i \in 1 .. Len(a) : p[i] = a[i]
      /\ \A i \in 1 .. Len(b) : p[Len(a) + i] = b[i]
  <2>1. a \in Seq(S) /\ b \in Seq(S)  BY <1>1, <1>2
  <2>2. /\ a \o b \in Seq(S) /\ Len(a \o b) = Len(a) + Len(b)
        /\ \A i \in 1 .. Len(a) : (a \o b)[i] = a[i]
        /\ \A i \in 1 .. Len(b) : (a \o b)[Len(a) + i] = b[i]
    BY <2>1, ConcatIs
  <2> QED BY <1>0, <2>2, Zenon
<1>4. /\ Len(p) = Workers + 1 /\ p[1] = mainCode
      /\ \A i \in 1 .. Workers : p[1 + i] = code
  <2>1. Len(p) = Workers + 1  BY <1>1, <1>2, <1>3, SizesAssumption
  <2>2. \A i \in 1 .. 1 : p[i] = a[i]  BY <1>1, <1>3
  <2>3. \A i \in 1 .. Workers : p[1 + i] = b[i]  BY <1>1, <1>2, <1>3
  <2> QED BY <1>1, <1>2, <2>1, <2>2, <2>3
<1>5. DOMAIN p = 1 .. Workers + 1  BY <1>3, <1>4, LenProperties
<1>6. 1 .. Workers + 1 = {1} \cup Crew  BY SizesAssumption DEF Crew
<1>7. \A g \in Crew : p[g] = code
  <2> SUFFICES ASSUME NEW g \in Crew PROVE p[g] = code  OBVIOUS
  <2>1. g - 1 \in 1 .. Workers /\ 1 + (g - 1) = g  BY SizesAssumption DEF Crew
  <2> QED BY <1>4, <2>1
<1> QED BY <1>4, <1>5, <1>6, <1>7

\* mutexCounter, laid out: the goroutines, their code, and nothing else.
LEMMA CounterProgram ==
    /\ DOMAIN mutexCounter.code = {1} \cup Crew
    /\ mutexCounter.code[1] = StartAll(Workers) \o <<Wait, Read("counter")>>
    /\ \A g \in Crew : mutexCounter.code[g] = CounterWorker
    /\ mutexCounter.parent = <<>> /\ mutexCounter.bounds = <<>>
    /\ mutexCounter.rests = <<>> /\ mutexCounter.leaks = {}
    /\ mutexCounter.vars = [counter |-> 0]
    /\ mutexCounter.returns = [counter |-> Workers]
<1> DEFINE main == StartAll(Workers) \o <<Wait, Read("counter")>>
<1> HIDE DEF main
<1>1. mutexCounter.code = WithWorkers(Workers, main, CounterWorker)
  BY DEF mutexCounter, CounterWorker, Blank, main
<1>2. /\ DOMAIN mutexCounter.code = {1} \cup Crew
      /\ mutexCounter.code[1] = main
      /\ \A g \in Crew : mutexCounter.code[g] = CounterWorker
  <2>1. \A p : p = WithWorkers(Workers, main, CounterWorker) =>
              /\ DOMAIN p = {1} \cup Crew /\ p[1] = main
              /\ \A g \in Crew : p[g] = CounterWorker
    BY WithWorkersIs
  <2> QED BY <1>1, <2>1
<1> QED BY <1>2 DEF mutexCounter, Blank, main

-----------------------------------------------------------------------------
(*                  One add, one done for every worker                     *)

Over(end) == {g \in Crew : pc[g] = end}

\* While main runs StartAll and waits: a worker runs once its go statement is
\* past, the wait group holds what was added and is not done, and main is past
\* the Wait only when every worker is at its end.
Joined(end) ==
    /\ pc \in [{1} \cup Crew -> Int]
    /\ pc[1] \in 1 .. 2 * Workers + 3
    /\ \A g \in Crew : /\ pc[g] \in 0 .. end
                       /\ pc[g] = 0 <=> pc[1] <= 2 * (g - 1)
    /\ wg = (IF pc[1] <= 2 * Workers + 1 THEN pc[1] \div 2 ELSE Workers)
            - Cardinality(Over(end))
    /\ pc[1] > 2 * Workers + 1 => Over(end) = Crew

LEMMA CrewIs ==
    /\ IsFiniteSet(Crew) /\ Cardinality(Crew) = Workers
    /\ 1 \notin Crew /\ \A g \in Crew : g \in Int
    /\ IsFiniteSet({1} \cup Crew) /\ Cardinality({1} \cup Crew) = Workers + 1
<1>1. IsFiniteSet(Crew) /\ Cardinality(Crew) = Workers
  BY FS_Interval, SizesAssumption DEF Crew
<1>2. 1 \notin Crew /\ \A g \in Crew : g \in Int  BY SizesAssumption DEF Crew
<1>3. {1} \cup Crew = Crew \cup {1}  OBVIOUS
<1> QED BY <1>1, <1>2, <1>3, FS_AddElement

\* The workers that are done are not more than those that were added; one that
\* still runs is not among them.
LEMMA GroupIs ==
    ASSUME NEW end \in Nat, end >= 2, Joined(end)
    PROVE  /\ wg \in Nat /\ wg <= Workers
           /\ \A g \in Crew : pc[g] \notin {0, end} => wg >= 1
           /\ pc[1] = 2 * Workers + 1 /\ wg = 0 => Over(end) = Crew
           /\ IsFiniteSet(Over(end)) /\ Over(end) \subseteq Crew
           /\ Cardinality(Over(end)) \in Nat
<1> DEFINE added == IF pc[1] <= 2 * Workers + 1 THEN pc[1] \div 2 ELSE Workers
           begun == 2 .. added + 1
           done == Over(end)
<1>1. Workers \in Nat /\ Workers >= 1  BY SizesAssumption
<1>2. added \in 0 .. Workers  BY <1>1 DEF Joined
<1>3. \A g \in Crew : pc[g] # 0 => g \in begun
  <2> SUFFICES ASSUME NEW g \in Crew, pc[g] # 0 PROVE g \in begun  OBVIOUS
  <2>1. g \in 2 .. Workers + 1  BY DEF Crew
  <2>2. ~(pc[1] <= 2 * (g - 1)) /\ pc[1] \in 1 .. 2 * Workers + 3  BY DEF Joined
  <2> QED BY <1>1, <2>1, <2>2
<1>7. wg = added - Cardinality(done)  BY DEF Joined
<1> HIDE DEF added
<1>4. IsFiniteSet(begun) /\ Cardinality(begun) = added
  BY <1>2, FS_Interval
<1>5. done \subseteq begun /\ done \subseteq Crew
  BY <1>3 DEF Over
<1>6. IsFiniteSet(done) /\ Cardinality(done) <= added
      /\ Cardinality(done) \in Nat
  BY <1>4, <1>5, FS_Subset, FS_CardinalityType
<1>8. wg \in Nat /\ wg <= Workers  BY <1>1, <1>2, <1>6, <1>7
<1>9. ASSUME NEW g \in Crew, pc[g] \notin {0, end} PROVE wg >= 1
  <2>1. g \in begun /\ g \notin done  BY <1>3, <1>9 DEF Over
  <2>2. done # begun  BY <2>1
  <2>3. Cardinality(done) # Cardinality(begun)
    BY <1>4, <1>5, <2>2, FS_Subset
  <2> QED BY <1>2, <1>4, <1>6, <1>7, <2>3
<1>10. ASSUME pc[1] = 2 * Workers + 1, wg = 0 PROVE done = Crew
  <2>1. added = Workers  BY <1>1, <1>10 DEF added
  <2>2. Cardinality(done) = Workers  BY <1>6, <1>7, <1>10, <2>1, <1>1
  <2> QED BY <2>2, <1>5, CrewIs, FS_Subset
<1> QED BY <1>5, <1>6, <1>8, <1>9, <1>10

LEMMA InStartAll ==
    ASSUME NEW i \in 1 .. 2 * Workers
    PROVE  \E g \in Crew : i = 2 * (g - 1) - 1 \/ i = 2 * (g - 1)
<1> DEFINE k == (i + 1) \div 2
<1>1. Workers \in Nat  BY SizesAssumption
<1>2. k \in 1 .. Workers /\ (i = 2 * k - 1 \/ i = 2 * k)  BY <1>1
<1> HIDE DEF k
<1>3. k + 1 \in Crew /\ (k + 1) - 1 = k  BY <1>1, <1>2 DEF Crew
<1> QED BY <1>2, <1>3

\* What main does between two of its statements.
LEMMA MainAdds ==
    ASSUME NEW end \in Nat, end >= 2, Joined(end), NEW g \in Crew,
           pc[1] = 2 * (g - 1) - 1, wg' = wg + 1,
           pc' = [pc EXCEPT ![1] = @ + 1]
    PROVE  Joined(end)'
<1>1. Workers \in Nat /\ Workers >= 1 /\ g \in 2 .. Workers + 1
  BY SizesAssumption DEF Crew
<1>2. pc'[1] = pc[1] + 1 /\ \A h \in Crew : pc'[h] = pc[h]
  BY CrewIs DEF Joined
<1>3. Over(end)' = Over(end)  BY <1>2 DEF Over
<1>4. pc[1] \div 2 = g - 2 /\ pc'[1] \div 2 = g - 1
      /\ pc'[1] <= 2 * Workers /\ pc'[1] \in Nat /\ pc'[1] >= 1
  BY <1>1, <1>2
<1>5. wg = pc[1] \div 2 - Cardinality(Over(end))
  BY <1>1 DEF Joined
<1>6. wg' = pc'[1] \div 2 - Cardinality(Over(end))
  BY <1>1, <1>4, <1>5, GroupIs
<1>7. \A h \in Crew : pc[1] <= 2 * (h - 1) <=> pc'[1] <= 2 * (h - 1)
  BY <1>1, <1>2 DEF Crew
<1>8. pc' \in [{1} \cup Crew -> Int]  BY DEF Joined
<1> QED BY <1>1, <1>2, <1>3, <1>4, <1>6, <1>7, <1>8 DEF Joined

LEMMA MainStarts ==
    ASSUME NEW end \in Nat, end >= 2, Joined(end), NEW g \in Crew,
           pc[1] = 2 * (g - 1), wg' = wg,
           pc' = [pc EXCEPT ![1] = @ + 1, ![g] = 1]
    PROVE  Joined(end)'
<1>1. Workers \in Nat /\ Workers >= 1 /\ g \in 2 .. Workers + 1
  BY SizesAssumption DEF Crew
<1>2. pc'[1] = pc[1] + 1 /\ pc'[g] = 1 /\ \A h \in Crew : h # g => pc'[h] = pc[h]
  BY CrewIs DEF Joined
<1>3. pc[g] = 0  BY <1>1 DEF Joined
<1>4. Over(end)' = Over(end)
  <2>1. 0 # end /\ 1 # end  OBVIOUS
  <2>2. \A h \in Crew : pc'[h] = end <=> pc[h] = end  BY <1>2, <1>3, <2>1
  <2> QED BY <2>2 DEF Over
<1>5. pc[1] \div 2 = g - 1 /\ pc'[1] \div 2 = g - 1
      /\ pc'[1] <= 2 * Workers + 1 /\ pc'[1] \in Nat /\ pc'[1] >= 1
  BY <1>1, <1>2
<1>6. wg' = pc'[1] \div 2 - Cardinality(Over(end))
  BY <1>1, <1>5 DEF Joined
<1>7. \A h \in Crew : /\ pc'[h] \in 0 .. end
                      /\ pc'[h] = 0 <=> pc'[1] <= 2 * (h - 1)
  <2> SUFFICES ASSUME NEW h \in Crew
               PROVE  /\ pc'[h] \in 0 .. end
                      /\ pc'[h] = 0 <=> pc'[1] <= 2 * (h - 1)
    OBVIOUS
  <2>1. CASE h = g  BY <1>1, <1>2, <2>1
  <2>2. CASE h # g
    <3>1. /\ pc[h] \in 0 .. end
          /\ pc[h] = 0 <=> pc[1] <= 2 * (h - 1)
      BY DEF Joined
    <3>2. h \in 2 .. Workers + 1  BY DEF Crew
    <3>3. pc'[1] <= 2 * (h - 1) <=> pc[1] <= 2 * (h - 1)
      BY <1>1, <1>2, <2>2, <3>2
    <3> QED BY <1>2, <2>2, <3>1, <3>3
  <2> QED BY <2>1, <2>2
<1>8. pc' \in [{1} \cup Crew -> Int]
  <2>1. pc \in [{1} \cup Crew -> Int] /\ pc[1] + 1 \in Int  BY DEF Joined
  <2> DEFINE q == [pc EXCEPT ![1] = pc[1] + 1]
  <2>2. q \in [{1} \cup Crew -> Int] /\ pc' = [q EXCEPT ![g] = 1]  BY <2>1
  <2>3. \A f \in [{1} \cup Crew -> Int] : [f EXCEPT ![g] = 1] \in [{1} \cup Crew -> Int]
    OBVIOUS
  <2> HIDE DEF q
  <2> QED BY <2>2, <2>3, Zenon
<1> QED BY <1>1, <1>4, <1>5, <1>6, <1>7, <1>8 DEF Joined

\* The Wait, and what follows it.
LEMMA MainGoesOn ==
    ASSUME NEW end \in Nat, end >= 2, Joined(end),
           \/ pc[1] = 2 * Workers + 1 /\ wg = 0
           \/ pc[1] = 2 * Workers + 2,
           wg' = wg, pc' = [pc EXCEPT ![1] = @ + 1]
    PROVE  Joined(end)'
<1>1. Workers \in Nat /\ Workers >= 1  BY SizesAssumption
<1>2. pc'[1] = pc[1] + 1 /\ \A h \in Crew : pc'[h] = pc[h]
  BY CrewIs DEF Joined
<1>3. Over(end)' = Over(end)  BY <1>2 DEF Over
<1>4. Over(end) = Crew  BY <1>1, GroupIs DEF Joined
<1>5. Cardinality(Over(end)) = Workers  BY <1>4, CrewIs
<1>6. wg = 0 /\ wg' = Workers - Cardinality(Over(end))
  BY <1>1, <1>5 DEF Joined
<1>7. \A h \in Crew : pc[h] = end /\ ~(pc'[1] <= 2 * (h - 1))
  <2> SUFFICES ASSUME NEW h \in Crew
               PROVE  pc[h] = end /\ ~(pc'[1] <= 2 * (h - 1))
    OBVIOUS
  <2>1. h \in 2 .. Workers + 1  BY DEF Crew
  <2>2. pc[h] = end  BY <1>4 DEF Over
  <2> QED BY <1>1, <1>2, <2>1, <2>2
<1>8. pc' \in [{1} \cup Crew -> Int]  BY DEF Joined
<1>9. pc'[1] \in 2 * Workers + 2 .. 2 * Workers + 3  BY <1>1, <1>2
<1> QED BY <1>1, <1>2, <1>3, <1>4, <1>6, <1>7, <1>8, <1>9 DEF Joined

\* A worker between its first statement and its Done.
LEMMA WorkerGoesOn ==
    ASSUME NEW end \in Nat, end >= 2, Joined(end), NEW g \in Crew,
           pc[g] \in 1 .. end - 2, wg' = wg, pc' = [pc EXCEPT ![g] = @ + 1]
    PROVE  Joined(end)'
<1>1. pc'[1] = pc[1] /\ pc'[g] = pc[g] + 1
      /\ \A h \in Crew : h # g => pc'[h] = pc[h]
  BY CrewIs DEF Joined
<1>2. Over(end)' = Over(end)  BY <1>1 DEF Over
<1>3. \A h \in Crew : pc'[h] \in 0 .. end /\ (pc'[h] = 0 <=> pc[h] = 0)
  BY <1>1 DEF Joined
<1>4. pc' \in [{1} \cup Crew -> Int]  BY DEF Joined
<1> QED BY <1>1, <1>2, <1>3, <1>4 DEF Joined

LEMMA WorkerIsDone ==
    ASSUME NEW end \in Nat, end >= 2, Joined(end), NEW g \in Crew,
           pc[g] = end - 1, wg' = wg - 1, pc' = [pc EXCEPT ![g] = @ + 1]
    PROVE  Joined(end)'
<1>1. pc'[1] = pc[1] /\ pc'[g] = end
      /\ \A h \in Crew : h # g => pc'[h] = pc[h]
  BY CrewIs DEF Joined
<1>2. Over(end)' = Over(end) \cup {g} /\ g \notin Over(end)
  BY <1>1 DEF Over
<1>3. Cardinality(Over(end)') = Cardinality(Over(end)) + 1
  BY <1>2, GroupIs, FS_AddElement
<1>4. \A h \in Crew : pc'[h] \in 0 .. end /\ (pc'[h] = 0 <=> pc[h] = 0)
  BY <1>1 DEF Joined
<1>5. pc' \in [{1} \cup Crew -> Int]  BY DEF Joined
<1>6. ~(pc[1] > 2 * Workers + 1)  BY <1>2 DEF Joined
<1>7. wg' = (IF pc[1] <= 2 * Workers + 1 THEN pc[1] \div 2 ELSE Workers)
            - Cardinality(Over(end)')
  <2> DEFINE added == IF pc[1] <= 2 * Workers + 1 THEN pc[1] \div 2 ELSE Workers
             c == Cardinality(Over(end))
  <2>1. wg = added - c  BY DEF Joined
  <2>2. added \in Int /\ c \in Nat  BY SizesAssumption, GroupIs DEF Joined
  <2> HIDE DEF added, c
  <2>3. wg - 1 = added - (c + 1)  BY <2>1, <2>2
  <2> QED BY <1>3, <2>3 DEF added, c
<1> QED BY <1>1, <1>4, <1>5, <1>6, <1>7 DEF Joined

-----------------------------------------------------------------------------
(*                      The counter under a mutex                          *)

LEMMA CounterCode ==
    ASSUME Program = mutexCounter
    PROVE  /\ Goroutines = {1} \cup Crew /\ Contexts = {}
           /\ Len(Code(1)) = 2 * Workers + 2
           /\ \A g \in Crew : /\ Code(1)[2 * (g - 1) - 1] = Add(1)
                              /\ Code(1)[2 * (g - 1)] = Go(g)
           /\ Code(1)[2 * Workers + 1] = Wait
           /\ Code(1)[2 * Workers + 2] = Read("counter")
           /\ \A g \in Crew : Code(g) = CounterWorker
<1>1. Code(1) = StartAll(Workers) \o <<Wait, Read("counter")>>
  BY CounterProgram DEF Code
<1> DEFINE after == <<Wait, Read("counter")>>
<1>2. after \in Seq({Wait, Read("counter")}) /\ Len(after) = 2
      /\ after[1] = Wait /\ after[2] = Read("counter")
  OBVIOUS
<1> HIDE DEF after
<1> DEFINE code == StartAll(Workers) \o after
<1>3. /\ Len(code) = 2 * Workers + Len(after)
      /\ \A w \in Loop : code[2 * w - 1] = Add(1) /\ code[2 * w] = Go(w + 1)
      /\ \A i \in 1 .. Len(after) : code[2 * Workers + i] = after[i]
  BY <1>2, MainIs, Zenon
<1>4. Code(1) = code  BY <1>1 DEF after
<1> HIDE DEF code
<1>5. \A g \in Crew : code[2 * (g - 1) - 1] = Add(1) /\ code[2 * (g - 1)] = Go(g)
  <2> SUFFICES ASSUME NEW g \in Crew
               PROVE  code[2 * (g - 1) - 1] = Add(1) /\ code[2 * (g - 1)] = Go(g)
    OBVIOUS
  <2>1. g - 1 \in Loop /\ (g - 1) + 1 = g  BY SizesAssumption DEF Crew, Loop
  <2> QED BY <1>3, <2>1
<1>6. Len(code) = 2 * Workers + 2 /\ code[2 * Workers + 1] = Wait
      /\ code[2 * Workers + 2] = Read("counter")
  BY <1>2, <1>3
<1>7. Goroutines = {1} \cup Crew /\ Contexts = {}
  BY CounterProgram DEF Goroutines, Contexts
<1>8. \A g \in Crew : Code(g) = CounterWorker  BY CounterProgram DEF Code
<1> QED BY <1>4, <1>5, <1>6, <1>7, <1>8

\* Of Next's disjuncts only that of the statement a goroutine is at can happen.
LEMMA StepAt ==
    ASSUME NEW g \in Goroutines, Step(g)
    PROVE  /\ Running(g)
           /\ At(g).op = "add" => AddToGroup(g)
           /\ At(g).op = "go" => Start(g)
           /\ At(g).op = "wait" => WaitForGroup(g)
           /\ At(g).op = "claim" => Claim(g)
           /\ At(g).op = "exclude" => Exclude(g)
           /\ At(g).op = "unlock" => Release(g)
           /\ At(g).op = "read" => Load(g)
           /\ At(g).op \in {"incr", "keep"} => Store(g)
           /\ At(g).op \in {"atomic", "cas"} => Atomic(g)
           /\ At(g).op = "select" =>
                 \/ SendBuffered(g) \/ ReceiveBuffered(g) \/ ReceiveClosed(g)
                 \/ \E h \in Goroutines : Rendezvous(g, h)
                 \/ Default(g)
<1>1. SendBuffered(g) => Is(g, "select")  BY DEF SendBuffered
<1>2. ReceiveBuffered(g) => Is(g, "select")  BY DEF ReceiveBuffered
<1>3. ReceiveClosed(g) => Is(g, "select")  BY DEF ReceiveClosed
<1>4. (\E h \in Goroutines : Rendezvous(g, h)) => Is(g, "select")  BY DEF Rendezvous
<1>5. Default(g) => Is(g, "select")  BY DEF Default
<1>6. CloseChannel(g) => Is(g, "close")  BY DEF CloseChannel
<1>7. Start(g) => Is(g, "go")  BY DEF Start
<1>8. Jump(g) => Is(g, "goto")  BY DEF Jump
<1>9. AddToGroup(g) => Is(g, "add")  BY DEF AddToGroup
<1>10. WaitForGroup(g) => Is(g, "wait")  BY DEF WaitForGroup
<1>11. Claim(g) => Is(g, "claim")  BY DEF Claim
<1>12. Exclude(g) => Is(g, "exclude")  BY DEF Exclude
<1>13. Release(g) => Is(g, "unlock")  BY DEF Release
<1>14. Enter(g) => Is(g, "rlock")  BY DEF Enter
<1>15. Leave(g) => Is(g, "runlock")  BY DEF Leave
<1>16. Load(g) => Is(g, "read")  BY DEF Load
<1>17. Store(g) => Is(g, "incr") \/ Is(g, "keep")  BY DEF Store
<1>18. Atomic(g) => Is(g, "atomic") \/ Is(g, "cas")  BY DEF Atomic
<1>19. Branch(g) => Is(g, "skipif")  BY DEF Branch
<1>20. MakeContext(g) => Is(g, "context")  BY DEF MakeContext
<1>21. CancelContext(g) => Is(g, "cancel")  BY DEF CancelContext
<1>22. Walked(g) => Is(g, "walk")  BY DEF Walked
<1>23. ReadErr(g) => Is(g, "err")  BY DEF ReadErr
<1> QED BY <1>1, <1>2, <1>3, <1>4, <1>5, <1>6, <1>7, <1>8, <1>9, <1>10, <1>11,
           <1>12, <1>13, <1>14, <1>15, <1>16, <1>17, <1>18, <1>19, <1>20, <1>21,
           <1>22, <1>23 DEF Step, Is

Counted == {g \in Crew : pc[g] >= 5}

\* A worker has claimed the lock from the second statement to the fifth and is
\* in it from the third; the counter counts those past the fourth, and who is
\* about to store has read what it still is.
CounterInv ==
    /\ Program = mutexCounter
    /\ Joined(7)
    /\ writer \in Crew \cup {Nobody} /\ readers = {}
    /\ \A g \in Crew : writer = g <=> pc[g] \in 2 .. 5
    /\ held <=> \E g \in Crew : pc[g] \in 3 .. 5
    /\ mem \in [{"counter"} -> Nat] /\ reg \in [{1} \cup Crew -> Int]
    /\ mem["counter"] = Cardinality(Counted)
    /\ \A g \in Crew : pc[g] = 4 => reg[g] = mem["counter"]

\* Where main and the workers are, and what they do there.
LEMMA CounterMain ==
    ASSUME CounterInv, Running(1)
    PROVE  \/ \E g \in Crew : pc[1] = 2 * (g - 1) - 1 /\ At(1) = Add(1)
           \/ \E g \in Crew : pc[1] = 2 * (g - 1) /\ At(1) = Go(g)
           \/ pc[1] = 2 * Workers + 1 /\ At(1) = Wait
           \/ pc[1] = 2 * Workers + 2 /\ At(1) = Read("counter")
<1>1. pc[1] \in 1 .. 2 * Workers + 2 /\ Workers \in Nat
  BY CounterCode, SizesAssumption DEF CounterInv, Running
<1>2. CASE pc[1] = 2 * Workers + 1  BY <1>2, CounterCode DEF CounterInv, At
<1>3. CASE pc[1] = 2 * Workers + 2  BY <1>3, CounterCode DEF CounterInv, At
<1>4. CASE pc[1] \in 1 .. 2 * Workers
  <2>1. PICK g \in Crew : pc[1] = 2 * (g - 1) - 1 \/ pc[1] = 2 * (g - 1)
    BY <1>4, InStartAll
  <2> QED BY <2>1, CounterCode DEF CounterInv, At
<1> QED BY <1>1, <1>2, <1>3, <1>4

LEMMA CounterWorkers ==
    ASSUME CounterInv, NEW g \in Crew, Running(g)
    PROVE  /\ pc[g] \in 1 .. 6
           /\ pc[g] = 1 => At(g) = [op |-> "claim"]
           /\ pc[g] = 2 => At(g) = [op |-> "exclude"]
           /\ pc[g] = 3 => At(g) = Read("counter")
           /\ pc[g] = 4 => At(g) = Incr("counter")
           /\ pc[g] = 5 => At(g) = [op |-> "unlock"]
           /\ pc[g] = 6 => At(g) = Done
BY CounterCode, CounterWorkerIs DEF CounterInv, Running, At

LEMMA CounterInit ==
    ASSUME Init, Program = mutexCounter
    PROVE  CounterInv
<1>1. Workers \in Nat /\ Workers >= 1  BY SizesAssumption
<1>2. /\ pc = [g \in {1} \cup Crew |-> IF g = 1 THEN 1 ELSE 0]
      /\ reg = [g \in {1} \cup Crew |-> 0]
      /\ wg = 0 /\ writer = Nobody /\ held = FALSE /\ readers = {}
      /\ mem = [counter |-> 0]
  BY CounterCode, CounterProgram DEF Init
<1>3. pc[1] = 1 /\ \A g \in Crew : pc[g] = 0 /\ g \in 2 .. Workers + 1
  BY <1>2, CrewIs DEF Crew
<1>4. Over(7) = {} /\ Counted = {}
  BY <1>3 DEF Over, Counted
<1>5. Joined(7)
  <2>1. pc \in [{1} \cup Crew -> Int]  BY <1>2
  <2>2. pc[1] \div 2 = 0 /\ pc[1] <= 2 * Workers + 1  BY <1>1, <1>3
  <2>3. \A g \in Crew : pc[g] \in 0 .. 7 /\ (pc[g] = 0 <=> pc[1] <= 2 * (g - 1))
    BY <1>1, <1>3
  <2>4. Cardinality(Over(7)) = 0  BY <1>4, FS_EmptySet
  <2> QED BY <1>1, <1>2, <1>3, <2>1, <2>2, <2>3, <2>4 DEF Joined
<1>6. mem \in [{"counter"} -> Nat] /\ mem["counter"] = 0  BY <1>2
<1>7. Cardinality(Counted) = 0  BY <1>4, FS_EmptySet
<1>8. Nobody \notin Crew  BY <1>1 DEF Crew, Nobody
<1> QED BY <1>2, <1>3, <1>5, <1>6, <1>7, <1>8 DEF CounterInv

\* Main changes nothing that the workers' part of the invariant is about.
LEMMA CounterFrame ==
    ASSUME CounterInv, Joined(7)',
           UNCHANGED <<demo, writer, held, readers, mem>>,
           \A g \in Crew : pc'[g] = pc[g] \/ (pc[g] = 0 /\ pc'[g] = 1),
           reg' \in [{1} \cup Crew -> Int], \A g \in Crew : reg'[g] = reg[g]
    PROVE  CounterInv'
<1>1. Program' = mutexCounter  BY DEF CounterInv, Program
<1>2. \A g \in Crew : /\ pc'[g] \in 2 .. 5 <=> pc[g] \in 2 .. 5
                      /\ pc'[g] \in 3 .. 5 <=> pc[g] \in 3 .. 5
                      /\ pc'[g] = 4 <=> pc[g] = 4
                      /\ pc'[g] >= 5 <=> pc[g] >= 5
  OBVIOUS
<1>3. Counted' = Counted  BY <1>2 DEF Counted
<1> QED BY <1>1, <1>2, <1>3 DEF CounterInv

LEMMA CounterMainStep ==
    ASSUME CounterInv, Step(1)
    PROVE  CounterInv'
<1>1. 1 \in Goroutines /\ Joined(7) /\ 1 \notin Crew
  BY CounterCode, CrewIs DEF CounterInv
<1>2. Running(1)  BY <1>1, StepAt
<1>3. ASSUME NEW g \in Crew, pc[1] = 2 * (g - 1) - 1, At(1) = Add(1)
      PROVE  CounterInv'
  <2>1. At(1).op = "add" /\ At(1).n = 1  BY <1>3 DEF Add
  <2>2. AddToGroup(1)  BY <1>1, <2>1, StepAt
  <2>3. wg' = wg + 1 /\ pc' = [pc EXCEPT ![1] = @ + 1]
        /\ UNCHANGED <<demo, writer, held, readers, mem, reg>>
    BY <2>1, <2>2 DEF AddToGroup, Move, lockVars
  <2>4. Joined(7)'  BY <1>1, <1>3, <2>3, MainAdds
  <2>5. \A h \in Crew : pc'[h] = pc[h]  BY <1>1, <2>3 DEF Joined
  <2> QED BY <2>3, <2>4, <2>5, CounterFrame DEF CounterInv
<1>4. ASSUME NEW g \in Crew, pc[1] = 2 * (g - 1), At(1) = Go(g)
      PROVE  CounterInv'
  <2>1. At(1).op = "go" /\ At(1).g = g  BY <1>4 DEF Go
  <2>2. Start(1)  BY <1>1, <2>1, StepAt
  <2>3. wg' = wg /\ pc' = [pc EXCEPT ![1] = @ + 1, ![g] = 1]
        /\ UNCHANGED <<demo, writer, held, readers, mem, reg>>
    BY <2>1, <2>2 DEF Start, lockVars
  <2>4. Joined(7)'
    <3>1. 7 \in Nat /\ 7 >= 2  OBVIOUS
    <3> QED BY <1>1, <1>4, <2>3, <3>1, MainStarts, Zenon
  <2>5. pc[g] = 0 /\ pc'[g] = 1 /\ \A h \in Crew : h # g => pc'[h] = pc[h]
    <3>1. pc[1] <= 2 * (g - 1)  BY <1>4, CrewIs
    <3> QED BY <1>1, <2>3, <3>1 DEF Joined
  <2> QED BY <2>3, <2>4, <2>5, CounterFrame DEF CounterInv
<1>5. ASSUME pc[1] = 2 * Workers + 1, At(1) = Wait
      PROVE  CounterInv'
  <2>1. At(1).op = "wait"  BY <1>5 DEF Wait
  <2>2. WaitForGroup(1)  BY <1>1, <2>1, StepAt
  <2>3. wg = 0 /\ wg' = wg /\ pc' = [pc EXCEPT ![1] = @ + 1]
        /\ UNCHANGED <<demo, writer, held, readers, mem, reg>>
    BY <2>2 DEF WaitForGroup, Move, lockVars
  <2>4. Joined(7)'  BY <1>1, <1>5, <2>3, MainGoesOn
  <2>5. \A h \in Crew : pc'[h] = pc[h]  BY <1>1, <2>3 DEF Joined
  <2> QED BY <2>3, <2>4, <2>5, CounterFrame DEF CounterInv
<1>6. ASSUME pc[1] = 2 * Workers + 2, At(1) = Read("counter")
      PROVE  CounterInv'
  <2>1. At(1).op = "read" /\ At(1).x = "counter"  BY <1>6 DEF Read
  <2>2. Load(1)  BY <1>1, <2>1, StepAt
  <2>3. wg' = wg /\ pc' = [pc EXCEPT ![1] = @ + 1]
        /\ reg' = [reg EXCEPT ![1] = mem["counter"]]
        /\ UNCHANGED <<demo, writer, held, readers, mem>>
    BY <2>1, <2>2 DEF Load, Move, lockVars
  <2>4. Joined(7)'  BY <1>1, <1>6, <2>3, MainGoesOn
  <2>5. \A h \in Crew : pc'[h] = pc[h]  BY <1>1, <2>3 DEF Joined
  <2>6. reg' \in [{1} \cup Crew -> Int] /\ \A h \in Crew : reg'[h] = reg[h]
    BY <1>1, <2>3 DEF CounterInv
  <2> QED BY <2>3, <2>4, <2>5, <2>6, CounterFrame
<1> QED BY <1>2, <1>3, <1>4, <1>5, <1>6, CounterMain

\* One statement of a worker, by where it is: 1 claim, 2 exclude, 3 read,
\* 4 store, 5 unlock, 6 Done.
LEMMA CounterWorkerStep ==
    ASSUME CounterInv, NEW g \in Crew, Step(g)
    PROVE  CounterInv'
<1>1. g \in Goroutines /\ Joined(7) /\ 1 \notin Crew /\ g # Nobody
  <2>1. g # Nobody  BY SizesAssumption DEF Crew, Nobody
  <2> QED BY <2>1, CounterCode, CrewIs DEF CounterInv
<1>2. Running(g)  BY <1>1, StepAt
<1>3. pc \in [{1} \cup Crew -> Int]  BY <1>1 DEF Joined
<1>4. \A h \in Crew : h # g => pc[h] \in Int  BY <1>3
<1>5. ASSUME UNCHANGED demo PROVE Program' = mutexCounter
  BY <1>5 DEF CounterInv, Program
<1>6. ASSUME pc[g] = 1 PROVE CounterInv'
  <2>1. Claim(g)  BY <1>1, <1>2, <1>6, CounterWorkers, StepAt
  <2>2. /\ writer = Nobody /\ writer' = g
        /\ UNCHANGED <<demo, reg, wg, held, readers, mem>>
        /\ pc' = [pc EXCEPT ![g] = @ + 1]
    BY <2>1 DEF Claim, Move
  <2>3. Joined(7)'
    <3>1. 7 \in Nat /\ 7 >= 2 /\ pc[g] \in 1 .. 7 - 2  BY <1>6
    <3> QED BY <1>1, <2>2, <3>1, WorkerGoesOn, Zenon
  <2>4. pc'[g] = 2 /\ \A h \in Crew : h # g => pc'[h] = pc[h]
    BY <1>1, <1>3, <1>6, <2>2
  <2>5. Counted' = Counted  BY <1>6, <2>4 DEF Counted
  <2>6. \A h \in Crew : pc[h] \notin 2 .. 5
    BY <2>2, SizesAssumption DEF CounterInv, Crew, Nobody
  <2>7. \A h \in Crew : pc'[h] \notin 3 .. 5 /\ pc[h] \notin 3 .. 5
                        /\ (pc'[h] \in 2 .. 5 <=> h = g)
                        /\ pc'[h] # 4
    BY <1>4, <2>4, <2>6
  <2> QED BY <1>5, <2>2, <2>3, <2>5, <2>7 DEF CounterInv
<1>7. ASSUME pc[g] = 2 PROVE CounterInv'
  <2>1. Exclude(g)  BY <1>1, <1>2, <1>7, CounterWorkers, StepAt
  <2>2. /\ writer = g /\ held' = TRUE
        /\ UNCHANGED <<demo, reg, wg, writer, readers, mem>>
        /\ pc' = [pc EXCEPT ![g] = @ + 1]
    BY <2>1 DEF Exclude, Move
  <2>3. Joined(7)'
    <3>1. 7 \in Nat /\ 7 >= 2 /\ pc[g] \in 1 .. 7 - 2  BY <1>7
    <3> QED BY <1>1, <2>2, <3>1, WorkerGoesOn, Zenon
  <2>4. pc'[g] = 3 /\ \A h \in Crew : h # g => pc'[h] = pc[h]
    BY <1>1, <1>3, <1>7, <2>2
  <2>5. Counted' = Counted  BY <1>7, <2>4 DEF Counted
  <2>6. \A h \in Crew : /\ pc'[h] \in 2 .. 5 <=> pc[h] \in 2 .. 5
                        /\ pc'[h] = 4 <=> pc[h] = 4
    BY <1>4, <1>7, <2>4
  <2>7. \E h \in Crew : pc'[h] \in 3 .. 5  BY <2>4
  <2> QED BY <1>5, <2>2, <2>3, <2>5, <2>6, <2>7 DEF CounterInv
<1>8. ASSUME pc[g] = 3 PROVE CounterInv'
  <2>1. At(g).op = "read" /\ At(g).x = "counter"
    BY <1>2, <1>8, CounterWorkers DEF Read
  <2>2. Load(g)  BY <1>1, <2>1, StepAt
  <2>3. /\ reg' = [reg EXCEPT ![g] = mem["counter"]]
        /\ UNCHANGED <<demo, wg, writer, held, readers, mem>>
        /\ pc' = [pc EXCEPT ![g] = @ + 1]
    BY <2>1, <2>2 DEF Load, Move, lockVars
  <2>4. Joined(7)'
    <3>1. 7 \in Nat /\ 7 >= 2 /\ pc[g] \in 1 .. 7 - 2  BY <1>8
    <3> QED BY <1>1, <2>3, <3>1, WorkerGoesOn, Zenon
  <2>5. pc'[g] = 4 /\ \A h \in Crew : h # g => pc'[h] = pc[h]
    BY <1>1, <1>3, <1>8, <2>3
  <2>6. Counted' = Counted  BY <1>8, <2>5 DEF Counted
  <2>7. \A h \in Crew : /\ pc'[h] \in 2 .. 5 <=> pc[h] \in 2 .. 5
                        /\ pc'[h] \in 3 .. 5 <=> pc[h] \in 3 .. 5
    BY <1>4, <1>8, <2>5
  <2>8. reg' \in [{1} \cup Crew -> Int]
        /\ \A h \in Crew : pc'[h] = 4 => reg'[h] = mem'["counter"]
    BY <1>1, <2>3, <2>5 DEF CounterInv
  <2> QED BY <1>5, <2>3, <2>4, <2>6, <2>7, <2>8 DEF CounterInv
<1>9. ASSUME pc[g] = 4 PROVE CounterInv'
  <2>1. At(g).op = "incr" /\ At(g).x = "counter"
    BY <1>2, <1>9, CounterWorkers DEF Incr
  <2>2. Store(g)  BY <1>1, <2>1, StepAt
  <2>3. /\ mem' = [mem EXCEPT !["counter"] = reg[g] + 1]
        /\ UNCHANGED <<demo, reg, wg, writer, held, readers>>
        /\ pc' = [pc EXCEPT ![g] = @ + 1]
    BY <2>1, <2>2 DEF Store, Is, Move, lockVars
  <2>4. Joined(7)'
    <3>1. 7 \in Nat /\ 7 >= 2 /\ pc[g] \in 1 .. 7 - 2  BY <1>9
    <3> QED BY <1>1, <2>3, <3>1, WorkerGoesOn, Zenon
  <2>5. pc'[g] = 5 /\ \A h \in Crew : h # g => pc'[h] = pc[h]
    BY <1>1, <1>3, <1>9, <2>3
  <2>6. Counted' = Counted \cup {g} /\ g \notin Counted
    BY <1>9, <2>5 DEF Counted
  <2>7. Cardinality(Counted') = Cardinality(Counted) + 1
    <3>1. IsFiniteSet(Counted)  BY CrewIs, FS_Subset DEF Counted
    <3> QED BY <2>6, <3>1, FS_AddElement
  <2>8. mem' \in [{"counter"} -> Nat] /\ mem'["counter"] = mem["counter"] + 1
    <3>1. reg[g] = mem["counter"]  BY <1>9 DEF CounterInv
    <3>2. mem \in [{"counter"} -> Nat]  BY DEF CounterInv
    <3> QED BY <2>3, <3>1, <3>2
  <2>9. \A h \in Crew : pc[h] = 4 => h = g
    BY <1>9 DEF CounterInv
  <2>10. \A h \in Crew : /\ pc'[h] \in 2 .. 5 <=> pc[h] \in 2 .. 5
                         /\ pc'[h] \in 3 .. 5 <=> pc[h] \in 3 .. 5
                         /\ pc'[h] # 4
    BY <1>4, <1>9, <2>5, <2>9
  <2> QED BY <1>5, <2>3, <2>4, <2>7, <2>8, <2>10 DEF CounterInv
<1>10. ASSUME pc[g] = 5 PROVE CounterInv'
  <2>1. Release(g)  BY <1>1, <1>2, <1>10, CounterWorkers, StepAt
  <2>2. /\ held' = FALSE /\ writer' = Nobody
        /\ UNCHANGED <<demo, reg, wg, readers, mem>>
        /\ pc' = [pc EXCEPT ![g] = @ + 1]
    BY <2>1 DEF Release, Move
  <2>3. Joined(7)'
    <3>1. 7 \in Nat /\ 7 >= 2 /\ pc[g] \in 1 .. 7 - 2  BY <1>10
    <3> QED BY <1>1, <2>2, <3>1, WorkerGoesOn, Zenon
  <2>4. pc'[g] = 6 /\ \A h \in Crew : h # g => pc'[h] = pc[h]
    BY <1>1, <1>3, <1>10, <2>2
  <2>5. Counted' = Counted  BY <1>10, <2>4 DEF Counted
  <2>6. \A h \in Crew : pc[h] \in 2 .. 5 => h = g
    BY <1>10 DEF CounterInv
  <2>7. \A h \in Crew : pc'[h] \notin 2 .. 5 /\ pc'[h] \notin 3 .. 5 /\ pc'[h] # 4
    BY <1>4, <2>4, <2>6
  <2>8. \A h \in Crew : h # Nobody  BY SizesAssumption DEF Crew, Nobody
  <2> QED BY <1>5, <2>2, <2>3, <2>5, <2>7, <2>8 DEF CounterInv
<1>11. ASSUME pc[g] = 6 PROVE CounterInv'
  <2>1. At(g).op = "add" /\ At(g).n = -1
    BY <1>2, <1>11, CounterWorkers DEF Done, Add
  <2>2. AddToGroup(g)  BY <1>1, <2>1, StepAt
  <2>3. /\ wg' = wg - 1
        /\ UNCHANGED <<demo, reg, writer, held, readers, mem>>
        /\ pc' = [pc EXCEPT ![g] = @ + 1]
    <3>1. wg \in Nat  BY <1>1, GroupIs
    <3> QED BY <2>1, <2>2, <3>1 DEF AddToGroup, Move, lockVars
  <2>4. Joined(7)'
    <3>1. 7 \in Nat /\ 7 >= 2 /\ pc[g] = 7 - 1  BY <1>11
    <3> QED BY <1>1, <2>3, <3>1, WorkerIsDone, Zenon
  <2>5. pc'[g] = 7 /\ \A h \in Crew : h # g => pc'[h] = pc[h]
    BY <1>1, <1>3, <1>11, <2>3
  <2>6. Counted' = Counted  BY <1>11, <2>5 DEF Counted
  <2>7. \A h \in Crew : /\ pc'[h] \in 2 .. 5 <=> pc[h] \in 2 .. 5
                        /\ pc'[h] \in 3 .. 5 <=> pc[h] \in 3 .. 5
                        /\ pc'[h] = 4 <=> pc[h] = 4
    BY <1>4, <1>11, <2>5
  <2> QED BY <1>5, <2>3, <2>4, <2>6, <2>7 DEF CounterInv
<1> QED BY <1>2, <1>6, <1>7, <1>8, <1>9, <1>10, <1>11, CounterWorkers

LEMMA DemoStays ==
    [Next]_vars => demo' = demo
BY DEF Next, Step, Terminated, vars, Propagate, Expire, SendBuffered,
       ReceiveBuffered, ReceiveClosed, Rendezvous, Default, CloseChannel,
       Start, Jump, AddToGroup, WaitForGroup, Claim, Exclude, Release, Enter,
       Leave, Load, Store, Atomic, Branch, MakeContext, CancelContext,
       Walked, ReadErr

LEMMA CounterStutter ==
    ASSUME CounterInv, UNCHANGED vars
    PROVE  CounterInv'
BY DEF CounterInv, vars, lockVars, Joined, Over, Counted, Program

LEMMA CounterStep ==
    ASSUME CounterInv, [Next]_vars
    PROVE  CounterInv'
<1>1. Goroutines = {1} \cup Crew /\ Contexts = {}
  BY CounterCode DEF CounterInv
<1>2. CASE \E g \in Goroutines : Step(g)
  BY <1>1, <1>2, CounterMainStep, CounterWorkerStep
<1>3. CASE \E c \in Contexts : Propagate(c) \/ Expire(c)  BY <1>1, <1>3
<1>4. CASE UNCHANGED vars  BY <1>4, CounterStutter
<1> QED BY <1>2, <1>3, <1>4 DEF Next, Terminated

\* What the invariant says to a reader of the demo.
LEMMA CounterIsSafe ==
    ASSUME CounterInv
    PROVE  NoPanicNoRace /\ ResultsAsPromised
<1>1. /\ Goroutines = {1} \cup Crew /\ Joined(7)
      /\ Len(Code(1)) = 2 * Workers + 2
  BY CounterCode DEF CounterInv
<1>2. wg \in Nat /\ wg <= Workers  BY <1>1, GroupIs
<1>3. ASSUME NEW g \in Crew PROVE ~Panics(g)
  <2>1. CASE ~Running(g)  BY <2>1 DEF Panics, Is
  <2>2. CASE Running(g) /\ pc[g] # 5 /\ pc[g] # 6
    <3>1. At(g).op \in {"claim", "exclude", "read", "incr"}
      BY <2>2, CounterWorkers DEF Read, Incr
    <3> QED BY <3>1 DEF Panics, Is
  <2>3. CASE Running(g) /\ pc[g] = 5
    <3>1. At(g).op = "unlock" /\ held
      BY <2>3, CounterWorkers DEF CounterInv
    <3> QED BY <3>1 DEF Panics, Is
  <2>4. CASE Running(g) /\ pc[g] = 6
    <3>1. At(g).op = "add" /\ At(g).n = -1
      BY <2>4, CounterWorkers DEF Done, Add
    <3>2. wg >= 1
      <4>1. pc[g] \notin {0, 7}  BY <2>4
      <4> QED BY <1>1, <4>1, GroupIs
    <3> QED BY <1>2, <3>1, <3>2 DEF Panics, Is
  <2> QED BY <2>1, <2>2, <2>3, <2>4
<1>4. ~Panics(1)
  <2>1. CASE ~Running(1)  BY <2>1 DEF Panics, Is
  <2>2. CASE Running(1)
    <3>1. \/ At(1).op \in {"go", "wait", "read"}
          \/ At(1).op = "add" /\ At(1).n = 1
      BY <2>2, CounterMain DEF Add, Go, Wait, Read
    <3> QED BY <1>2, <3>1 DEF Panics, Is
  <2> QED BY <2>1, <2>2
<1>5. \A g \in Crew : \A x : Writes(g, x) => pc[g] = 4
  <2> SUFFICES ASSUME NEW g \in Crew, NEW x, Writes(g, x) PROVE pc[g] = 4
    OBVIOUS
  <2>1. Running(g) /\ At(g).op \in {"incr", "keep"}  BY DEF Writes, Is
  <2> QED BY <2>1, CounterWorkers DEF Read, Done, Add
<1>6. \A g \in Crew : \A x : Touches(g, x) => pc[g] \in 3 .. 4
  <2> SUFFICES ASSUME NEW g \in Crew, NEW x, Touches(g, x) PROVE pc[g] \in 3 .. 4
    OBVIOUS
  <2>1. Running(g) /\ At(g).op \in {"read", "incr", "keep"}  BY DEF Touches, Is
  <2> QED BY <2>1, CounterWorkers DEF Done, Add
<1>7. \A x : ~Writes(1, x)
  <2> SUFFICES ASSUME NEW x, Writes(1, x) PROVE FALSE  OBVIOUS
  <2>1. Running(1) /\ At(1).op \in {"incr", "keep"}  BY DEF Writes, Is
  <2> QED BY <2>1, CounterMain DEF Add, Go, Wait, Read
<1>8. \A x : Touches(1, x) => \A g \in Crew : pc[g] = 7
  <2> SUFFICES ASSUME NEW x, Touches(1, x) PROVE \A g \in Crew : pc[g] = 7
    OBVIOUS
  <2>1. Running(1) /\ At(1).op \in {"read", "incr", "keep"}  BY DEF Touches, Is
  <2>2. pc[1] = 2 * Workers + 2  BY <2>1, CounterMain DEF Add, Go, Wait
  <2>3. Over(7) = Crew  BY <1>1, <2>2, SizesAssumption DEF Joined
  <2> QED BY <2>3 DEF Over
<1>9. \A g, h \in Goroutines : ~Races(g, h)
  <2> SUFFICES ASSUME NEW g \in {1} \cup Crew, NEW h \in {1} \cup Crew, NEW x,
                      g # h, Writes(g, x), Touches(h, x)
               PROVE  FALSE
    BY <1>1 DEF Races
  <2>1. g \in Crew /\ pc[g] = 4  BY <1>5, <1>7
  <2>2. h \in Crew /\ pc[h] \in 3 .. 4  BY <1>6, <1>8, <2>1
  <2> QED BY <2>1, <2>2 DEF CounterInv
<1>10. Ended(1) => mem["counter"] = Workers
  <2> SUFFICES ASSUME Ended(1) PROVE mem["counter"] = Workers  OBVIOUS
  <2>1. pc[1] = 2 * Workers + 3  BY <1>1, SizesAssumption DEF Ended
  <2>2. Over(7) = Crew  BY <1>1, <2>1, SizesAssumption DEF Joined
  <2>3. Counted = Crew  BY <2>2 DEF Over, Counted
  <2> QED BY <2>3, CrewIs DEF CounterInv
<1>11. NoPanicNoRace  BY <1>1, <1>3, <1>4, <1>9 DEF NoPanicNoRace
<1>12. wg <= Cardinality(Goroutines)  BY <1>1, <1>2, CrewIs, SizesAssumption
<1>13. Ended(1) => Agree(Program.returns)
  BY <1>10, CounterProgram DEF CounterInv, Agree
<1>14. Agree(Program.rests) /\ DOMAIN Program.bounds = {} /\ Program.leaks = {}
  BY CounterProgram DEF CounterInv, Agree
<1> QED BY <1>11, <1>12, <1>13, <1>14 DEF ResultsAsPromised

\* However many goroutines channelVsMutex starts, and in whatever order they
\* run: no two of them touch the counter at once, nothing panics, and main
\* prints their number.
THEOREM LockedCounterIsExact ==
    Spec => [](Program = mutexCounter => NoPanicNoRace /\ ResultsAsPromised)
<1> DEFINE I == Program = mutexCounter => CounterInv
<1>1. Init => I  BY CounterInit
<1>2. I /\ [Next]_vars => I'
  <2> SUFFICES ASSUME I, [Next]_vars, (Program = mutexCounter)' PROVE CounterInv'
    OBVIOUS
  <2>1. demo' = demo  BY DemoStays
  <2>2. Program = mutexCounter  BY <2>1 DEF Program
  <2> QED BY <2>2, CounterStep
<1>3. I => (Program = mutexCounter => NoPanicNoRace /\ ResultsAsPromised)
  BY CounterIsSafe
<1> QED BY <1>1, <1>2, <1>3, PTL DEF Spec

-----------------------------------------------------------------------------
(*                   The channel that is a semaphore                       *)

LEMMA SemaphoreProgram ==
    /\ DOMAIN semaphoreChannel.code = {1} \cup Crew
    /\ semaphoreChannel.code[1] = StartAll(Workers) \o <<Wait>>
    /\ \A g \in Crew : /\ Len(semaphoreChannel.code[g]) = 5
                       /\ semaphoreChannel.code[g][1] = Send("sem", 0)
                       /\ semaphoreChannel.code[g][2] = AtomicAdd("working", 1)
                       /\ semaphoreChannel.code[g][3] = AtomicAdd("working", -1)
                       /\ semaphoreChannel.code[g][4] = Recv("sem")
                       /\ semaphoreChannel.code[g][5] = Done
    /\ semaphoreChannel.chans = [sem |-> Permits]
    /\ semaphoreChannel.parent = <<>> /\ semaphoreChannel.rests = <<>>
    /\ semaphoreChannel.leaks = {}
    /\ semaphoreChannel.bounds = [working |-> Permits]
    /\ semaphoreChannel.vars = [working |-> 0]
    /\ semaphoreChannel.returns = [working |-> 0]
<1> DEFINE main == StartAll(Workers) \o <<Wait>>
           body == <<Send("sem", 0), AtomicAdd("working", 1),
                     AtomicAdd("working", -1), Recv("sem"), Done>>
<1>1. /\ Len(body) = 5 /\ body[1] = Send("sem", 0)
      /\ body[2] = AtomicAdd("working", 1) /\ body[3] = AtomicAdd("working", -1)
      /\ body[4] = Recv("sem") /\ body[5] = Done
  OBVIOUS
<1> HIDE DEF main, body
<1>2. semaphoreChannel.code = WithWorkers(Workers, main, body)
  BY DEF semaphoreChannel, Blank, main, body
<1>3. /\ DOMAIN semaphoreChannel.code = {1} \cup Crew
      /\ semaphoreChannel.code[1] = main
      /\ \A g \in Crew : semaphoreChannel.code[g] = body
  <2>1. \A p : p = WithWorkers(Workers, main, body) =>
              /\ DOMAIN p = {1} \cup Crew /\ p[1] = main
              /\ \A g \in Crew : p[g] = body
    BY WithWorkersIs
  <2> QED BY <1>2, <2>1
<1>4. /\ semaphoreChannel.chans = [sem |-> Permits]
      /\ semaphoreChannel.parent = <<>> /\ semaphoreChannel.rests = <<>>
      /\ semaphoreChannel.leaks = {}
      /\ semaphoreChannel.bounds = [working |-> Permits]
      /\ semaphoreChannel.vars = [working |-> 0]
      /\ semaphoreChannel.returns = [working |-> 0]
  BY DEF semaphoreChannel, Blank
<1> QED BY <1>1, <1>3, <1>4 DEF main

LEMMA SemaphoreCode ==
    ASSUME Program = semaphoreChannel
    PROVE  /\ Goroutines = {1} \cup Crew /\ Contexts = {}
           /\ Channels = {"sem"} /\ Cap("sem") = Permits
           /\ Len(Code(1)) = 2 * Workers + 1
           /\ \A g \in Crew : /\ Code(1)[2 * (g - 1) - 1] = Add(1)
                              /\ Code(1)[2 * (g - 1)] = Go(g)
           /\ Code(1)[2 * Workers + 1] = Wait
           /\ \A g \in Crew : Code(g) = semaphoreChannel.code[g]
<1> DEFINE after == <<Wait>>
<1>1. after \in Seq({Wait, Read("counter")}) /\ Len(after) = 1 /\ after[1] = Wait
  OBVIOUS
<1>2. Code(1) = StartAll(Workers) \o after  BY SemaphoreProgram DEF Code
<1> HIDE DEF after
<1> DEFINE code == StartAll(Workers) \o after
<1>3. /\ Len(code) = 2 * Workers + Len(after)
      /\ \A w \in Loop : code[2 * w - 1] = Add(1) /\ code[2 * w] = Go(w + 1)
      /\ \A i \in 1 .. Len(after) : code[2 * Workers + i] = after[i]
  BY <1>1, MainIs, Zenon
<1>4. Code(1) = code  BY <1>2
<1> HIDE DEF code
<1>5. \A g \in Crew : code[2 * (g - 1) - 1] = Add(1) /\ code[2 * (g - 1)] = Go(g)
  <2> SUFFICES ASSUME NEW g \in Crew
               PROVE  code[2 * (g - 1) - 1] = Add(1) /\ code[2 * (g - 1)] = Go(g)
    OBVIOUS
  <2>1. g - 1 \in Loop /\ (g - 1) + 1 = g  BY SizesAssumption DEF Crew, Loop
  <2> QED BY <1>3, <2>1
<1>6. Len(code) = 2 * Workers + 1 /\ code[2 * Workers + 1] = Wait
  BY <1>1, <1>3
<1>7. /\ Goroutines = {1} \cup Crew /\ Contexts = {}
      /\ Channels = {"sem"} /\ Cap("sem") = Permits
  BY SemaphoreProgram DEF Goroutines, Contexts, Channels, Cap
<1>8. \A g \in Crew : Code(g) = semaphoreChannel.code[g]  BY DEF Code
<1> QED BY <1>4, <1>5, <1>6, <1>7, <1>8

Holding == {g \in Crew : pc[g] \in 2 .. 4}
AtWork == {g \in Crew : pc[g] = 3}

\* There is a value in the channel for every worker that has acquired and not
\* released, and `working` counts those between.
SemaphoreInv ==
    /\ Program = semaphoreChannel
    /\ Joined(6) /\ pc[1] <= 2 * Workers + 2
    /\ closed = {}
    /\ buf \in [{"sem"} -> Seq(Int)]
    /\ Len(buf["sem"]) = Cardinality(Holding) /\ Len(buf["sem"]) <= Permits
    /\ mem \in [{"working"} -> Int]
    /\ mem["working"] = Cardinality(AtWork)

LEMMA SemaphoreMain ==
    ASSUME SemaphoreInv, Running(1)
    PROVE  \/ \E g \in Crew : pc[1] = 2 * (g - 1) - 1 /\ At(1) = Add(1)
           \/ \E g \in Crew : pc[1] = 2 * (g - 1) /\ At(1) = Go(g)
           \/ pc[1] = 2 * Workers + 1 /\ At(1) = Wait
<1>1. pc[1] \in 1 .. 2 * Workers + 1 /\ Workers \in Nat
  BY SemaphoreCode, SizesAssumption DEF SemaphoreInv, Running
<1>2. CASE pc[1] = 2 * Workers + 1  BY <1>2, SemaphoreCode DEF SemaphoreInv, At
<1>3. CASE pc[1] \in 1 .. 2 * Workers
  <2>1. PICK g \in Crew : pc[1] = 2 * (g - 1) - 1 \/ pc[1] = 2 * (g - 1)
    BY <1>3, InStartAll
  <2> QED BY <2>1, SemaphoreCode DEF SemaphoreInv, At
<1> QED BY <1>1, <1>2, <1>3

LEMMA SemaphoreWorkers ==
    ASSUME SemaphoreInv, NEW g \in Crew, Running(g)
    PROVE  /\ pc[g] \in 1 .. 5
           /\ pc[g] = 1 => At(g) = Send("sem", 0)
           /\ pc[g] = 2 => At(g) = AtomicAdd("working", 1)
           /\ pc[g] = 3 => At(g) = AtomicAdd("working", -1)
           /\ pc[g] = 4 => At(g) = Recv("sem")
           /\ pc[g] = 5 => At(g) = Done
BY SemaphoreCode, SemaphoreProgram DEF SemaphoreInv, Running, At

LEMMA SemaphoreSets ==
    /\ IsFiniteSet(Holding) /\ IsFiniteSet(AtWork)
    /\ Cardinality(AtWork) <= Cardinality(Holding)
    /\ Cardinality(AtWork) \in Nat /\ Cardinality(Holding) \in Nat
<1>1. Holding \in SUBSET Crew /\ AtWork \in SUBSET Holding
  BY DEF Holding, AtWork
<1> QED BY <1>1, CrewIs, FS_Subset, FS_CardinalityType

LEMMA SemaphoreInit ==
    ASSUME Init, Program = semaphoreChannel
    PROVE  SemaphoreInv
<1>1. Workers \in Nat /\ Workers >= 1 /\ Permits \in Nat  BY SizesAssumption
<1>2. /\ pc = [g \in {1} \cup Crew |-> IF g = 1 THEN 1 ELSE 0]
      /\ buf = [c \in {"sem"} |-> <<>>] /\ closed = {}
      /\ wg = 0 /\ mem = [working |-> 0]
  BY SemaphoreCode, SemaphoreProgram DEF Init
<1>3. pc[1] = 1 /\ \A g \in Crew : pc[g] = 0 /\ g \in 2 .. Workers + 1
  BY <1>2, CrewIs DEF Crew
<1>4. Over(6) = {} /\ Holding = {} /\ AtWork = {}
  BY <1>3 DEF Over, Holding, AtWork
<1>5. Joined(6)
  <2>1. pc \in [{1} \cup Crew -> Int]  BY <1>2
  <2>2. pc[1] \div 2 = 0 /\ pc[1] <= 2 * Workers + 1  BY <1>1, <1>3
  <2>3. \A g \in Crew : pc[g] \in 0 .. 6 /\ (pc[g] = 0 <=> pc[1] <= 2 * (g - 1))
    BY <1>1, <1>3
  <2>4. Cardinality(Over(6)) = 0  BY <1>4, FS_EmptySet
  <2> QED BY <1>1, <1>2, <1>3, <2>1, <2>2, <2>3, <2>4 DEF Joined
<1>6. /\ mem \in [{"working"} -> Int] /\ mem["working"] = 0
      /\ buf \in [{"sem"} -> Seq(Int)] /\ Len(buf["sem"]) = 0
  BY <1>2
<1>7. Cardinality(Holding) = 0 /\ Cardinality(AtWork) = 0
  BY <1>4, FS_EmptySet
<1> QED BY <1>1, <1>2, <1>3, <1>5, <1>6, <1>7 DEF SemaphoreInv

\* A step that moves no worker into, out of or within the guarded region.
LEMMA SemaphoreFrame ==
    ASSUME SemaphoreInv, Joined(6)', pc'[1] <= 2 * Workers + 2,
           UNCHANGED <<demo, buf, closed, mem>>,
           \A g \in Crew : \/ pc'[g] = pc[g] \/ (pc[g] = 0 /\ pc'[g] = 1)
                           \/ (pc[g] = 5 /\ pc'[g] = 6)
    PROVE  SemaphoreInv'
<1>1. Program' = semaphoreChannel  BY DEF SemaphoreInv, Program
<1>2. \A g \in Crew : /\ pc'[g] \in 2 .. 4 <=> pc[g] \in 2 .. 4
                      /\ pc'[g] = 3 <=> pc[g] = 3
  OBVIOUS
<1>3. Holding' = Holding /\ AtWork' = AtWork  BY <1>2 DEF Holding, AtWork
<1> QED BY <1>1, <1>3 DEF SemaphoreInv

LEMMA SemaphoreMainStep ==
    ASSUME SemaphoreInv, Step(1)
    PROVE  SemaphoreInv'
<1>1. /\ 1 \in Goroutines /\ Joined(6) /\ 1 \notin Crew
      /\ pc[1] <= 2 * Workers + 2 /\ Workers \in Nat
      /\ 6 \in Nat /\ 6 >= 2
  BY SemaphoreCode, CrewIs, SizesAssumption DEF SemaphoreInv
<1>2. Running(1)  BY <1>1, StepAt
<1>3. ASSUME NEW g \in Crew, pc[1] = 2 * (g - 1) - 1, At(1) = Add(1)
      PROVE  SemaphoreInv'
  <2>1. At(1).op = "add" /\ At(1).n = 1  BY <1>3 DEF Add
  <2>2. AddToGroup(1)  BY <1>1, <2>1, StepAt
  <2>3. wg' = wg + 1 /\ pc' = [pc EXCEPT ![1] = @ + 1]
        /\ UNCHANGED <<demo, buf, closed, mem>>
    BY <2>1, <2>2 DEF AddToGroup, Move, chanVars
  <2>4. Joined(6)'  BY <1>1, <1>3, <2>3, MainAdds, Zenon
  <2>5. pc'[1] <= 2 * Workers + 2 /\ \A h \in Crew : pc'[h] = pc[h]
    BY <1>1, <1>3, <2>3 DEF Joined, Crew
  <2> QED BY <2>3, <2>4, <2>5, SemaphoreFrame
<1>4. ASSUME NEW g \in Crew, pc[1] = 2 * (g - 1), At(1) = Go(g)
      PROVE  SemaphoreInv'
  <2>1. At(1).op = "go" /\ At(1).g = g  BY <1>4 DEF Go
  <2>2. Start(1)  BY <1>1, <2>1, StepAt
  <2>3. wg' = wg /\ pc' = [pc EXCEPT ![1] = @ + 1, ![g] = 1]
        /\ UNCHANGED <<demo, buf, closed, mem>>
    BY <2>1, <2>2 DEF Start, chanVars
  <2>4. Joined(6)'  BY <1>1, <1>4, <2>3, MainStarts, Zenon
  <2>5. pc[g] = 0 /\ pc'[g] = 1 /\ \A h \in Crew : h # g => pc'[h] = pc[h]
    <3>1. pc[1] <= 2 * (g - 1)  BY <1>4, CrewIs
    <3> QED BY <1>1, <2>3, <3>1 DEF Joined
  <2>6. pc'[1] <= 2 * Workers + 2
    <3>1. pc'[1] = pc[1] + 1  BY <1>1, <2>3 DEF Joined
    <3>2. g \in 2 .. Workers + 1  BY DEF Crew
    <3> QED BY <1>1, <1>4, <3>1, <3>2
  <2> QED BY <2>3, <2>4, <2>5, <2>6, SemaphoreFrame
<1>5. ASSUME pc[1] = 2 * Workers + 1, At(1) = Wait
      PROVE  SemaphoreInv'
  <2>1. At(1).op = "wait"  BY <1>5 DEF Wait
  <2>2. WaitForGroup(1)  BY <1>1, <2>1, StepAt
  <2>3. wg = 0 /\ wg' = wg /\ pc' = [pc EXCEPT ![1] = @ + 1]
        /\ UNCHANGED <<demo, buf, closed, mem>>
    BY <2>2 DEF WaitForGroup, Move, chanVars
  <2>4. Joined(6)'  BY <1>1, <1>5, <2>3, MainGoesOn
  <2>5. pc'[1] <= 2 * Workers + 2 /\ \A h \in Crew : pc'[h] = pc[h]
    BY <1>1, <1>5, <2>3 DEF Joined
  <2> QED BY <2>3, <2>4, <2>5, SemaphoreFrame
<1> QED BY <1>2, <1>3, <1>4, <1>5, SemaphoreMain

\* A worker acquires when the channel has room, and releases by taking a value.
LEMMA SemaphoreWorkerStep ==
    ASSUME SemaphoreInv, NEW g \in Crew, Step(g)
    PROVE  SemaphoreInv'
<1>1. /\ g \in Goroutines /\ Joined(6) /\ 1 \notin Crew
      /\ pc[1] <= 2 * Workers + 2 /\ 6 \in Nat /\ 6 >= 2
  BY SemaphoreCode, CrewIs DEF SemaphoreInv
<1>2. Running(g)  BY <1>1, StepAt
<1>3. pc \in [{1} \cup Crew -> Int]  BY <1>1 DEF Joined
<1>4. \A h \in Crew : h # g => pc[h] \in Int  BY <1>3
<1>5. ASSUME UNCHANGED demo PROVE Program' = semaphoreChannel
  BY <1>5 DEF SemaphoreInv, Program
<1>6. buf["sem"] \in Seq(Int) /\ Permits \in Nat \ {0} /\ Cap("sem") = Permits
  BY SemaphoreCode, SizesAssumption DEF SemaphoreInv
<1>7. ASSUME pc' = [pc EXCEPT ![g] = @ + 1]
      PROVE  /\ pc'[1] = pc[1] /\ pc'[g] = pc[g] + 1
             /\ \A h \in Crew : h # g => pc'[h] = pc[h]
  BY <1>1, <1>3, <1>7
<1>8. ASSUME pc[g] = 1 PROVE SemaphoreInv'
  <2>1. /\ At(g).op = "select" /\ At(g).default = 0
        /\ Cases(g) = {Deliver("sem", 0, 1)}
    BY <1>2, <1>8, SemaphoreWorkers DEF Send, Select, Park, Cases
  <2>2. SendBuffered(g)
    <3>1. ~ReceiveBuffered(g) /\ ~ReceiveClosed(g)
      BY <2>1 DEF ReceiveBuffered, ReceiveClosed, Deliver
    <3>2. ~Default(g)  BY <2>1 DEF Default
    <3>3. \A h \in Goroutines : ~Rendezvous(g, h)
      BY <1>6, <2>1 DEF Rendezvous, Deliver
    <3> QED BY <1>1, <2>1, <3>1, <3>2, <3>3, StepAt
  <2>3. /\ Len(buf["sem"]) < Permits
        /\ buf' = [buf EXCEPT !["sem"] = Append(@, 0)]
        /\ UNCHANGED <<demo, wg, closed, mem>>
        /\ pc' = [pc EXCEPT ![g] = @ + 1]
    <3>1. PICK k \in Cases(g) :
             /\ Len(buf[k.ch]) < Cap(k.ch)
             /\ buf' = [buf EXCEPT ![k.ch] = Append(@, k.val)]
             /\ pc' = [pc EXCEPT ![g] = @ + k.to]
             /\ UNCHANGED <<demo, wg, closed, mem>>
      BY <2>2 DEF SendBuffered, Move
    <3>2. k.ch = "sem" /\ k.val = 0 /\ k.to = 1
      BY <2>1, <3>1 DEF Deliver
    <3> QED BY <1>6, <3>1, <3>2
  <2>4. Joined(6)'
    <3>1. pc[g] \in 1 .. 6 - 2  BY <1>8
    <3> QED BY <1>1, <2>3, <3>1, WorkerGoesOn, Zenon
  <2>5. Holding' = Holding \cup {g} /\ g \notin Holding /\ AtWork' = AtWork
    BY <1>7, <1>8, <2>3 DEF Holding, AtWork
  <2>6. Cardinality(Holding') = Cardinality(Holding) + 1
    BY <2>5, SemaphoreSets, FS_AddElement
  <2>7. /\ buf' \in [{"sem"} -> Seq(Int)]
        /\ Len(buf'["sem"]) = Len(buf["sem"]) + 1
    BY <1>6, <2>3 DEF SemaphoreInv
  <2>8. Len(buf["sem"]) \in Nat  BY <1>6
  <2>9. Len(buf'["sem"]) <= Permits  BY <1>6, <2>3, <2>7, <2>8
  <2> QED BY <1>1, <1>5, <1>7, <2>3, <2>4, <2>5, <2>6, <2>7, <2>9 DEF SemaphoreInv
<1>9. ASSUME pc[g] = 2 PROVE SemaphoreInv'
  <2>1. At(g).op = "atomic" /\ At(g).x = "working" /\ At(g).n = 1
    BY <1>2, <1>9, SemaphoreWorkers DEF AtomicAdd
  <2>2. Atomic(g)  BY <1>1, <2>1, StepAt
  <2>3. /\ mem' = [mem EXCEPT !["working"] = @ + 1]
        /\ UNCHANGED <<demo, wg, buf, closed>>
        /\ pc' = [pc EXCEPT ![g] = @ + 1]
    BY <2>1, <2>2 DEF Atomic, Is, Move, chanVars
  <2>4. Joined(6)'
    <3>1. pc[g] \in 1 .. 6 - 2  BY <1>9
    <3> QED BY <1>1, <2>3, <3>1, WorkerGoesOn, Zenon
  <2>5. AtWork' = AtWork \cup {g} /\ g \notin AtWork /\ Holding' = Holding
    BY <1>7, <1>9, <2>3 DEF Holding, AtWork
  <2>6. Cardinality(AtWork') = Cardinality(AtWork) + 1
    BY <2>5, SemaphoreSets, FS_AddElement
  <2>7. mem' \in [{"working"} -> Int] /\ mem'["working"] = mem["working"] + 1
    BY <2>3 DEF SemaphoreInv
  <2> QED BY <1>1, <1>5, <1>7, <2>3, <2>4, <2>5, <2>6, <2>7 DEF SemaphoreInv
<1>10. ASSUME pc[g] = 3 PROVE SemaphoreInv'
  <2>1. At(g).op = "atomic" /\ At(g).x = "working" /\ At(g).n = -1
    BY <1>2, <1>10, SemaphoreWorkers DEF AtomicAdd
  <2>2. Atomic(g)  BY <1>1, <2>1, StepAt
  <2>3. /\ mem' = [mem EXCEPT !["working"] = @ + -1]
        /\ UNCHANGED <<demo, wg, buf, closed>>
        /\ pc' = [pc EXCEPT ![g] = @ + 1]
    BY <2>1, <2>2 DEF Atomic, Is, Move, chanVars
  <2>4. Joined(6)'
    <3>1. pc[g] \in 1 .. 6 - 2  BY <1>10
    <3> QED BY <1>1, <2>3, <3>1, WorkerGoesOn, Zenon
  <2>5. AtWork' = AtWork \ {g} /\ g \in AtWork /\ Holding' = Holding
    BY <1>7, <1>10, <2>3 DEF Holding, AtWork
  <2>6. Cardinality(AtWork') = Cardinality(AtWork) - 1
    BY <2>5, SemaphoreSets, FS_RemoveElement
  <2>7. mem' \in [{"working"} -> Int] /\ mem'["working"] = mem["working"] - 1
    BY <2>3 DEF SemaphoreInv
  <2> QED BY <1>1, <1>5, <1>7, <2>3, <2>4, <2>5, <2>6, <2>7 DEF SemaphoreInv
<1>11. ASSUME pc[g] = 4 PROVE SemaphoreInv'
  <2>1. /\ At(g).op = "select" /\ At(g).default = 0
        /\ Cases(g) = {Receive("sem", 1, 1)}
    BY <1>2, <1>11, SemaphoreWorkers DEF Recv, Select, Park, Cases
  <2>2. ReceiveBuffered(g)
    <3>1. ~SendBuffered(g)  BY <2>1 DEF SendBuffered, Receive
    <3>2. ~ReceiveClosed(g)  BY DEF ReceiveClosed, SemaphoreInv
    <3>3. ~Default(g)  BY <2>1 DEF Default
    <3>4. \A h \in Goroutines : ~Rendezvous(g, h)
      BY <2>1 DEF Rendezvous, Receive
    <3> QED BY <1>1, <2>1, <3>1, <3>2, <3>3, <3>4, StepAt
  <2>3. /\ buf["sem"] # <<>>
        /\ buf' = [buf EXCEPT !["sem"] = Tail(@)]
        /\ UNCHANGED <<demo, wg, closed, mem>>
        /\ pc' = [pc EXCEPT ![g] = @ + 1]
    <3>1. PICK k \in Cases(g) :
             /\ buf[k.ch] # <<>>
             /\ buf' = [buf EXCEPT ![k.ch] = Tail(@)]
             /\ pc' = [pc EXCEPT ![g] = @ + k.to]
             /\ UNCHANGED <<demo, wg, closed, mem>>
      BY <2>2 DEF ReceiveBuffered, Move
    <3>2. k.ch = "sem" /\ k.to = 1
      BY <2>1, <3>1 DEF Receive
    <3> QED BY <3>1, <3>2
  <2>4. Joined(6)'
    <3>1. pc[g] \in 1 .. 6 - 2  BY <1>11
    <3> QED BY <1>1, <2>3, <3>1, WorkerGoesOn, Zenon
  <2>5. Holding' = Holding \ {g} /\ g \in Holding /\ AtWork' = AtWork
    BY <1>7, <1>11, <2>3 DEF Holding, AtWork
  <2>6. Cardinality(Holding') = Cardinality(Holding) - 1
    BY <2>5, SemaphoreSets, FS_RemoveElement
  <2>7. /\ buf' \in [{"sem"} -> Seq(Int)]
        /\ Len(buf'["sem"]) = Len(buf["sem"]) - 1
    BY <1>6, <2>3 DEF SemaphoreInv
  <2>8. Len(buf["sem"]) \in Nat /\ Len(buf["sem"]) <= Permits
    BY <1>6 DEF SemaphoreInv
  <2>9. Len(buf'["sem"]) <= Permits  BY <1>6, <2>7, <2>8
  <2> QED BY <1>1, <1>5, <1>7, <2>3, <2>4, <2>5, <2>6, <2>7, <2>9 DEF SemaphoreInv
<1>12. ASSUME pc[g] = 5 PROVE SemaphoreInv'
  <2>1. At(g).op = "add" /\ At(g).n = -1
    BY <1>2, <1>12, SemaphoreWorkers DEF Done, Add
  <2>2. AddToGroup(g)  BY <1>1, <2>1, StepAt
  <2>3. /\ wg' = wg - 1
        /\ UNCHANGED <<demo, buf, closed, mem>>
        /\ pc' = [pc EXCEPT ![g] = @ + 1]
    <3>1. wg \in Nat  BY <1>1, GroupIs
    <3> QED BY <2>1, <2>2, <3>1 DEF AddToGroup, Move, chanVars
  <2>4. Joined(6)'
    <3>1. pc[g] = 6 - 1  BY <1>12
    <3> QED BY <1>1, <2>3, <3>1, WorkerIsDone, Zenon
  <2> QED BY <1>1, <1>7, <1>12, <2>3, <2>4, SemaphoreFrame
<1> QED BY <1>2, <1>8, <1>9, <1>10, <1>11, <1>12, SemaphoreWorkers

LEMMA SemaphoreStep ==
    ASSUME SemaphoreInv, [Next]_vars
    PROVE  SemaphoreInv'
<1>1. Goroutines = {1} \cup Crew /\ Contexts = {}
  BY SemaphoreCode DEF SemaphoreInv
<1>2. CASE \E g \in Goroutines : Step(g)
  BY <1>1, <1>2, SemaphoreMainStep, SemaphoreWorkerStep
<1>3. CASE \E c \in Contexts : Propagate(c) \/ Expire(c)  BY <1>1, <1>3
<1>4. CASE UNCHANGED vars
  BY <1>4 DEF SemaphoreInv, vars, chanVars, Joined, Over, Holding, AtWork, Program
<1> QED BY <1>2, <1>3, <1>4 DEF Next, Terminated

LEMMA SemaphoreIsSafe ==
    ASSUME SemaphoreInv
    PROVE  NoPanicNoRace /\ ResultsAsPromised
<1>1. /\ Goroutines = {1} \cup Crew /\ Joined(6)
      /\ Len(Code(1)) = 2 * Workers + 1
  BY SemaphoreCode DEF SemaphoreInv
<1>2. wg \in Nat /\ wg <= Workers  BY <1>1, GroupIs
<1>3. ASSUME NEW g \in Crew PROVE ~Panics(g)
  <2>1. CASE ~Running(g)  BY <2>1 DEF Panics, Is
  <2>2. CASE Running(g) /\ pc[g] # 5
    <3>1. At(g).op \in {"select", "atomic"}
      BY <2>2, SemaphoreWorkers DEF Send, Recv, Select, AtomicAdd
    <3> QED BY <3>1 DEF Panics, Is, SemaphoreInv
  <2>3. CASE Running(g) /\ pc[g] = 5
    <3>1. At(g).op = "add" /\ At(g).n = -1
      BY <2>3, SemaphoreWorkers DEF Done, Add
    <3>2. wg >= 1
      <4>1. pc[g] \notin {0, 6}  BY <2>3
      <4> QED BY <1>1, <4>1, GroupIs
    <3> QED BY <1>2, <3>1, <3>2 DEF Panics, Is
  <2> QED BY <2>1, <2>2, <2>3
<1>4. ~Panics(1)
  <2>1. CASE ~Running(1)  BY <2>1 DEF Panics, Is
  <2>2. CASE Running(1)
    <3>1. \/ At(1).op \in {"go", "wait"}
          \/ At(1).op = "add" /\ At(1).n = 1
      BY <2>2, SemaphoreMain DEF Add, Go, Wait
    <3> QED BY <1>2, <3>1 DEF Panics, Is
  <2> QED BY <2>1, <2>2
<1>5. \A g \in Goroutines : \A x : ~Writes(g, x)
  <2>1. \A g \in Crew : Running(g) => At(g).op \in {"select", "atomic", "add"}
    BY SemaphoreWorkers DEF Send, Recv, Select, AtomicAdd, Done, Add
  <2>2. Running(1) => At(1).op \in {"go", "wait", "add"}
    BY SemaphoreMain DEF Add, Go, Wait
  <2> QED BY <1>1, <2>1, <2>2 DEF Writes, Is
<1>6. NoPanicNoRace  BY <1>1, <1>3, <1>4, <1>5 DEF NoPanicNoRace, Races
<1>7. Ended(1) => mem["working"] = 0
  <2> SUFFICES ASSUME Ended(1) PROVE mem["working"] = 0  OBVIOUS
  <2>1. pc[1] = 2 * Workers + 2  BY <1>1, SizesAssumption DEF Ended
  <2>2. Over(6) = Crew  BY <1>1, <2>1, SizesAssumption DEF Joined
  <2>3. AtWork = {}  BY <2>2 DEF Over, AtWork
  <2> QED BY <2>3, FS_EmptySet DEF SemaphoreInv
<1>8. mem["working"] <= Permits
  BY SemaphoreSets, SizesAssumption DEF SemaphoreInv
<1>9. wg <= Cardinality(Goroutines)  BY <1>1, <1>2, CrewIs, SizesAssumption
<1>10. /\ Ended(1) => Agree(Program.returns)
       /\ Agree(Program.rests) /\ Program.leaks = {}
       /\ \A x \in DOMAIN Program.bounds : mem[x] <= Program.bounds[x]
  BY <1>7, <1>8, SemaphoreProgram DEF SemaphoreInv, Agree
<1> QED BY <1>6, <1>9, <1>10 DEF ResultsAsPromised

\* However many workers `patterns` starts and however many permits its channel
\* has room for: never more of them work than there are permits, nothing
\* panics, and when main returns nobody works.
THEOREM SemaphoreLimitsWorkers ==
    Spec => [](Program = semaphoreChannel => NoPanicNoRace /\ ResultsAsPromised)
<1> DEFINE I == Program = semaphoreChannel => SemaphoreInv
<1>1. Init => I  BY SemaphoreInit
<1>2. I /\ [Next]_vars => I'
  <2> SUFFICES ASSUME I, [Next]_vars, (Program = semaphoreChannel)'
               PROVE  SemaphoreInv'
    OBVIOUS
  <2>1. demo' = demo  BY DemoStays
  <2>2. Program = semaphoreChannel  BY <2>1 DEF Program
  <2> QED BY <2>2, SemaphoreStep
<1>3. I => (Program = semaphoreChannel => NoPanicNoRace /\ ResultsAsPromised)
  BY SemaphoreIsSafe
<1> QED BY <1>1, <1>2, <1>3, PTL DEF Spec
=============================================================================
