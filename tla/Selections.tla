----------------------------- MODULE Selections -----------------------------
(***************************************************************************)
(* Loops that append to a result what they keep of a slice, and what holds *)
(* of them for slices of every length.  The library states induction over  *)
(* the natural numbers for operators; here it is stated for sets.          *)
(***************************************************************************)
EXTENDS Integers, Sequences, WellFoundedInduction, TLAPS

\* for _, x := range s { if x is in S { kept = append(kept, x) } }
KeptUpTo(s, S) ==
    LET kept[i \in 0 .. Len(s)] ==
          IF i = 0 THEN <<>>
          ELSE IF s[i] \in S THEN Append(kept[i - 1], s[i]) ELSE kept[i - 1]
    IN  kept

Kept(s, S) == KeptUpTo(s, S)[Len(s)]

-----------------------------------------------------------------------------
Below == {ss \in Nat \X Nat : ss[1] < ss[2]}

\* Every set of natural numbers has a least element.
LEMMA Least ==
    ASSUME NEW T \in SUBSET Nat, T # {}
    PROVE  \E m \in T : \A k \in T : m <= k
<1>1. IsWellFoundedOn(Below, Nat)
  BY NatLessThanWellFounded DEF OpToRel, Below
<1>2. PICK m \in T : \A k \in T : <<k, m>> \notin Below
  BY <1>1, WFMin
<1>3. \A k \in T : ~(k < m)
  BY <1>2 DEF Below
<1> QED BY <1>3

\* A set that has 0, and with each number the next, has all of them.
LEMMA InductionOnNumbers ==
    ASSUME NEW S, 0 \in S, \A n \in Nat : n \in S => n + 1 \in S
    PROVE  Nat \subseteq S
<1> DEFINE T == Nat \ S
<1> SUFFICES ASSUME T # {} PROVE FALSE
  OBVIOUS
<1>1. PICK m \in T : \A k \in T : m <= k
  BY Least
<1>2. m - 1 \in Nat /\ m - 1 \notin T
  BY <1>1
<1> QED BY <1>1, <1>2

\* The same for sequences, which grow by Append.
LEMMA InductionOnSequences ==
    ASSUME NEW T, NEW S, <<>> \in S,
           \A s \in Seq(T), x \in T : s \in S => Append(s, x) \in S
    PROVE  Seq(T) \subseteq S
<1> DEFINE Good == {n \in Nat : \A s \in Seq(T) : Len(s) = n => s \in S}
<1>1. 0 \in Good
  OBVIOUS
<1>2. ASSUME NEW n \in Nat, n \in Good PROVE n + 1 \in Good
  <2>1. ASSUME NEW s \in Seq(T), Len(s) = n + 1 PROVE s \in S
    <3> DEFINE front == SubSeq(s, 1, n)  last == s[n + 1]
    <3>1. front \in Seq(T) /\ Len(front) = n /\ last \in T
      BY <2>1
    <3>2. s = Append(front, last)
      BY <2>1, <3>1
    <3>3. front \in S
      BY <1>2, <3>1
    <3> HIDE DEF front, last
    <3> QED BY <3>1, <3>2, <3>3
  <2> QED BY <2>1
<1> HIDE DEF Good
<1>3. Nat \subseteq Good
  BY <1>1, <1>2, InductionOnNumbers
<1> QED BY <1>3 DEF Good

-----------------------------------------------------------------------------
\* A loop that computes each value from the one before it is well defined.
Runs(f, T, lo, hi, x, F) ==
    /\ f \in [lo .. hi -> T] /\ f[lo] = x
    /\ \A k \in lo + 1 .. hi : f[k] = F[k][f[k - 1]]

LEMMA LoopExists ==
    ASSUME NEW T, NEW lo \in Int, NEW hi \in Int, lo <= hi, NEW x \in T,
           NEW F \in [Int -> [T -> T]]
    PROVE  \E f : Runs(f, T, lo, hi, x, F)
<1> DEFINE Loop(f, d) == /\ f \in [lo .. lo + d -> T] /\ f[lo] = x
                         /\ \A k \in lo + 1 .. lo + d : f[k] = F[k][f[k - 1]]
           Good == {d \in Nat : \E f : Loop(f, d)}
<1>1. 0 \in Good
  <2>1. Loop([k \in lo .. lo + 0 |-> x], 0)
    OBVIOUS
  <2> QED BY <2>1
<1>2. ASSUME NEW d \in Nat, d \in Good PROVE d + 1 \in Good
  <2>1. PICK f : Loop(f, d)
    BY <1>2
  <2> DEFINE last == lo + d + 1
             g == [k \in lo .. last |-> IF k = last THEN F[k][f[lo + d]] ELSE f[k]]
  <2>2. last \in Int /\ lo + d = last - 1 /\ lo < last /\ last = lo + (d + 1)
    OBVIOUS
  <2>3. F[last][f[lo + d]] \in T
    <3>1. lo + d \in lo .. lo + d
      OBVIOUS
    <3>2. f[lo + d] \in T
      BY <2>1, <3>1
    <3> HIDE DEF last
    <3> QED BY <2>2, <3>2
  <2>4. ASSUME NEW k \in lo .. lo + d PROVE g[k] = f[k] /\ f[k] \in T
    <3>1. k # last /\ k \in lo .. last
      OBVIOUS
    <3> QED BY <3>1, <2>1
  <2>6. last \in lo .. last /\ g[last] = F[last][f[lo + d]]
    BY <2>2
  <2>5. g \in [lo .. last -> T]
    <3>1. g = [k \in lo .. last |-> g[k]]
      OBVIOUS
    <3> HIDE DEF g
    <3>2. \A k \in lo .. last : k = last \/ k \in lo .. lo + d
      OBVIOUS
    <3>3. \A k \in lo .. last : g[k] \in T
      BY <3>2, <2>3, <2>4, <2>6
    <3> QED BY <3>1, <3>3
  <2> HIDE DEF g
  <2>7. ASSUME NEW k \in lo + 1 .. last PROVE g[k] = F[k][g[k - 1]]
    <3>1. CASE k = last
      <4>1. lo + d \in lo .. lo + d
        OBVIOUS
      <4> QED BY <3>1, <4>1, <2>2, <2>4, <2>6
    <3>2. CASE k \in lo + 1 .. lo + d
      <4>1. k \in lo .. lo + d /\ k - 1 \in lo .. lo + d
        BY <3>2
      <4> QED BY <4>1, <3>2, <2>1, <2>4
    <3> QED BY <3>1, <3>2
  <2>8. g[lo] = x
    BY <2>1, <2>4
  <2> HIDE DEF last
  <2>9. Loop(g, d + 1)
    BY <2>2, <2>5, <2>7, <2>8
  <2> QED BY <2>9
<1>3. Nat \subseteq Good
  <2> HIDE DEF Good
  <2> QED BY <1>1, <1>2, InductionOnNumbers
<1>4. hi - lo \in Nat /\ lo + (hi - lo) = hi
  OBVIOUS
<1>5. PICK f : Loop(f, hi - lo)
  BY <1>3, <1>4
<1> QED BY <1>4, <1>5 DEF Runs

-----------------------------------------------------------------------------
\* The loop is well defined: there is a function that does what it says, ...
KeptBy(f, s, S) ==
    f = [i \in 0 .. Len(s) |->
           IF i = 0 THEN <<>>
           ELSE IF s[i] \in S THEN Append(f[i - 1], s[i]) ELSE f[i - 1]]

LEMMA KeptByMeans ==
    ASSUME NEW f, NEW s, NEW S, KeptBy(f, s, S), NEW i \in 0 .. Len(s)
    PROVE  f[i] = IF i = 0 THEN <<>>
                  ELSE IF s[i] \in S THEN Append(f[i - 1], s[i]) ELSE f[i - 1]
<1> DEFINE h == [k \in 0 .. Len(s) |->
                   IF k = 0 THEN <<>>
                   ELSE IF s[k] \in S THEN Append(f[k - 1], s[k]) ELSE f[k - 1]]
<1>1. f = h
  BY DEF KeptBy
<1>2. h[i] = IF i = 0 THEN <<>>
             ELSE IF s[i] \in S THEN Append(f[i - 1], s[i]) ELSE f[i - 1]
  OBVIOUS
<1> HIDE DEF h
<1> QED BY <1>1, <1>2

LEMMA KeptExists ==
    ASSUME NEW T, NEW s \in Seq(T), NEW S
    PROVE  \E f : KeptBy(f, s, S)
<1> DEFINE Good == {n \in Nat : \A t \in Seq(T) : Len(t) = n => \E f : KeptBy(f, t, S)}
<1>1. 0 \in Good
  <2>1. ASSUME NEW t \in Seq(T), Len(t) = 0 PROVE KeptBy([i \in 0 .. 0 |-> <<>>], t, S)
    BY <2>1 DEF KeptBy
  <2> QED BY <2>1
<1>2. ASSUME NEW n \in Nat, n \in Good PROVE n + 1 \in Good
  <2>1. ASSUME NEW t \in Seq(T), Len(t) = n + 1 PROVE \E f : KeptBy(f, t, S)
    <3> DEFINE front == SubSeq(t, 1, n)
    <3>1. front \in Seq(T) /\ Len(front) = n /\ \A i \in 1 .. n : front[i] = t[i]
      BY <2>1
    <3>2. PICK f : KeptBy(f, front, S)
      BY <1>2, <3>1
    <3> HIDE DEF front
    <3> DEFINE g == [i \in 0 .. n + 1 |->
                       IF i = n + 1
                       THEN IF t[i] \in S THEN Append(f[n], t[i]) ELSE f[n]
                       ELSE f[i]]
    <3>3. \A i \in 0 .. n : g[i] = f[i]
      OBVIOUS
    <3>4. \A i \in 0 .. n : f[i] = IF i = 0 THEN <<>>
                            ELSE IF t[i] \in S THEN Append(f[i - 1], t[i]) ELSE f[i - 1]
      <4> SUFFICES ASSUME NEW i \in 0 .. n
                   PROVE  f[i] = IF i = 0 THEN <<>>
                                 ELSE IF t[i] \in S THEN Append(f[i - 1], t[i])
                                 ELSE f[i - 1]
        OBVIOUS
      <4>1. i # 0 => front[i] = t[i]
        BY <3>1
      <4> QED BY <4>1, <3>1, <3>2, KeptByMeans
    <3>5. ASSUME NEW i \in 0 .. n + 1
          PROVE  g[i] = IF i = 0 THEN <<>>
                        ELSE IF t[i] \in S THEN Append(g[i - 1], t[i]) ELSE g[i - 1]
      <4>1. CASE i = n + 1
        BY <4>1, <3>3
      <4>2. CASE i \in 0 .. n
        <5>1. g[i] = f[i] /\ (i # 0 => g[i - 1] = f[i - 1])
          BY <4>2
        <5> HIDE DEF g
        <5> QED BY <5>1, <4>2, <3>4
      <4> QED BY <4>1, <4>2
    <3>6. g = [i \in 0 .. n + 1 |-> g[i]]
      OBVIOUS
    <3> HIDE DEF g
    <3>7. KeptBy(g, t, S)
      BY <3>5, <3>6, <2>1 DEF KeptBy
    <3> QED BY <3>7
  <2> QED BY <2>1
<1> HIDE DEF Good
<1>3. Nat \subseteq Good
  BY <1>1, <1>2, InductionOnNumbers
<1> QED BY <1>3 DEF Good

\* ... and it is the one the definition chooses.
LEMMA KeptSteps ==
    ASSUME NEW T, NEW s \in Seq(T), NEW S
    PROVE  /\ KeptUpTo(s, S)[0] = <<>>
           /\ \A i \in 1 .. Len(s) :
                 KeptUpTo(s, S)[i] =
                   IF s[i] \in S THEN Append(KeptUpTo(s, S)[i - 1], s[i])
                   ELSE KeptUpTo(s, S)[i - 1]
<1>1. KeptUpTo(s, S) = CHOOSE f : KeptBy(f, s, S)
  BY DEF KeptUpTo, KeptBy
<1>2. KeptBy(KeptUpTo(s, S), s, S)
  BY <1>1, KeptExists
<1>3. \A i \in 0 .. Len(s) :
        KeptUpTo(s, S)[i] = IF i = 0 THEN <<>>
                            ELSE IF s[i] \in S
                                 THEN Append(KeptUpTo(s, S)[i - 1], s[i])
                                 ELSE KeptUpTo(s, S)[i - 1]
  BY <1>2, KeptByMeans
<1>4. 0 \in 0 .. Len(s) /\ \A i \in 1 .. Len(s) : i \in 0 .. Len(s) /\ i # 0
  OBVIOUS
<1> QED BY <1>3, <1>4

-----------------------------------------------------------------------------
\* What is kept of a sequence and one more element.
LEMMA KeptOfEmpty ==
    ASSUME NEW S
    PROVE  Kept(<<>>, S) = <<>>
<1> DEFINE e == <<>>
<1>1. e \in Seq(Nat) /\ Len(e) = 0
  OBVIOUS
<1> HIDE DEF e
<1>2. ASSUME NEW T, NEW s \in Seq(T), Len(s) = 0 PROVE Kept(s, S) = <<>>
  <2>1. KeptUpTo(s, S)[0] = <<>>
    BY KeptSteps
  <2> QED BY <1>2, <2>1 DEF Kept
<1>3. Kept(e, S) = <<>>
  BY <1>1, <1>2
<1> QED BY <1>3 DEF e

LEMMA KeptOfAppend ==
    ASSUME NEW T, NEW s \in Seq(T), NEW x \in T, NEW S
    PROVE  Kept(Append(s, x), S) = IF x \in S THEN Append(Kept(s, S), x) ELSE Kept(s, S)
<1> DEFINE t == Append(s, x)
<1>1. t \in Seq(T) /\ Len(t) = Len(s) + 1 /\ t[Len(t)] = x
      /\ \A i \in 1 .. Len(s) : t[i] = s[i]
  OBVIOUS
<1> HIDE DEF t
<1> DEFINE Same == {n \in Nat : n <= Len(s) => KeptUpTo(t, S)[n] = KeptUpTo(s, S)[n]}
<1>2. 0 \in Same
  BY <1>1, KeptSteps
<1>3. ASSUME NEW n \in Nat, n \in Same PROVE n + 1 \in Same
  <2> SUFFICES ASSUME n + 1 <= Len(s)
               PROVE  KeptUpTo(t, S)[n + 1] = KeptUpTo(s, S)[n + 1]
    OBVIOUS
  <2>1. n + 1 \in 1 .. Len(s) /\ n + 1 \in 1 .. Len(t) /\ (n + 1) - 1 = n
    BY <1>1
  <2>2. KeptUpTo(t, S)[n] = KeptUpTo(s, S)[n] /\ t[n + 1] = s[n + 1]
    BY <1>1, <1>3, <2>1
  <2>3. /\ KeptUpTo(s, S)[n + 1] = IF s[n + 1] \in S
                                   THEN Append(KeptUpTo(s, S)[(n + 1) - 1], s[n + 1])
                                   ELSE KeptUpTo(s, S)[(n + 1) - 1]
        /\ KeptUpTo(t, S)[n + 1] = IF t[n + 1] \in S
                                   THEN Append(KeptUpTo(t, S)[(n + 1) - 1], t[n + 1])
                                   ELSE KeptUpTo(t, S)[(n + 1) - 1]
    BY <2>1, <1>1, KeptSteps
  <2> QED BY <2>1, <2>2, <2>3
<1> HIDE DEF Same
<1>4. Len(s) \in Same
  BY <1>2, <1>3, InductionOnNumbers
<1>5. KeptUpTo(t, S)[Len(s)] = KeptUpTo(s, S)[Len(s)]
  BY <1>4 DEF Same
<1>6. Len(t) \in 1 .. Len(t) /\ Len(t) - 1 = Len(s)
  BY <1>1
<1>7. KeptUpTo(t, S)[Len(t)] = IF t[Len(t)] \in S
                               THEN Append(KeptUpTo(t, S)[Len(t) - 1], t[Len(t)])
                               ELSE KeptUpTo(t, S)[Len(t) - 1]
  BY <1>1, <1>6, KeptSteps
<1> QED BY <1>1, <1>5, <1>6, <1>7 DEF Kept, t

\* Only elements of the sequence are kept, no more than it has.
LEMMA KeptType ==
    ASSUME NEW T, NEW s \in Seq(T), NEW S
    PROVE  /\ Kept(s, S) \in Seq(T)
           /\ Kept(s, S) \in Seq(T \cap S)
           /\ Len(Kept(s, S)) <= Len(s)
<1> DEFINE Good == {t \in Seq(T) : /\ Kept(t, S) \in Seq(T)
                                  /\ Kept(t, S) \in Seq(T \cap S)
                                  /\ Len(Kept(t, S)) <= Len(t)}
<1>1. <<>> \in Good
  <2> DEFINE e == <<>>
  <2>1. Kept(e, S) = e
    BY KeptOfEmpty
  <2>2. e \in Seq(T) /\ e \in Seq(T \cap S) /\ Len(e) <= Len(e)
    OBVIOUS
  <2> HIDE DEF e
  <2>3. e \in Good
    BY <2>1, <2>2
  <2> QED BY <2>3 DEF e
<1>2. ASSUME NEW t \in Seq(T), NEW x \in T, t \in Good PROVE Append(t, x) \in Good
  <2> DEFINE k == Kept(t, S)
  <2>1. k \in Seq(T) /\ k \in Seq(T \cap S) /\ Len(k) <= Len(t)
    BY <1>2
  <2>2. Kept(Append(t, x), S) = IF x \in S THEN Append(k, x) ELSE k
    BY KeptOfAppend
  <2> HIDE DEF k
  <2>3. Append(t, x) \in Seq(T) /\ Len(Append(t, x)) = Len(t) + 1
    OBVIOUS
  <2>4. CASE x \in S
    <3>1. Append(k, x) \in Seq(T) /\ Append(k, x) \in Seq(T \cap S)
          /\ Len(Append(k, x)) = Len(k) + 1
      BY <2>1, <2>4
    <3>2. Len(Append(k, x)) <= Len(Append(t, x))
      BY <3>1, <2>1, <2>3
    <3>3. Kept(Append(t, x), S) = Append(k, x)
      BY <2>2, <2>4
    <3> DEFINE u == Append(t, x)  v == Append(k, x)
    <3> HIDE DEF u, v
    <3>4. u \in Good
      BY <3>1, <3>2, <3>3, <2>3 DEF u, v
    <3> QED BY <3>4 DEF u
  <2>5. CASE x \notin S
    <3>1. Kept(Append(t, x), S) = k /\ Len(k) <= Len(Append(t, x))
      BY <2>1, <2>2, <2>3, <2>5
    <3> QED BY <3>1, <2>1, <2>3
  <2> QED BY <2>4, <2>5
<1> HIDE DEF Good
<1>3. Seq(T) \subseteq Good
  BY <1>1, <1>2, InductionOnSequences
<1> QED BY <1>3 DEF Good

\* Keeping again keeps what both conditions keep.
LEMMA KeptTwice ==
    ASSUME NEW T, NEW s \in Seq(T), NEW S, NEW R
    PROVE  Kept(Kept(s, S), R) = Kept(s, S \cap R)
<1> DEFINE Good == {t \in Seq(T) : Kept(Kept(t, S), R) = Kept(t, S \cap R)}
<1>1. <<>> \in Good
  BY KeptOfEmpty
<1>2. ASSUME NEW t \in Seq(T), NEW x \in T, t \in Good PROVE Append(t, x) \in Good
  <2>1. Kept(t, S) \in Seq(T)
    BY KeptType
  <2>2. Kept(Append(Kept(t, S), x), R) = IF x \in R THEN Append(Kept(Kept(t, S), R), x)
                                         ELSE Kept(Kept(t, S), R)
    BY <2>1, KeptOfAppend
  <2>3. /\ Kept(Append(t, x), S) = IF x \in S THEN Append(Kept(t, S), x) ELSE Kept(t, S)
        /\ Kept(Append(t, x), S \cap R) = IF x \in S \cap R
                                          THEN Append(Kept(t, S \cap R), x)
                                          ELSE Kept(t, S \cap R)
    BY KeptOfAppend
  <2>4. Kept(Kept(t, S), R) = Kept(t, S \cap R) /\ Append(t, x) \in Seq(T)
    BY <1>2
  <2>5. x \in S \cap R <=> x \in S /\ x \in R
    OBVIOUS
  <2>6. Kept(Kept(Append(t, x), S), R) = Kept(Append(t, x), S \cap R)
    <3>1. CASE x \in S
      BY <2>2, <2>3, <2>4, <2>5, <3>1
    <3>2. CASE x \notin S
      BY <2>3, <2>4, <2>5, <3>2
    <3> QED BY <3>1, <3>2
  <2> QED BY <2>4, <2>6
<1> HIDE DEF Good
<1>3. Seq(T) \subseteq Good
  BY <1>1, <1>2, InductionOnSequences
<1> QED BY <1>3 DEF Good

\* Where the kept elements were: in ascending places, all of those that have
\* an element to be kept.
Places(e, s, S) ==
    /\ e \in [1 .. Len(Kept(s, S)) -> 1 .. Len(s)]
    /\ \A k \in 1 .. Len(Kept(s, S)) : Kept(s, S)[k] = s[e[k]] /\ s[e[k]] \in S
    /\ \A k, l \in 1 .. Len(Kept(s, S)) : k < l => e[k] < e[l]
    /\ \A i \in 1 .. Len(s) : s[i] \in S => \E k \in 1 .. Len(Kept(s, S)) : e[k] = i

LEMMA KeptPlaces ==
    ASSUME NEW T, NEW s \in Seq(T), NEW S
    PROVE  \E e : Places(e, s, S)
<1> DEFINE Good == {t \in Seq(T) : \E e : Places(e, t, S)}
<1>1. <<>> \in Good
  <2>1. Places(<<>>, <<>>, S)
    BY KeptOfEmpty DEF Places
  <2> QED BY <2>1
<1>2. ASSUME NEW t \in Seq(T), NEW x \in T, t \in Good PROVE Append(t, x) \in Good
  <2>1. PICK e : Places(e, t, S)
    BY <1>2
  <2>2. Kept(t, S) \in Seq(T)
    BY KeptType
  <2>3. CASE x \in S
    <3> DEFINE u == Append(t, x)  kt == Kept(t, S)  ku == Kept(u, S)
               n == Len(kt)
               d == [k \in 1 .. n + 1 |-> IF k = n + 1 THEN Len(t) + 1 ELSE e[k]]
    <3>1. u \in Seq(T) /\ Len(u) = Len(t) + 1 /\ u[Len(t) + 1] = x
          /\ \A i \in 1 .. Len(t) : u[i] = t[i]
      OBVIOUS
    <3>2. ku = Append(kt, x)
      BY <2>3, KeptOfAppend
    <3>3. n \in Nat /\ Len(ku) = n + 1 /\ ku[n + 1] = x
          /\ \A k \in 1 .. n : ku[k] = kt[k]
      BY <2>2, <3>2
    <3>4. /\ \A k \in 1 .. n : /\ e[k] \in 1 .. Len(t)
                              /\ kt[k] = t[e[k]] /\ t[e[k]] \in S
          /\ \A k, l \in 1 .. n : k < l => e[k] < e[l]
          /\ \A i \in 1 .. Len(t) : t[i] \in S => \E k \in 1 .. n : e[k] = i
      BY <2>1 DEF Places
    <3>5. d[n + 1] = Len(t) + 1 /\ \A k \in 1 .. n : d[k] = e[k]
      BY <3>3
    <3>7. Len(t) \in Nat
      OBVIOUS
    <3>6. d \in [1 .. n + 1 -> 1 .. Len(t) + 1]
      <4> HIDE DEF u, kt, ku, n
      <4>1. \A k \in 1 .. n + 1 :
               (IF k = n + 1 THEN Len(t) + 1 ELSE e[k]) \in 1 .. Len(t) + 1
        BY <3>3, <3>4, <3>7
      <4> QED BY <4>1
    <3> HIDE DEF u, kt, ku, n, d
    <3>8. \A k \in 1 .. n + 1 : k = n + 1 \/ k \in 1 .. n
      BY <3>3
    <3>9. \A k \in 1 .. n + 1 : ku[k] = u[d[k]] /\ u[d[k]] \in S
      BY <2>3, <3>1, <3>3, <3>4, <3>5, <3>8
    <3>10. \A k, l \in 1 .. n + 1 : k < l => d[k] < d[l]
      <4> SUFFICES ASSUME NEW k \in 1 .. n + 1, NEW l \in 1 .. n + 1, k < l
                   PROVE  d[k] < d[l]
        OBVIOUS
      <4>1. k \in 1 .. n
        BY <3>3
      <4>2. d[k] = e[k] /\ e[k] \in 1 .. Len(t)
        BY <4>1, <3>4, <3>5
      <4>3. CASE l = n + 1
        BY <4>2, <4>3, <3>5, <3>7
      <4>4. CASE l \in 1 .. n
        BY <4>1, <4>4, <3>4, <3>5
      <4> QED BY <4>3, <4>4, <3>8
    <3>11. ASSUME NEW i \in 1 .. Len(t) + 1, u[i] \in S
           PROVE  \E k \in 1 .. n + 1 : d[k] = i
      <4>1. CASE i = Len(t) + 1
        BY <4>1, <3>3, <3>5
      <4>2. CASE i \in 1 .. Len(t)
        <5>1. PICK k \in 1 .. n : e[k] = i
          BY <4>2, <3>11, <3>1, <3>4
        <5>2. k \in 1 .. n + 1 /\ d[k] = i
          BY <5>1, <3>3, <3>5
        <5> QED BY <5>2
      <4> QED BY <4>1, <4>2, <3>7
    <3>12. Places(d, u, S)
      BY <3>1, <3>3, <3>6, <3>9, <3>10, <3>11 DEF Places, ku
    <3> QED BY <3>12, <3>1 DEF u
  <2>4. CASE x \notin S
    <3> DEFINE u == Append(t, x)
    <3>1. u \in Seq(T) /\ Len(u) = Len(t) + 1 /\ u[Len(t) + 1] = x
          /\ \A i \in 1 .. Len(t) : u[i] = t[i]
      OBVIOUS
    <3>2. Kept(u, S) = Kept(t, S)
      BY <2>4, KeptOfAppend
    <3> DEFINE kt == Kept(t, S)  n == Len(kt)
    <3>3. /\ e \in [1 .. n -> 1 .. Len(t)]
          /\ \A k \in 1 .. n : kt[k] = t[e[k]] /\ t[e[k]] \in S
          /\ \A k, l \in 1 .. n : k < l => e[k] < e[l]
          /\ \A i \in 1 .. Len(t) : t[i] \in S => \E k \in 1 .. n : e[k] = i
      BY <2>1 DEF Places
    <3>4. Kept(u, S) = kt /\ Len(t) \in Nat
      BY <3>2
    <3> HIDE DEF u, kt, n
    <3>5. e \in [1 .. n -> 1 .. Len(u)]
      BY <3>1, <3>3, <3>4
    <3>6. \A k \in 1 .. n : kt[k] = u[e[k]] /\ u[e[k]] \in S
      BY <3>1, <3>3
    <3>7. \A i \in 1 .. Len(u) : u[i] \in S => \E k \in 1 .. n : e[k] = i
      BY <2>4, <3>1, <3>3, <3>4
    <3>8. Places(e, u, S)
      BY <3>3, <3>4, <3>5, <3>6, <3>7 DEF Places, n
    <3> QED BY <3>1, <3>8 DEF u
  <2> QED BY <2>3, <2>4
<1> HIDE DEF Good
<1>3. Seq(T) \subseteq Good
  BY <1>1, <1>2, InductionOnSequences
<1> QED BY <1>3 DEF Good

\* What is kept of an ascending sequence ascends.
LEMMA KeptAscends ==
    ASSUME NEW T \in SUBSET Int, NEW s \in Seq(T), NEW S,
           \A i, j \in 1 .. Len(s) : i <= j => s[i] <= s[j]
    PROVE  \A i, j \in 1 .. Len(Kept(s, S)) : i <= j => Kept(s, S)[i] <= Kept(s, S)[j]
<1>1. PICK e : Places(e, s, S)
  BY KeptPlaces
<1> SUFFICES ASSUME NEW i \in 1 .. Len(Kept(s, S)), NEW j \in 1 .. Len(Kept(s, S)),
                    i <= j
             PROVE  Kept(s, S)[i] <= Kept(s, S)[j]
  OBVIOUS
<1>2. Kept(s, S) \in Seq(T)
  BY KeptType
<1> DEFINE k == Kept(s, S)
<1>3. /\ k[i] = s[e[i]] /\ k[j] = s[e[j]]
      /\ e[i] \in 1 .. Len(s) /\ e[j] \in 1 .. Len(s)
  BY <1>1 DEF Places
<1>7. s[e[i]] \in Int
  <2>1. s[e[i]] \in T
    BY <1>3
  <2> QED BY <2>1
<1>4. i = j \/ i < j
  BY <1>2
<1>5. i < j => e[i] < e[j]
  BY <1>1 DEF Places
<1> HIDE DEF k
<1>6. k[i] <= k[j]
  <2>1. CASE i = j
    BY <2>1, <1>3, <1>7
  <2>2. CASE i < j
    BY <2>2, <1>3, <1>5
  <2> QED BY <1>4, <2>1, <2>2
<1> QED BY <1>6 DEF k

\* Of a sequence without repetition an element is kept once.
LEMMA KeptOnce ==
    ASSUME NEW T, NEW s \in Seq(T), NEW S,
           \A i, j \in 1 .. Len(s) : s[i] = s[j] => i = j
    PROVE  /\ \A k, l \in 1 .. Len(Kept(s, S)) : Kept(s, S)[k] = Kept(s, S)[l] => k = l
           /\ \A i \in 1 .. Len(s) :
                 s[i] \in S => \E k \in 1 .. Len(Kept(s, S)) : Kept(s, S)[k] = s[i]
<1>1. PICK e : Places(e, s, S)
  BY KeptPlaces
<1>2. Kept(s, S) \in Seq(T)
  BY KeptType
<1> DEFINE n == Len(Kept(s, S))
<1>3. n \in Nat
  BY <1>2
<1>4. /\ \A k \in 1 .. n : e[k] \in 1 .. Len(s) /\ Kept(s, S)[k] = s[e[k]]
      /\ \A k, l \in 1 .. n : k < l => e[k] < e[l]
      /\ \A i \in 1 .. Len(s) : s[i] \in S => \E k \in 1 .. n : e[k] = i
  BY <1>1 DEF Places
<1> HIDE DEF n
<1>5. ASSUME NEW k \in 1 .. n, NEW l \in 1 .. n, Kept(s, S)[k] = Kept(s, S)[l]
      PROVE  k = l
  <2>1. e[k] = e[l]
    BY <1>4, <1>5
  <2>2. ~(e[k] < e[l]) /\ ~(e[l] < e[k])
    BY <1>4, <2>1
  <2>3. ~(k < l) /\ ~(l < k)
    BY <1>4, <2>2
  <2> QED BY <1>3, <2>3
<1>6. ASSUME NEW i \in 1 .. Len(s), s[i] \in S
      PROVE  \E k \in 1 .. n : Kept(s, S)[k] = s[i]
  BY <1>4, <1>6
<1> QED BY <1>5, <1>6 DEF n
=============================================================================
