------------------------ MODULE DataStructuresProofs ------------------------
(***************************************************************************)
(* Proofs about DataStructures: that its tables are dictionaries and its   *)
(* hash map has a node for each key, for all sets of keys and values and   *)
(* any number of buckets; that its slices have what is meant, for all      *)
(* elements, lengths and capacities; that its B+ tree finds the row of a   *)
(* key, for all leaves; that its encodings can be read back, for all bases *)
(* and ranges; and that its chains run in order, for all handlers.         *)
(***************************************************************************)
EXTENDS DataStructures, Selections, FiniteSetTheorems, TLAPS

Nodes == [key : Keys, value : Data]
Bucket == 0 .. Buckets - 1

-----------------------------------------------------------------------------
(*                               The hash                                  *)

HashBy(f, s) ==
    f = [i \in 0 .. Len(s) |-> IF i = 0 THEN 0 ELSE (f[i - 1] * 31 + s[i]) % Buckets]

LEMMA HashByMeans ==
    ASSUME NEW f, NEW s, HashBy(f, s), NEW i \in 0 .. Len(s)
    PROVE  f[i] = IF i = 0 THEN 0 ELSE (f[i - 1] * 31 + s[i]) % Buckets
<1> DEFINE g == [k \in 0 .. Len(s) |->
                   IF k = 0 THEN 0 ELSE (f[k - 1] * 31 + s[k]) % Buckets]
<1>1. f = g
  BY DEF HashBy
<1>2. g[i] = IF i = 0 THEN 0 ELSE (f[i - 1] * 31 + s[i]) % Buckets
  OBVIOUS
<1> HIDE DEF g
<1> QED BY <1>1, <1>2

\* The loop over the characters is well defined, ...
LEMMA HashExists ==
    ASSUME NEW s \in Seq(Nat)
    PROVE  \E f : HashBy(f, s)
<1> DEFINE Good == {m \in Nat : \A t \in Seq(Nat) : Len(t) = m => \E f : HashBy(f, t)}
<1>1. 0 \in Good
  <2>1. ASSUME NEW t \in Seq(Nat), Len(t) = 0 PROVE HashBy([i \in 0 .. 0 |-> 0], t)
    BY <2>1 DEF HashBy
  <2> QED BY <2>1
<1>2. ASSUME NEW m \in Nat, m \in Good PROVE m + 1 \in Good
  <2>1. ASSUME NEW t \in Seq(Nat), Len(t) = m + 1 PROVE \E f : HashBy(f, t)
    <3> DEFINE front == SubSeq(t, 1, m)
    <3>1. front \in Seq(Nat) /\ Len(front) = m /\ \A i \in 1 .. m : front[i] = t[i]
      BY <2>1
    <3>2. PICK f : HashBy(f, front)
      BY <1>2, <3>1
    <3> HIDE DEF front
    <3> DEFINE next(before, i) == (before * 31 + t[i]) % Buckets
               g == [i \in 0 .. m + 1 |-> IF i = m + 1 THEN next(f[m], i) ELSE f[i]]
    <3>3. \A i \in 0 .. m : g[i] = f[i]
      OBVIOUS
    <3>4. \A i \in 0 .. m : f[i] = IF i = 0 THEN 0 ELSE next(f[i - 1], i)
      <4> SUFFICES ASSUME NEW i \in 0 .. m
                   PROVE  f[i] = IF i = 0 THEN 0 ELSE next(f[i - 1], i)
        OBVIOUS
      <4>1. i # 0 => front[i] = t[i]
        BY <3>1
      <4>2. f[i] = IF i = 0 THEN 0 ELSE (f[i - 1] * 31 + front[i]) % Buckets
        BY <3>1, <3>2, HashByMeans
      <4> QED BY <4>1, <4>2
    <3>5. ASSUME NEW i \in 0 .. m + 1
          PROVE  g[i] = IF i = 0 THEN 0 ELSE next(g[i - 1], i)
      <4> HIDE DEF next
      <4>1. CASE i = m + 1
        <5>1. g[i] = next(f[m], i) /\ g[i - 1] = f[m] /\ i # 0
          BY <4>1
        <5> QED BY <5>1
      <4>2. CASE i \in 0 .. m
        <5>1. g[i] = f[i] /\ (i # 0 => g[i - 1] = f[i - 1])
          BY <4>2
        <5> HIDE DEF g
        <5> QED BY <5>1, <4>2, <3>4
      <4> QED BY <4>1, <4>2
    <3>6. g = [i \in 0 .. m + 1 |-> g[i]]
      OBVIOUS
    <3> HIDE DEF g
    <3>7. HashBy(g, t)
      BY <3>5, <3>6, <2>1 DEF HashBy
    <3> QED BY <3>7
  <2> QED BY <2>1
<1> HIDE DEF Good
<1>3. Nat \subseteq Good
  BY <1>1, <1>2, InductionOnNumbers
<1> QED BY <1>3 DEF Good

\* ... and ends at a bucket, whatever the key.
LEMMA HashIsABucket ==
    ASSUME NEW k \in Keys
    PROVE  Table!simpleHashStr(k) \in Bucket
<1> DEFINE f == CHOOSE f : HashBy(f, k)
<1>1. k \in Seq(Nat) /\ Buckets \in Nat \ {0}
  BY TablesAssumption
<1>2. Table!simpleHashStr(k) = f[Len(k)]
  BY DEF Table!simpleHashStr, HashBy
<1>3. HashBy(f, k)
  BY <1>1, HashExists
<1> HIDE DEF f
<1> DEFINE InRange == {m \in Nat : m <= Len(k) => f[m] \in Bucket}
<1>4. 0 \in InRange
  <2>1. f[0] = 0
    BY <1>1, <1>3, HashByMeans
  <2>2. 0 \in Bucket
    BY <1>1 DEF Bucket
  <2> QED BY <2>1, <2>2
<1>5. ASSUME NEW m \in Nat, m \in InRange PROVE m + 1 \in InRange
  <2> SUFFICES ASSUME m + 1 <= Len(k) PROVE f[m + 1] \in Bucket
    OBVIOUS
  <2>1. m + 1 \in 0 .. Len(k) /\ m + 1 # 0 /\ (m + 1) - 1 = m /\ m <= Len(k)
    BY <1>1
  <2>2. f[m + 1] = (f[m] * 31 + k[m + 1]) % Buckets
    BY <1>3, <2>1, HashByMeans
  <2>3. f[m] \in Nat /\ k[m + 1] \in Nat
    BY <1>1, <1>5, <2>1 DEF Bucket
  <2> DEFINE x == f[m] * 31 + k[m + 1]
  <2>4. x \in Nat
    BY <2>3
  <2> HIDE DEF x
  <2>5. x % Buckets \in 0 .. Buckets - 1
    BY <1>1, <2>4
  <2> QED BY <2>2, <2>5 DEF x, Bucket
<1> HIDE DEF InRange
<1>6. Len(k) \in InRange
  BY <1>1, <1>4, <1>5, InductionOnNumbers
<1> QED BY <1>1, <1>2, <1>6 DEF InRange

-----------------------------------------------------------------------------
(*                         Searching lists of nodes                        *)

\* Min finds the least of some numbers.
LEMMA MinIsLeast ==
    ASSUME NEW T \in SUBSET Nat, T # {}
    PROVE  Table!Min(T) \in T /\ \A k \in T : Table!Min(T) <= k
BY Least DEF Table!Min

\* A key is found in its first node.
LEMMA LookupIsFirst ==
    ASSUME NEW list \in Seq(Nodes), NEW k
    PROVE  /\ (\A i \in 1 .. Len(list) : list[i].key # k) => Table!Lookup(list, k) = Nothing
           /\ \A i \in 1 .. Len(list) :
                 list[i].key = k /\ (\A j \in 1 .. i - 1 : list[j].key # k)
                     => Table!Lookup(list, k) = list[i].value
<1> DEFINE places == {i \in 1 .. Len(list) : list[i].key = k}
<1>1. Table!Lookup(list, k) = IF places = {} THEN Nothing
                              ELSE list[Table!Min(places)].value
  <2>1. DOMAIN list = 1 .. Len(list)
    OBVIOUS
  <2> QED BY <2>1 DEF Table!Lookup
<1>2. Len(list) \in Nat /\ places \in SUBSET Nat
  OBVIOUS
<1>3. ASSUME NEW i \in 1 .. Len(list), list[i].key = k,
             \A j \in 1 .. i - 1 : list[j].key # k
      PROVE  Table!Lookup(list, k) = list[i].value
  <2>1. i \in places /\ \A j \in places : i <= j
    BY <1>2, <1>3
  <2>2. Table!Min(places) \in places /\ Table!Min(places) <= i
    BY <1>2, <2>1, MinIsLeast
  <2>3. Table!Min(places) = i
    BY <2>1, <2>2
  <2> QED BY <1>1, <2>1, <2>3
<1>4. (\A i \in 1 .. Len(list) : list[i].key # k) => places = {}
  OBVIOUS
<1> QED BY <1>1, <1>3, <1>4

\* The first node of a key, if it has one.
LEMMA FirstNode ==
    ASSUME NEW list \in Seq(Nodes), NEW k,
           NEW i \in 1 .. Len(list), list[i].key = k
    PROVE  \E m \in 1 .. Len(list) :
              list[m].key = k /\ \A j \in 1 .. m - 1 : list[j].key # k
<1> DEFINE places == {j \in 1 .. Len(list) : list[j].key = k}
<1>1. Len(list) \in Nat /\ places \in SUBSET Nat /\ places # {}
  OBVIOUS
<1>2. PICK m \in places : \A j \in places : m <= j
  BY <1>1, Least
<1>3. \A j \in 1 .. m - 1 : j \notin places /\ j \in 1 .. Len(list)
  BY <1>1, <1>2
<1> QED BY <1>2, <1>3

\* A node in front answers for its key and for no other.
LEMMA LookupInFront ==
    ASSUME NEW list \in Seq(Nodes), NEW k \in Keys, NEW v \in Data, NEW q \in Keys
    PROVE  /\ <<[key |-> k, value |-> v]>> \o list \in Seq(Nodes)
           /\ Table!Lookup(<<[key |-> k, value |-> v]>> \o list, q) =
                IF q = k THEN v ELSE Table!Lookup(list, q)
<1> DEFINE node == [key |-> k, value |-> v]
           new == <<node>> \o list
<1>1. node \in Nodes /\ node.key = k /\ node.value = v
  BY DEF Nodes
<1> HIDE DEF node
<1>2. /\ new \in Seq(Nodes) /\ Len(new) = Len(list) + 1 /\ Len(list) \in Nat
      /\ new[1] = node /\ \A i \in 1 .. Len(list) : new[i + 1] = list[i]
  BY <1>1
<1> HIDE DEF new
<1>3. CASE q = k
  <2>1. 1 \in 1 .. Len(new) /\ \A j \in 1 .. 0 : new[j].key # k
    BY <1>2
  <2>2. Table!Lookup(new, k) = new[1].value
    BY <1>1, <1>2, <2>1, LookupIsFirst
  <2> QED BY <1>1, <1>2, <1>3, <2>2 DEF node, new
<1>4. CASE q # k
  <2>1. ASSUME \A i \in 1 .. Len(list) : list[i].key # q
        PROVE  Table!Lookup(new, q) = Table!Lookup(list, q)
    <3>1. ASSUME NEW i \in 1 .. Len(new) PROVE new[i].key # q
      <4>1. CASE i = 1
        BY <1>1, <1>2, <1>4, <4>1
      <4>2. CASE i # 1
        <5>1. i - 1 \in 1 .. Len(list) /\ (i - 1) + 1 = i
          BY <1>2, <4>2
        <5> QED BY <1>2, <2>1, <5>1
      <4> QED BY <4>1, <4>2
    <3> QED BY <1>2, <2>1, <3>1, LookupIsFirst
  <2>2. ASSUME NEW m \in 1 .. Len(list), list[m].key = q,
               \A j \in 1 .. m - 1 : list[j].key # q
        PROVE  Table!Lookup(new, q) = Table!Lookup(list, q)
    <3>1. m + 1 \in 1 .. Len(new) /\ new[m + 1] = list[m]
      BY <1>2
    <3>2. ASSUME NEW j \in 1 .. m PROVE new[j].key # q
      <4>1. CASE j = 1
        BY <1>1, <1>2, <1>4, <4>1
      <4>2. CASE j # 1
        <5>1. j - 1 \in 1 .. m - 1 /\ j - 1 \in 1 .. Len(list) /\ (j - 1) + 1 = j
          BY <1>2, <4>2
        <5> QED BY <1>2, <2>2, <5>1
      <4> QED BY <4>1, <4>2
    <3> DEFINE w == m + 1
    <3>3. w \in 1 .. Len(new) /\ w - 1 = m /\ new[w].key = q
      BY <1>2, <2>2, <3>1
    <3> HIDE DEF w
    <3>6. \A j \in 1 .. w - 1 : new[j].key # q
      BY <3>2, <3>3
    <3>7. Table!Lookup(new, q) = new[w].value
      BY <1>2, <3>3, <3>6, LookupIsFirst
    <3>4. Table!Lookup(new, q) = new[m + 1].value
      BY <3>7 DEF w
    <3>5. Table!Lookup(list, q) = list[m].value
      BY <2>2, LookupIsFirst
    <3> QED BY <3>1, <3>4, <3>5
  <2>3. Table!Lookup(new, q) = Table!Lookup(list, q)
    <3>1. CASE \E i \in 1 .. Len(list) : list[i].key = q
      <4>1. PICK p \in 1 .. Len(list) :
                   list[p].key = q /\ \A j \in 1 .. p - 1 : list[j].key # q
        BY <3>1, FirstNode
      <4> QED BY <2>2, <4>1
    <3> QED BY <2>1, <3>1
  <2> QED BY <1>2, <1>4, <2>3 DEF node, new
<1> QED BY <1>3, <1>4

\* A value put into the first node of its key answers for it, and for no other.
LEMMA LookupInPlace ==
    ASSUME NEW list \in Seq(Nodes), NEW k \in Keys, NEW v \in Data, NEW q \in Keys,
           NEW m \in 1 .. Len(list), list[m].key = k,
           \A j \in 1 .. m - 1 : list[j].key # k
    PROVE  /\ [list EXCEPT ![m].value = v] \in Seq(Nodes)
           /\ Table!Lookup([list EXCEPT ![m].value = v], q) =
                IF q = k THEN v ELSE Table!Lookup(list, q)
<1> DEFINE new == [list EXCEPT ![m].value = v]
<1>1. \A i \in 1 .. Len(list) : list[i] \in Nodes
  OBVIOUS
<1>2. /\ DOMAIN new = 1 .. Len(list)
      /\ \A i \in 1 .. Len(list) :
            new[i] = IF i = m THEN [list[m] EXCEPT !.value = v] ELSE list[i]
  OBVIOUS
<1>3. [list[m] EXCEPT !.value = v] = [key |-> k, value |-> v]
  BY <1>1 DEF Nodes
<1>4. \A i \in 1 .. Len(list) : new[i] \in Nodes /\ new[i].key = list[i].key
  BY <1>1, <1>2, <1>3 DEF Nodes
<1>5. new \in Seq(Nodes) /\ Len(new) = Len(list)
  <2>1. new = [i \in 1 .. Len(list) |-> new[i]]
    OBVIOUS
  <2> HIDE DEF new
  <2> QED BY <1>4, <2>1
<1>6. new[m].value = v /\ \A i \in 1 .. Len(list) : i # m => new[i] = list[i]
  BY <1>2, <1>3
<1> HIDE DEF new
<1>7. CASE q = k
  <2>1. \A j \in 1 .. m - 1 : j \in 1 .. Len(list) /\ new[j].key # k
    BY <1>4
  <2>2. new[m].key = k
    BY <1>4
  <2>3. Table!Lookup(new, k) = new[m].value
    BY <1>5, <2>1, <2>2, LookupIsFirst
  <2> QED BY <1>5, <1>6, <1>7, <2>3 DEF new
<1>8. CASE q # k
  <2>1. ASSUME \A i \in 1 .. Len(list) : list[i].key # q
        PROVE  Table!Lookup(new, q) = Table!Lookup(list, q)
    <3>1. Table!Lookup(list, q) = Nothing
      BY <2>1, LookupIsFirst
    <3>2. Table!Lookup(new, q) = Nothing
      BY <1>4, <1>5, <2>1, LookupIsFirst
    <3> QED BY <3>1, <3>2
  <2>2. ASSUME NEW p \in 1 .. Len(list), list[p].key = q,
               \A j \in 1 .. p - 1 : list[j].key # q
        PROVE  Table!Lookup(new, q) = Table!Lookup(list, q)
    <3>1. \A j \in 1 .. p - 1 : j \in 1 .. Len(list) /\ new[j].key # q
      BY <1>4, <2>2
    <3>2. Table!Lookup(new, q) = new[p].value
      BY <1>4, <1>5, <2>2, <3>1, LookupIsFirst
    <3>3. Table!Lookup(list, q) = list[p].value
      BY <2>2, LookupIsFirst
    <3>4. p # m
      BY <1>8, <2>2
    <3> QED BY <1>6, <3>2, <3>3, <3>4
  <2>3. Table!Lookup(new, q) = Table!Lookup(list, q)
    <3>1. CASE \E i \in 1 .. Len(list) : list[i].key = q
      <4>1. PICK p \in 1 .. Len(list) :
                   list[p].key = q /\ \A j \in 1 .. p - 1 : list[j].key # q
        BY <3>1, FirstNode
      <4> QED BY <2>2, <4>1
    <3> QED BY <2>1, <3>1
  <2> QED BY <1>5, <1>8, <2>3 DEF new
<1> QED BY <1>7, <1>8

-----------------------------------------------------------------------------
(*                               The tables                                *)

\* What each table answers is what was put last under the key; for orders,
\* what was put first.
Answers == [key : Keys \cup {Nothing}, value : Data \cup {Nothing}]
TablesInv ==
    /\ found \in [Table!Kinds -> Answers]
    /\ lastPut \in [Table!Kinds -> [Keys -> Data \cup {Nothing}]]
    /\ buckets \in [Bucket -> Seq(Nodes)]
    /\ chain \in Seq(Nodes)
    /\ \A k \in Keys :
          /\ Table!Lookup(buckets[Table!simpleHashStr(k)], k) = lastPut["map"][k]
          /\ Table!Lookup(chain, k) = lastPut["context"][k]
          /\ Table!At(keys, k) = lastPut["keys"][k]
          /\ Table!At(results, k) = lastPut["orders"][k]
          /\ k \in DOMAIN results => results[k] \in Data

\* Each operation, as the dictionary sees it; the other tables stay alone.
Puts(table, k, v) ==
    /\ lastPut' = [lastPut EXCEPT ![table] = [lastPut[table] EXCEPT ![k] = v]]
    /\ found' = [found EXCEPT ![table] = Table!NoAnswer]
Finds(table, k) ==
    /\ found' = [found EXCEPT ![table] = Table!Answer(k, lastPut[table][k])]
    /\ UNCHANGED lastPut
Orders(k, v) ==
    LET first == IF lastPut["orders"][k] = Nothing THEN v ELSE lastPut["orders"][k]
    IN  /\ lastPut' = [lastPut EXCEPT !["orders"] =
                                        [lastPut["orders"] EXCEPT ![k] = first]]
        /\ found' = [found EXCEPT !["orders"] = Table!Answer(k, first)]

\* Answers are answers.
LEMMA AnswersAre ==
    /\ Table!NoAnswer \in Answers
    /\ \A k \in Keys, v \in Data \cup {Nothing} : Table!Answer(k, v) \in Answers
BY DEF Table!NoAnswer, Table!Answer, Answers

\* What a put and a lookup do to the histories.
LEMMA PutsMeans ==
    ASSUME TablesInv, NEW table \in Table!Kinds, NEW k \in Keys, NEW v \in Data,
           Puts(table, k, v)
    PROVE  /\ found' \in [Table!Kinds -> Answers]
           /\ lastPut' \in [Table!Kinds -> [Keys -> Data \cup {Nothing}]]
           /\ \A q \in Keys : lastPut'[table][q] = IF q = k THEN v ELSE lastPut[table][q]
           /\ \A t \in Table!Kinds : t # table => lastPut'[t] = lastPut[t]
BY AnswersAre DEF Puts, TablesInv

LEMMA FindsMeans ==
    ASSUME TablesInv, NEW table \in Table!Kinds, NEW k \in Keys, Finds(table, k)
    PROVE  /\ found' \in [Table!Kinds -> Answers]
           /\ lastPut' = lastPut
<1>1. lastPut[table][k] \in Data \cup {Nothing}
  BY DEF TablesInv
<1>2. Table!Answer(k, lastPut[table][k]) \in Answers
  BY <1>1, AnswersAre
<1> QED BY <1>2 DEF Finds, TablesInv

LEMMA KindsAre == Table!Kinds = {"map", "context", "keys", "orders"}
BY DEF Table!Kinds

-----------------------------------------------------------------------------
\* put: into the first node of the key, or in front.
LEMMA PutStep ==
    ASSUME TablesInv, NEW k \in Keys, NEW v \in Data, Table!put(k, v)
    PROVE  TablesInv' /\ Puts("map", k, v)
<1> DEFINE idx == Table!simpleHashStr(k)
           bucket == buckets[idx]
           places == {i \in DOMAIN bucket : bucket[i].key = k}
<1>1. idx \in Bucket /\ bucket \in Seq(Nodes)
  BY HashIsABucket DEF TablesInv
<1>2. /\ IF places # {}
         THEN buckets' = [buckets EXCEPT ![idx][Table!Min(places)].value = v]
         ELSE buckets' = [buckets EXCEPT ![idx] = <<[key |-> k, value |-> v]>> \o bucket]
      /\ lastPut' = [lastPut EXCEPT !["map"][k] = v]
      /\ found' = [found EXCEPT !["map"] = Table!NoAnswer]
      /\ UNCHANGED <<chain, keys, results>>
  BY DEF Table!put
<1>3. /\ \A b \in Bucket : b # idx => buckets'[b] = buckets[b]
      /\ DOMAIN buckets' = Bucket /\ buckets' = [b \in Bucket |-> buckets'[b]]
      /\ buckets'[idx] \in Seq(Nodes)
      /\ \A q \in Keys : Table!Lookup(buckets'[idx], q) =
                           IF q = k THEN v ELSE Table!Lookup(bucket, q)
  <2>1. CASE places # {}
    <3> DEFINE m == Table!Min(places)
    <3>1. DOMAIN bucket = 1 .. Len(bucket) /\ Len(bucket) \in Nat /\ places \in SUBSET Nat
      BY <1>1
    <3>2. m \in places /\ \A i \in places : m <= i
      BY <2>1, <3>1, MinIsLeast
    <3>3. buckets' = [buckets EXCEPT ![idx] = [bucket EXCEPT ![m].value = v]]
      BY <1>2, <2>1
    <3> HIDE DEF m, idx
    <3>4. /\ m \in 1 .. Len(bucket) /\ bucket[m].key = k
          /\ \A j \in 1 .. m - 1 : bucket[j].key # k
      BY <3>1, <3>2
    <3> HIDE DEF bucket
    <3>5. /\ [bucket EXCEPT ![m].value = v] \in Seq(Nodes)
          /\ \A q \in Keys : Table!Lookup([bucket EXCEPT ![m].value = v], q) =
                               IF q = k THEN v ELSE Table!Lookup(bucket, q)
      BY <1>1, <3>4, LookupInPlace
    <3> QED BY <1>1, <3>3, <3>5 DEF TablesInv
  <2>2. CASE places = {}
    <3> DEFINE new == <<[key |-> k, value |-> v]>> \o bucket
    <3>1. buckets' = [buckets EXCEPT ![idx] = new]
      BY <1>2, <2>2
    <3>2. /\ new \in Seq(Nodes)
          /\ \A q \in Keys : Table!Lookup(new, q) =
                               IF q = k THEN v ELSE Table!Lookup(bucket, q)
      <4> HIDE DEF bucket
      <4> QED BY <1>1, LookupInFront
    <3> HIDE DEF new, idx
    <3> QED BY <1>1, <3>1, <3>2 DEF TablesInv
  <2> QED BY <2>1, <2>2
<1> HIDE DEF places
<1>4. Puts("map", k, v)
  BY <1>2 DEF Puts
<1>5. /\ found' \in [Table!Kinds -> Answers]
      /\ lastPut' \in [Table!Kinds -> [Keys -> Data \cup {Nothing}]]
      /\ \A q \in Keys : lastPut'["map"][q] = IF q = k THEN v ELSE lastPut["map"][q]
      /\ \A t \in Table!Kinds : t # "map" => lastPut'[t] = lastPut[t]
  BY <1>4, PutsMeans, KindsAre
<1>6. buckets' \in [Bucket -> Seq(Nodes)]
  BY <1>3 DEF TablesInv
<1>7. ASSUME NEW q \in Keys
      PROVE  Table!Lookup(buckets'[Table!simpleHashStr(q)], q) = lastPut'["map"][q]
  <2>1. Table!simpleHashStr(q) \in Bucket
    BY HashIsABucket
  <2>2. Table!Lookup(buckets[Table!simpleHashStr(q)], q) = lastPut["map"][q]
    BY DEF TablesInv
  <2> HIDE DEF bucket
  <2>3. CASE Table!simpleHashStr(q) = idx
    BY <1>3, <1>5, <2>2, <2>3 DEF bucket
  <2>4. CASE Table!simpleHashStr(q) # idx
    <3>1. q # k
      BY <2>4
    <3> QED BY <1>3, <1>5, <2>1, <2>2, <2>4, <3>1
  <2> QED BY <2>3, <2>4
<1>8. /\ lastPut'["context"] = lastPut["context"]
      /\ lastPut'["keys"] = lastPut["keys"] /\ lastPut'["orders"] = lastPut["orders"]
  BY <1>5, KindsAre
<1> HIDE DEF idx, bucket
<1>9. TablesInv'
  BY <1>2, <1>5, <1>6, <1>7, <1>8 DEF TablesInv, Table!At
<1> QED BY <1>4, <1>9

\* get, Value and getKey: what is found is what the invariant says.
LEMMA FindStep ==
    ASSUME TablesInv, NEW k \in Keys
    PROVE  /\ Table!get(k) => TablesInv' /\ Finds("map", k)
           /\ Table!Value(k) => TablesInv' /\ Finds("context", k)
           /\ Table!getKey(k) => TablesInv' /\ Finds("keys", k)
<1>1. ASSUME NEW table \in Table!Kinds, Finds(table, k),
             UNCHANGED <<buckets, chain, keys, results>>
      PROVE  TablesInv'
  <2>1. found' \in [Table!Kinds -> Answers] /\ lastPut' = lastPut
    BY <1>1, FindsMeans
  <2> QED BY <1>1, <2>1 DEF TablesInv, Table!At
<1>2. ASSUME Table!get(k) PROVE TablesInv' /\ Finds("map", k)
  <2>1. Finds("map", k) /\ UNCHANGED <<buckets, chain, keys, results>>
    BY <1>2 DEF Table!get, Finds, TablesInv
  <2> QED BY <1>1, <2>1, KindsAre
<1>3. ASSUME Table!Value(k) PROVE TablesInv' /\ Finds("context", k)
  <2>1. Finds("context", k) /\ UNCHANGED <<buckets, chain, keys, results>>
    BY <1>3 DEF Table!Value, Finds, TablesInv
  <2> QED BY <1>1, <2>1, KindsAre
<1>4. ASSUME Table!getKey(k) PROVE TablesInv' /\ Finds("keys", k)
  <2>1. Finds("keys", k) /\ UNCHANGED <<buckets, chain, keys, results>>
    BY <1>4 DEF Table!getKey, Finds, TablesInv
  <2> QED BY <1>1, <2>1, KindsAre
<1> QED BY <1>2, <1>3, <1>4

\* WithValue: the new context answers first.
LEMMA WithValueStep ==
    ASSUME TablesInv, NEW k \in Keys, NEW v \in Data, Table!WithValue(k, v)
    PROVE  TablesInv' /\ Puts("context", k, v)
<1>1. Puts("context", k, v) /\ UNCHANGED <<buckets, keys, results>>
  BY DEF Table!WithValue, Puts
<1>2. chain' = <<[key |-> k, value |-> v]>> \o chain
  BY DEF Table!WithValue
<1>3. /\ found' \in [Table!Kinds -> Answers]
      /\ lastPut' \in [Table!Kinds -> [Keys -> Data \cup {Nothing}]]
      /\ \A q \in Keys :
            lastPut'["context"][q] = IF q = k THEN v ELSE lastPut["context"][q]
      /\ \A t \in Table!Kinds : t # "context" => lastPut'[t] = lastPut[t]
  BY <1>1, PutsMeans, KindsAre
<1>4. /\ chain' \in Seq(Nodes)
      /\ \A q \in Keys :
            Table!Lookup(chain', q) = IF q = k THEN v ELSE Table!Lookup(chain, q)
  BY <1>2, LookupInFront DEF TablesInv
<1>5. /\ lastPut'["map"] = lastPut["map"]
      /\ lastPut'["keys"] = lastPut["keys"] /\ lastPut'["orders"] = lastPut["orders"]
  BY <1>3, KindsAre
<1>6. TablesInv'
  BY <1>1, <1>3, <1>4, <1>5 DEF TablesInv, Table!At
<1> QED BY <1>1, <1>6

\* set: a Go map finds what was put last.
LEMMA SetStep ==
    ASSUME TablesInv, NEW k \in Keys, NEW v \in Data, Table!set(k, v)
    PROVE  TablesInv' /\ Puts("keys", k, v)
<1>1. Puts("keys", k, v) /\ UNCHANGED <<buckets, chain, results>>
  BY DEF Table!set, Puts
<1>2. /\ found' \in [Table!Kinds -> Answers]
      /\ lastPut' \in [Table!Kinds -> [Keys -> Data \cup {Nothing}]]
      /\ \A q \in Keys : lastPut'["keys"][q] = IF q = k THEN v ELSE lastPut["keys"][q]
      /\ \A t \in Table!Kinds : t # "keys" => lastPut'[t] = lastPut[t]
  BY <1>1, PutsMeans, KindsAre
<1>3. \A q \in Keys : Table!At(keys', q) = IF q = k THEN v ELSE Table!At(keys, q)
  BY DEF Table!set, Table!With, Table!At
<1>4. /\ lastPut'["map"] = lastPut["map"]
      /\ lastPut'["context"] = lastPut["context"] /\ lastPut'["orders"] = lastPut["orders"]
  BY <1>2, KindsAre
<1>5. \A q \in Keys : Table!At(results', q) = Table!At(results, q)
  BY <1>1
<1>6. TablesInv'
  BY <1>1, <1>2, <1>3, <1>4, <1>5 DEF TablesInv
<1> QED BY <1>1, <1>6

\* processOrder: who comes with a known key gets its result, and changes nothing.
LEMMA OrderStep ==
    ASSUME TablesInv, NEW k \in Keys, NEW v \in Data, Table!processOrder(k, v)
    PROVE  TablesInv' /\ Orders(k, v)
<1> DEFINE first == IF lastPut["orders"][k] = Nothing THEN v ELSE lastPut["orders"][k]
           result == IF k \in DOMAIN results THEN results[k] ELSE v
<1>1. Table!At(results, k) = lastPut["orders"][k] /\ Nothing \notin Data
      /\ (k \in DOMAIN results => results[k] \in Data)
  BY TablesAssumption DEF TablesInv
<1>2. result = first /\ first \in Data /\ (k \in DOMAIN results => first = results[k])
  <2>1. CASE k \in DOMAIN results
    BY <1>1, <2>1 DEF Table!At
  <2>2. CASE k \notin DOMAIN results
    BY <1>1, <2>2 DEF Table!At
  <2> QED BY <2>1, <2>2
<1>3. /\ results' = IF k \in DOMAIN results THEN results
                    ELSE [x \in DOMAIN results \cup {k} |-> IF x = k THEN result ELSE results[x]]
      /\ found' = [found EXCEPT !["orders"] = Table!Answer(k, result)]
      /\ lastPut' = [lastPut EXCEPT !["orders"] = [lastPut["orders"] EXCEPT ![k] = first]]
      /\ UNCHANGED <<buckets, chain, keys>>
  BY DEF Table!processOrder, Table!With
<1> HIDE DEF first, result
<1>4. Orders(k, v)
  BY <1>2, <1>3 DEF Orders, first
<1>5. "orders" \in Table!Kinds
  BY KindsAre
<1>6. /\ found' \in [Table!Kinds -> Answers]
      /\ lastPut' \in [Table!Kinds -> [Keys -> Data \cup {Nothing}]]
      /\ \A q \in Keys :
            lastPut'["orders"][q] = IF q = k THEN first ELSE lastPut["orders"][q]
      /\ \A t \in Table!Kinds : t # "orders" => lastPut'[t] = lastPut[t]
  <2>1. Table!Answer(k, result) \in Answers
    BY <1>2, AnswersAre
  <2> QED BY <1>2, <1>3, <1>5, <2>1 DEF TablesInv
<1>7. /\ lastPut'["map"] = lastPut["map"]
      /\ lastPut'["context"] = lastPut["context"] /\ lastPut'["keys"] = lastPut["keys"]
  BY <1>6, KindsAre
<1>8. ASSUME NEW q \in Keys
      PROVE  /\ Table!At(results', q) = lastPut'["orders"][q]
             /\ q \in DOMAIN results' => results'[q] \in Data
  <2>1. /\ Table!At(results, q) = lastPut["orders"][q]
        /\ q \in DOMAIN results => results[q] \in Data
    BY DEF TablesInv
  <2>2. CASE q = k
    BY <1>1, <1>2, <1>3, <1>6, <2>2 DEF Table!At
  <2>3. CASE q # k
    BY <1>3, <1>6, <2>1, <2>3 DEF Table!At
  <2> QED BY <2>2, <2>3
<1>9. TablesInv'
  BY <1>3, <1>6, <1>7, <1>8 DEF TablesInv, Table!At
<1> QED BY <1>4, <1>9

-----------------------------------------------------------------------------
(*                       Each table is a dictionary                        *)

\* A step of the dictionary of a table, or one that it does not see.
Steps(table) ==
    \/ \E k \in Keys :
          \/ /\ found'[table] = Table!Answer(k, lastPut[table][k])
             /\ lastPut'[table] = lastPut[table]
          \/ \E v \in Data : /\ lastPut'[table] = [lastPut[table] EXCEPT ![k] = v]
                             /\ found'[table] = Table!NoAnswer
    \/ UNCHANGED <<lastPut[table], found[table]>>
OrderSteps ==
    \/ \E k \in Keys, v \in Data :
          /\ lastPut'["orders"] = [lastPut["orders"] EXCEPT ![k] =
                                     IF lastPut["orders"][k] = Nothing THEN v
                                     ELSE lastPut["orders"][k]]
          /\ found'["orders"] = Table!Answer(k, lastPut'["orders"][k])
    \/ UNCHANGED <<lastPut["orders"], found["orders"]>>
DictionarySteps == Steps("map") /\ Steps("context") /\ Steps("keys") /\ OrderSteps

\* They are the steps of the dictionaries of Tables.
LEMMA StepsAreTheDictionaries ==
    ASSUME DictionarySteps
    PROVE  /\ [Table!Map!Next]_<<lastPut["map"], found["map"]>>
           /\ [Table!Context!Next]_<<lastPut["context"], found["context"]>>
           /\ [Table!Passed!Next]_<<lastPut["keys"], found["keys"]>>
           /\ [\E k \in Keys, v \in Data : Table!Orders!GetOrPut(k, v)]_
                <<lastPut["orders"], found["orders"]>>
<1>1. [Table!Map!Next]_<<lastPut["map"], found["map"]>>
  BY DEF DictionarySteps, Steps, Table!Map!Next, Table!Map!Get, Table!Map!Put,
         Table!Map!NoAnswer, Table!NoAnswer, Table!Answer
<1>2. [Table!Context!Next]_<<lastPut["context"], found["context"]>>
  BY DEF DictionarySteps, Steps, Table!Context!Next, Table!Context!Get, Table!Context!Put,
         Table!Context!NoAnswer, Table!NoAnswer, Table!Answer
<1>3. [Table!Passed!Next]_<<lastPut["keys"], found["keys"]>>
  BY DEF DictionarySteps, Steps, Table!Passed!Next, Table!Passed!Get, Table!Passed!Put,
         Table!Passed!NoAnswer, Table!NoAnswer, Table!Answer
<1>4. [\E k \in Keys, v \in Data : Table!Orders!GetOrPut(k, v)]_
        <<lastPut["orders"], found["orders"]>>
  BY DEF DictionarySteps, OrderSteps, Table!Orders!GetOrPut, Table!Answer
<1> QED BY <1>1, <1>2, <1>3, <1>4

\* Nothing is found in the empty tables.
LEMMA InitTables ==
    ASSUME Init
    PROVE  /\ TablesInv
           /\ Table!Map!Init /\ Table!Context!Init
           /\ Table!Passed!Init /\ Table!Orders!Init
<1>1. Table!Init
  BY DEF Init
<1>2. ASSUME NEW k \in Keys PROVE Table!Lookup(<<>>, k) = Nothing
  <2> DEFINE e == <<>>
  <2>1. e \in Seq(Nodes) /\ Len(e) = 0
    OBVIOUS
  <2> HIDE DEF e
  <2>2. \A i \in 1 .. Len(e) : e[i].key # k
    BY <2>1
  <2>3. Table!Lookup(e, k) = Nothing
    BY <2>1, <2>2, LookupIsFirst
  <2> QED BY <2>3 DEF e
<1>3. \A k \in Keys : Table!Lookup(buckets[Table!simpleHashStr(k)], k) = Nothing
  BY <1>1, <1>2, HashIsABucket DEF Table!Init, Bucket
<1>4. found \in [Table!Kinds -> Answers]
      /\ lastPut \in [Table!Kinds -> [Keys -> Data \cup {Nothing}]]
      /\ buckets \in [Bucket -> Seq(Nodes)] /\ chain \in Seq(Nodes)
  BY <1>1, AnswersAre DEF Table!Init, Bucket
<1>5. \A k \in Keys : /\ Table!Lookup(chain, k) = Nothing
                      /\ Table!At(keys, k) = Nothing /\ Table!At(results, k) = Nothing
                      /\ k \notin DOMAIN results
  <2>1. DOMAIN keys = {} /\ DOMAIN results = {}
    BY <1>1 DEF Table!Init, Table!Nil
  <2> QED BY <1>1, <1>2, <2>1 DEF Table!Init, Table!At
<1>6. \A t \in Table!Kinds : /\ lastPut[t] = [k \in Keys |-> Nothing]
                             /\ found[t] = Table!NoAnswer
  BY <1>1 DEF Table!Init
<1>7. TablesInv
  BY <1>3, <1>4, <1>5, <1>6, KindsAre DEF TablesInv
<1>8. /\ Table!Map!Init /\ Table!Context!Init
      /\ Table!Passed!Init /\ Table!Orders!Init
  BY <1>6, KindsAre
     DEF Table!Map!Init, Table!Context!Init, Table!Passed!Init, Table!Orders!Init,
         Table!Map!NoAnswer, Table!Context!NoAnswer, Table!Passed!NoAnswer,
         Table!Orders!NoAnswer, Table!NoAnswer, Table!Answer
<1> QED BY <1>7, <1>8

\* An operation on one table is a step of its dictionary and of no other.
LEMMA PutsIsAStep ==
    ASSUME TablesInv, NEW table \in {"map", "context", "keys"},
           NEW k \in Keys, NEW v \in Data, Puts(table, k, v)
    PROVE  DictionarySteps
<1>1. \A t \in Table!Kinds : t # table => lastPut'[t] = lastPut[t]
  BY PutsMeans, KindsAre
<1>2. /\ lastPut'[table] = [lastPut[table] EXCEPT ![k] = v]
      /\ found'[table] = Table!NoAnswer
      /\ \A t \in Table!Kinds : t # table => found'[t] = found[t]
  BY KindsAre DEF Puts, TablesInv
<1>3. \A t \in {"map", "context", "keys"} : Steps(t)
  <2> SUFFICES ASSUME NEW t \in {"map", "context", "keys"} PROVE Steps(t)
    OBVIOUS
  <2>1. CASE t = table
    BY <1>2, <2>1 DEF Steps
  <2>2. CASE t # table
    BY <1>1, <1>2, <2>2, KindsAre DEF Steps
  <2> QED BY <2>1, <2>2
<1>4. OrderSteps
  BY <1>1, <1>2, KindsAre DEF OrderSteps
<1> QED BY <1>3, <1>4 DEF DictionarySteps

LEMMA FindsIsAStep ==
    ASSUME TablesInv, NEW table \in {"map", "context", "keys"},
           NEW k \in Keys, Finds(table, k)
    PROVE  DictionarySteps
<1>1. /\ found'[table] = Table!Answer(k, lastPut[table][k]) /\ lastPut' = lastPut
      /\ \A t \in Table!Kinds : t # table => found'[t] = found[t]
  BY KindsAre DEF Finds, TablesInv
<1>2. \A t \in {"map", "context", "keys"} : Steps(t)
  <2> SUFFICES ASSUME NEW t \in {"map", "context", "keys"} PROVE Steps(t)
    OBVIOUS
  <2>1. CASE t = table
    BY <1>1, <2>1 DEF Steps
  <2>2. CASE t # table
    BY <1>1, <2>2, KindsAre DEF Steps
  <2> QED BY <2>1, <2>2
<1>3. OrderSteps
  BY <1>1, KindsAre DEF OrderSteps
<1> QED BY <1>2, <1>3 DEF DictionarySteps

LEMMA OrdersIsAStep ==
    ASSUME TablesInv, NEW k \in Keys, NEW v \in Data, Orders(k, v)
    PROVE  DictionarySteps
<1> DEFINE first == IF lastPut["orders"][k] = Nothing THEN v ELSE lastPut["orders"][k]
<1>1. /\ lastPut' = [lastPut EXCEPT !["orders"] = [lastPut["orders"] EXCEPT ![k] = first]]
      /\ found' = [found EXCEPT !["orders"] = Table!Answer(k, first)]
  BY DEF Orders
<1> HIDE DEF first
<1>2. /\ lastPut'["orders"] = [lastPut["orders"] EXCEPT ![k] = first]
      /\ found'["orders"] = Table!Answer(k, first)
      /\ \A t \in Table!Kinds : t # "orders" => /\ lastPut'[t] = lastPut[t]
                                                /\ found'[t] = found[t]
  BY <1>1, KindsAre DEF TablesInv
<1>3. lastPut'["orders"][k] = first
  BY <1>2, KindsAre DEF TablesInv
<1>4. OrderSteps
  BY <1>2, <1>3 DEF OrderSteps, first
<1>5. Steps("map") /\ Steps("context") /\ Steps("keys")
  BY <1>2, KindsAre DEF Steps
<1> QED BY <1>4, <1>5 DEF DictionarySteps

LEMMA StutterIsAStep ==
    ASSUME TablesInv, UNCHANGED tableVars
    PROVE  TablesInv' /\ DictionarySteps
<1>1. UNCHANGED <<buckets, chain, keys, results, found, lastPut>>
  BY DEF tableVars
<1>2. TablesInv'
  BY <1>1 DEF TablesInv, Table!At
<1>3. DictionarySteps
  BY <1>1 DEF DictionarySteps, Steps, OrderSteps
<1> QED BY <1>2, <1>3

LEMMA TablesStep ==
    ASSUME TablesInv, [Next]_vars
    PROVE  TablesInv' /\ DictionarySteps
<1>1. CASE chainingHashMap
  <2>1. PICK k \in Keys : Table!get(k) \/ \E v \in Data : Table!put(k, v)
    BY <1>1 DEF chainingHashMap, Table!chainingHashMap
  <2>2. CASE Table!get(k)
    BY <2>2, FindStep, FindsIsAStep
  <2>3. CASE \E v \in Data : Table!put(k, v)
    BY <2>3, PutStep, PutsIsAStep
  <2> QED BY <2>1, <2>2, <2>3
<1>2. CASE valueContext
  <2>1. PICK k \in Keys : Table!Value(k) \/ \E v \in Data : Table!WithValue(k, v)
    BY <1>2 DEF valueContext, Table!valueContext
  <2>2. CASE Table!Value(k)
    BY <2>2, FindStep, FindsIsAStep
  <2>3. CASE \E v \in Data : Table!WithValue(k, v)
    BY <2>3, WithValueStep, PutsIsAStep
  <2> QED BY <2>1, <2>2, <2>3
<1>3. CASE dataPassing
  <2>1. PICK k \in Keys : Table!getKey(k) \/ \E v \in Data : Table!set(k, v)
    BY <1>3 DEF dataPassing, Table!dataPassing
  <2>2. CASE Table!getKey(k)
    BY <2>2, FindStep, FindsIsAStep
  <2>3. CASE \E v \in Data : Table!set(k, v)
    BY <2>3, SetStep, PutsIsAStep
  <2> QED BY <2>1, <2>2, <2>3
<1>4. CASE idempotent
  <2>1. PICK k \in Keys, v \in Data : Table!processOrder(k, v)
    BY <1>4 DEF idempotent, Table!idempotent
  <2> QED BY <2>1, OrderStep, OrdersIsAStep
<1>5. CASE trees
  BY <1>5, StutterIsAStep DEF trees
<1>6. CASE bPlusTreeIndex
  BY <1>6, StutterIsAStep DEF bPlusTreeIndex
<1>7. CASE protobufEncoding
  BY <1>7, StutterIsAStep DEF protobufEncoding
<1>8. CASE slicesAndRoutes
  BY <1>8, StutterIsAStep DEF slicesAndRoutes
<1>9. CASE middlewares
  BY <1>9, StutterIsAStep DEF middlewares
<1>10. CASE deferredCalls
  BY <1>10, StutterIsAStep DEF deferredCalls
<1>11. CASE UNCHANGED vars
  BY <1>11, StutterIsAStep DEF vars
<1> QED BY <1>1, <1>2, <1>3, <1>4, <1>5, <1>6, <1>7, <1>8, <1>9, <1>10, <1>11 DEF Next

\* The histories are what the tables hold, in every reachable state.
THEOREM TablesHoldWhatWasPut == Spec => []TablesInv
<1>1. Init => TablesInv
  BY InitTables
<1>2. TablesInv /\ [Next]_vars => TablesInv'
  BY TablesStep
<1> QED BY <1>1, <1>2, PTL DEF Spec

\* The chained hash map, the chain of contexts and the values passed along a
\* request implement the dictionary, and the results of orders one that is
\* written once: for all keys, values and numbers of buckets.
THEOREM TablesAreDictionaries == Spec => LookupsAgree
<1>1. Init => /\ Table!Map!Init /\ Table!Context!Init
              /\ Table!Passed!Init /\ Table!Orders!Init
  BY InitTables
<1>2. TablesInv /\ [Next]_vars =>
        /\ [Table!Map!Next]_<<lastPut["map"], found["map"]>>
        /\ [Table!Context!Next]_<<lastPut["context"], found["context"]>>
        /\ [Table!Passed!Next]_<<lastPut["keys"], found["keys"]>>
        /\ [\E k \in Keys, v \in Data : Table!Orders!GetOrPut(k, v)]_
             <<lastPut["orders"], found["orders"]>>
  BY TablesStep, StepsAreTheDictionaries
<1> QED BY <1>1, <1>2, TablesHoldWhatWasPut, PTL
        DEF Spec, LookupsAgree, Table!Map!Spec, Table!Context!Spec,
            Table!Passed!Spec, Table!Orders!OnceSpec

-----------------------------------------------------------------------------
(*                        The nodes of the hash map                        *)

PutKeys == {k \in Keys : lastPut["map"][k] # Nothing}

\* Each key has one node, in the bucket of its hash, and size counts the keys
\* put; they are finitely many, so it is a number.
NodesInv ==
    /\ \A b \in Bucket : \A i \in 1 .. Len(buckets[b]) :
          /\ buckets[b][i].key \in Keys
          /\ Table!simpleHashStr(buckets[b][i].key) = b
          /\ \A j \in 1 .. Len(buckets[b]) : i # j => buckets[b][i].key # buckets[b][j].key
    /\ IsFiniteSet(PutKeys)
    /\ size = Cardinality(PutKeys)

\* The bucket has a node for the key exactly if something was put under it.
LEMMA NodeIfPut ==
    ASSUME TablesInv, NEW k \in Keys
    PROVE  LET list == buckets[Table!simpleHashStr(k)]
           IN  (\E i \in 1 .. Len(list) : list[i].key = k) <=> k \in PutKeys
<1> DEFINE list == buckets[Table!simpleHashStr(k)]
<1>1. /\ list \in Seq(Nodes) /\ Table!Lookup(list, k) = lastPut["map"][k]
      /\ Nothing \notin Data
  BY HashIsABucket, TablesAssumption DEF TablesInv
<1> HIDE DEF list
<1>2. ASSUME NEW i \in 1 .. Len(list), list[i].key = k PROVE lastPut["map"][k] # Nothing
  <2>1. PICK m \in 1 .. Len(list) :
               list[m].key = k /\ \A j \in 1 .. m - 1 : list[j].key # k
    <3>1. list \in Seq(Nodes)  BY <1>1
    <3> QED BY <3>1, <1>2, FirstNode, SMTT(60)
  <2>2. Table!Lookup(list, k) = list[m].value
    BY <1>1, <2>1, LookupIsFirst
  <2>3. list[m] \in Nodes
    BY <1>1, <2>1
  <2>4. list[m].value \in Data
    BY <2>3 DEF Nodes
  <2> QED BY <1>1, <2>2, <2>4
<1>3. ASSUME \A i \in 1 .. Len(list) : list[i].key # k PROVE lastPut["map"][k] = Nothing
  BY <1>1, <1>3, LookupIsFirst
<1> QED BY <1>2, <1>3 DEF PutKeys, list

\* put keeps the keys of the nodes, or adds one that no node has.
LEMMA NodesPutStep ==
    ASSUME TablesInv, NodesInv, NEW k \in Keys, NEW v \in Data, Table!put(k, v)
    PROVE  NodesInv'
<1> DEFINE idx == Table!simpleHashStr(k)
           bucket == buckets[idx]
           places == {i \in DOMAIN bucket : bucket[i].key = k}
           node == [key |-> k, value |-> v]
<1>1. idx \in Bucket /\ bucket \in Seq(Nodes) /\ DOMAIN buckets = Bucket
  BY HashIsABucket DEF TablesInv
<1>2. IF places # {}
      THEN /\ buckets' = [buckets EXCEPT ![idx][Table!Min(places)].value = v]
           /\ size' = size
      ELSE /\ buckets' = [buckets EXCEPT ![idx] = <<node>> \o bucket]
           /\ size' = size + 1
  BY DEF Table!put
<1>3. PutKeys' = PutKeys \cup {k}
  <2>1. \A q \in Keys : lastPut'["map"][q] = IF q = k THEN v ELSE lastPut["map"][q]
    BY PutStep, PutsMeans, KindsAre
  <2>2. v # Nothing
    BY TablesAssumption
  <2> QED BY <2>1, <2>2 DEF PutKeys
<1>4. places # {} <=> k \in PutKeys
  <2>1. DOMAIN bucket = 1 .. Len(bucket)
    BY <1>1
  <2> QED BY <2>1, NodeIfPut
<1>5. /\ \A i \in 1 .. Len(bucket) :
            /\ bucket[i].key \in Keys /\ Table!simpleHashStr(bucket[i].key) = idx
            /\ \A j \in 1 .. Len(bucket) : i # j => bucket[i].key # bucket[j].key
      /\ IsFiniteSet(PutKeys) /\ size = Cardinality(PutKeys)
  BY <1>1 DEF NodesInv
<1>6. ASSUME NEW new \in Seq(Nodes), buckets' = [buckets EXCEPT ![idx] = new],
             \A i \in 1 .. Len(new) :
               /\ new[i].key \in Keys /\ Table!simpleHashStr(new[i].key) = idx
               /\ \A j \in 1 .. Len(new) : i # j => new[i].key # new[j].key,
             IsFiniteSet(PutKeys'), size' = Cardinality(PutKeys')
      PROVE  NodesInv'
  <2> HIDE DEF idx, bucket
  <2>1. \A b \in Bucket : buckets'[b] = IF b = idx THEN new ELSE buckets[b]
    BY <1>1, <1>6
  <2>2. ASSUME NEW b \in Bucket, NEW i \in 1 .. Len(buckets'[b])
        PROVE  /\ buckets'[b][i].key \in Keys
               /\ Table!simpleHashStr(buckets'[b][i].key) = b
               /\ \A j \in 1 .. Len(buckets'[b]) :
                     i # j => buckets'[b][i].key # buckets'[b][j].key
    <3>1. CASE b = idx
      BY <1>6, <2>1, <3>1
    <3>2. CASE b # idx
      <4>1. buckets'[b] = buckets[b]
        BY <2>1, <3>2
      <4> QED BY <4>1 DEF NodesInv
    <3> QED BY <3>1, <3>2
  <2> QED BY <1>6, <2>2 DEF NodesInv
<1>7. CASE places # {}
  <2> DEFINE m == Table!Min(places)
             new == [bucket EXCEPT ![m].value = v]
  <2>1. DOMAIN bucket = 1 .. Len(bucket) /\ Len(bucket) \in Nat /\ places \in SUBSET Nat
    BY <1>1
  <2>2. m \in places /\ \A i \in places : m <= i
    BY <1>7, <2>1, MinIsLeast
  <2>3. buckets' = [buckets EXCEPT ![idx] = new] /\ size' = size
    BY <1>2, <1>7
  <2>4. /\ m \in 1 .. Len(bucket) /\ bucket[m].key = k
        /\ \A j \in 1 .. m - 1 : bucket[j].key # k
    <3> HIDE DEF m, bucket, idx
    <3> QED BY <2>1, <2>2
  <2> HIDE DEF m
  <2>5. new \in Seq(Nodes)
    <3> HIDE DEF bucket, idx
    <3> QED BY <1>1, <2>4, LookupInPlace
  <2>6. Len(new) = Len(bucket) /\ \A i \in 1 .. Len(bucket) : new[i].key = bucket[i].key
    <3> HIDE DEF bucket, idx, places
    <3>1. bucket[m] \in Nodes
      BY <1>1, <2>4
    <3>2. [bucket[m] EXCEPT !.value = v].key = bucket[m].key
      BY <3>1 DEF Nodes
    <3> QED BY <1>1, <2>4, <3>2
  <2>7. PutKeys' = PutKeys
    BY <1>3, <1>4, <1>7
  <2> HIDE DEF new, places
  <2> QED BY <1>5, <1>6, <2>3, <2>5, <2>6, <2>7
<1>8. CASE places = {}
  <2> DEFINE new == <<node>> \o bucket
  <2>1. buckets' = [buckets EXCEPT ![idx] = new] /\ size' = size + 1
    BY <1>2, <1>8
  <2>2. node \in Nodes /\ node.key = k
    BY DEF Nodes
  <2>3. \A i \in 1 .. Len(bucket) : bucket[i].key # k
    BY <1>1, <1>8
  <2> HIDE DEF places, bucket, node
  <2>4. /\ new \in Seq(Nodes) /\ Len(new) = Len(bucket) + 1 /\ Len(bucket) \in Nat
        /\ new[1] = node /\ \A i \in 1 .. Len(bucket) : new[i + 1] = bucket[i]
    BY <1>1, <2>2
  <2> HIDE DEF new, idx
  <2>5. \A i \in 1 .. Len(new) : i = 1 \/ (i - 1 \in 1 .. Len(bucket) /\ new[i] = bucket[i - 1])
    <3> SUFFICES ASSUME NEW i \in 1 .. Len(new), i # 1
                 PROVE  i - 1 \in 1 .. Len(bucket) /\ new[i] = bucket[i - 1]
      OBVIOUS
    <3>1. i - 1 \in 1 .. Len(bucket) /\ (i - 1) + 1 = i
      BY <2>4
    <3> QED BY <2>4, <3>1
  <2>6. ASSUME NEW i \in 1 .. Len(new)
        PROVE  /\ new[i].key \in Keys /\ Table!simpleHashStr(new[i].key) = idx
               /\ \A j \in 1 .. Len(new) : i # j => new[i].key # new[j].key
    <3>1. CASE i = 1
      <4>1. \A j \in 1 .. Len(new) : i # j => new[j].key # k
        BY <2>3, <2>5, <3>1
      <4> QED BY <2>2, <2>4, <3>1, <4>1 DEF idx
    <3>2. CASE i # 1
      <4>1. i - 1 \in 1 .. Len(bucket) /\ new[i] = bucket[i - 1]
        BY <2>5, <3>2
      <4>2. ASSUME NEW j \in 1 .. Len(new), i # j PROVE new[i].key # new[j].key
        <5>1. CASE j = 1
          BY <2>2, <2>3, <2>4, <4>1, <5>1
        <5>2. CASE j # 1
          <6>1. j - 1 \in 1 .. Len(bucket) /\ new[j] = bucket[j - 1] /\ i - 1 # j - 1
            BY <2>5, <4>2, <5>2
          <6> QED BY <1>5, <4>1, <6>1
        <5> QED BY <5>1, <5>2
      <4> QED BY <1>5, <4>1, <4>2
    <3> QED BY <3>1, <3>2
  <2>7. k \notin PutKeys
    BY <1>4, <1>8
  <2>8. IsFiniteSet(PutKeys') /\ Cardinality(PutKeys') = Cardinality(PutKeys) + 1
    BY <1>3, <1>5, <2>7, FS_AddElement
  <2> QED BY <1>5, <1>6, <2>1, <2>4, <2>6, <2>8
<1> QED BY <1>7, <1>8

\* Nothing else touches the nodes or what was put.
LEMMA NodesStep ==
    ASSUME TablesInv, NodesInv, [Next]_vars
    PROVE  NodesInv'
<1>1. ASSUME UNCHANGED <<buckets, size>>, lastPut'["map"] = lastPut["map"]
      PROVE  NodesInv'
  BY <1>1 DEF NodesInv, PutKeys
<1>2. CASE chainingHashMap
  <2>1. PICK k \in Keys : Table!get(k) \/ \E v \in Data : Table!put(k, v)
    BY <1>2 DEF chainingHashMap, Table!chainingHashMap
  <2>2. CASE Table!get(k)
    BY <1>1, <2>2 DEF Table!get
  <2>3. CASE \E v \in Data : Table!put(k, v)
    BY <2>3, NodesPutStep
  <2> QED BY <2>1, <2>2, <2>3
<1>3. CASE valueContext
  <2>1. PICK k \in Keys : Table!Value(k) \/ \E v \in Data : Table!WithValue(k, v)
    BY <1>3 DEF valueContext, Table!valueContext
  <2>2. lastPut'["map"] = lastPut["map"] /\ UNCHANGED <<buckets, size>>
    BY <2>1, KindsAre DEF Table!Value, Table!WithValue, TablesInv
  <2> QED BY <1>1, <2>2
<1>4. CASE dataPassing
  <2>1. PICK k \in Keys : Table!getKey(k) \/ \E v \in Data : Table!set(k, v)
    BY <1>4 DEF dataPassing, Table!dataPassing
  <2>2. lastPut'["map"] = lastPut["map"] /\ UNCHANGED <<buckets, size>>
    BY <2>1, KindsAre DEF Table!getKey, Table!set, TablesInv
  <2> QED BY <1>1, <2>2
<1>5. CASE idempotent
  <2>1. PICK k \in Keys, v \in Data : Table!processOrder(k, v)
    BY <1>5 DEF idempotent, Table!idempotent
  <2>2. lastPut'["map"] = lastPut["map"] /\ UNCHANGED <<buckets, size>>
    BY <2>1, KindsAre DEF Table!processOrder, TablesInv
  <2> QED BY <1>1, <2>2
<1>6. trees \/ bPlusTreeIndex \/ protobufEncoding \/ slicesAndRoutes \/ middlewares
      \/ deferredCalls \/ UNCHANGED vars
      => UNCHANGED tableVars
  BY DEF trees, bPlusTreeIndex, protobufEncoding, slicesAndRoutes, middlewares,
         deferredCalls, vars
<1> QED BY <1>1, <1>2, <1>3, <1>4, <1>5, <1>6 DEF Next, tableVars

LEMMA InitNodes == Init => NodesInv
<1> SUFFICES ASSUME Init PROVE NodesInv
  OBVIOUS
<1>1. /\ buckets = [b \in Bucket |-> <<>>] /\ size = 0
      /\ lastPut = [table \in Table!Kinds |-> [k \in Keys |-> Nothing]]
  BY DEF Init, Table!Init, Bucket
<1>2. PutKeys = {}
  BY <1>1, KindsAre DEF PutKeys
<1> DEFINE e == <<>>
<1>3. Len(e) = 0 /\ \A b \in Bucket : buckets[b] = e
  BY <1>1
<1> HIDE DEF e
<1>4. \A b \in Bucket : \A i \in 1 .. Len(buckets[b]) : FALSE
  BY <1>3
<1> QED BY <1>1, <1>2, <1>4, FS_EmptySet DEF NodesInv

\* The counts of the hash map and of the proof are the same operator.
LEMMA NodesAreRight == TablesInv /\ NodesInv => Table!NodesAreUnique
<1> SUFFICES ASSUME TablesInv, NodesInv PROVE Table!NodesAreUnique
  OBVIOUS
<1>1. \A S : Table!Cardinality(S) = Cardinality(S)
  BY DEF Cardinality, Table!Cardinality
<1>2. size = Table!Cardinality({k \in Keys : lastPut["map"][k] # Nothing})
  BY <1>1 DEF NodesInv, PutKeys
<1>3. DOMAIN buckets = Bucket /\ \A b \in Bucket : DOMAIN buckets[b] = 1 .. Len(buckets[b])
  BY DEF TablesInv
<1> HIDE DEF TablesInv
<1>4. \A b \in DOMAIN buckets : \A i, j \in DOMAIN buckets[b] :
         /\ Table!simpleHashStr(buckets[b][i].key) = b
         /\ i # j => buckets[b][i].key # buckets[b][j].key
  BY <1>3 DEF NodesInv
<1> QED BY <1>2, <1>4 DEF Table!NodesAreUnique

-----------------------------------------------------------------------------
(*                          Slices over arrays                             *)

Arrays == Seq(Seq(Int))

\* A header whose capacity ends inside of its array.
IsSlice(m, t) ==
    /\ t \in [arr : 1 .. Len(m), off : Nat, len : Nat, cap : Nat]
    /\ t.len <= t.cap /\ t.off + t.cap <= Len(m[t.arr])

Holds(m, t, w) ==
    /\ IsSlice(m, t)
    /\ w \in Seq(Int) /\ Len(w) = t.len
    /\ \A i \in 1 .. t.len : m[t.arr][t.off + i] = w[i]

\* Sequences are equal when their elements are.
LEMMA SameSequence ==
    ASSUME NEW v \in Seq(Int), NEW w \in Seq(Int), Len(v) = Len(w),
           \A i \in 1 .. Len(v) : v[i] = w[i]
    PROVE  v = w
OBVIOUS

\* Parts of a sequence, and a sequence with one element changed.
LEMMA PartIs ==
    ASSUME NEW w \in Seq(Int), NEW i \in Nat, NEW j \in Nat, i <= j, j <= Len(w)
    PROVE  /\ SubSeq(w, i + 1, j) \in Seq(Int) /\ Len(SubSeq(w, i + 1, j)) = j - i
           /\ \A k \in 1 .. j - i : SubSeq(w, i + 1, j)[k] = w[i + k]
<1>1. Len(w) \in Nat /\ i + 1 \in Nat /\ j - i \in Nat
  OBVIOUS
<1>2. SubSeq(w, i + 1, j) \in Seq(Int)
  BY <1>1
<1>3. Len(SubSeq(w, i + 1, j)) = j - i
  BY <1>1
<1>4. ASSUME NEW k \in 1 .. j - i PROVE SubSeq(w, i + 1, j)[k] = w[i + k]
  <2>1. SubSeq(w, i + 1, j)[k] = w[(i + 1) + k - 1] /\ (i + 1) + k - 1 = i + k
    BY <1>1
  <2> QED BY <2>1
<1> QED BY <1>2, <1>3, <1>4

LEMMA ChangedIs ==
    ASSUME NEW w \in Seq(Int), NEW i \in 1 .. Len(w), NEW v \in Int
    PROVE  /\ [w EXCEPT ![i] = v] \in Seq(Int)
           /\ Len([w EXCEPT ![i] = v]) = Len(w)
           /\ \A k \in 1 .. Len(w) : [w EXCEPT ![i] = v][k] = IF k = i THEN v ELSE w[k]
OBVIOUS

LEMMA ContentIs ==
    ASSUME NEW m \in Arrays, NEW t, IsSlice(m, t)
    PROVE  /\ Slices!Content(m, t) \in Seq(Int) /\ Len(Slices!Content(m, t)) = t.len
           /\ \A i \in 1 .. t.len : Slices!Content(m, t)[i] = m[t.arr][t.off + i]
<1> DEFINE array == m[t.arr]
<1>1. array \in Seq(Int) /\ t.off \in Nat /\ t.len \in Nat /\ t.off + t.len <= Len(array)
  BY DEF Arrays, IsSlice
<1>2. Slices!Content(m, t) = SubSeq(array, t.off + 1, t.off + t.len)
  BY DEF Slices!Content
<1> HIDE DEF array
<1> DEFINE a == t.off  b == t.len
<1>3. a \in Nat /\ b \in Nat /\ a + b <= Len(array)
  BY <1>1
<1> HIDE DEF a, b
<1>4. /\ SubSeq(array, a + 1, a + b) \in Seq(Int) /\ Len(SubSeq(array, a + 1, a + b)) = b
      /\ \A i \in 1 .. b : SubSeq(array, a + 1, a + b)[i] = array[a + i]
  <2> DEFINE e == a + b
  <2>1. e \in Nat /\ a <= e /\ e <= Len(array) /\ e - a = b
    BY <1>3
  <2> HIDE DEF e
  <2>2. /\ SubSeq(array, a + 1, e) \in Seq(Int) /\ Len(SubSeq(array, a + 1, e)) = b
        /\ \A i \in 1 .. b : SubSeq(array, a + 1, e)[i] = array[a + i]
    BY <1>1, <1>3, <2>1, PartIs
  <2> QED BY <2>2 DEF e
<1> QED BY <1>2, <1>4 DEF a, b, array

LEMMA HoldsIsContent ==
    ASSUME NEW m \in Arrays, NEW t, NEW w, Holds(m, t, w)
    PROVE  Slices!Content(m, t) = w
BY ContentIs, SameSequence DEF Holds

\* Writing values into an array.
LEMMA WrittenIs ==
    ASSUME NEW array \in Seq(Int), NEW p \in Nat, NEW values \in Seq(Int)
    PROVE  /\ Slices!Written(array, p, values) \in Seq(Int)
           /\ Len(Slices!Written(array, p, values)) = Len(array)
           /\ \A k \in 1 .. Len(array) :
                 Slices!Written(array, p, values)[k] =
                   IF k \in p + 1 .. p + Len(values) THEN values[k - p] ELSE array[k]
<1> DEFINE new == [k \in 1 .. Len(array) |->
                     IF k \in p + 1 .. p + Len(values) THEN values[k - p] ELSE array[k]]
<1>1. Slices!Written(array, p, values) = new
  BY DEF Slices!Written
<1>2. \A k \in 1 .. Len(array) : new[k] \in Int
  OBVIOUS
<1>3. new \in Seq(Int) /\ Len(new) = Len(array)
  BY <1>2
<1> QED BY <1>1, <1>3

\* The flat facts about a slice.
LEMMA SliceFacts ==
    ASSUME NEW m \in Arrays, NEW t, NEW w, Holds(m, t, w)
    PROVE  /\ t.arr \in 1 .. Len(m) /\ m[t.arr] \in Seq(Int)
           /\ t.off \in Nat /\ t.len \in Nat /\ t.cap \in Nat
           /\ t.len <= t.cap /\ t.off + t.cap <= Len(m[t.arr])
           /\ w \in Seq(Int) /\ Len(w) = t.len
           /\ \A k \in 1 .. t.len : m[t.arr][t.off + k] = w[k]
<1>1. /\ t \in [arr : 1 .. Len(m), off : Nat, len : Nat, cap : Nat]
      /\ t.len <= t.cap /\ t.off + t.cap <= Len(m[t.arr])
      /\ w \in Seq(Int) /\ Len(w) = t.len
  BY DEF Holds, IsSlice
<1>2. \A k \in 1 .. t.len : m[t.arr][t.off + k] = w[k]
  BY DEF Holds
<1>3. t.arr \in 1 .. Len(m) /\ t.off \in Nat /\ t.len \in Nat /\ t.cap \in Nat
  BY <1>1
<1>4. m[t.arr] \in Seq(Int)
  <2> DEFINE a == t.arr
  <2>1. a \in 1 .. Len(m)
    BY <1>3
  <2> HIDE DEF a
  <2>2. m \in Seq(Seq(Int))
    BY DEF Arrays
  <2>3. m[a] \in Seq(Int)
    BY <2>1, <2>2
  <2> QED BY <2>3 DEF a
<1> QED BY <1>1, <1>2, <1>3, <1>4

\* Values are written into one of the arrays, at position p + 1.
Stored(m, a, p, values, all) ==
    /\ all \in Arrays /\ Len(all) = Len(m)
    /\ \A b \in 1 .. Len(m) :
          /\ Len(all[b]) = Len(m[b])
          /\ \A k \in 1 .. Len(m[b]) :
                all[b][k] = IF b = a /\ k \in p + 1 .. p + Len(values)
                            THEN values[k - p] ELSE m[b][k]

LEMMA StoreIs ==
    ASSUME NEW m \in Arrays, NEW a \in 1 .. Len(m), NEW p \in Nat,
           NEW values \in Seq(Int)
    PROVE  Stored(m, a, p, values, [m EXCEPT ![a] = Slices!Written(m[a], p, values)])
<1> DEFINE array == m[a]
           new == Slices!Written(array, p, values)
           all == [m EXCEPT ![a] = new]
<1>1. m \in Seq(Seq(Int)) /\ Len(m) \in Nat /\ \A b \in 1 .. Len(m) : m[b] \in Seq(Int)
  BY DEF Arrays
<1>2. /\ new \in Seq(Int) /\ Len(new) = Len(array)
      /\ \A k \in 1 .. Len(array) :
            new[k] = IF k \in p + 1 .. p + Len(values) THEN values[k - p] ELSE array[k]
  <2>1. array \in Seq(Int)
    BY <1>1
  <2> HIDE DEF array
  <2> QED BY <2>1, WrittenIs
<1> HIDE DEF new
<1>3. /\ all \in Seq(Seq(Int)) /\ Len(all) = Len(m)
      /\ all[a] = new /\ \A b \in 1 .. Len(m) : b # a => all[b] = m[b]
  BY <1>1, <1>2
<1> HIDE DEF all
<1>4. ASSUME NEW b \in 1 .. Len(m)
      PROVE  /\ Len(all[b]) = Len(m[b])
             /\ \A k \in 1 .. Len(m[b]) :
                   all[b][k] = IF b = a /\ k \in p + 1 .. p + Len(values)
                               THEN values[k - p] ELSE m[b][k]
  <2>1. CASE b = a
    BY <1>2, <1>3, <2>1
  <2>2. CASE b # a
    BY <1>3, <2>2
  <2> QED BY <2>1, <2>2
<1> QED BY <1>3, <1>4 DEF Stored, Arrays, all, new, array

\* What is not written stays.
LEMMA StoreSpares ==
    ASSUME NEW m \in Arrays, NEW a \in 1 .. Len(m), NEW p \in Nat,
           NEW values \in Seq(Int), NEW all, Stored(m, a, p, values, all),
           NEW t, NEW w, Holds(m, t, w),
           t.arr # a \/ t.off + t.len <= p
    PROVE  Holds(all, t, w)
<1> DEFINE b == t.arr  off == t.off  len == t.len  cap == t.cap
<1>1. /\ b \in 1 .. Len(m) /\ m[b] \in Seq(Int)
      /\ off \in Nat /\ len \in Nat /\ cap \in Nat
      /\ len <= cap /\ off + cap <= Len(m[b])
      /\ w \in Seq(Int) /\ Len(w) = len
      /\ \A k \in 1 .. len : m[b][off + k] = w[k]
  BY SliceFacts
<1>2. t \in [arr : 1 .. Len(m), off : Nat, len : Nat, cap : Nat]
  BY DEF Holds, IsSlice
<1>3. b # a \/ off + len <= p
  OBVIOUS
<1>4. Len(all) = Len(m) /\ Len(all[b]) = Len(m[b])
  BY <1>1 DEF Stored
<1>5. IsSlice(all, t)
  BY <1>1, <1>2, <1>4 DEF IsSlice
<1> HIDE DEF b, off, len, cap
<1>6. ASSUME NEW k \in 1 .. len PROVE all[b][off + k] = w[k]
  <2>1. off + k \in 1 .. Len(m[b]) /\ ~(b = a /\ off + k \in p + 1 .. p + Len(values))
    BY <1>1, <1>3
  <2>2. all[b][off + k] = m[b][off + k]
    BY <1>1, <2>1 DEF Stored
  <2> QED BY <1>1, <2>2
<1> QED BY <1>1, <1>5, <1>6 DEF Holds, b, off, len, cap

\* Of the arrays of m, nothing but l places of array a, from p + 1 on, is written.
Within(m, all, a, p, l) ==
    /\ Len(m) <= Len(all)
    /\ \A b \in 1 .. Len(m) :
          /\ Len(all[b]) = Len(m[b])
          /\ \A k \in 1 .. Len(m[b]) :
                all[b][k] = m[b][k] \/ (b = a /\ k \in p + 1 .. p + l)

LEMMA StoredWithin ==
    ASSUME NEW m \in Arrays, NEW a, NEW p \in Nat, NEW values \in Seq(Int),
           NEW all, Stored(m, a, p, values, all),
           NEW q \in Nat, NEW l \in Nat, q <= p, p + Len(values) <= q + l
    PROVE  Within(m, all, a, q, l)
<1>1. Len(m) \in Nat /\ Len(values) \in Nat
  BY DEF Arrays
<1>2. \A k \in Int : k \in p + 1 .. p + Len(values) => k \in q + 1 .. q + l
  BY <1>1
<1>3. \A b \in 1 .. Len(m) : \A k \in 1 .. Len(m[b]) : k \in Int
  OBVIOUS
<1> QED BY <1>1, <1>2, <1>3 DEF Stored, Within

LEMMA WithinItself ==
    ASSUME NEW m \in Arrays, NEW a, NEW p, NEW l
    PROVE  Within(m, m, a, p, l)
BY DEF Within, Arrays

\* One write after another, within places that grow.
LEMMA WithinBoth ==
    ASSUME NEW m \in Arrays, NEW part \in Arrays, NEW all \in Arrays, NEW a,
           NEW p \in Nat, NEW k \in Nat, NEW l \in Nat, k <= l,
           Within(m, part, a, p, k), Within(part, all, a, p, l)
    PROVE  Within(m, all, a, p, l)
<1>1. Len(m) \in Nat /\ Len(part) \in Nat /\ Len(all) \in Nat
  BY DEF Arrays
<1>2. Len(m) <= Len(part) /\ Len(part) <= Len(all)
  BY DEF Within
<1>3. Len(m) <= Len(all) /\ \A b \in 1 .. Len(m) : b \in 1 .. Len(part)
  BY <1>1, <1>2
<1>4. \A i \in p + 1 .. p + k : i \in p + 1 .. p + l
  OBVIOUS
<1>5. ASSUME NEW b \in 1 .. Len(m)
      PROVE  /\ Len(all[b]) = Len(m[b])
             /\ \A i \in 1 .. Len(m[b]) :
                   all[b][i] = m[b][i] \/ (b = a /\ i \in p + 1 .. p + l)
  <2>1. /\ Len(part[b]) = Len(m[b])
        /\ \A i \in 1 .. Len(m[b]) :
              part[b][i] = m[b][i] \/ (b = a /\ i \in p + 1 .. p + k)
    BY DEF Within
  <2>2. /\ Len(all[b]) = Len(part[b])
        /\ \A i \in 1 .. Len(part[b]) :
              all[b][i] = part[b][i] \/ (b = a /\ i \in p + 1 .. p + l)
    BY <1>3 DEF Within
  <2> QED BY <1>4, <2>1, <2>2
<1> QED BY <1>3, <1>5 DEF Within

\* s[i] = v
LEMMA SetHolds ==
    ASSUME NEW m \in Arrays, NEW t, NEW w, Holds(m, t, w),
           NEW i \in 0 .. t.len - 1, NEW v \in Int
    PROVE  /\ Slices!Set(m, t, i, v) \in Arrays
           /\ Holds(Slices!Set(m, t, i, v), t, [w EXCEPT ![i + 1] = v])
           /\ \A l \in Nat : i < l =>
                 Within(m, Slices!Set(m, t, i, v), t.arr, t.off, l)
<1> DEFINE b == t.arr  off == t.off  len == t.len  cap == t.cap  one == <<v>>
           all == Slices!Set(m, t, i, v)
           x == [w EXCEPT ![i + 1] = v]
<1>1. /\ b \in 1 .. Len(m) /\ m[b] \in Seq(Int)
      /\ off \in Nat /\ len \in Nat /\ cap \in Nat
      /\ len <= cap /\ off + cap <= Len(m[b])
      /\ w \in Seq(Int) /\ Len(w) = len
  BY SliceFacts
<1>0. \A k \in 1 .. len : m[b][off + k] = w[k]
  BY Zenon DEF Holds
<1>2. t \in [arr : 1 .. Len(m), off : Nat, len : Nat, cap : Nat]
  BY Zenon DEF Holds, IsSlice
<1>3. one \in Seq(Int) /\ Len(one) = 1 /\ one[1] = v
  OBVIOUS
<1>4. all = [m EXCEPT ![b] = Slices!Written(m[b], off + i, one)]
  BY DEF Slices!Set
<1>5. i \in 0 .. len - 1
  OBVIOUS
<1> HIDE DEF b, off, len, cap, one, all
<1>6. off + i \in Nat
  BY <1>1, <1>5
<1>7. Stored(m, b, off + i, one, all)
  BY <1>1, <1>3, <1>4, <1>6, StoreIs
<1>8. all \in Arrays /\ Len(all) = Len(m) /\ Len(all[b]) = Len(m[b])
  BY <1>1, <1>7 DEF Stored
<1>9. IsSlice(all, t)
  BY <1>1, <1>2, <1>8 DEF IsSlice, b, off, len, cap
<1>10. i + 1 \in 1 .. Len(w)
  BY <1>1, <1>5
<1>11. /\ x \in Seq(Int) /\ Len(x) = Len(w)
       /\ \A k \in 1 .. Len(w) : x[k] = IF k = i + 1 THEN v ELSE w[k]
  BY <1>1, <1>10, ChangedIs
<1> HIDE DEF x
<1>12. ASSUME NEW k \in 1 .. len PROVE all[b][off + k] = x[k]
  <2> DEFINE q == off + i
  <2>1. off + k \in 1 .. Len(m[b]) /\ q \in Nat /\ k \in 1 .. Len(w)
        /\ (off + k = q + 1 <=> k = i + 1)
    BY <1>1, <1>5
  <2>2. all[b][off + k] = IF off + k \in q + 1 .. q + Len(one)
                          THEN one[(off + k) - q] ELSE m[b][off + k]
    BY <1>1, <1>7, <2>1 DEF Stored
  <2> HIDE DEF q
  <2>3. all[b][off + k] = IF off + k = q + 1 THEN v ELSE m[b][off + k]
    <3>1. CASE off + k = q + 1
      <4>1. off + k \in q + 1 .. q + Len(one) /\ (off + k) - q = 1
        BY <3>1, <1>3, <2>1
      <4> QED BY <2>2, <4>1, <1>3, <3>1
    <3>2. CASE off + k # q + 1
      <4>1. off + k \notin q + 1 .. q + Len(one)
        BY <3>2, <1>1, <1>3, <2>1
      <4> QED BY <2>2, <4>1, <3>2
    <3> QED BY <3>1, <3>2
  <2> QED BY <1>0, <1>11, <2>1, <2>3
<1>13. ASSUME NEW l \in Nat, i < l PROVE Within(m, all, b, off, l)
  <2> DEFINE q == off + i
  <2>1. q \in Nat /\ off <= q /\ q + Len(one) <= off + l
    BY <1>1, <1>3, <1>5, <1>13
  <2>2. Stored(m, b, q, one, all)
    BY <1>7
  <2> HIDE DEF q
  <2> QED BY <1>1, <1>3, <2>1, <2>2, StoredWithin
<1> QED BY <1>1, <1>8, <1>9, <1>11, <1>12, <1>13 DEF Holds, all, b, off, len, x

\* t[i:j:k]
LEMMA ReslicedHolds ==
    ASSUME NEW m \in Arrays, NEW t, NEW w, Holds(m, t, w),
           NEW i \in 0 .. t.len, NEW j \in i .. t.len, NEW c \in j .. t.cap
    PROVE  /\ Holds(m, Slices!Resliced(t, i, j, c), SubSeq(w, i + 1, j))
           /\ Slices!Resliced(t, i, j, c).len = j - i
           /\ Slices!Resliced(t, i, j, c).off = t.off + i
           /\ Slices!Resliced(t, i, j, c).cap = c - i
           /\ Slices!Resliced(t, i, j, c).arr = t.arr
<1> DEFINE b == t.arr  off == t.off  len == t.len  cap == t.cap
           u == Slices!Resliced(t, i, j, c)
           x == SubSeq(w, i + 1, j)
<1>1. /\ b \in 1 .. Len(m) /\ m[b] \in Seq(Int)
      /\ off \in Nat /\ len \in Nat /\ cap \in Nat
      /\ len <= cap /\ off + cap <= Len(m[b])
      /\ w \in Seq(Int) /\ Len(w) = len
  BY SliceFacts
<1>0. \A k \in 1 .. len : m[b][off + k] = w[k]
  BY Zenon DEF Holds
<1>2. i \in 0 .. len /\ j \in i .. len /\ c \in j .. cap
  OBVIOUS
<1>3. u = [arr |-> b, off |-> off + i, len |-> j - i, cap |-> c - i]
  BY DEF Slices!Resliced, Slices!Header
<1> HIDE DEF b, off, len, cap, u
<1>4. off + i \in Nat /\ j - i \in Nat /\ c - i \in Nat /\ j - i <= c - i
      /\ (off + i) + (c - i) <= Len(m[b])
  BY <1>1, <1>2
<1>5. IsSlice(m, u) /\ u.arr = b /\ u.off = off + i /\ u.len = j - i /\ u.cap = c - i
  BY <1>1, <1>3, <1>4 DEF IsSlice
<1>6. /\ x \in Seq(Int) /\ Len(x) = j - i
      /\ \A k \in 1 .. j - i : x[k] = w[i + k]
  <2>1. i \in Nat /\ j \in Nat /\ i <= j /\ j <= Len(w)
    BY <1>1, <1>2
  <2> QED BY <1>1, <2>1, PartIs
<1> HIDE DEF x
<1>7. ASSUME NEW k \in 1 .. j - i PROVE m[b][(off + i) + k] = x[k]
  <2>1. i + k \in 1 .. len /\ off + (i + k) = (off + i) + k
    BY <1>1, <1>2
  <2>2. m[b][off + (i + k)] = w[i + k]
    BY <1>0, <2>1
  <2> QED BY <1>6, <2>1, <2>2
<1> QED BY <1>5, <1>6, <1>7 DEF Holds, u, x, b, off

\* A sequence behind another.
LEMMA JoinIs ==
    ASSUME NEW w \in Seq(Int), NEW v \in Seq(Int)
    PROVE  /\ w \o v \in Seq(Int) /\ Len(w \o v) = Len(w) + Len(v)
           /\ \A k \in 1 .. Len(w) : (w \o v)[k] = w[k]
           /\ \A k \in 1 .. Len(v) : (w \o v)[Len(w) + k] = v[k]
<1>1. w \o v \in Seq(Int) /\ Len(w \o v) = Len(w) + Len(v)
  OBVIOUS
<1>2. ASSUME NEW k \in 1 .. Len(w) PROVE (w \o v)[k] = w[k]
  OBVIOUS
<1>3. ASSUME NEW k \in 1 .. Len(v) PROVE (w \o v)[Len(w) + k] = v[k]
  <2> DEFINE q == Len(w) + k
  <2>1. q \in 1 .. Len(w) + Len(v) /\ q > Len(w) /\ q - Len(w) = k
    OBVIOUS
  <2> HIDE DEF q
  <2>2. (w \o v)[q] = v[q - Len(w)]
    BY <2>1
  <2> QED BY <2>1, <2>2 DEF q
<1> QED BY <1>1, <1>2, <1>3

LEMMA GrownIs ==
    ASSUME NEW c \in Nat, NEW len \in Nat, len > c
    PROVE  Slices!Grown(c, len) \in Nat /\ Slices!Grown(c, len) >= len
<1> DEFINE d == 2 * c  S == {d, len}
<1>1. Slices!Grown(c, len) = CHOOSE x \in S : \A y \in S : x >= y
  BY DEF Slices!Grown, Slices!Max
<1>2. d \in Nat
  OBVIOUS
<1> HIDE DEF d
<1>3. \E x \in S : \A y \in S : x >= y
  <2>1. CASE d >= len
    BY <1>2, <2>1
  <2>2. CASE ~(d >= len)
    <3>1. len >= d
      BY <1>2, <2>2
    <3> QED BY <1>2, <3>1
  <2> QED BY <2>1, <2>2
<1>4. PICK x : x \in S /\ (\A y \in S : x >= y) /\ x = Slices!Grown(c, len)
  <2> HIDE DEF S
  <2> QED BY <1>1, <1>3
<1> QED BY <1>2, <1>4

\* append(t, values...) with room in the slice's own array ...
LEMMA AppendInPlace ==
    ASSUME NEW m \in Arrays, NEW t, NEW w, Holds(m, t, w), NEW values \in Seq(Int),
           t.len + Len(values) <= t.cap,
           NEW r, r = Slices!AppendTo(m, t, values)
    PROVE  /\ r.mem \in Arrays /\ Holds(r.mem, t, w)
           /\ Holds(r.mem, r.slice, w \o values)
           /\ r.slice.len = t.len + Len(values)
           /\ Within(m, r.mem, r.slice.arr, r.slice.off, r.slice.len)
<1> DEFINE b == t.arr  off == t.off  len == t.len  cap == t.cap  more == Len(values)
           u == r.slice  all == r.mem  x == w \o values
<1>1. /\ b \in 1 .. Len(m) /\ m[b] \in Seq(Int)
      /\ off \in Nat /\ len \in Nat /\ cap \in Nat
      /\ len <= cap /\ off + cap <= Len(m[b])
      /\ w \in Seq(Int) /\ Len(w) = len
  BY SliceFacts
<1>2. \A k \in 1 .. len : m[b][off + k] = w[k]
  BY Zenon DEF Holds
<1>3. t \in [arr : 1 .. Len(m), off : Nat, len : Nat, cap : Nat]
  BY DEF Holds, IsSlice
<1>4. more \in Nat /\ len + more <= cap
  OBVIOUS
<1>5. r = [mem |-> [m EXCEPT ![b] = Slices!Written(m[b], off + len, values)],
           slice |-> [t EXCEPT !.len = len + more]]
  BY DEF Slices!AppendTo
<1>6. u = [arr |-> b, off |-> off, len |-> len + more, cap |-> cap]
  <2>1. t = [arr |-> b, off |-> off, len |-> len, cap |-> cap]
    BY <1>3
  <2>2. u = [t EXCEPT !.len = len + more]
    BY <1>5
  <2> HIDE DEF b, off, len, cap, more, u
  <2> QED BY <2>1, <2>2
<1>7. all = [m EXCEPT ![b] = Slices!Written(m[b], off + len, values)]
  BY <1>5
<1> HIDE DEF b, off, len, cap, more, u, all
<1>8. off + len \in Nat
  BY <1>1
<1>9. Stored(m, b, off + len, values, all)
  BY <1>1, <1>7, <1>8, StoreIs
<1>10. all \in Arrays /\ Len(all) = Len(m) /\ Len(all[b]) = Len(m[b])
  BY <1>1, <1>9 DEF Stored
<1>11. Holds(all, t, w)
  BY <1>1, <1>8, <1>9, StoreSpares DEF off, len
<1>12. IsSlice(all, u) /\ u.arr = b /\ u.off = off /\ u.len = len + more
  BY <1>1, <1>4, <1>6, <1>10 DEF IsSlice
<1>13. /\ x \in Seq(Int) /\ Len(x) = Len(w) + more
       /\ \A k \in 1 .. Len(w) : x[k] = w[k]
       /\ \A k \in 1 .. more : x[Len(w) + k] = values[k]
  BY <1>1, JoinIs DEF more
<1> HIDE DEF x
<1>14. ASSUME NEW k \in 1 .. len + more PROVE all[b][off + k] = x[k]
  <2> DEFINE p == off + len
  <2>1. p \in Nat /\ off + k \in 1 .. Len(m[b])
    BY <1>1, <1>4
  <2>2. all[b][off + k] = IF off + k \in p + 1 .. p + more
                          THEN values[(off + k) - p] ELSE m[b][off + k]
    BY <1>1, <1>9, <2>1 DEF Stored, more
  <2>3. CASE k \in 1 .. len
    <3>1. off + k \notin p + 1 .. p + more
      BY <1>1, <1>4, <2>3
    <3> HIDE DEF p
    <3> QED BY <1>1, <1>2, <1>13, <2>2, <2>3, <3>1
  <2>4. CASE k \in len + 1 .. len + more
    <3>1. /\ off + k \in p + 1 .. p + more /\ (off + k) - p = k - len
          /\ k - len \in 1 .. more /\ len + (k - len) = k
      BY <1>1, <1>4, <2>4
    <3> HIDE DEF p
    <3> DEFINE l == k - len
    <3>2. l \in 1 .. more /\ Len(w) + l = k
      BY <1>1, <3>1
    <3> HIDE DEF l
    <3>3. x[k] = values[l]
      BY <1>13, <3>2
    <3> QED BY <2>2, <3>1, <3>3 DEF l
  <2> QED BY <1>1, <1>4, <2>3, <2>4
<1>15. Holds(all, u, x)
  BY <1>1, <1>12, <1>13, <1>14 DEF Holds
<1>16. Within(m, all, b, off, len + more)
  <2> DEFINE p == off + len  l == len + more
  <2>1. p \in Nat /\ l \in Nat /\ off <= p /\ p + more <= off + l
    BY <1>1, <1>4
  <2>2. Stored(m, b, p, values, all)
    BY <1>9
  <2> HIDE DEF p, l
  <2>3. Within(m, all, b, off, l)
    BY <1>1, <2>1, <2>2, StoredWithin DEF more
  <2> QED BY <2>3 DEF l
<1> QED BY <1>10, <1>11, <1>12, <1>15, <1>16 DEF all, u, x, len, more

\* ... and without, into a copy: no array that was there is written.
LEMMA AppendCopies ==
    ASSUME NEW m \in Arrays, NEW t, NEW w, Holds(m, t, w), NEW values \in Seq(Int),
           t.len + Len(values) > t.cap,
           NEW r, r = Slices!AppendTo(m, t, values)
    PROVE  /\ r.mem \in Arrays
           /\ Holds(r.mem, r.slice, w \o values)
           /\ r.slice.len = t.len + Len(values)
           /\ r.slice.cap = Slices!Grown(t.cap, t.len + Len(values))
           /\ r.slice.arr = Len(m) + 1
           /\ \A u, x : Holds(m, u, x) => Holds(r.mem, u, x)
           /\ Within(m, r.mem, r.slice.arr, r.slice.off, r.slice.len)
<1> DEFINE len == t.len + Len(values)  cap == Slices!Grown(t.cap, len)
           x == w \o values  blank == [k \in 1 .. cap |-> 0]
           array == Slices!Written(blank, 0, x)
           all == r.mem  u == r.slice
<1>1. /\ t.len \in Nat /\ t.cap \in Nat /\ w \in Seq(Int) /\ Len(w) = t.len
      /\ Len(values) \in Nat
  BY SliceFacts
<1>2. len \in Nat /\ len > t.cap
  BY <1>1
<1>3. cap \in Nat /\ cap >= len
  <2> HIDE DEF len
  <2> QED BY <1>1, <1>2, GrownIs
<1>4. r = [mem |-> Append(m, array), slice |-> Slices!Header(Len(m) + 1, 0, len, cap)]
  <2>1. Slices!Content(m, t) = w
    BY HoldsIsContent
  <2>2. ~(len <= t.cap)
    BY <1>1, <1>2
  <2>3. r = IF len <= t.cap
            THEN [mem |-> [m EXCEPT ![t.arr] =
                             Slices!Written(m[t.arr], t.off + t.len, values)],
                  slice |-> [t EXCEPT !.len = len]]
            ELSE [mem |-> Append(m, Slices!Written([k \in 1 .. cap |-> Slices!Blank], 0,
                                                   Slices!Content(m, t) \o values)),
                  slice |-> Slices!Header(Len(m) + 1, 0, len, cap)]
    BY DEF Slices!AppendTo
  <2> HIDE DEF len, cap
  <2> QED BY <2>1, <2>2, <2>3 DEF Slices!Blank
<1>5. all = Append(m, array)
  BY <1>4
<1>6. u = [arr |-> Len(m) + 1, off |-> 0, len |-> len, cap |-> cap]
  BY <1>4 DEF Slices!Header
<1>7. /\ x \in Seq(Int) /\ Len(x) = len
  <2>1. x \in Seq(Int) /\ Len(x) = Len(w) + Len(values)
    BY <1>1, JoinIs
  <2> QED BY <1>1, <2>1
<1> HIDE DEF x, len, cap
<1>8. blank \in Seq(Int) /\ Len(blank) = cap
  BY <1>3
<1> HIDE DEF blank
<1>9. /\ array \in Seq(Int) /\ Len(array) = cap
      /\ \A k \in 1 .. cap : array[k] = IF k \in 0 + 1 .. 0 + Len(x) THEN x[k - 0]
                                        ELSE blank[k]
  BY <1>7, <1>8, WrittenIs
<1> HIDE DEF array, all, u
<1>10. m \in Seq(Seq(Int)) /\ Len(m) \in Nat
  BY DEF Arrays
<1>11. /\ all \in Arrays /\ Len(all) = Len(m) + 1 /\ all[Len(m) + 1] = array
       /\ \A b \in 1 .. Len(m) : all[b] = m[b]
  BY <1>5, <1>9, <1>10 DEF Arrays
<1>12. IsSlice(all, u) /\ u.arr = Len(m) + 1 /\ u.off = 0 /\ u.len = len /\ u.cap = cap
  <2>1. Len(m) + 1 \in 1 .. Len(all) /\ 0 + cap <= Len(all[Len(m) + 1])
    BY <1>3, <1>9, <1>10, <1>11
  <2> QED BY <1>2, <1>3, <1>6, <2>1 DEF IsSlice
<1>13. ASSUME NEW k \in 1 .. len PROVE all[Len(m) + 1][0 + k] = x[k]
  <2>1. k \in 1 .. cap /\ k \in 0 + 1 .. 0 + Len(x) /\ 0 + k = k /\ k - 0 = k
    BY <1>2, <1>3, <1>7
  <2> QED BY <1>9, <1>11, <2>1
<1>14. Holds(all, u, x)
  BY <1>7, <1>12, <1>13 DEF Holds
<1>15. ASSUME NEW v, NEW y, Holds(m, v, y) PROVE Holds(all, v, y)
  <2>1. /\ v \in [arr : 1 .. Len(m), off : Nat, len : Nat, cap : Nat]
        /\ v.len <= v.cap /\ v.off + v.cap <= Len(m[v.arr])
        /\ y \in Seq(Int) /\ Len(y) = v.len
        /\ \A i \in 1 .. v.len : m[v.arr][v.off + i] = y[i]
    BY <1>15 DEF Holds, IsSlice
  <2>2. v.arr \in 1 .. Len(m) /\ all[v.arr] = m[v.arr]
    BY <1>11, <2>1
  <2>3. v \in [arr : 1 .. Len(all), off : Nat, len : Nat, cap : Nat]
    BY <1>10, <1>11, <2>1
  <2> QED BY <2>1, <2>2, <2>3 DEF Holds, IsSlice
<1>16. Within(m, all, u.arr, u.off, u.len)
  <2>1. Len(m) <= Len(all)
    BY <1>10, <1>11
  <2> QED BY <1>11, <2>1 DEF Within
<1> QED BY <1>1, <1>11, <1>12, <1>14, <1>15, <1>16 DEF all, u, x, len, cap

\* Either way the result has the values behind the slice's, which keeps its own.
LEMMA AppendHolds ==
    ASSUME NEW m \in Arrays, NEW t, NEW w, Holds(m, t, w), NEW values \in Seq(Int)
    PROVE  LET r == Slices!AppendTo(m, t, values)
           IN  /\ r.mem \in Arrays /\ Holds(r.mem, t, w)
               /\ Holds(r.mem, r.slice, w \o values)
               /\ r.slice.len = t.len + Len(values)
               /\ Within(m, r.mem, r.slice.arr, r.slice.off, r.slice.len)
<1> DEFINE r == Slices!AppendTo(m, t, values)
<1>1. t.len \in Nat /\ t.cap \in Nat /\ Len(values) \in Nat
  BY SliceFacts
<1> HIDE DEF r
<1>2. CASE t.len + Len(values) <= t.cap
  BY <1>2, AppendInPlace DEF r
<1>3. CASE t.len + Len(values) > t.cap
  BY <1>3, AppendCopies DEF r
<1> QED BY <1>1, <1>2, <1>3 DEF r

\* s[:j]
LEMMA ShortenedHolds ==
    ASSUME NEW m \in Arrays, NEW t, NEW w, Holds(m, t, w), NEW j \in 0 .. t.len
    PROVE  Holds(m, [t EXCEPT !.len = j], SubSeq(w, 1, j))
<1>1. /\ t \in [arr : 1 .. Len(m), off : Nat, len : Nat, cap : Nat]
      /\ t.len <= t.cap /\ w \in Seq(Int) /\ Len(w) = t.len
  BY DEF Holds, IsSlice
<1> DEFINE b == t.arr  off == t.off  len == t.len  cap == t.cap
<1>2. /\ t = [arr |-> b, off |-> off, len |-> len, cap |-> cap]
      /\ b \in 1 .. Len(m) /\ off \in Nat /\ len \in Nat /\ cap \in Nat
      /\ len <= cap /\ j \in 0 .. len
  BY <1>1
<1>3. Holds(m, Slices!Resliced(t, 0, j, t.cap), SubSeq(w, 0 + 1, j))
  <2> DEFINE i == 0
  <2>1. i \in 0 .. t.len /\ j \in i .. t.len /\ t.cap \in j .. t.cap
    BY <1>1
  <2> HIDE DEF i
  <2>2. Holds(m, Slices!Resliced(t, i, j, t.cap), SubSeq(w, i + 1, j))
    BY <2>1, ReslicedHolds
  <2> QED BY <2>2 DEF i
<1>4. Slices!Resliced(t, 0, j, t.cap) = [arr |-> b, off |-> off + 0, len |-> j - 0, cap |-> cap - 0]
  BY DEF Slices!Resliced, Slices!Header
<1> HIDE DEF b, off, len, cap
<1>5. off + 0 = off /\ j - 0 = j /\ cap - 0 = cap /\ 0 + 1 = 1
  BY <1>2
<1>6. [t EXCEPT !.len = j] = [arr |-> b, off |-> off, len |-> j, cap |-> cap]
  BY <1>2
<1> QED BY <1>3, <1>4, <1>5, <1>6

LEMMA ShortHeader ==
    ASSUME NEW m \in Arrays, NEW t, NEW w, Holds(m, t, w), NEW j,
           NEW u, u = [t EXCEPT !.len = j]
    PROVE  u.arr = t.arr /\ u.off = t.off /\ u.len = j
<1>1. t \in [arr : 1 .. Len(m), off : Nat, len : Nat, cap : Nat]
  BY DEF Holds, IsSlice
<1> QED BY <1>1

\* Of the slices there are, t comes to have w: what is written is in its places.
Becomes(t, w) ==
    /\ mem' \in Arrays /\ Holds(mem', t, w)
    /\ Within(mem, mem', t.arr, t.off, t.len)

\* An element of what a slice has.
LEMMA AtIs ==
    ASSUME NEW m \in Arrays, NEW w, Holds(m, slice, w), NEW k
    PROVE  Slices!At(m, k) = w[k + 1]
BY HoldsIsContent DEF Slices!At

-----------------------------------------------------------------------------
(*                     The loops of dedup and filter                       *)

EvensBy(f, l) ==
    f = [i \in 0 .. l |-> IF i = 0 THEN [m |-> mem, n |-> 0]
                          ELSE Slices!KeepEven(f[i - 1], i - 1)]

LEMMA EvensByMeans ==
    ASSUME NEW l \in Nat, NEW f, EvensBy(f, l), NEW i \in 0 .. l
    PROVE  f[i] = IF i = 0 THEN [m |-> mem, n |-> 0]
                  ELSE Slices!KeepEven(f[i - 1], i - 1)
<1> DEFINE body(k) == IF k = 0 THEN [m |-> mem, n |-> 0]
                      ELSE Slices!KeepEven(f[k - 1], k - 1)
           g == [k \in 0 .. l |-> body(k)]
<1>1. f = g
  BY DEF EvensBy
<1> HIDE DEF body
<1>2. g[i] = body(i)
  OBVIOUS
<1> HIDE DEF g
<1> QED BY <1>1, <1>2 DEF body

LEMMA EvensExist ==
    ASSUME NEW l \in Nat PROVE \E f : EvensBy(f, l)
<1> DEFINE Good == {q \in Nat : \E f : EvensBy(f, q)}
           body(f, k) == IF k = 0 THEN [m |-> mem, n |-> 0]
                         ELSE Slices!KeepEven(f[k - 1], k - 1)
<1>1. 0 \in Good
  <2> DEFINE g == [i \in 0 .. 0 |-> [m |-> mem, n |-> 0]]
  <2>1. EvensBy(g, 0)
    BY DEF EvensBy
  <2> QED BY <2>1
<1>2. ASSUME NEW q \in Nat, q \in Good PROVE q + 1 \in Good
  <2>1. PICK f : EvensBy(f, q)
    BY <1>2
  <2> DEFINE g == [i \in 0 .. q + 1 |-> IF i = q + 1 THEN Slices!KeepEven(f[q], q) ELSE f[i]]
  <2>2. \A i \in 0 .. q : g[i] = f[i]
    OBVIOUS
  <2>3. g[q + 1] = Slices!KeepEven(f[q], q)
    OBVIOUS
  <2>4. g = [i \in 0 .. q + 1 |-> g[i]]
    OBVIOUS
  <2> HIDE DEF g
  <2>5. ASSUME NEW i \in 0 .. q + 1 PROVE g[i] = body(g, i)
    <3>1. CASE i = q + 1
      <4>1. i # 0 /\ i - 1 = q /\ g[q] = f[q]
        BY <3>1, <2>2
      <4> QED BY <3>1, <4>1, <2>3
    <3>2. CASE i = 0
      <4>1. i \in 0 .. q
        BY <3>2
      <4> QED BY <3>2, <4>1, <2>1, <2>2, EvensByMeans
    <3>3. CASE i \in 1 .. q
      <4>1. i \in 0 .. q /\ i - 1 \in 0 .. q /\ i # 0
        BY <3>3
      <4>2. g[i] = f[i] /\ g[i - 1] = f[i - 1]
        BY <4>1, <2>2
      <4> QED BY <4>1, <4>2, <2>1, EvensByMeans
    <3> QED BY <3>1, <3>2, <3>3
  <2> DEFINE e == [i \in 0 .. q + 1 |-> body(g, i)]
  <2>6. g = e
    <3> HIDE DEF body
    <3> QED BY <2>4, <2>5
  <2>7. EvensBy(g, q + 1)
    BY <2>6 DEF EvensBy
  <2> QED BY <2>7
<1> HIDE DEF Good
<1>3. Nat \subseteq Good
  BY <1>1, <1>2, InductionOnNumbers
<1> QED BY <1>3 DEF Good

LEMMA EvensAre == slice.len \in Nat => EvensBy(Slices!Evens, slice.len)
<1>1. Slices!Evens = CHOOSE f : EvensBy(f, slice.len)
  BY DEF Slices!Evens, EvensBy
<1> SUFFICES ASSUME slice.len \in Nat PROVE EvensBy(Slices!Evens, slice.len)
  OBVIOUS
<1> DEFINE len == slice.len
<1>2. \E f : EvensBy(f, len)
  BY EvensExist
<1> HIDE DEF len
<1>3. EvensBy(CHOOSE f : EvensBy(f, len), len)
  BY <1>2
<1> QED BY <1>1, <1>3 DEF len

\* After i elements: the even ones are in front, and what comes is untouched.
EvenSoFar(i) == KeptUpTo(want, Slices!Even)[i]
EvensSoFar(p, i) ==
    /\ EvenSoFar(i) \in Seq(Int) /\ p.m \in Arrays
    /\ p.n = Len(EvenSoFar(i)) /\ p.n <= i
    /\ Within(mem, p.m, slice.arr, slice.off, p.n)
    /\ \E x : /\ Holds(p.m, slice, x)
              /\ \A k \in 1 .. p.n : x[k] = EvenSoFar(i)[k]
              /\ \A k \in i + 1 .. slice.len : x[k] = want[k]

LEMMA EvensStart ==
    ASSUME mem \in Arrays, Holds(mem, slice, want)
    PROVE  EvensSoFar([m |-> mem, n |-> 0], 0)
<1> DEFINE c == EvenSoFar(0)  e == <<>>  p == [m |-> mem, n |-> 0]
<1>1. want \in Seq(Int) /\ Len(want) = slice.len /\ slice.len \in Nat
  BY SliceFacts
<1>2. c = e
  BY <1>1, KeptSteps DEF EvenSoFar
<1>3. e \in Seq(Int) /\ Len(e) = 0
  OBVIOUS
<1> HIDE DEF c, e
<1>4. c \in Seq(Int) /\ Len(c) = 0
  BY <1>2, <1>3
<1>5. p.m = mem /\ p.n = 0
  OBVIOUS
<1> HIDE DEF p
<1>6. \A k \in 1 .. p.n : want[k] = c[k]
  BY <1>5
<1>7. Within(mem, p.m, slice.arr, slice.off, p.n)
  BY <1>5, WithinItself
<1> QED BY <1>4, <1>5, <1>6, <1>7 DEF EvensSoFar, c, p

LEMMA EvensGoOn ==
    ASSUME mem \in Arrays, Holds(mem, slice, want),
           NEW i \in 0 .. slice.len - 1, NEW p, EvensSoFar(p, i)
    PROVE  EvensSoFar(Slices!KeepEven(p, i), i + 1)
<1> DEFINE c == EvenSoFar(i)  d == EvenSoFar(i + 1)  len == slice.len
           v == want[i + 1]  r == Slices!KeepEven(p, i)
<1>1. want \in Seq(Int) /\ Len(want) = len /\ len \in Nat
  BY SliceFacts
<1>2. i \in Nat /\ i + 1 \in 1 .. Len(want) /\ (i + 1) - 1 = i /\ i + 1 <= len
  BY <1>1
<1>3. v \in Int /\ d = IF v \in Slices!Even THEN Append(c, v) ELSE c
  <2> DEFINE q == i + 1
  <2>1. \A k \in 1 .. Len(want) :
           KeptUpTo(want, Slices!Even)[k] =
             IF want[k] \in Slices!Even
             THEN Append(KeptUpTo(want, Slices!Even)[k - 1], want[k])
             ELSE KeptUpTo(want, Slices!Even)[k - 1]
    BY <1>1, KeptSteps
  <2>2. q \in 1 .. Len(want) /\ q - 1 = i
    BY <1>2
  <2> HIDE DEF q
  <2>3. want[q] \in Int
    BY <1>1, <2>2
  <2> QED BY <2>1, <2>2, <2>3 DEF EvenSoFar, q
<1>4. c \in Seq(Int) /\ p.m \in Arrays /\ p.n = Len(c) /\ p.n <= i
      /\ Within(mem, p.m, slice.arr, slice.off, p.n)
  BY DEF EvensSoFar
<1>5. PICK x : /\ Holds(p.m, slice, x)
               /\ \A k \in 1 .. p.n : x[k] = c[k]
               /\ \A k \in i + 1 .. len : x[k] = want[k]
  BY DEF EvensSoFar
<1>6. x \in Seq(Int) /\ Len(x) = len
  BY <1>4, <1>5, SliceFacts
<1>7. Slices!At(p.m, i) = v
  <2>1. i + 1 \in i + 1 .. len
    BY <1>1, <1>2
  <2>2. Slices!At(p.m, i) = x[i + 1]
    BY <1>4, <1>5, AtIs
  <2> QED BY <1>5, <2>1, <2>2
<1>8. r = IF v \in Slices!Even
          THEN [m |-> Slices!Set(p.m, slice, p.n, v), n |-> p.n + 1] ELSE p
  BY <1>7 DEF Slices!KeepEven
<1> HIDE DEF r, d, c, v
<1>9. CASE v \in Slices!Even
  <2> DEFINE y == [x EXCEPT ![p.n + 1] = v]  l == p.n
  <2>1. r.m = Slices!Set(p.m, slice, p.n, v) /\ r.n = p.n + 1
    BY <1>8, <1>9
  <2>2. l \in Nat /\ l = Len(c) /\ l <= i /\ l \in 0 .. len - 1 /\ l + 1 \in 1 .. Len(x)
    <3>1. l \in Nat /\ l = Len(c) /\ l <= i
      BY <1>4
    <3>2. i \in Nat /\ i <= len - 1 /\ len \in Nat /\ Len(x) = len
      BY <1>1, <1>2, <1>6
    <3> HIDE DEF l, len
    <3> QED BY <3>1, <3>2
  <2>3. r.m \in Arrays /\ Holds(r.m, slice, y)
        /\ Within(p.m, r.m, slice.arr, slice.off, l + 1)
    <3>1. p.m \in Arrays /\ Holds(p.m, slice, x) /\ v \in Int /\ l \in 0 .. slice.len - 1
      BY <1>3, <1>4, <1>5, <2>2
    <3> HIDE DEF l
    <3>2. /\ Slices!Set(p.m, slice, l, v) \in Arrays
          /\ Holds(Slices!Set(p.m, slice, l, v), slice, [x EXCEPT ![l + 1] = v])
          /\ \A j \in Nat : l < j =>
                Within(p.m, Slices!Set(p.m, slice, l, v), slice.arr, slice.off, j)
      BY <3>1, SetHolds
    <3>3. l + 1 \in Nat /\ l < l + 1
      BY <2>2
    <3> QED BY <2>1, <3>2, <3>3 DEF l
  <2>4. \A k \in 1 .. Len(x) : y[k] = IF k = l + 1 THEN v ELSE x[k]
    BY <1>3, <1>6, <2>2, ChangedIs
  <2>5. d = Append(c, v)
    BY <1>3, <1>9
  <2>6. /\ d \in Seq(Int) /\ Len(d) = l + 1 /\ d[l + 1] = v
        /\ \A k \in 1 .. l : d[k] = c[k]
    BY <1>3, <1>4, <2>2, <2>5
  <2>7. r.n = l + 1
    BY <2>1
  <2>8. \A k \in 1 .. l : x[k] = c[k]
    BY <1>5
  <2>9. \A k \in i + 1 .. len : x[k] = want[k]
    BY <1>5
  <2> HIDE DEF y, l, len
  <2>10. ASSUME NEW k \in 1 .. r.n PROVE y[k] = d[k]
    <3>1. k = l + 1 \/ k \in 1 .. l
      BY <2>2, <2>7
    <3>2. k \in 1 .. Len(x) /\ (k \in 1 .. l => k # l + 1)
      BY <2>2, <2>7, <3>1
    <3> QED BY <2>4, <2>6, <2>8, <3>1, <3>2
  <2>11. ASSUME NEW k \in (i + 1) + 1 .. len PROVE y[k] = want[k]
    <3>1. k \in i + 1 .. len /\ k \in 1 .. Len(x) /\ k # l + 1
      BY <1>1, <1>2, <1>6, <2>2
    <3> QED BY <2>4, <2>9, <3>1
  <2>12. r.n = Len(d) /\ r.n <= i + 1
    BY <1>2, <2>2, <2>6, <2>7
  <2>13. Within(mem, r.m, slice.arr, slice.off, r.n)
    <3>1. l \in Nat /\ l + 1 \in Nat /\ l <= l + 1 /\ slice.off \in Nat
      BY <2>2, SliceFacts
    <3>2. Within(mem, p.m, slice.arr, slice.off, l)
      BY <1>4 DEF l
    <3> QED BY <1>4, <2>3, <2>7, <3>1, <3>2, WithinBoth
  <2> QED BY <2>3, <2>6, <2>10, <2>11, <2>12, <2>13 DEF EvensSoFar, d, r, len
<1>10. CASE v \notin Slices!Even
  <2>1. r = p /\ d = c
    BY <1>3, <1>8, <1>10
  <2>2. p.n <= i + 1 /\ \A k \in (i + 1) + 1 .. len : k \in i + 1 .. len
    BY <1>1, <1>2, <1>4
  <2>3. \A k \in (i + 1) + 1 .. len : x[k] = want[k]
    BY <1>5, <2>2
  <2> HIDE DEF len
  <2> QED BY <1>4, <1>5, <2>1, <2>2, <2>3 DEF EvensSoFar, d, r, c, len
<1> QED BY <1>9, <1>10 DEF r

LEMMA FilterHolds ==
    ASSUME mem \in Arrays, Holds(mem, slice, want), Slices!filter
    PROVE  Becomes(slice', want')
<1> DEFINE f == Slices!Evens  len == slice.len  all == f[len]
<1>1. want \in Seq(Int) /\ Len(want) = len /\ len \in Nat
  BY SliceFacts
<1>2. EvensBy(f, len)
  BY <1>1, EvensAre
<1>3. mem' = all.m /\ slice' = [slice EXCEPT !.len = all.n]
      /\ want' = Slices!Kept(want, Slices!Even)
  BY DEF Slices!filter
<1>4. want' = EvenSoFar(len)
  BY <1>1, <1>3 DEF Slices!Kept, Slices!KeptUpTo, KeptUpTo, EvenSoFar
<1> HIDE DEF f
<1> DEFINE Good == {i \in Nat : i <= len => EvensSoFar(f[i], i)}
<1>5. 0 \in Good
  <2>1. f[0] = [m |-> mem, n |-> 0]
    BY <1>1, <1>2, EvensByMeans
  <2> QED BY <2>1, EvensStart
<1>6. ASSUME NEW i \in Nat, i \in Good PROVE i + 1 \in Good
  <2> SUFFICES ASSUME i + 1 <= len PROVE EvensSoFar(f[i + 1], i + 1)
    OBVIOUS
  <2>1. /\ i <= len /\ i \in 0 .. slice.len - 1
        /\ i + 1 \in 0 .. len /\ i + 1 # 0 /\ (i + 1) - 1 = i
    BY <1>1
  <2>2. EvensSoFar(f[i], i)
    BY <1>6, <2>1
  <2>3. EvensSoFar(Slices!KeepEven(f[i], i), i + 1)
    BY <2>1, <2>2, EvensGoOn
  <2>4. f[i + 1] = Slices!KeepEven(f[i], i)
    BY <1>1, <1>2, <2>1, EvensByMeans
  <2> QED BY <2>3, <2>4
<1> HIDE DEF Good
<1>7. len \in Good
  BY <1>1, <1>5, <1>6, InductionOnNumbers
<1>8. EvensSoFar(all, len)
  BY <1>1, <1>7 DEF Good
<1> HIDE DEF all
<1> DEFINE c == EvenSoFar(len)
<1>9. c \in Seq(Int) /\ all.m \in Arrays /\ all.n = Len(c) /\ all.n <= len
      /\ Within(mem, all.m, slice.arr, slice.off, all.n)
  BY <1>8 DEF EvensSoFar
<1>10. PICK x : /\ Holds(all.m, slice, x)
                /\ \A k \in 1 .. all.n : x[k] = c[k]
  BY <1>8 DEF EvensSoFar
<1> HIDE DEF c
<1>11. x \in Seq(Int) /\ Len(x) = len
  BY <1>9, <1>10, SliceFacts
<1>12. all.n \in 0 .. len
  BY <1>1, <1>9
<1>13. Holds(all.m, [slice EXCEPT !.len = all.n], SubSeq(x, 1, all.n))
  BY <1>9, <1>10, <1>12, ShortenedHolds
<1>14. SubSeq(x, 1, all.n) = c
  <2> DEFINE l == all.n
  <2>1. l \in Nat /\ l <= Len(x) /\ Len(c) = l
    BY <1>9, <1>11, <1>12
  <2>2. \A k \in 1 .. l : x[k] = c[k]
    BY <1>10
  <2> HIDE DEF l
  <2>3. /\ SubSeq(x, 1, l) \in Seq(Int) /\ Len(SubSeq(x, 1, l)) = l
        /\ \A k \in 1 .. l : SubSeq(x, 1, l)[k] = x[k]
    BY <1>11, <2>1
  <2> QED BY <1>9, <2>1, <2>2, <2>3, SameSequence DEF l
<1>15. slice'.arr = slice.arr /\ slice'.off = slice.off /\ slice'.len = all.n
  BY <1>3, <1>9, ShortHeader
<1> QED BY <1>3, <1>4, <1>9, <1>13, <1>14, <1>15 DEF c, Becomes

OthersBy(f, l) ==
    f = [i \in 0 .. l |-> IF i = 0 THEN [m |-> mem, j |-> 0]
                          ELSE Slices!KeepOther(f[i - 1], i)]

LEMMA OthersByMeans ==
    ASSUME NEW l \in Nat, NEW f, OthersBy(f, l), NEW i \in 0 .. l
    PROVE  f[i] = IF i = 0 THEN [m |-> mem, j |-> 0]
                  ELSE Slices!KeepOther(f[i - 1], i)
<1> DEFINE body(k) == IF k = 0 THEN [m |-> mem, j |-> 0]
                      ELSE Slices!KeepOther(f[k - 1], k)
           g == [k \in 0 .. l |-> body(k)]
<1>1. f = g
  BY DEF OthersBy
<1> HIDE DEF body
<1>2. g[i] = body(i)
  OBVIOUS
<1> HIDE DEF g
<1> QED BY <1>1, <1>2 DEF body

LEMMA OthersExist ==
    ASSUME NEW l \in Nat PROVE \E f : OthersBy(f, l)
<1> DEFINE Good == {q \in Nat : \E f : OthersBy(f, q)}
           body(f, k) == IF k = 0 THEN [m |-> mem, j |-> 0]
                         ELSE Slices!KeepOther(f[k - 1], k)
<1>1. 0 \in Good
  <2> DEFINE g == [i \in 0 .. 0 |-> [m |-> mem, j |-> 0]]
  <2>1. OthersBy(g, 0)
    BY DEF OthersBy
  <2> QED BY <2>1
<1>2. ASSUME NEW q \in Nat, q \in Good PROVE q + 1 \in Good
  <2>1. PICK f : OthersBy(f, q)
    BY <1>2
  <2> DEFINE g == [i \in 0 .. q + 1 |-> IF i = q + 1 THEN Slices!KeepOther(f[q], q + 1) ELSE f[i]]
  <2>2. \A i \in 0 .. q : g[i] = f[i]
    OBVIOUS
  <2>3. g[q + 1] = Slices!KeepOther(f[q], q + 1)
    OBVIOUS
  <2>4. g = [i \in 0 .. q + 1 |-> g[i]]
    OBVIOUS
  <2> HIDE DEF g
  <2>5. ASSUME NEW i \in 0 .. q + 1 PROVE g[i] = body(g, i)
    <3>1. CASE i = q + 1
      <4>1. i # 0 /\ i - 1 = q /\ g[q] = f[q]
        BY <3>1, <2>2
      <4> QED BY <3>1, <4>1, <2>3
    <3>2. CASE i = 0
      <4>1. i \in 0 .. q
        BY <3>2
      <4> QED BY <3>2, <4>1, <2>1, <2>2, OthersByMeans
    <3>3. CASE i \in 1 .. q
      <4>1. i \in 0 .. q /\ i - 1 \in 0 .. q /\ i # 0
        BY <3>3
      <4>2. g[i] = f[i] /\ g[i - 1] = f[i - 1]
        BY <4>1, <2>2
      <4> QED BY <4>1, <4>2, <2>1, OthersByMeans
    <3> QED BY <3>1, <3>2, <3>3
  <2> DEFINE e == [i \in 0 .. q + 1 |-> body(g, i)]
  <2>6. g = e
    <3> HIDE DEF body
    <3> QED BY <2>4, <2>5
  <2>7. OthersBy(g, q + 1)
    BY <2>6 DEF OthersBy
  <2> QED BY <2>7
<1> HIDE DEF Good
<1>3. Nat \subseteq Good
  BY <1>1, <1>2, InductionOnNumbers
<1> QED BY <1>3 DEF Good

LEMMA OthersAre == slice.len - 1 \in Nat => OthersBy(Slices!Others, slice.len - 1)
<1>1. Slices!Others = CHOOSE f : OthersBy(f, slice.len - 1)
  BY DEF Slices!Others, OthersBy
<1> SUFFICES ASSUME slice.len - 1 \in Nat PROVE OthersBy(Slices!Others, slice.len - 1)
  OBVIOUS
<1> DEFINE len == slice.len - 1
<1>2. \E f : OthersBy(f, len)
  BY OthersExist
<1> HIDE DEF len
<1>3. OthersBy(CHOOSE f : OthersBy(f, len), len)
  BY <1>2
<1> QED BY <1>1, <1>3 DEF len


\* After i elements more: the first of each run is in front, and what comes is
\* untouched.
Positions == [k \in DOMAIN want |-> k]
Fresh == {k \in DOMAIN want : k = 1 \/ want[k] # want[k - 1]}
FirstPlaces(i) == KeptUpTo(Positions, Fresh)[i + 1]

OthersSoFar(p, i) ==
    /\ FirstPlaces(i) \in Seq(1 .. Len(want)) /\ p.m \in Arrays
    /\ p.j \in Nat /\ p.j + 1 = Len(FirstPlaces(i)) /\ p.j <= i
    /\ Within(mem, p.m, slice.arr, slice.off, p.j + 1)
    /\ \E x : /\ Holds(p.m, slice, x)
              /\ \A k \in 1 .. p.j + 1 : x[k] = want[FirstPlaces(i)[k]]
              /\ x[p.j + 1] = want[i + 1]
              /\ \A k \in i + 2 .. slice.len : x[k] = want[k]

LEMMA FirstPlacesAre ==
    ASSUME want \in Seq(Int), Len(want) > 0
    PROVE  /\ FirstPlaces(0) = <<1>>
           /\ \A i \in 1 .. Len(want) - 1 :
                 FirstPlaces(i) = IF want[i + 1] # want[i]
                                  THEN Append(FirstPlaces(i - 1), i + 1)
                                  ELSE FirstPlaces(i - 1)
<1> DEFINE len == Len(want)  K0 == KeptUpTo(Positions, Fresh)
<1>1. len \in Nat /\ DOMAIN want = 1 .. len
  OBVIOUS
<1>2. Positions \in Seq(Nat) /\ Len(Positions) = len /\ \A k \in 1 .. len : Positions[k] = k
  BY <1>1 DEF Positions
<1>3. /\ K0[0] = <<>>
      /\ \A k \in 1 .. len : K0[k] = IF k \in Fresh THEN Append(K0[k - 1], k) ELSE K0[k - 1]
  <2>1. /\ K0[0] = <<>>
        /\ \A k \in 1 .. Len(Positions) :
              K0[k] = IF Positions[k] \in Fresh THEN Append(K0[k - 1], Positions[k])
                      ELSE K0[k - 1]
    BY <1>2, KeptSteps
  <2> QED BY <1>2, <2>1
<1>4. \A k \in 1 .. len : k \in Fresh <=> (k = 1 \/ want[k] # want[k - 1])
  BY <1>1 DEF Fresh
<1> HIDE DEF len, K0
<1>5. FirstPlaces(0) = <<1>>
  <2>1. 1 \in 1 .. len /\ 1 - 1 = 0 /\ 0 + 1 = 1
    BY <1>1 DEF len
  <2>2. K0[1] = Append(<<>>, 1)
    BY <1>3, <1>4, <2>1
  <2> QED BY <2>1, <2>2 DEF FirstPlaces, K0
<1>6. ASSUME NEW i \in 1 .. len - 1
      PROVE  FirstPlaces(i) = IF want[i + 1] # want[i]
                              THEN Append(FirstPlaces(i - 1), i + 1)
                              ELSE FirstPlaces(i - 1)
  <2> DEFINE q == i + 1
  <2>1. q \in 1 .. len /\ q # 1 /\ q - 1 = i /\ (i - 1) + 1 = i
    BY <1>1
  <2> HIDE DEF q
  <2>2. K0[q] = IF want[q] # want[i] THEN Append(K0[i], q) ELSE K0[i]
    BY <1>3, <1>4, <2>1
  <2> QED BY <2>1, <2>2 DEF FirstPlaces, K0, q
<1> QED BY <1>5, <1>6 DEF len

LEMMA OthersStart ==
    ASSUME mem \in Arrays, Holds(mem, slice, want), slice.len > 0
    PROVE  OthersSoFar([m |-> mem, j |-> 0], 0)
<1> DEFINE p == [m |-> mem, j |-> 0]  c == FirstPlaces(0)
<1>1. want \in Seq(Int) /\ Len(want) = slice.len /\ slice.len \in Nat
  BY SliceFacts
<1>2. c = <<1>>
  BY <1>1, FirstPlacesAre
<1>3. c \in Seq(1 .. Len(want)) /\ Len(c) = 1 /\ c[1] = 1
  <2> DEFINE T == 1 .. Len(want)  e == <<1>>
  <2>1. 1 \in T
    BY <1>1
  <2> HIDE DEF T
  <2>2. e \in Seq(T) /\ Len(e) = 1 /\ e[1] = 1
    BY <2>1
  <2> HIDE DEF c, e
  <2> QED BY <1>2, <2>2 DEF T, e
<1>4. p.m = mem /\ p.j = 0
  OBVIOUS
<1> HIDE DEF c, p
<1>5. /\ \A k \in 1 .. p.j + 1 : want[k] = want[c[k]]
      /\ want[p.j + 1] = want[0 + 1]
  BY <1>3, <1>4
<1>6. Within(mem, p.m, slice.arr, slice.off, p.j + 1)
  BY <1>4, WithinItself
<1> QED BY <1>3, <1>4, <1>5, <1>6 DEF OthersSoFar, c, p

LEMMA OthersGoOn ==
    ASSUME mem \in Arrays, Holds(mem, slice, want),
           NEW i \in 1 .. slice.len - 1, NEW p, OthersSoFar(p, i - 1)
    PROVE  OthersSoFar(Slices!KeepOther(p, i), i)
<1> DEFINE c == FirstPlaces(i - 1)  d == FirstPlaces(i)  len == slice.len
           v == want[i + 1]  r == Slices!KeepOther(p, i)
<1>1. want \in Seq(Int) /\ Len(want) = len /\ len \in Nat
  BY SliceFacts
<1>2. /\ i \in Nat /\ i \in 1 .. len - 1 /\ i + 1 \in 1 .. len /\ i + 1 <= len /\ len > 0
      /\ (i - 1) + 1 = i /\ (i - 1) + 2 = i + 1
  BY <1>1
<1>3. v \in Int /\ d = IF v # want[i] THEN Append(c, i + 1) ELSE c
  <2>1. v \in Int
    <3> DEFINE q == i + 1
    <3>1. q \in 1 .. Len(want)
      BY <1>1, <1>2
    <3> HIDE DEF q
    <3>2. want[q] \in Int
      BY <1>1, <3>1
    <3> QED BY <3>2 DEF q
  <2> QED BY <1>1, <1>2, <2>1, FirstPlacesAre
<1>4. /\ c \in Seq(1 .. Len(want)) /\ p.m \in Arrays
      /\ p.j \in Nat /\ p.j + 1 = Len(c) /\ p.j <= i - 1
      /\ Within(mem, p.m, slice.arr, slice.off, p.j + 1)
  BY DEF OthersSoFar
<1>5. PICK x : /\ Holds(p.m, slice, x)
               /\ \A k \in 1 .. p.j + 1 : x[k] = want[c[k]]
               /\ x[p.j + 1] = want[i]
               /\ \A k \in i + 1 .. len : x[k] = want[k]
  BY <1>2 DEF OthersSoFar
<1>6. x \in Seq(Int) /\ Len(x) = len
  BY <1>4, <1>5, SliceFacts
<1>7. Slices!At(p.m, i) = v /\ Slices!At(p.m, p.j) = want[i]
  <2>1. i + 1 \in i + 1 .. len
    BY <1>1, <1>2
  <2>2. Slices!At(p.m, i) = x[i + 1] /\ Slices!At(p.m, p.j) = x[p.j + 1]
    BY <1>4, <1>5, AtIs
  <2> QED BY <1>5, <2>1, <2>2
<1>8. r = IF want[i] = v THEN p
          ELSE [m |-> Slices!Set(p.m, slice, p.j + 1, v), j |-> p.j + 1]
  BY <1>7 DEF Slices!KeepOther
<1> HIDE DEF r, d, c, v
<1>9. CASE want[i] # v
  <2> DEFINE l == p.j + 1  y == [x EXCEPT ![l + 1] = v]
  <2>1. r.m = Slices!Set(p.m, slice, l, v) /\ r.j = l
    BY <1>8, <1>9
  <2>2. l \in Nat /\ l = Len(c) /\ l <= i /\ l \in 0 .. len - 1 /\ l + 1 \in 1 .. Len(x)
    <3>1. l \in Nat /\ l = Len(c) /\ l <= i
      BY <1>2, <1>4
    <3>2. i \in Nat /\ i <= len - 1 /\ len \in Nat /\ Len(x) = len
      BY <1>1, <1>2, <1>6
    <3> HIDE DEF l, len
    <3> QED BY <3>1, <3>2
  <2>3. d = Append(c, i + 1)
    BY <1>3, <1>9
  <2>4. /\ \A k \in 1 .. l : x[k] = want[c[k]]
        /\ \A k \in i + 1 .. len : x[k] = want[k]
    BY <1>5
  <2>5. p.m \in Arrays /\ Holds(p.m, slice, x) /\ l \in 0 .. slice.len - 1
    BY <1>4, <1>5, <2>2
  <2>0. l = p.j + 1
    OBVIOUS
  <2> HIDE DEF l
  <2>6. r.m \in Arrays /\ Holds(r.m, slice, y)
        /\ Within(p.m, r.m, slice.arr, slice.off, l + 1)
    <3> HIDE DEF y, r
    <3>2. l + 1 \in Nat /\ l < l + 1
      BY <2>2
    <3>1. /\ Slices!Set(p.m, slice, l, v) \in Arrays
          /\ Holds(Slices!Set(p.m, slice, l, v), slice, [x EXCEPT ![l + 1] = v])
          /\ \A j \in Nat : l < j =>
                Within(p.m, Slices!Set(p.m, slice, l, v), slice.arr, slice.off, j)
      <4>1. v \in Int
        BY <1>3
      <4> QED BY <2>5, <4>1, SetHolds
    <3> QED BY <2>1, <3>1, <3>2 DEF y
  <2>7. \A k \in 1 .. Len(x) : y[k] = IF k = l + 1 THEN v ELSE x[k]
    <3>1. x \in Seq(Int) /\ l + 1 \in 1 .. Len(x) /\ v \in Int
      BY <1>3, <1>6, <2>2
    <3> HIDE DEF v
    <3> QED BY <3>1, ChangedIs
  <2>8. /\ d \in Seq(1 .. Len(want)) /\ Len(d) = l + 1 /\ d[l + 1] = i + 1
        /\ \A k \in 1 .. l : d[k] = c[k]
    BY <1>1, <1>2, <1>4, <2>2, <2>3
  <2> HIDE DEF y, len
  <2>9. y[l + 1] = v /\ v = want[i + 1]
    BY <2>2, <2>7 DEF v
  <2>10. ASSUME NEW k \in 1 .. r.j + 1 PROVE y[k] = want[d[k]]
    <3>1. k = l + 1 \/ k \in 1 .. l
      BY <2>1, <2>2
    <3>2. k \in 1 .. Len(x) /\ (k \in 1 .. l => k # l + 1)
      BY <2>1, <2>2, <3>1
    <3>3. CASE k = l + 1
      BY <3>3, <2>8, <2>9
    <3>4. CASE k \in 1 .. l
      <4>1. y[k] = x[k] /\ d[k] = c[k]
        BY <2>7, <2>8, <3>2, <3>4
      <4> QED BY <2>4, <3>4, <4>1
    <3> QED BY <3>1, <3>3, <3>4
  <2>11. ASSUME NEW k \in i + 2 .. len PROVE y[k] = want[k]
    <3>1. k \in i + 1 .. len /\ k \in 1 .. Len(x) /\ k # l + 1
      BY <1>1, <1>2, <1>6, <2>2
    <3> QED BY <2>4, <2>7, <3>1
  <2>12. r.j \in Nat /\ r.j + 1 = Len(d) /\ r.j <= i
    BY <2>1, <2>2, <2>8
  <2>13. y[r.j + 1] = want[i + 1]
    BY <2>1, <2>9
  <2>14. d \in Seq(1 .. Len(want))
    BY <2>8
  <2>16. Within(mem, r.m, slice.arr, slice.off, r.j + 1)
    <3>1. l + 1 \in Nat /\ l <= l + 1 /\ slice.off \in Nat
      BY <2>2, SliceFacts
    <3>2. Within(mem, p.m, slice.arr, slice.off, l)
      BY <1>4, <2>0
    <3> HIDE DEF r
    <3> QED BY <1>4, <2>1, <2>2, <2>6, <3>1, <3>2, WithinBoth
  <2> HIDE DEF d, r
  <2>15. OthersSoFar(r, i)
    BY <2>6, <2>10, <2>11, <2>12, <2>13, <2>14, <2>16 DEF OthersSoFar, d, len
  <2> QED BY <2>15 DEF r
<1>10. CASE want[i] = v
  <2>1. r = p /\ d = c
    BY <1>3, <1>8, <1>10
  <2>2. p.j <= i /\ \A k \in i + 2 .. len : k \in i + 1 .. len
    BY <1>1, <1>2, <1>4
  <2>3. \A k \in i + 2 .. len : x[k] = want[k]
    BY <1>5, <2>2
  <2>4. x[p.j + 1] = want[i + 1]
    BY <1>5, <1>10 DEF v
  <2> HIDE DEF len
  <2> QED BY <1>4, <1>5, <2>1, <2>2, <2>3, <2>4 DEF OthersSoFar, d, r, c, len
<1> QED BY <1>9, <1>10 DEF r

LEMMA DedupHolds ==
    ASSUME mem \in Arrays, Holds(mem, slice, want), Slices!dedup
    PROVE  Becomes(slice', want')
<1> DEFINE f == Slices!Others  last == slice.len - 1  all == f[last]
<1>1. want \in Seq(Int) /\ Len(want) = slice.len /\ slice.len \in Nat /\ slice.len > 0
  BY SliceFacts DEF Slices!dedup
<1>2. last \in Nat /\ last + 1 = Len(want) /\ slice.len = last + 1
  BY <1>1
<1>3. OthersBy(f, last)
  BY <1>2, OthersAre
<1>4. mem' = all.m /\ slice' = [slice EXCEPT !.len = all.j + 1]
      /\ want' = Slices!Firsts(want)
  BY DEF Slices!dedup
<1> DEFINE c == FirstPlaces(last)
<1>5. want' = [k \in DOMAIN c |-> want[c[k]]]
  <2>1. Len(Positions) = Len(want)
    BY <1>1 DEF Positions
  <2>2. c = KeptUpTo(Positions, Fresh)[Len(Positions)]
    BY <1>2, <2>1 DEF FirstPlaces
  <2>3. c = Slices!Kept(Positions, Fresh)
    BY <2>2 DEF Slices!Kept, Slices!KeptUpTo, KeptUpTo
  <2> HIDE DEF c
  <2> QED BY <1>4, <2>3 DEF Slices!Firsts, Positions, Fresh
<1> HIDE DEF f, c
<1> DEFINE Good == {i \in Nat : i <= last => OthersSoFar(f[i], i)}
<1>6. 0 \in Good
  <2>1. f[0] = [m |-> mem, j |-> 0]
    BY <1>2, <1>3, OthersByMeans
  <2> QED BY <1>1, <2>1, OthersStart
<1>7. ASSUME NEW i \in Nat, i \in Good PROVE i + 1 \in Good
  <2> SUFFICES ASSUME i + 1 <= last PROVE OthersSoFar(f[i + 1], i + 1)
    OBVIOUS
  <2> DEFINE q == i + 1
  <2>1. i <= last /\ q \in 1 .. slice.len - 1 /\ q \in 0 .. last /\ q # 0 /\ q - 1 = i
    BY <1>2
  <2>2. OthersSoFar(f[i], i)
    BY <1>7, <2>1
  <2> HIDE DEF q, last
  <2>3. OthersSoFar(Slices!KeepOther(f[i], q), q)
    BY <2>1, <2>2, OthersGoOn
  <2>4. f[q] = Slices!KeepOther(f[i], q)
    BY <1>2, <1>3, <2>1, OthersByMeans
  <2> QED BY <2>3, <2>4 DEF q
<1> HIDE DEF Good
<1>8. last \in Good
  BY <1>2, <1>6, <1>7, InductionOnNumbers
<1>9. OthersSoFar(all, last)
  BY <1>2, <1>8 DEF Good
<1> HIDE DEF all
<1>10. c \in Seq(1 .. Len(want)) /\ all.m \in Arrays
       /\ all.j \in Nat /\ all.j + 1 = Len(c) /\ all.j <= last
       /\ Within(mem, all.m, slice.arr, slice.off, all.j + 1)
  BY <1>9 DEF OthersSoFar, c
<1>11. PICK x : /\ Holds(all.m, slice, x)
                /\ \A k \in 1 .. all.j + 1 : x[k] = want[c[k]]
  BY <1>9 DEF OthersSoFar, c
<1>12. x \in Seq(Int) /\ Len(x) = slice.len
  BY <1>10, <1>11, SliceFacts
<1> DEFINE l == all.j + 1
<1>13. l \in Nat /\ l \in 0 .. slice.len /\ l <= Len(x) /\ Len(c) = l
  BY <1>2, <1>10, <1>12
<1>14. \A k \in 1 .. l : x[k] = want[c[k]]
  BY <1>11
<1>15. slice' = [slice EXCEPT !.len = l]
  BY <1>4
<1>18. Within(mem, all.m, slice.arr, slice.off, l)
  BY <1>10
<1> HIDE DEF l
<1>16. Holds(all.m, [slice EXCEPT !.len = l], SubSeq(x, 1, l))
  BY <1>10, <1>11, <1>13, ShortenedHolds
<1>17. SubSeq(x, 1, l) = want'
  <2> DEFINE y == [k \in DOMAIN c |-> want[c[k]]]
  <2>1. DOMAIN c = 1 .. l
    BY <1>10, <1>13
  <2>2. \A k \in 1 .. l : want[c[k]] \in Int
    BY <1>1, <1>10, <1>13
  <2>3. y \in Seq(Int) /\ Len(y) = l /\ \A k \in 1 .. l : y[k] = want[c[k]]
    BY <1>13, <2>1, <2>2
  <2> HIDE DEF y
  <2>4. /\ SubSeq(x, 1, l) \in Seq(Int) /\ Len(SubSeq(x, 1, l)) = l
        /\ \A k \in 1 .. l : SubSeq(x, 1, l)[k] = x[k]
    BY <1>12, <1>13
  <2>5. SubSeq(x, 1, l) = y
    BY <1>14, <2>3, <2>4, SameSequence
  <2> QED BY <1>5, <2>5 DEF y
<1>19. slice'.arr = slice.arr /\ slice'.off = slice.off /\ slice'.len = l
  BY <1>15, ShortHeader
<1> QED BY <1>4, <1>10, <1>15, <1>16, <1>17, <1>18, <1>19 DEF Becomes

\* What dedup should leave of a sorted slice: each of its elements once, in
\* ascending order.
LEMMA SortedAscends ==
    ASSUME NEW values \in Seq(Int),
           \A k \in 1 .. Len(values) - 1 : values[k] <= values[k + 1]
    PROVE  \A i, j \in 1 .. Len(values) : i <= j => values[i] <= values[j]
<1> DEFINE len == Len(values)
           Good == {d \in Nat : \A i \in 1 .. len : i + d <= len => values[i] <= values[i + d]}
<1>1. len \in Nat /\ \A i \in 1 .. len : values[i] \in Int
  OBVIOUS
<1>2. \A k \in 1 .. len - 1 : values[k] <= values[k + 1]
  OBVIOUS
<1> HIDE DEF len
<1>3. 0 \in Good
  <2> DEFINE d == 0
  <2>1. d \in Nat /\ \A i \in 1 .. len : i + d = i
    OBVIOUS
  <2> HIDE DEF d
  <2>2. ASSUME NEW i \in 1 .. len PROVE values[i] <= values[i + d]
    <3>1. values[i] \in Int /\ i + d = i
      BY <1>1, <2>1
    <3>2. values[i] <= values[i]
      BY <3>1
    <3> QED BY <3>1, <3>2
  <2>3. d \in Good
    BY <2>1, <2>2
  <2> QED BY <2>3 DEF d
<1>4. ASSUME NEW d \in Nat, d \in Good PROVE d + 1 \in Good
  <2> SUFFICES ASSUME NEW i \in 1 .. len, i + (d + 1) <= len
               PROVE  values[i] <= values[i + (d + 1)]
    OBVIOUS
  <2> DEFINE k == i + d
  <2>1. k \in 1 .. len - 1 /\ k \in 1 .. len /\ k + 1 \in 1 .. len /\ i + (d + 1) = k + 1
        /\ i + d <= len
    BY <1>1
  <2>2. values[i] <= values[k]
    BY <1>4, <2>1
  <2> HIDE DEF k
  <2>3. values[k] <= values[k + 1]
    BY <1>2, <2>1
  <2>4. values[i] \in Int /\ values[k] \in Int /\ values[k + 1] \in Int
    BY <1>1, <2>1
  <2>5. values[i] <= values[k + 1]
    BY <2>2, <2>3, <2>4
  <2> QED BY <2>1, <2>5
<1> HIDE DEF Good
<1>5. Nat \subseteq Good
  BY <1>3, <1>4, InductionOnNumbers
<1>6. ASSUME NEW i \in 1 .. len, NEW j \in 1 .. len, i <= j PROVE values[i] <= values[j]
  <2> DEFINE d == j - i
  <2>1. d \in Nat /\ i + d = j /\ i + d <= len
    BY <1>1, <1>6
  <2> HIDE DEF d
  <2>2. d \in Good
    BY <1>5, <2>1
  <2> QED BY <2>1, <2>2 DEF Good
<1> QED BY <1>6 DEF len

LEMMA FirstsOfSorted ==
    ASSUME NEW values \in Seq(Int),
           \A k \in 1 .. Len(values) - 1 : values[k] <= values[k + 1]
    PROVE  LET f == Slices!Firsts(values)
           IN  /\ \A k, l \in DOMAIN f : k < l => f[k] < f[l]
               /\ {f[k] : k \in DOMAIN f} = {values[k] : k \in DOMAIN values}
<1> DEFINE len == Len(values)  all == [k \in DOMAIN values |-> k]
           F == {k \in DOMAIN values : k = 1 \/ values[k] # values[k - 1]}
           places == Kept(all, F)  f == Slices!Firsts(values)
<1>1. len \in Nat /\ DOMAIN values = 1 .. len /\ \A k \in 1 .. len : values[k] \in Int
  OBVIOUS
<1>2. all \in Seq(Nat) /\ Len(all) = len /\ \A k \in 1 .. len : all[k] = k
  BY <1>1
<1>3. \A k \in 1 .. len : k \in F <=> (k = 1 \/ values[k] # values[k - 1])
  BY <1>1
<1>4. F \subseteq 1 .. len
  BY <1>1
<1>5. f = [k \in DOMAIN places |-> values[places[k]]]
  <2>1. Slices!Kept(all, F) = places
    BY DEF Slices!Kept, Slices!KeptUpTo, Kept, KeptUpTo
  <2>2. f = [k \in DOMAIN Slices!Kept(all, F) |-> values[Slices!Kept(all, F)[k]]]
    BY DEF Slices!Firsts
  <2> HIDE DEF places, f, all, F
  <2> QED BY <2>1, <2>2
<1> HIDE DEF len, all, F, f
<1>6. PICK e : Places(e, all, F)
  BY <1>2, KeptPlaces
<1>7. places \in Seq(Nat)
  BY <1>2, KeptType
<1>8. /\ \A k \in DOMAIN places : places[k] \in 1 .. len /\ places[k] \in F
      /\ \A k, l \in DOMAIN places : k < l => places[k] < places[l]
      /\ \A i \in F : \E k \in DOMAIN places : places[k] = i
  <2>1. DOMAIN places = 1 .. Len(places)
    BY <1>7
  <2>2. /\ \A k \in 1 .. Len(places) : e[k] \in 1 .. len
        /\ \A k \in 1 .. Len(places) : places[k] = all[e[k]] /\ all[e[k]] \in F
        /\ \A k, l \in 1 .. Len(places) : k < l => e[k] < e[l]
        /\ \A i \in 1 .. len : all[i] \in F => \E k \in 1 .. Len(places) : e[k] = i
    BY <1>2, <1>6 DEF Places
  <2> HIDE DEF places
  <2>3. \A k \in 1 .. Len(places) : places[k] = e[k] /\ e[k] \in F
    BY <1>2, <2>2
  <2>4. \A k \in DOMAIN places : places[k] \in 1 .. len /\ places[k] \in F
    BY <2>1, <2>2, <2>3
  <2>5. \A k, l \in DOMAIN places : k < l => places[k] < places[l]
    BY <2>1, <2>2, <2>3
  <2>6. ASSUME NEW i \in F PROVE \E k \in DOMAIN places : places[k] = i
    <3>1. i \in 1 .. len /\ all[i] = i
      BY <1>2, <1>4
    <3>2. PICK k \in 1 .. Len(places) : e[k] = i
      BY <2>2, <3>1
    <3> QED BY <2>1, <2>3, <3>2
  <2> QED BY <2>4, <2>5, <2>6
<1> HIDE DEF places
<1>9. DOMAIN f = DOMAIN places /\ \A k \in DOMAIN places : f[k] = values[places[k]]
  BY <1>5
<1>10. \A i, j \in 1 .. len : i <= j => values[i] <= values[j]
  BY SortedAscends DEF len
<1>11. ASSUME NEW k \in DOMAIN places, NEW l \in DOMAIN places, k < l
       PROVE  values[places[k]] < values[places[l]]
  <2> DEFINE i == places[k]  j == places[l]
  <2>1. i \in 1 .. len /\ j \in 1 .. len /\ j \in F /\ i < j
    BY <1>8, <1>11
  <2> HIDE DEF i, j
  <2>2. j - 1 \in 1 .. len /\ i <= j - 1 /\ j # 1 /\ j - 1 <= j
    BY <1>1, <2>1
  <2>3. values[j] # values[j - 1]
    BY <1>3, <2>1, <2>2
  <2>4. values[i] <= values[j - 1] /\ values[j - 1] <= values[j]
    BY <1>10, <2>1, <2>2
  <2>5. values[i] \in Int /\ values[j] \in Int /\ values[j - 1] \in Int
    BY <1>1, <2>1, <2>2
  <2>6. values[i] < values[j]
    BY <2>3, <2>4, <2>5
  <2> QED BY <2>6 DEF i, j
<1>12. ASSUME NEW i \in 1 .. len PROVE \E k \in DOMAIN places : values[places[k]] = values[i]
  <2> DEFINE T == {k \in 1 .. len : values[k] = values[i]}
  <2>1. T \in SUBSET Nat /\ T # {}
    BY <1>12
  <2>2. PICK j \in T : \A k \in T : j <= k
    BY <2>1, Least
  <2>3. j \in F
    <3>1. ASSUME j # 1, values[j] = values[j - 1] PROVE FALSE
      <4>1. j - 1 \in 1 .. len
        BY <1>1, <2>2, <3>1
      <4>2. j - 1 \in T
        BY <2>2, <3>1, <4>1
      <4> QED BY <1>1, <2>2, <4>2
    <3> QED BY <1>3, <2>2, <3>1
  <2> QED BY <1>8, <2>2, <2>3
<1>13. {f[k] : k \in DOMAIN f} = {values[k] : k \in DOMAIN values}
  <2>1. ASSUME NEW k \in DOMAIN f PROVE \E i \in DOMAIN values : f[k] = values[i]
    BY <1>1, <1>8, <1>9
  <2>2. ASSUME NEW i \in DOMAIN values PROVE \E k \in DOMAIN f : f[k] = values[i]
    <3>1. i \in 1 .. len
      BY <1>1
    <3>2. PICK k \in DOMAIN places : values[places[k]] = values[i]
      BY <1>12, <3>1
    <3> QED BY <1>9, <3>2
  <2> QED BY <2>1, <2>2
<1>14. \A k, l \in DOMAIN f : k < l => f[k] < f[l]
  BY <1>9, <1>11
<1> HIDE DEF f
<1> QED BY <1>13, <1>14 DEF f

-----------------------------------------------------------------------------
(*                     Slices keep their meaning                           *)

Headers == [arr : Nat, off : Nat, len : Nat, cap : Nat]
Views == [slice : Headers, want : Seq(Int), made : Seq(Int)]

SliceInv ==
    /\ mem \in Arrays /\ Holds(mem, slice, want)
    /\ views \in Seq(Views)
    /\ \A q \in 1 .. Len(views) : Holds(mem, views[q].slice, views[q].want)

LEMMA HoldsHeader ==
    ASSUME NEW m \in Arrays, NEW t, NEW w, Holds(m, t, w)
    PROVE  t \in Headers /\ w \in Seq(Int)
<1>1. t \in [arr : 1 .. Len(m), off : Nat, len : Nat, cap : Nat] /\ w \in Seq(Int)
  BY DEF Holds, IsSlice
<1>2. 1 .. Len(m) \subseteq Nat
  OBVIOUS
<1> QED BY <1>1, <1>2 DEF Headers

LEMMA LiteralHolds ==
    ASSUME NEW values \in Seq(Int)
    PROVE  /\ <<values>> \in Arrays
           /\ Holds(<<values>>, Slices!Literal(values), values)
<1> DEFINE m == <<values>>  t == Slices!Literal(values)  len == Len(values)
<1>1. m \in Arrays /\ Len(m) = 1 /\ m[1] = values
  BY DEF Arrays
<1>2. t = [arr |-> 1, off |-> 0, len |-> len, cap |-> len]
  BY DEF Slices!Literal, Slices!Header
<1>3. len \in Nat /\ \A k \in 1 .. len : 0 + k = k
  OBVIOUS
<1> HIDE DEF m, t
<1>4. t.arr = 1 /\ t.off = 0 /\ t.len = len /\ t.cap = len
  BY <1>2
<1>5. IsSlice(m, t)
  BY <1>1, <1>2, <1>3 DEF IsSlice
<1>6. Holds(m, t, values)
  BY <1>1, <1>3, <1>4, <1>5 DEF Holds
<1> QED BY <1>1, <1>4, <1>6 DEF m, t

LEMMA InitSlices == Init => SliceInv
<1>1. ASSUME NEW values \in Seq(Int), mem = <<values>>,
             slice = Slices!Literal(values), want = values, views = <<>>
      PROVE  SliceInv
  <2>1. mem \in Arrays /\ Holds(mem, slice, want)
    BY <1>1, LiteralHolds
  <2>2. views \in Seq(Views) /\ Len(views) = 0
    BY <1>1
  <2>3. \A q \in 1 .. Len(views) : Holds(mem, views[q].slice, views[q].want)
    BY <2>2
  <2> QED BY <2>1, <2>2, <2>3 DEF SliceInv
<1>2. ASSUME IdleSlice PROVE SliceInv
  <2> DEFINE e == <<>>
  <2>1. e \in Seq(Int) /\ mem = <<e>> /\ slice = Slices!Literal(e) /\ want = e
        /\ views = <<>>
    BY <1>2 DEF IdleSlice
  <2> HIDE DEF e
  <2> QED BY <2>1, <1>1
<1>3. ASSUME Slices!Init PROVE SliceInv
  <2>1. PICK values \in Slices!BoundedSeq(Elements, MaxSlice) :
           mem = <<values>> /\ slice = Slices!Literal(values) /\ want = values
    BY <1>3 DEF Slices!Init
  <2>2. views = <<>>
    BY <1>3 DEF Slices!Init
  <2>3. values \in Seq(Int)
    <3>1. PICK k \in 0 .. MaxSlice : values \in [1 .. k -> Elements]
      BY DEF Slices!BoundedSeq, Slices!SeqOf
    <3>2. k \in Nat /\ Elements \subseteq Int
      BY SlicesAssumption
    <3>3. values \in [1 .. k -> Int]
      BY <3>1, <3>2
    <3> QED BY <3>2, <3>3
  <2> QED BY <1>1, <2>1, <2>2, <2>3
<1>4. Init => IdleSlice \/ Slices!Init
  BY DEF Init
<1> QED BY <1>2, <1>3, <1>4

\* What a slice has after another one has come to have w: in the places of both,
\* what that one has there, and what it had before in all the others.
LEMMA SeenHolds ==
    ASSUME NEW m \in Arrays, NEW all \in Arrays, NEW t, NEW w, Holds(all, t, w),
           Within(m, all, t.arr, t.off, t.len),
           NEW view \in Views, Holds(m, view.slice, view.want)
    PROVE  LET seen == Slices!Seen(view, t, w)
           IN  seen \in Views /\ Holds(all, seen.slice, seen.want)
<1> DEFINE u == view.slice  x == view.want
           b == u.arr  off == u.off  len == u.len
           place(k) == off + k - t.off
           shared(k) == b = t.arr /\ place(k) \in DOMAIN w
           y == [k \in DOMAIN x |-> IF shared(k) THEN w[place(k)] ELSE x[k]]
           seen == Slices!Seen(view, t, w)
<1>1. /\ b \in 1 .. Len(m) /\ m[b] \in Seq(Int)
      /\ off \in Nat /\ len \in Nat /\ u.cap \in Nat
      /\ len <= u.cap /\ off + u.cap <= Len(m[b])
      /\ x \in Seq(Int) /\ Len(x) = len
  BY SliceFacts
<1>2. \A k \in 1 .. len : m[b][off + k] = x[k]
  <2>1. Holds(m, u, x)
    OBVIOUS
  <2> HIDE DEF u, x
  <2>2. \A k \in 1 .. u.len : m[u.arr][u.off + k] = x[k]
    BY <2>1, SliceFacts
  <2> QED BY <2>2
<1>3. /\ t.arr \in 1 .. Len(all) /\ t.off \in Nat /\ t.len \in Nat
      /\ w \in Seq(Int) /\ Len(w) = t.len
      /\ \A k \in 1 .. t.len : all[t.arr][t.off + k] = w[k]
  BY SliceFacts
<1>4. seen = [view EXCEPT !.want = y]
  BY DEF Slices!Seen
<1>5. DOMAIN x = 1 .. len /\ DOMAIN w = 1 .. t.len
  BY <1>1, <1>3
<1> DEFINE c == t.arr  from == t.off  l == t.len
<1>13. /\ c \in 1 .. Len(all) /\ from \in Nat /\ l \in Nat
       /\ w \in Seq(Int) /\ Len(w) = l
       /\ \A k \in 1 .. l : all[c][from + k] = w[k]
  BY <1>3
<1>14. \A k : place(k) = off + k - from /\ (shared(k) <=> b = c /\ place(k) \in 1 .. l)
  BY <1>5
<1>15. \A i \in 1 .. Len(m[b]) :
          all[b][i] = m[b][i] \/ (b = c /\ i \in from + 1 .. from + l)
  BY <1>1 DEF Within
<1>6. ASSUME NEW k \in 1 .. len
      PROVE  /\ (IF shared(k) THEN w[place(k)] ELSE x[k]) \in Int
             /\ all[b][off + k] = IF shared(k) THEN w[place(k)] ELSE x[k]
  <2> DEFINE q == place(k)
  <2>0. q = off + k - from /\ (shared(k) <=> b = c /\ q \in 1 .. l)
    BY <1>14
  <2>4. k \in 1 .. len
    OBVIOUS
  <2> HIDE DEF b, off, len, c, from, l, x, q, shared
  <2>1. off + k \in 1 .. Len(m[b]) /\ k \in 1 .. Len(x)
    <3> DEFINE cap == u.cap  end == Len(m[b])
    <3>1. cap \in Nat /\ len <= cap /\ off + cap <= end /\ end \in Nat /\ off \in Nat
          /\ len \in Nat
      BY <1>1
    <3> HIDE DEF cap, end
    <3>2. off + k <= end /\ off + k >= 1
      BY <2>4, <3>1
    <3> QED BY <1>1, <2>4, <3>1, <3>2 DEF end
  <2>2. CASE shared(k)
    <3>1. q \in 1 .. l /\ from + q = off + k /\ b = c
      BY <1>1, <1>13, <2>0, <2>2, <2>4
    <3>2. all[b][off + k] = w[q] /\ w[q] \in Int
      BY <1>13, <3>1
    <3> QED BY <2>2, <3>2 DEF q
  <2>3. CASE ~shared(k)
    <3>1. ~(b = c /\ off + k \in from + 1 .. from + l)
      BY <1>1, <1>13, <2>0, <2>3, <2>4
    <3>2. all[b][off + k] = m[b][off + k]
      BY <1>15, <2>1, <3>1
    <3>3. all[b][off + k] = x[k] /\ x[k] \in Int
      BY <1>1, <1>2, <2>1, <2>4, <3>2
    <3> QED BY <2>3, <3>3
  <2> QED BY <2>2, <2>3
<1>7. y \in Seq(Int) /\ Len(y) = len
      /\ \A k \in 1 .. len : all[b][off + k] = y[k]
  <2> DEFINE f(k) == IF shared(k) THEN w[place(k)] ELSE x[k]
  <2>1. \A k \in 1 .. len : f(k) \in Int /\ all[b][off + k] = f(k)
    BY <1>6
  <2>2. y = [k \in 1 .. len |-> f(k)]
    BY <1>5
  <2> HIDE DEF f, y
  <2>3. len \in Nat
    BY <1>1
  <2> HIDE DEF b, off, len
  <2>4. y \in [1 .. len -> Int] /\ \A k \in 1 .. len : all[b][off + k] = y[k]
    BY <2>1, <2>2
  <2> QED BY <2>3, <2>4
<1>8. Len(m) <= Len(all) /\ Len(all[b]) = Len(m[b])
  BY <1>1 DEF Within
<1>9. u \in [arr : 1 .. Len(all), off : Nat, len : Nat, cap : Nat]
  <2>1. u \in [arr : 1 .. Len(m), off : Nat, len : Nat, cap : Nat]
    BY DEF Holds, IsSlice
  <2>2. Len(m) \in Nat /\ Len(all) \in Nat
    BY DEF Arrays
  <2>3. 1 .. Len(m) \subseteq 1 .. Len(all)
    BY <1>8, <2>2
  <2> QED BY <2>1, <2>3
<1>10. IsSlice(all, u)
  BY <1>1, <1>8, <1>9 DEF IsSlice
<1> HIDE DEF y
<1>11. Holds(all, u, y)
  BY <1>7, <1>10 DEF Holds
<1>12. seen.slice = u /\ seen.want = y /\ seen \in Views
  <2>1. view \in [slice : Headers, want : Seq(Int), made : Seq(Int)]
    BY DEF Views
  <2> HIDE DEF u, seen
  <2> QED BY <1>4, <1>7, <2>1 DEF Views, u
<1> HIDE DEF u, seen
<1> QED BY <1>11, <1>12 DEF seen

\* One of the slices comes to have something, and all others see it.
LEMMA AllSeeIt ==
    ASSUME SliceInv, NEW t, NEW w, Becomes(t, w)
    PROVE  LET all == Slices!AllSee(t, w)
           IN  /\ all \in Seq(Views) /\ Len(all) = Len(views)
               /\ \A q \in 1 .. Len(all) : Holds(mem', all[q].slice, all[q].want)
<1> DEFINE all == Slices!AllSee(t, w)
<1>1. views \in Seq(Views) /\ DOMAIN views = 1 .. Len(views) /\ Len(views) \in Nat
  BY DEF SliceInv
<1>2. all = [q \in 1 .. Len(views) |-> Slices!Seen(views[q], t, w)]
  BY <1>1 DEF Slices!AllSee
<1>3. ASSUME NEW q \in 1 .. Len(views)
      PROVE  LET seen == Slices!Seen(views[q], t, w)
             IN  seen \in Views /\ Holds(mem', seen.slice, seen.want)
  <2>1. /\ mem \in Arrays /\ views[q] \in Views
        /\ Holds(mem, views[q].slice, views[q].want)
    BY <1>1 DEF SliceInv
  <2>2. mem' \in Arrays /\ Holds(mem', t, w) /\ Within(mem, mem', t.arr, t.off, t.len)
    BY DEF Becomes
  <2> QED BY <2>1, <2>2, SeenHolds
<1> HIDE DEF all
<1>4. all \in Seq(Views) /\ Len(all) = Len(views)
  <2> DEFINE f(q) == Slices!Seen(views[q], t, w)
  <2>1. all = [q \in 1 .. Len(views) |-> f(q)] /\ \A q \in 1 .. Len(views) : f(q) \in Views
    BY <1>2, <1>3
  <2> HIDE DEF f
  <2> QED BY <1>1, <2>1
<1>5. ASSUME NEW q \in 1 .. Len(all) PROVE Holds(mem', all[q].slice, all[q].want)
  <2>1. all[q] = Slices!Seen(views[q], t, w)
    BY <1>2, <1>4
  <2> QED BY <1>3, <1>4, <2>1
<1> QED BY <1>4, <1>5 DEF all

\* The slice worked on is the one that changes.
LEMMA SliceChanges ==
    ASSUME SliceInv, Becomes(slice', want'), views' = Slices!AllSee(slice', want')
    PROVE  SliceInv'
<1> DEFINE all == Slices!AllSee(slice', want')
<1>1. /\ all \in Seq(Views)
      /\ \A q \in 1 .. Len(all) : Holds(mem', all[q].slice, all[q].want)
  BY AllSeeIt
<1>2. views' = all
  OBVIOUS
<1> HIDE DEF all
<1> QED BY <1>1, <1>2 DEF SliceInv, Becomes

\* s[i:j] and s[i:j:j]: the arrays stay as they are.
LEMMA structureStep ==
    ASSUME SliceInv, Slices!structure
    PROVE  SliceInv'
<1>1. mem \in Arrays /\ Holds(mem, slice, want)
  BY DEF SliceInv
<1>2. slice.len \in Nat /\ slice.cap \in Nat /\ slice.len <= slice.cap
  BY <1>1, SliceFacts
<1>3. PICK i \in 0 .. slice.len : \E j \in i .. slice.len : \E k \in {j, slice.cap} :
         slice' = Slices!Resliced(slice, i, j, k) /\ want' = SubSeq(want, i + 1, j)
  BY DEF Slices!structure
<1>4. PICK j \in i .. slice.len : \E k \in {j, slice.cap} :
         slice' = Slices!Resliced(slice, i, j, k) /\ want' = SubSeq(want, i + 1, j)
  BY <1>3
<1>5. PICK k \in {j, slice.cap} :
         slice' = Slices!Resliced(slice, i, j, k) /\ want' = SubSeq(want, i + 1, j)
  BY <1>4
<1>6. k \in j .. slice.cap
  BY <1>2
<1>7. Holds(mem, slice', want')
  BY <1>1, <1>5, <1>6, ReslicedHolds
<1> QED BY <1>1, <1>7 DEF Slices!structure, SliceInv

\* A slice stays in use beside the other, or the work goes on with it.
LEMMA sliceTrapsStep ==
    ASSUME SliceInv, Slices!sliceTraps
    PROVE  SliceInv'
<1>1. /\ mem \in Arrays /\ Holds(mem, slice, want) /\ views \in Seq(Views)
      /\ \A q \in 1 .. Len(views) : Holds(mem, views[q].slice, views[q].want)
  BY DEF SliceInv
<1>2. slice \in Headers /\ want \in Seq(Int) /\ mem' = mem
  BY <1>1, HoldsHeader DEF Slices!sliceTraps
<1>3. CASE /\ views' = Append(views, [slice |-> slice, want |-> want, made |-> <<>>])
           /\ UNCHANGED <<slice, want>>
  <2> DEFINE new == [slice |-> slice, want |-> want, made |-> <<>>]
  <2>1. new \in Views /\ new.slice = slice /\ new.want = want
    BY <1>2 DEF Views
  <2> HIDE DEF new
  <2>2. /\ views' \in Seq(Views) /\ Len(views') = Len(views) + 1
        /\ views'[Len(views) + 1] = new
        /\ \A q \in 1 .. Len(views) : views'[q] = views[q]
    BY <1>1, <1>3, <2>1 DEF new
  <2>3. ASSUME NEW q \in 1 .. Len(views')
        PROVE  Holds(mem, views'[q].slice, views'[q].want)
    <3>1. q = Len(views) + 1 \/ q \in 1 .. Len(views)
      BY <1>1, <2>2
    <3> QED BY <1>1, <2>1, <2>2, <3>1
  <2> QED BY <1>1, <1>2, <1>3, <2>2, <2>3 DEF SliceInv
<1>4. CASE \E v \in DOMAIN views :
             /\ slice' = views[v].slice /\ want' = views[v].want
             /\ views' = [views EXCEPT ![v] = [views[v] EXCEPT !.slice = slice, !.want = want]]
  <2>1. PICK v \in 1 .. Len(views) :
               /\ slice' = views[v].slice /\ want' = views[v].want
               /\ views' = [views EXCEPT ![v] = [views[v] EXCEPT !.slice = slice,
                                                                 !.want = want]]
    <3> DEFINE P(v) == /\ slice' = views[v].slice /\ want' = views[v].want
                       /\ views' = [views EXCEPT ![v] = [views[v] EXCEPT !.slice = slice,
                                                                         !.want = want]]
    <3>1. \E v \in DOMAIN views : P(v)
      BY <1>4
    <3>2. DOMAIN views = 1 .. Len(views)
      BY <1>1
    <3> HIDE DEF P
    <3>3. PICK v \in 1 .. Len(views) : P(v)
      BY <3>1, <3>2
    <3> QED BY <3>3 DEF P
  <2> DEFINE old == views[v]
             new == [old EXCEPT !.slice = slice, !.want = want]
  <2>2. old \in [slice : Headers, want : Seq(Int), made : Seq(Int)]
    <3>1. old \in Views
      BY <1>1
    <3> QED BY <3>1 DEF Views
  <2>3. views' = [views EXCEPT ![v] = new]
    BY <2>1
  <2> HIDE DEF old
  <2>4. new \in Views /\ new.slice = slice /\ new.want = want
    BY <1>2, <2>2 DEF Views
  <2> HIDE DEF new
  <2>5. /\ views' \in Seq(Views) /\ Len(views') = Len(views)
        /\ \A q \in 1 .. Len(views) : views'[q] = IF q = v THEN new ELSE views[q]
    BY <1>1, <2>3, <2>4
  <2>6. \A q \in 1 .. Len(views') : Holds(mem, views'[q].slice, views'[q].want)
    BY <1>1, <2>4, <2>5
  <2>7. Holds(mem, slice', want')
    BY <1>1, <2>1
  <2> QED BY <1>1, <1>2, <2>5, <2>6, <2>7 DEF SliceInv
<1> QED BY <1>3, <1>4 DEF Slices!sliceTraps

\* append(slice, v), of which capacityAndGrowth keeps the result and appendSlice
\* does not.
LEMMA AppendBecomes ==
    ASSUME SliceInv, NEW v \in Int, NEW r, r = Slices!AppendTo(mem, slice, <<v>>),
           mem' = r.mem
    PROVE  Becomes(r.slice, Append(want, v)) /\ Holds(mem', slice, want)
<1>1. mem \in Arrays /\ Holds(mem, slice, want) /\ want \in Seq(Int)
  BY SliceFacts DEF SliceInv
<1> DEFINE one == <<v>>
<1>2. one \in Seq(Int) /\ want \o one = Append(want, v)
  BY <1>1
<1>3. r = Slices!AppendTo(mem, slice, one)
  OBVIOUS
<1> HIDE DEF one
<1>4. /\ r.mem \in Arrays /\ Holds(r.mem, slice, want)
      /\ Holds(r.mem, r.slice, want \o one)
      /\ Within(mem, r.mem, r.slice.arr, r.slice.off, r.slice.len)
  BY <1>1, <1>2, <1>3, AppendHolds
<1> QED BY <1>2, <1>4 DEF Becomes

LEMMA growthStep ==
    ASSUME SliceInv, Slices!capacityAndGrowth
    PROVE  SliceInv'
<1>1. PICK v \in Elements :
         LET r == Slices!AppendTo(mem, slice, <<v>>)
         IN  mem' = r.mem /\ slice' = r.slice /\ want' = Append(want, v)
  BY DEF Slices!capacityAndGrowth
<1>2. v \in Int
  BY SlicesAssumption
<1>3. Becomes(slice', want')
  BY <1>1, <1>2, AppendBecomes
<1>4. views' = Slices!AllSee(slice', want')
  BY DEF Slices!capacityAndGrowth
<1> QED BY <1>3, <1>4, SliceChanges

LEMMA appendSliceStep ==
    ASSUME SliceInv, Slices!appendSlice
    PROVE  SliceInv'
<1>1. PICK v \in Elements :
         LET r == Slices!AppendTo(mem, slice, <<v>>)
         IN  mem' = r.mem /\ views' = Slices!AllSee(r.slice, Append(want, v))
  BY DEF Slices!appendSlice
<1> DEFINE r == Slices!AppendTo(mem, slice, <<v>>)
           all == Slices!AllSee(r.slice, Append(want, v))
<1>2. v \in Int
  BY SlicesAssumption
<1>3. Becomes(r.slice, Append(want, v)) /\ Holds(mem', slice, want)
  BY <1>1, <1>2, AppendBecomes
<1>4. /\ all \in Seq(Views)
      /\ \A q \in 1 .. Len(all) : Holds(mem', all[q].slice, all[q].want)
  <2> HIDE DEF r
  <2> QED BY <1>3, AllSeeIt
<1>5. views' = all /\ slice' = slice /\ want' = want
  BY <1>1 DEF Slices!appendSlice
<1> HIDE DEF all, r
<1> QED BY <1>3, <1>4, <1>5 DEF SliceInv, Becomes

LEMMA modifySliceStep ==
    ASSUME SliceInv, Slices!modifySlice
    PROVE  SliceInv'
<1>1. mem \in Arrays /\ Holds(mem, slice, want) /\ slice.len \in Nat /\ slice.len > 0
  BY SliceFacts DEF SliceInv, Slices!modifySlice
<1>2. PICK v \in Elements : mem' = Slices!Set(mem, slice, 0, v)
                            /\ want' = [want EXCEPT ![1] = v]
  BY DEF Slices!modifySlice
<1>3. v \in Int /\ slice' = slice /\ views' = Slices!AllSee(slice', want')
  BY SlicesAssumption DEF Slices!modifySlice
<1> DEFINE i == 0
<1>4. i \in 0 .. slice.len - 1 /\ i + 1 = 1 /\ i < slice.len
  BY <1>1
<1>5. mem' = Slices!Set(mem, slice, i, v)
  BY <1>2
<1> HIDE DEF i
<1>6. /\ Slices!Set(mem, slice, i, v) \in Arrays
      /\ Holds(Slices!Set(mem, slice, i, v), slice, [want EXCEPT ![i + 1] = v])
      /\ \A l \in Nat : i < l =>
            Within(mem, Slices!Set(mem, slice, i, v), slice.arr, slice.off, l)
  BY <1>1, <1>3, <1>4, SetHolds
<1>7. Becomes(slice', want')
  BY <1>1, <1>2, <1>3, <1>4, <1>5, <1>6 DEF Becomes
<1> QED BY <1>3, <1>7, SliceChanges

LEMMA removeFastStep ==
    ASSUME SliceInv, Slices!removeFast
    PROVE  SliceInv'
<1>1. mem \in Arrays /\ Holds(mem, slice, want) /\ slice.len \in Nat
      /\ want \in Seq(Int) /\ Len(want) = slice.len
  BY SliceFacts DEF SliceInv
<1>2. PICK i \in 0 .. slice.len - 1 :
         /\ mem' = Slices!Set(mem, slice, i, Slices!Last(Slices!Content(mem, slice)))
         /\ want' = Slices!Front([want EXCEPT ![i + 1] = Slices!Last(want)])
  BY DEF Slices!removeFast, Slices!Indexes
<1>3. /\ slice' = [slice EXCEPT !.len = slice.len - 1]
      /\ views' = Slices!AllSee(slice', want')
  BY DEF Slices!removeFast
<1> DEFINE v == want[Len(want)]  x == [want EXCEPT ![i + 1] = v]  l == slice.len - 1
<1>4. v \in Int /\ l \in 0 .. slice.len
  BY <1>1
<1>5. mem' = Slices!Set(mem, slice, i, v)
  BY <1>1, <1>2, HoldsIsContent DEF Slices!Last
<1> HIDE DEF v
<1>6. /\ mem' \in Arrays /\ Holds(mem', slice, x)
      /\ \A k \in Nat : i < k => Within(mem, mem', slice.arr, slice.off, k)
  BY <1>1, <1>4, <1>5, SetHolds
<1>7. want' = SubSeq(x, 1, Len(x) - 1)
  BY <1>2 DEF Slices!Front, Slices!Last, v
<1>10. i = l => \A k \in 1 .. slice.len : x[k] = want[k]
  BY <1>1 DEF v
<1> HIDE DEF x
<1>8. Len(x) - 1 = l
  BY <1>6, SliceFacts
<1>9. slice' = [slice EXCEPT !.len = l]
  BY <1>3
<1>11. l \in Nat /\ l + 1 = slice.len /\ i \in Nat /\ i <= l
  BY <1>1
<1> HIDE DEF l
<1>12. Within(mem, mem', slice.arr, slice.off, l)
  <2>1. CASE i < l
    BY <1>6, <1>11, <2>1
  <2>2. CASE i = l
    <3> DEFINE a == slice.arr  off == slice.off
    <3>1. /\ off \in Nat /\ slice.len \in Nat
          /\ \A k \in 1 .. slice.len : mem[a][off + k] = want[k]
      BY <1>1, SliceFacts
    <3>2. \A k \in 1 .. slice.len : mem'[a][off + k] = x[k]
      BY <1>6, SliceFacts
    <3>3. mem'[a][off + (l + 1)] = mem[a][off + (l + 1)]
      BY <1>10, <1>11, <2>2, <3>1, <3>2
    <3>4. Within(mem, mem', a, off, l + 1)
      BY <1>6, <1>11, <2>2
    <3> HIDE DEF a, off
    <3>5. \A k \in Int : k \in off + 1 .. off + (l + 1)
                         => k \in off + 1 .. off + l \/ k = off + (l + 1)
      BY <1>11, <3>1
    <3>6. \A b \in 1 .. Len(mem) : \A k \in 1 .. Len(mem[b]) : k \in Int
      OBVIOUS
    <3>7. Within(mem, mem', a, off, l)
      BY <3>3, <3>4, <3>5, <3>6 DEF Within
    <3> QED BY <3>7 DEF a, off
  <2> QED BY <1>11, <2>1, <2>2
<1>13. Holds(mem', slice', want')
  BY <1>4, <1>6, <1>7, <1>8, <1>9, ShortenedHolds
<1>14. slice'.arr = slice.arr /\ slice'.off = slice.off /\ slice'.len = l
  BY <1>1, <1>9, ShortHeader
<1>15. Becomes(slice', want')
  BY <1>6, <1>12, <1>13, <1>14 DEF Becomes
<1> QED BY <1>3, <1>15, SliceChanges

LEMMA removeStep ==
    ASSUME SliceInv, Slices!remove
    PROVE  SliceInv'
<1>1. mem \in Arrays /\ Holds(mem, slice, want) /\ slice.len \in Nat /\ slice.cap \in Nat
      /\ slice.len <= slice.cap /\ want \in Seq(Int) /\ Len(want) = slice.len
  BY SliceFacts DEF SliceInv
<1> DEFINE head(i) == Slices!Resliced(slice, 0, i, slice.cap)
           tail(i) == Slices!Content(mem, Slices!Resliced(slice, i + 1, slice.len, slice.cap))
           r(i) == Slices!AppendTo(mem, head(i), tail(i))
<1>2. PICK i \in 0 .. slice.len - 1 :
         mem' = r(i).mem /\ slice' = r(i).slice /\ want' = Slices!RemoveAt(want, i + 1)
  BY DEF Slices!remove, Slices!Indexes
<1>3. Holds(mem, head(i), SubSeq(want, 1, i))
  <2> DEFINE z == 0
  <2>1. z \in 0 .. slice.len /\ i \in z .. slice.len /\ slice.cap \in i .. slice.cap
        /\ z + 1 = 1
    BY <1>1
  <2> HIDE DEF z
  <2>2. Holds(mem, Slices!Resliced(slice, z, i, slice.cap), SubSeq(want, z + 1, i))
    BY <1>1, <2>1, ReslicedHolds
  <2> QED BY <2>1, <2>2 DEF z
<1>4. /\ tail(i) = SubSeq(want, (i + 1) + 1, slice.len)
      /\ tail(i) \in Seq(Int)
  <2> DEFINE z == i + 1
  <2>1. z \in 0 .. slice.len /\ slice.len \in z .. slice.len
        /\ slice.cap \in slice.len .. slice.cap
    BY <1>1
  <2> HIDE DEF z
  <2>2. Holds(mem, Slices!Resliced(slice, z, slice.len, slice.cap),
              SubSeq(want, z + 1, slice.len))
    BY <1>1, <2>1, ReslicedHolds
  <2>3. /\ Slices!Content(mem, Slices!Resliced(slice, z, slice.len, slice.cap))
             = SubSeq(want, z + 1, slice.len)
        /\ SubSeq(want, z + 1, slice.len) \in Seq(Int)
    BY <1>1, <2>2, HoldsIsContent, SliceFacts
  <2> QED BY <2>3 DEF z
<1>5. want' = SubSeq(want, 1, i) \o tail(i)
  <2>1. (i + 1) - 1 = i /\ Len(want) = slice.len
    BY <1>1
  <2>2. want' = SubSeq(want, 1, (i + 1) - 1) \o SubSeq(want, (i + 1) + 1, Len(want))
    BY <1>2 DEF Slices!RemoveAt
  <2> QED BY <1>4, <2>1, <2>2
<1> HIDE DEF head, tail
<1>6. /\ r(i).mem \in Arrays /\ Holds(r(i).mem, r(i).slice, SubSeq(want, 1, i) \o tail(i))
      /\ Within(mem, r(i).mem, r(i).slice.arr, r(i).slice.off, r(i).slice.len)
  BY <1>1, <1>3, <1>4, AppendHolds
<1> HIDE DEF r
<1>7. Becomes(slice', want')
  BY <1>2, <1>5, <1>6 DEF Becomes
<1>8. views' = Slices!AllSee(slice', want')
  BY DEF Slices!remove
<1> QED BY <1>7, <1>8, SliceChanges

LEMMA insertStep ==
    ASSUME SliceInv, Slices!insert
    PROVE  SliceInv'
<1>1. mem \in Arrays /\ Holds(mem, slice, want) /\ slice.len \in Nat /\ slice.cap \in Nat
      /\ slice.len <= slice.cap /\ want \in Seq(Int) /\ Len(want) = slice.len
  BY SliceFacts DEF SliceInv
<1> DEFINE head(i) == Slices!Resliced(slice, 0, i + 1, slice.cap)
           tail(i) == Slices!Content(mem, Slices!Resliced(slice, i, slice.len, slice.cap))
           r(i) == Slices!AppendTo(mem, head(i), tail(i))
<1>2. PICK i \in 0 .. slice.len - 1, v \in Elements :
         /\ mem' = Slices!Set(r(i).mem, r(i).slice, i, v) /\ slice' = r(i).slice
         /\ want' = Slices!InsertAt(want, i + 1, v)
  BY DEF Slices!insert, Slices!Indexes
<1> DEFINE q == i + 1  w1 == SubSeq(want, 1, q)  w2 == SubSeq(want, i + 1, slice.len)
           x == w1 \o w2
<1>3. Holds(mem, head(i), w1) /\ head(i).len = q
  <2> DEFINE z == 0
  <2>1. z \in 0 .. slice.len /\ q \in z .. slice.len /\ slice.cap \in q .. slice.cap
        /\ z + 1 = 1 /\ q - z = q
    BY <1>1
  <2> HIDE DEF z, q
  <2>2. /\ Holds(mem, Slices!Resliced(slice, z, q, slice.cap), SubSeq(want, z + 1, q))
        /\ Slices!Resliced(slice, z, q, slice.cap).len = q - z
    BY <1>1, <2>1, ReslicedHolds
  <2> QED BY <2>1, <2>2 DEF z, q
<1>4. tail(i) = w2 /\ tail(i) \in Seq(Int) /\ Len(tail(i)) = slice.len - i
  <2>1. i \in 0 .. slice.len /\ slice.len \in i .. slice.len
        /\ slice.cap \in slice.len .. slice.cap
    BY <1>1
  <2> DEFINE u == Slices!Resliced(slice, i, slice.len, slice.cap)
  <2>2. Holds(mem, u, w2) /\ u.len = slice.len - i
    <3>1. mem \in Arrays /\ Holds(mem, slice, want)
      BY <1>1
    <3> QED BY <2>1, <3>1, ReslicedHolds
  <2> HIDE DEF u, w2
  <2>3. Slices!Content(mem, u) = w2 /\ w2 \in Seq(Int) /\ Len(w2) = slice.len - i
    BY <1>1, <2>2, HoldsIsContent, SliceFacts
  <2> QED BY <2>3 DEF u
<1> HIDE DEF head, tail
<1>5. /\ r(i).mem \in Arrays /\ Holds(r(i).mem, r(i).slice, x)
      /\ r(i).slice.len = q + (slice.len - i)
      /\ Within(mem, r(i).mem, r(i).slice.arr, r(i).slice.off, r(i).slice.len)
  BY <1>1, <1>3, <1>4, AppendHolds
<1>6. i \in 0 .. r(i).slice.len - 1 /\ v \in Int
  <2>1. i \in 0 .. (q + (slice.len - i)) - 1
    BY <1>1
  <2> HIDE DEF r, q
  <2> QED BY <1>5, <2>1, SlicesAssumption
<1> HIDE DEF r
<1>7. /\ Slices!Set(r(i).mem, r(i).slice, i, v) \in Arrays
      /\ Holds(Slices!Set(r(i).mem, r(i).slice, i, v), r(i).slice, [x EXCEPT ![i + 1] = v])
      /\ \A l \in Nat : i < l =>
            Within(r(i).mem, Slices!Set(r(i).mem, r(i).slice, i, v), r(i).slice.arr,
                   r(i).slice.off, l)
  <2> HIDE DEF x
  <2> QED BY <1>5, <1>6, SetHolds
<1>8. [x EXCEPT ![i + 1] = v] = want'
  <2> DEFINE a == SubSeq(want, 1, i)  one == <<v>>  y == (a \o one) \o w2
             z == [x EXCEPT ![q] = v]
  <2>1. i \in Nat /\ q \in Nat /\ q = i + 1 /\ i < slice.len /\ q \in 1 .. Len(want)
        /\ q - 1 = i
    BY <1>1
  <2>2. want' = y
    BY <1>1, <1>2, <2>1 DEF Slices!InsertAt
  <2>3. w2 \in Seq(Int) /\ Len(w2) = slice.len - i
    BY <1>4
  <2>4. w1 \in Seq(Int) /\ Len(w1) = q /\ \A k \in 1 .. q : w1[k] = want[k]
    <3> HIDE DEF q
    <3> QED BY <1>1, <2>1
  <2>5. a \in Seq(Int) /\ Len(a) = i /\ \A k \in 1 .. i : a[k] = want[k]
    BY <1>1, <2>1
  <2>6. one \in Seq(Int) /\ Len(one) = 1 /\ one[1] = v
    BY <1>6
  <2> HIDE DEF a, one, w1, w2
  <2>7. /\ a \o one \in Seq(Int) /\ Len(a \o one) = q /\ (a \o one)[q] = v
        /\ \A k \in 1 .. i : (a \o one)[k] = want[k]
    <3>1. /\ a \o one \in Seq(Int) /\ Len(a \o one) = i + 1
          /\ \A k \in 1 .. i : (a \o one)[k] = a[k]
          /\ \A k \in 1 .. 1 : (a \o one)[i + k] = one[k]
      <4>1. /\ a \o one \in Seq(Int) /\ Len(a \o one) = Len(a) + Len(one)
            /\ \A k \in 1 .. Len(a) : (a \o one)[k] = a[k]
            /\ \A k \in 1 .. Len(one) : (a \o one)[Len(a) + k] = one[k]
        BY <2>5, <2>6, JoinIs
      <4> QED BY <2>5, <2>6, <4>1
    <3>2. 1 \in 1 .. 1
      OBVIOUS
    <3> HIDE DEF q
    <3> QED BY <2>1, <2>5, <2>6, <3>1, <3>2
  <2> DEFINE b == a \o one
  <2> HIDE DEF b, q
  <2>8. /\ y \in Seq(Int) /\ Len(y) = q + Len(w2)
        /\ \A k \in 1 .. q : y[k] = b[k]
        /\ \A k \in 1 .. Len(w2) : y[q + k] = w2[k]
    BY <2>3, <2>7, JoinIs DEF b
  <2>9. /\ x \in Seq(Int) /\ Len(x) = q + Len(w2)
        /\ \A k \in 1 .. q : x[k] = w1[k]
        /\ \A k \in 1 .. Len(w2) : x[q + k] = w2[k]
    BY <2>3, <2>4, JoinIs
  <2>10. q \in 1 .. Len(x) /\ Len(w2) \in Nat
    BY <2>1, <2>3, <2>9
  <2> HIDE DEF x, y
  <2>11. /\ z \in Seq(Int) /\ Len(z) = Len(x)
         /\ \A k \in 1 .. Len(x) : z[k] = IF k = q THEN v ELSE x[k]
    BY <1>6, <2>9, <2>10, ChangedIs
  <2> HIDE DEF z
  <2>12. ASSUME NEW k \in 1 .. Len(z) PROVE z[k] = y[k]
    <3>1. CASE k = q
      <4>1. k \in 1 .. Len(x) /\ k \in 1 .. q
        BY <2>1, <2>10, <3>1
      <4> QED BY <2>7, <2>8, <2>11, <3>1, <4>1 DEF b
    <3>2. CASE k \in 1 .. i
      <4>1. k \in 1 .. Len(x) /\ k \in 1 .. q /\ k # q
        BY <2>1, <2>11, <3>2
      <4>2. z[k] = x[k]
        BY <2>11, <4>1
      <4>3. x[k] = w1[k] /\ w1[k] = want[k]
        BY <2>4, <2>9, <4>1
      <4>4. y[k] = b[k] /\ b[k] = want[k]
        BY <2>7, <2>8, <3>2, <4>1 DEF b
      <4> QED BY <4>2, <4>3, <4>4
    <3>3. CASE k \in q + 1 .. q + Len(w2)
      <4> DEFINE l == k - q
      <4>1. l \in 1 .. Len(w2) /\ k = q + l /\ k # q /\ k \in 1 .. Len(x)
        BY <2>1, <2>9, <2>10, <3>3
      <4> HIDE DEF l
      <4>2. z[k] = x[k] /\ x[k] = w2[l] /\ y[k] = w2[l]
        BY <2>8, <2>9, <2>11, <4>1
      <4> QED BY <4>2
    <3> QED BY <2>1, <2>9, <2>10, <2>11, <3>1, <3>2, <3>3
  <2>13. z = y
    BY <2>8, <2>9, <2>11, <2>12, SameSequence
  <2> QED BY <2>2, <2>13 DEF z, q
<1>9. Within(mem, mem', slice'.arr, slice'.off, slice'.len)
  <2> DEFINE all == Slices!Set(r(i).mem, r(i).slice, i, v)  u == r(i).slice
  <2>1. u.off \in Nat /\ u.len \in Nat
    <3> HIDE DEF x
    <3> QED BY <1>5, SliceFacts
  <2>2. i < u.len /\ u.len <= u.len
    BY <1>6, <2>1
  <2>3. Within(r(i).mem, all, u.arr, u.off, u.len)
    BY <1>7, <2>1, <2>2
  <2>4. mem' = all /\ slice' = u
    BY <1>2
  <2> HIDE DEF all, u
  <2>5. Within(mem, r(i).mem, u.arr, u.off, u.len) /\ all \in Arrays
    BY <1>5, <1>7 DEF u, all
  <2>6. Within(mem, all, u.arr, u.off, u.len)
    BY <1>1, <1>5, <2>1, <2>2, <2>3, <2>5, WithinBoth
  <2> QED BY <2>4, <2>6
<1>10. Becomes(slice', want')
  BY <1>2, <1>7, <1>8, <1>9 DEF Becomes
<1>11. views' = Slices!AllSee(slice', want')
  BY DEF Slices!insert
<1> QED BY <1>10, <1>11, SliceChanges

LEMMA dedupStep ==
    ASSUME SliceInv, Slices!dedup
    PROVE  SliceInv'
<1>1. mem \in Arrays /\ Holds(mem, slice, want)
  BY DEF SliceInv
<1>2. Becomes(slice', want')
  BY <1>1, DedupHolds
<1>3. views' = Slices!AllSee(slice', want')
  BY DEF Slices!dedup
<1> QED BY <1>2, <1>3, SliceChanges

LEMMA filterStep ==
    ASSUME SliceInv, Slices!filter
    PROVE  SliceInv'
<1>1. mem \in Arrays /\ Holds(mem, slice, want)
  BY DEF SliceInv
<1>2. Becomes(slice', want')
  BY <1>1, FilterHolds
<1>3. views' = Slices!AllSee(slice', want')
  BY DEF Slices!filter
<1> QED BY <1>2, <1>3, SliceChanges

\* The new route's slice is the one that comes to have something.
LEMMA registerRouteStep ==
    ASSUME SliceInv, Slices!registerRoute
    PROVE  SliceInv'
<1>1. want \in Seq(Int)
  BY SliceFacts DEF SliceInv
<1>2. PICK handler \in Elements :
         LET r == Slices!AppendTo(mem, slice, <<handler>>)
             own == Append(want, handler)
         IN  /\ mem' = r.mem
             /\ views' = Append(Slices!AllSee(r.slice, own),
                                [slice |-> r.slice, want |-> own, made |-> own])
  BY DEF Slices!registerRoute
<1> DEFINE r == Slices!AppendTo(mem, slice, <<handler>>)
           own == Append(want, handler)
           all == Slices!AllSee(r.slice, own)
           new == [slice |-> r.slice, want |-> own, made |-> own]
<1>3. handler \in Int
  BY SlicesAssumption
<1>4. Becomes(r.slice, own) /\ Holds(mem', slice, want)
  BY <1>2, <1>3, AppendBecomes
<1>5. views' = Append(all, new)
  BY <1>2
<1> HIDE DEF r, own
<1>6. /\ all \in Seq(Views)
      /\ \A q \in 1 .. Len(all) : Holds(mem', all[q].slice, all[q].want)
  BY <1>4, AllSeeIt
<1>7. mem' \in Arrays /\ Holds(mem', r.slice, own)
  BY <1>4 DEF Becomes
<1>8. new \in Views /\ new.slice = r.slice /\ new.want = own
  <2>1. r.slice \in Headers /\ own \in Seq(Int)
    BY <1>7, HoldsHeader
  <2> QED BY <2>1 DEF Views
<1> HIDE DEF all, new
<1>9. /\ views' \in Seq(Views) /\ Len(views') = Len(all) + 1
      /\ views'[Len(all) + 1] = new
      /\ \A q \in 1 .. Len(all) : views'[q] = all[q]
  BY <1>5, <1>6, <1>8
<1>10. ASSUME NEW q \in 1 .. Len(views')
       PROVE  Holds(mem', views'[q].slice, views'[q].want)
  <2>1. q = Len(all) + 1 \/ q \in 1 .. Len(all)
    BY <1>6, <1>9
  <2> QED BY <1>6, <1>7, <1>8, <1>9, <2>1
<1>11. slice' = slice /\ want' = want
  BY DEF Slices!registerRoute
<1> QED BY <1>4, <1>7, <1>9, <1>10, <1>11 DEF SliceInv

LEMMA SlicesStep == SliceInv /\ [Next]_vars => SliceInv'
<1> SUFFICES ASSUME SliceInv, [Next]_vars PROVE SliceInv'
  OBVIOUS
<1>1. ASSUME UNCHANGED sliceVars PROVE SliceInv'
  BY <1>1 DEF SliceInv, sliceVars
<1>2. CASE slicesAndRoutes
  <2>1. Slices!Next
    BY <1>2 DEF slicesAndRoutes
  <2>2. CASE Slices!structure
    BY <2>2, structureStep
  <2>3. CASE Slices!capacityAndGrowth
    BY <2>3, growthStep
  <2>4. CASE Slices!modifySlice
    BY <2>4, modifySliceStep
  <2>5. CASE Slices!appendSlice
    BY <2>5, appendSliceStep
  <2>6. CASE Slices!sliceTraps
    BY <2>6, sliceTrapsStep
  <2>7. CASE Slices!removeFast
    BY <2>7, removeFastStep
  <2>8. CASE Slices!remove
    BY <2>8, removeStep
  <2>9. CASE Slices!insert
    BY <2>9, insertStep
  <2>10. CASE Slices!dedup
    BY <2>10, dedupStep
  <2>11. CASE Slices!filter
    BY <2>11, filterStep
  <2>12. CASE Slices!registerRoute
    BY <2>12, registerRouteStep
  <2> QED BY <2>1, <2>2, <2>3, <2>4, <2>5, <2>6, <2>7, <2>8, <2>9, <2>10, <2>11, <2>12
          DEF Slices!Next, Slices!sliceAsParameter, Slices!sliceTricks
<1>3. CASE chainingHashMap
  BY <1>1, <1>3 DEF chainingHashMap
<1>4. CASE valueContext
  BY <1>1, <1>4 DEF valueContext
<1>5. CASE dataPassing
  BY <1>1, <1>5 DEF dataPassing
<1>6. CASE idempotent
  BY <1>1, <1>6 DEF idempotent
<1>7. CASE trees
  BY <1>1, <1>7 DEF trees
<1>8. CASE bPlusTreeIndex
  BY <1>1, <1>8 DEF bPlusTreeIndex
<1>9. CASE protobufEncoding
  BY <1>1, <1>9 DEF protobufEncoding
<1>10. CASE middlewares
  BY <1>1, <1>10 DEF middlewares
<1>11. CASE deferredCalls
  BY <1>1, <1>11 DEF deferredCalls
<1>12. CASE UNCHANGED vars
  BY <1>1, <1>12 DEF vars
<1> QED BY <1>2, <1>3, <1>4, <1>5, <1>6, <1>7, <1>8, <1>9, <1>10, <1>11, <1>12 DEF Next

\* A group of one or two middlewares has no room behind them, so each append
\* copies, and nothing of a route is in the array of the group.
RouteInv ==
    group /\ slice.len <= 2 =>
       /\ slice.len >= 1 /\ slice.cap = slice.len
       /\ \A q \in 1 .. Len(views) :
             views[q].want = views[q].made /\ views[q].slice.arr # slice.arr

\* A slice in an array that was there sees nothing of what is in a new one.
LEMMA OtherArraySeesNothing ==
    ASSUME NEW view \in Views, NEW t, NEW w, view.slice.arr # t.arr
    PROVE  Slices!Seen(view, t, w) = view
<1>1. view \in [slice : Headers, want : Seq(Int), made : Seq(Int)]
  BY DEF Views
<1>2. Slices!Seen(view, t, w) = [view EXCEPT !.want = [k \in DOMAIN @ |-> @[k]]]
  BY DEF Slices!Seen
<1> DEFINE x == view.want
<1>3. x \in Seq(Int) /\ [k \in DOMAIN x |-> x[k]] = x
  BY <1>1
<1>4. Slices!Seen(view, t, w) = [view EXCEPT !.want = x]
  BY <1>2, <1>3
<1> HIDE DEF x
<1> QED BY <1>1, <1>4 DEF x

LEMMA FullSliceAppends ==
    ASSUME NEW m \in Arrays, NEW t, NEW w, Holds(m, t, w), t.cap = t.len,
           NEW one \in Seq(Int), Len(one) = 1,
           NEW r, r = Slices!AppendTo(m, t, one)
    PROVE  /\ r.slice.arr = Len(m) + 1 /\ r.slice.len = t.len + 1
           /\ r.slice.cap = Slices!Grown(t.len, t.len + 1)
<1>1. t.len + Len(one) > t.cap
  <2>1. t.len \in Nat
    BY SliceFacts
  <2> QED BY <2>1
<1>2. ASSUME NEW k, k = t.cap, t.len + Len(one) > k
      PROVE  /\ r.slice.arr = Len(m) + 1 /\ r.slice.len = t.len + Len(one)
             /\ r.slice.cap = Slices!Grown(k, t.len + Len(one))
  BY ONLY Holds(m, t, w), m \in Arrays, one \in Seq(Int), <1>2,
          r = Slices!AppendTo(m, t, one), AppendCopies
<1>3. /\ r.slice.arr = Len(m) + 1 /\ r.slice.len = t.len + Len(one)
      /\ r.slice.cap = Slices!Grown(t.cap, t.len + Len(one))
  BY <1>1, <1>2
<1> QED BY <1>3

\* So every append to such a group is into a copy, and its routes stay.
LEMMA GroupAppends ==
    ASSUME SliceInv, RouteInv, group, slice.len <= 2, NEW v \in Int,
           NEW r, r = Slices!AppendTo(mem, slice, <<v>>), NEW w
    PROVE  /\ r.slice.arr = Len(mem) + 1 /\ r.slice.len = slice.len + 1
           /\ r.slice.cap = Slices!Grown(slice.len, slice.len + 1)
           /\ slice.arr \in 1 .. Len(mem)
           /\ \A q \in 1 .. Len(views) : views[q].slice.arr \in 1 .. Len(mem)
           /\ Slices!AllSee(r.slice, w) = views
<1>1. /\ mem \in Arrays /\ Holds(mem, slice, want) /\ Len(mem) \in Nat
      /\ slice.len \in Nat /\ slice.arr \in 1 .. Len(mem) /\ slice.cap = slice.len
  <2>1. mem \in Arrays /\ Holds(mem, slice, want)  BY DEF SliceInv
  <2>2. Len(mem) \in Nat  BY <2>1 DEF Arrays
  <2> QED BY <2>1, <2>2, SliceFacts DEF RouteInv
<1>2. /\ r.slice.arr = Len(mem) + 1 /\ r.slice.len = slice.len + 1
      /\ r.slice.cap = Slices!Grown(slice.len, slice.len + 1)
  <2> DEFINE one == <<v>>
  <2>1. one \in Seq(Int) /\ Len(one) = 1 /\ r = Slices!AppendTo(mem, slice, one)
    OBVIOUS
  <2> HIDE DEF one
  <2> QED BY <1>1, <2>1, FullSliceAppends
<1>3. ASSUME NEW q \in 1 .. Len(views)
      PROVE  views[q].slice.arr \in 1 .. Len(mem) /\ views[q] \in Views
  <2>1. Holds(mem, views[q].slice, views[q].want) /\ views[q] \in Views
    BY DEF SliceInv
  <2> QED BY <1>1, <2>1, SliceFacts
<1>4. ASSUME NEW q \in 1 .. Len(views)
      PROVE  Slices!Seen(views[q], r.slice, w) = views[q]
  <2>1. views[q].slice.arr # r.slice.arr
    BY <1>1, <1>2, <1>3
  <2> QED BY <1>3, <2>1, OtherArraySeesNothing
<1>5. Slices!AllSee(r.slice, w) = views
  <2>1. views \in Seq(Views) /\ DOMAIN views = 1 .. Len(views)
    BY DEF SliceInv
  <2>2. Slices!AllSee(r.slice, w) =
          [q \in 1 .. Len(views) |-> Slices!Seen(views[q], r.slice, w)]
    BY <2>1 DEF Slices!AllSee
  <2>3. views = [q \in 1 .. Len(views) |-> views[q]]
    BY <2>1
  <2> QED BY <1>4, <2>2, <2>3
<1> QED BY <1>1, <1>2, <1>3, <1>5

\* One middleware becomes two in an array of two.
LEMMA GroupGrows ==
    ASSUME SliceInv, RouteInv, Slices!capacityAndGrowth
    PROVE  RouteInv'
<1> SUFFICES ASSUME group', slice'.len <= 2
             PROVE  /\ slice'.len >= 1 /\ slice'.cap = slice'.len
                    /\ \A q \in 1 .. Len(views') :
                          /\ views'[q].want = views'[q].made
                          /\ views'[q].slice.arr # slice'.arr
  BY DEF RouteInv
<1>1. PICK v \in Elements :
         LET r == Slices!AppendTo(mem, slice, <<v>>)
         IN  slice' = r.slice /\ want' = Append(want, v)
  BY DEF Slices!capacityAndGrowth
<1>2. v \in Int /\ group /\ views' = Slices!AllSee(slice', want')
  BY SlicesAssumption DEF Slices!capacityAndGrowth
<1>3. slice.len \in Nat /\ Len(mem) \in Nat
  <2>1. mem \in Arrays /\ Holds(mem, slice, want)  BY DEF SliceInv
  <2> QED BY <2>1, SliceFacts DEF Arrays
<1>4. slice'.len = slice.len + 1
  <2>1. mem \in Arrays /\ Holds(mem, slice, want) /\ <<v>> \in Seq(Int)
        /\ Len(<<v>>) = 1
    BY <1>2 DEF SliceInv
  <2> QED BY <1>1, <2>1, AppendHolds
<1>5. slice.len <= 2 /\ slice.len >= 1 /\ slice.len = 1
  BY <1>2, <1>3, <1>4 DEF RouteInv
<1>6. /\ slice'.arr = Len(mem) + 1 /\ slice'.cap = Slices!Grown(1, 2)
      /\ \A q \in 1 .. Len(views) : views[q].slice.arr \in 1 .. Len(mem)
      /\ Slices!AllSee(slice', want') = views
  <2> DEFINE r == Slices!AppendTo(mem, slice, <<v>>)
  <2>1. /\ r.slice.arr = Len(mem) + 1
        /\ r.slice.cap = Slices!Grown(slice.len, slice.len + 1)
        /\ \A q \in 1 .. Len(views) : views[q].slice.arr \in 1 .. Len(mem)
        /\ Slices!AllSee(r.slice, want') = views
    BY <1>2, <1>5, GroupAppends
  <2>2. slice' = r.slice /\ slice.len + 1 = 2
    BY <1>1, <1>5
  <2> HIDE DEF r
  <2> QED BY <1>5, <2>1, <2>2
<1>7. Slices!Grown(1, 2) = 2
  <2>1. {2 * 1, 2} = {2}
    OBVIOUS
  <2>2. Slices!Grown(1, 2) = CHOOSE x \in {2} : \A y \in {2} : x >= y
    BY <2>1 DEF Slices!Grown, Slices!Max
  <2>3. \E x \in {2} : \A y \in {2} : x >= y
    OBVIOUS
  <2> QED BY <2>2, <2>3
<1>8. \A q \in 1 .. Len(views) : views[q].want = views[q].made
  BY <1>2, <1>5 DEF RouteInv
<1> QED BY <1>2, <1>3, <1>4, <1>5, <1>6, <1>7, <1>8

LEMMA GroupRegisters ==
    ASSUME SliceInv, RouteInv, Slices!registerRoute
    PROVE  RouteInv'
<1> SUFFICES ASSUME group', slice'.len <= 2
             PROVE  /\ slice'.len >= 1 /\ slice'.cap = slice'.len
                    /\ \A q \in 1 .. Len(views') :
                          /\ views'[q].want = views'[q].made
                          /\ views'[q].slice.arr # slice'.arr
  BY DEF RouteInv
<1>1. group /\ slice' = slice /\ slice.len <= 2
  BY DEF Slices!registerRoute
<1>2. PICK handler \in Elements :
         LET r == Slices!AppendTo(mem, slice, <<handler>>)
             own == Append(want, handler)
         IN  views' = Append(Slices!AllSee(r.slice, own),
                             [slice |-> r.slice, want |-> own, made |-> own])
  BY DEF Slices!registerRoute
<1> DEFINE r == Slices!AppendTo(mem, slice, <<handler>>)
           own == Append(want, handler)
           new == [slice |-> r.slice, want |-> own, made |-> own]
<1>3. handler \in Int
  BY SlicesAssumption
<1>4. /\ r.slice.arr = Len(mem) + 1 /\ slice.arr \in 1 .. Len(mem)
      /\ Slices!AllSee(r.slice, own) = views
  BY <1>1, <1>3, GroupAppends
<1>5. views' = Append(views, new)
  BY <1>2, <1>4
<1>6. views \in Seq(Views) /\ Len(mem) \in Nat
  BY DEF SliceInv, Arrays
<1>7. new.want = new.made /\ new.slice.arr # slice.arr
  BY <1>4, <1>6
<1> HIDE DEF new
<1>8. \A q \in 1 .. Len(views') :
         (q \in 1 .. Len(views) /\ views'[q] = views[q]) \/ views'[q] = new
  BY <1>5, <1>6
<1> QED BY <1>1, <1>7, <1>8 DEF RouteInv

LEMMA RouteStep == SliceInv /\ RouteInv /\ [Next]_vars => RouteInv'
<1> SUFFICES ASSUME SliceInv, RouteInv, [Next]_vars PROVE RouteInv'
  OBVIOUS
<1>1. ASSUME UNCHANGED sliceVars PROVE RouteInv'
  BY <1>1 DEF RouteInv, sliceVars
<1>2. CASE slicesAndRoutes
  <2>1. (~group /\ group' = group) \/ Slices!capacityAndGrowth \/ Slices!registerRoute
    BY <1>2 DEF slicesAndRoutes, Slices!Next, Slices!structure, Slices!sliceTraps,
                Slices!sliceAsParameter, Slices!modifySlice, Slices!appendSlice,
                Slices!sliceTricks, Slices!removeFast, Slices!remove,
                Slices!insert, Slices!dedup, Slices!filter
  <2> QED BY <2>1, GroupGrows, GroupRegisters DEF RouteInv
<1>3. Next => slicesAndRoutes \/ UNCHANGED sliceVars
  BY DEF Next, chainingHashMap, valueContext, dataPassing, idempotent, trees,
         bPlusTreeIndex, protobufEncoding, middlewares, deferredCalls
<1> QED BY <1>1, <1>2, <1>3 DEF vars

LEMMA InitRoutes == Init => RouteInv
<1> SUFFICES ASSUME Init, group PROVE RouteInv
  BY DEF RouteInv
<1>1. Slices!Init
  BY DEF Init, IdleSlice
<1>2. PICK values \in Slices!BoundedSeq(Elements, MaxSlice) :
         Len(values) = 1 /\ slice = Slices!Literal(values)
  BY <1>1 DEF Slices!Init
<1>3. slice.len = 1 /\ slice.cap = 1 /\ Len(views) = 0
  BY <1>1, <1>2 DEF Slices!Init, Slices!Literal, Slices!Header
<1> QED BY <1>3 DEF RouteInv

\* Of slices that share arrays each has what the operations mean, for all
\* elements, lengths and capacities and any number of slices: what is appended,
\* cut, filtered or removed in one shows in the others in the places both have,
\* and in no other place of theirs.  Of a group with one or two middlewares every
\* route keeps the middlewares and the handler it was made of.
THEOREM SlicesKeepTheirMeaning == Spec => []SlicesAsSpecified
<1>1. SliceInv /\ RouteInv => SlicesAsSpecified
  <2> SUFFICES ASSUME SliceInv, RouteInv PROVE SlicesAsSpecified
    OBVIOUS
  <2>1. Slices!Content(mem, slice) = want
    BY HoldsIsContent DEF SliceInv
  <2>2. ASSUME NEW q \in DOMAIN views
        PROVE  /\ Slices!Content(mem, views[q].slice) = views[q].want
               /\ group /\ slice.len <= 2 => views[q].want = views[q].made
    <3>1. q \in 1 .. Len(views)
      BY DEF SliceInv
    <3>2. Slices!Content(mem, views[q].slice) = views[q].want
      BY <3>1, HoldsIsContent DEF SliceInv
    <3> QED BY <3>1, <3>2 DEF RouteInv
  <2> QED BY <2>1, <2>2 DEF SlicesAsSpecified, Slices!SlicesAsSpecified
<1> QED BY <1>1, InitSlices, SlicesStep, InitRoutes, RouteStep, PTL DEF Spec

-----------------------------------------------------------------------------
(*                            The B+ tree                                  *)

\* The keys ascend within a leaf and from one to the next; the search goes down
\* to the only leaf that can have the key.
IndexInv ==
    /\ leaves \in Seq(Seq(Int)) /\ Len(leaves) >= 1 /\ searchKey \in Int
    /\ \A l \in 1 .. Len(leaves) : Len(leaves[l]) >= 1
    /\ \A l, m \in 1 .. Len(leaves) :
          \A i \in 1 .. Len(leaves[l]), j \in 1 .. Len(leaves[m]) :
             l < m \/ (l = m /\ i < j) => leaves[l][i] < leaves[m][j]
    /\ level \in 1 .. 3
    /\ level >= 2 =>
          /\ childIndex \in 0 .. Len(leaves) - 1
          /\ childIndex > 0 => searchKey >= leaves[childIndex + 1][1]
          /\ \A m \in childIndex + 2 .. Len(leaves) : searchKey < leaves[m][1]
    /\ level = 3 =>
          answer = IF searchKey \in Index!Range(leaves[childIndex + 1]) THEN searchKey
                   ELSE Index!Missing

LEMMA MaxIsGreatest ==
    ASSUME NEW top \in Nat, NEW T \in SUBSET (0 .. top), T # {}
    PROVE  Index!Max(T) \in T /\ \A k \in T : Index!Max(T) >= k
<1> DEFINE R == {k \in 0 .. top : top - k \in T}
<1>1. R \in SUBSET Nat /\ R # {}
  <2>1. PICK k \in T : TRUE
    OBVIOUS
  <2>2. top - k \in 0 .. top /\ top - (top - k) = k
    OBVIOUS
  <2> QED BY <2>1, <2>2
<1>2. PICK least \in R : \A k \in R : least <= k
  BY <1>1, Least
<1>3. ASSUME NEW k \in T PROVE top - least >= k
  <2>1. top - k \in 0 .. top /\ top - (top - k) = k
    OBVIOUS
  <2>2. least <= top - k
    BY <1>2, <2>1
  <2> QED BY <1>2, <2>1, <2>2
<1>4. top - least \in T
  BY <1>2
<1>5. \E x \in T : \A k \in T : x >= k
  BY <1>3, <1>4
<1> QED BY <1>5 DEF Index!Max

\* Leaf l of the ascending keys has the LeafSize keys from its first on.
LEMMA LeafIs ==
    ASSUME NEW c \in Nat, NEW order \in Seq(Int), Len(order) = c * LeafSize, NEW l \in 1 .. c
    PROVE  LET leaf == SubSeq(order, (l - 1) * LeafSize + 1, l * LeafSize)
           IN  /\ leaf \in Seq(Int) /\ Len(leaf) = LeafSize
               /\ \A i \in 1 .. LeafSize : /\ (l - 1) * LeafSize + i \in 1 .. Len(order)
                                           /\ leaf[i] = order[(l - 1) * LeafSize + i]
<1> DEFINE lo == (l - 1) * LeafSize  hi == l * LeafSize
<1>1. LeafSize \in Nat /\ LeafSize > 0
  BY IndexAssumption
<1>2. lo \in Nat /\ hi \in Nat /\ hi = lo + LeafSize
  BY <1>1
<1>3. hi <= Len(order)
  <2>1. c = l + (c - l) /\ c - l \in Nat
    OBVIOUS
  <2>2. c * LeafSize = hi + (c - l) * LeafSize /\ (c - l) * LeafSize \in Nat
    BY <1>1, <2>1
  <2> QED BY <1>2, <2>2
<1> HIDE DEF lo, hi
<1> DEFINE leaf == SubSeq(order, lo + 1, hi)
<1>4. lo + 1 \in 1 .. Len(order) + 1 /\ \A i \in 1 .. LeafSize : lo + i \in 1 .. Len(order)
  BY <1>1, <1>2, <1>3
<1>5. leaf \in Seq(Int) /\ Len(leaf) = LeafSize /\ \A i \in 1 .. LeafSize : leaf[i] = order[lo + i]
  BY <1>1, <1>2, <1>3, <1>4
<1> QED BY <1>4, <1>5 DEF lo, hi

LEMMA InitIndex == Init => IndexInv
<1> SUFFICES ASSUME Init PROVE IndexInv
  OBVIOUS
<1>1. CASE IdleIndex
  <2> DEFINE e == <<1>>
  <2>1. e \in Seq(Int) /\ Len(e) = 1 /\ e[1] = 1 /\ leaves = <<e>> /\ searchKey = 1 /\ level = 1
    BY <1>1 DEF IdleIndex
  <2> HIDE DEF e
  <2>2. leaves \in Seq(Seq(Int)) /\ Len(leaves) = 1 /\ leaves[1] = e /\ 1 .. 1 = {1}
    BY <2>1
  <2>3. \A l \in 1 .. Len(leaves) : l = 1
    BY <2>2
  <2>4. \A i \in 1 .. Len(leaves[1]) : i = 1
    BY <2>1, <2>2
  <2>5. \A l, m \in 1 .. Len(leaves) :
          \A i \in 1 .. Len(leaves[l]), j \in 1 .. Len(leaves[m]) :
             ~(l < m \/ (l = m /\ i < j))
    BY <2>3, <2>4
  <2>6. \A l \in 1 .. Len(leaves) : Len(leaves[l]) >= 1
    <3>1. leaves[1] = e /\ Len(e) = 1 /\ 1 >= 1
      BY <2>1, <2>2
    <3>2. Len(leaves[1]) >= 1
      BY ONLY <3>1
    <3> QED BY <2>3, <3>2, Zenon
  <2>7. \A l, m \in 1 .. Len(leaves) :
          \A i \in 1 .. Len(leaves[l]), j \in 1 .. Len(leaves[m]) :
             l < m \/ (l = m /\ i < j) => leaves[l][i] < leaves[m][j]
    BY <2>5, Zenon
  <2>8. leaves \in Seq(Seq(Int)) /\ Len(leaves) >= 1 /\ searchKey \in Int /\ level = 1
    BY <2>1, <2>2
  <2> QED BY <2>6, <2>7, <2>8 DEF IndexInv
<1>2. CASE Index!Init
  <2>a. PICK c \in 1 .. MaxLeaves : \E order \in [1 .. c * LeafSize -> 1 .. LastKey] :
           Index!Ascending(order) /\ leaves = Index!Leaves(order, c)
    BY <1>2 DEF Index!Init
  <2>1. PICK order \in [1 .. c * LeafSize -> 1 .. LastKey] :
           Index!Ascending(order) /\ leaves = Index!Leaves(order, c)
    BY <2>a
  <2>2. LeafSize \in Nat /\ LeafSize > 0 /\ c \in Nat /\ c >= 1 /\ c * LeafSize \in Nat
    BY IndexAssumption
  <2>3. order \in Seq(Int) /\ Len(order) = c * LeafSize /\ DOMAIN order = 1 .. Len(order)
    BY <2>1, <2>2
  <2> DEFINE leaf(l) == SubSeq(order, (l - 1) * LeafSize + 1, l * LeafSize)
  <2>4. leaves = [l \in 1 .. c |-> leaf(l)]
    BY <2>1 DEF Index!Leaves
  <2>5. \A l \in 1 .. c : /\ leaf(l) \in Seq(Int) /\ Len(leaf(l)) = LeafSize
                          /\ \A i \in 1 .. LeafSize :
                                /\ (l - 1) * LeafSize + i \in 1 .. Len(order)
                                /\ leaf(l)[i] = order[(l - 1) * LeafSize + i]
    BY <2>2, <2>3, LeafIs
  <2> HIDE DEF leaf
  <2>6. leaves \in Seq(Seq(Int)) /\ Len(leaves) = c /\ \A l \in 1 .. c : leaves[l] = leaf(l)
    BY <2>2, <2>4, <2>5
  <2>7. ASSUME NEW l \in 1 .. c, NEW m \in 1 .. c, NEW i \in 1 .. LeafSize, NEW j \in 1 .. LeafSize,
               l < m \/ (l = m /\ i < j)
        PROVE  leaves[l][i] < leaves[m][j]
    <3> DEFINE p == (l - 1) * LeafSize  q == (m - 1) * LeafSize
    <3>1. /\ p + i \in 1 .. Len(order) /\ leaves[l][i] = order[p + i]
          /\ q + j \in 1 .. Len(order) /\ leaves[m][j] = order[q + j]
      <4>1. leaves[l] = leaf(l) /\ leaves[m] = leaf(m)
        BY <2>6
      <4>2. p + i \in 1 .. Len(order) /\ leaf(l)[i] = order[p + i]
        BY <2>5
      <4>3. q + j \in 1 .. Len(order) /\ leaf(m)[j] = order[q + j]
        BY <2>5
      <4> QED BY <4>1, <4>2, <4>3
    <3>2. p \in Nat /\ q \in Nat
      BY <2>2
    <3>3. l < m => p + LeafSize <= q
      <4> SUFFICES ASSUME l < m PROVE p + LeafSize <= q
        OBVIOUS
      <4> DEFINE e == m - l - 1
      <4>1. e \in Nat /\ m - 1 = l - 1 + 1 + e
        OBVIOUS
      <4>2. e * LeafSize \in Nat
        BY <2>2, <4>1
      <4> HIDE DEF e
      <4>3. q = p + LeafSize + e * LeafSize
        BY <2>2, <4>1
      <4> HIDE DEF p, q
      <4> QED BY <2>2, <3>2, <4>2, <4>3
    <3>4. l = m => p = q
      OBVIOUS
    <3> HIDE DEF p, q
    <3>5. p + i < q + j
      BY <2>2, <2>7, <3>2, <3>3, <3>4
    <3> QED BY <2>1, <2>3, <3>1, <3>5 DEF Index!Ascending
  <2>8. \A l \in 1 .. Len(leaves) : Len(leaves[l]) = LeafSize
    BY <2>5, <2>6
  <2>9. \A l, m \in 1 .. Len(leaves) :
          \A i \in 1 .. Len(leaves[l]), j \in 1 .. Len(leaves[m]) :
             l < m \/ (l = m /\ i < j) => leaves[l][i] < leaves[m][j]
    BY <2>6, <2>7, <2>8
  <2>10. level = 1
    BY <1>2 DEF Index!Init
  <2>11. searchKey \in Int
    BY <1>2, IndexAssumption DEF Index!Init
  <2>12. Len(leaves) >= 1 /\ \A l \in 1 .. Len(leaves) : Len(leaves[l]) >= 1
    BY <2>2, <2>6, <2>8
  <2> QED BY <2>6, <2>9, <2>10, <2>11, <2>12 DEF IndexInv
<1> QED BY <1>1, <1>2 DEF Init

LEMMA descendStep ==
    ASSUME IndexInv, Index!descend
    PROVE  IndexInv'
<1> DEFINE N == Len(leaves)
           T == {0} \cup {i \in DOMAIN Index!Root : searchKey >= Index!Root[i]}
<1>1. /\ childIndex' = Index!Max(T) /\ level' = 2
      /\ leaves' = leaves /\ searchKey' = searchKey
  BY DEF Index!descend
<1>2. N \in Nat /\ N >= 1 /\ leaves \in Seq(Seq(Int)) /\ searchKey \in Int
  BY DEF IndexInv
<1>3. /\ DOMAIN Index!Root = 1 .. N - 1
      /\ \A i \in 1 .. N - 1 : Index!Root[i] = leaves[i + 1][1]
  BY DEF Index!Root
<1> HIDE DEF N
<1>4. N - 1 \in Nat /\ T \in SUBSET (0 .. N - 1) /\ T # {}
  BY <1>2, <1>3
<1>5. childIndex' \in T /\ \A k \in T : childIndex' >= k
  BY <1>1, <1>4, MaxIsGreatest
<1>6. childIndex' \in 0 .. N - 1
  BY <1>4, <1>5
<1>7. childIndex' > 0 => searchKey >= leaves[childIndex' + 1][1]
  BY <1>3, <1>5
<1>8. ASSUME NEW m \in childIndex' + 2 .. N PROVE searchKey < leaves[m][1]
  <2>1. m - 1 \in 1 .. N - 1 /\ (m - 1) + 1 = m /\ ~(childIndex' >= m - 1)
    <3> DEFINE ci == childIndex'
    <3>1. ci \in 0 .. N - 1 /\ N \in Nat /\ m \in ci + 2 .. N
      BY <1>2, <1>6, <1>8
    <3> HIDE DEF ci
    <3>2. m - 1 \in 1 .. N - 1 /\ (m - 1) + 1 = m /\ ~(ci >= m - 1)
      BY <3>1
    <3> QED BY <3>2 DEF ci
  <2>2. ~(searchKey >= leaves[m][1])
    BY <1>3, <1>5, <2>1
  <2>3. leaves[m][1] \in Int
    <3>1. m \in 1 .. N /\ Len(leaves[m]) >= 1
      BY <1>2, <2>1 DEF IndexInv, N
    <3>2. leaves[m] \in Seq(Int) /\ 1 \in 1 .. Len(leaves[m])
      BY <1>2, <3>1 DEF N
    <3> QED BY <3>2
  <2> QED BY <1>2, <2>2, <2>3
<1> HIDE DEF T
<1>9. /\ level' \in 1 .. 3 /\ level' # 3
      /\ childIndex' \in 0 .. Len(leaves') - 1
      /\ childIndex' > 0 => searchKey' >= leaves'[childIndex' + 1][1]
      /\ \A m \in childIndex' + 2 .. Len(leaves') : searchKey' < leaves'[m][1]
  BY <1>1, <1>6, <1>7, <1>8 DEF N
<1>10. /\ leaves' \in Seq(Seq(Int)) /\ Len(leaves') >= 1 /\ searchKey' \in Int
       /\ \A l \in 1 .. Len(leaves') : Len(leaves'[l]) >= 1
       /\ \A l, m \in 1 .. Len(leaves') :
             \A i \in 1 .. Len(leaves'[l]), j \in 1 .. Len(leaves'[m]) :
                l < m \/ (l = m /\ i < j) => leaves'[l][i] < leaves'[m][j]
  BY <1>1 DEF IndexInv
<1> QED BY <1>9, <1>10 DEF IndexInv

LEMMA scanLeafStep ==
    ASSUME IndexInv, Index!scanLeaf
    PROVE  IndexInv'
BY DEF IndexInv, Index!scanLeaf

LEMMA IndexStep == IndexInv /\ [Next]_vars => IndexInv'
<1> SUFFICES ASSUME IndexInv, [Next]_vars PROVE IndexInv'
  OBVIOUS
<1>1. ASSUME UNCHANGED indexVars PROVE IndexInv'
  BY <1>1 DEF IndexInv, indexVars
<1>2. CASE bPlusTreeIndex
  BY <1>2, descendStep, scanLeafStep DEF bPlusTreeIndex, Index!Next
<1>3. chainingHashMap \/ valueContext \/ dataPassing \/ idempotent \/ trees
      \/ protobufEncoding \/ slicesAndRoutes \/ middlewares \/ deferredCalls
      \/ UNCHANGED vars => UNCHANGED indexVars
  BY DEF chainingHashMap, valueContext, dataPassing, idempotent, trees, protobufEncoding,
         slicesAndRoutes, middlewares, deferredCalls, vars
<1> QED BY <1>1, <1>2, <1>3 DEF Next

LEMMA IndexIsRight == IndexInv => Index!SearchFindsTheRow
<1> SUFFICES ASSUME IndexInv, level = 3 PROVE Index!SearchFindsTheRow
  BY DEF Index!SearchFindsTheRow
<1> DEFINE N == Len(leaves)  c == childIndex + 1
<1>1. /\ N \in Nat /\ leaves \in Seq(Seq(Int)) /\ searchKey \in Int /\ DOMAIN leaves = 1 .. N
      /\ childIndex \in 0 .. N - 1
      /\ childIndex > 0 => searchKey >= leaves[c][1]
      /\ \A m \in childIndex + 2 .. N : searchKey < leaves[m][1]
      /\ answer = IF searchKey \in Index!Range(leaves[c]) THEN searchKey ELSE Index!Missing
      /\ \A l \in 1 .. N : Len(leaves[l]) >= 1
      /\ \A l, m \in 1 .. N :
            \A i \in 1 .. Len(leaves[l]), j \in 1 .. Len(leaves[m]) :
               l < m \/ (l = m /\ i < j) => leaves[l][i] < leaves[m][j]
  BY DEF IndexInv
<1>2. c \in 1 .. N
  BY <1>1
<1>3. \A l \in 1 .. N : /\ leaves[l] \in Seq(Int) /\ DOMAIN leaves[l] = 1 .. Len(leaves[l])
                        /\ 1 \in 1 .. Len(leaves[l])
  <2> SUFFICES ASSUME NEW l \in 1 .. N
               PROVE  /\ leaves[l] \in Seq(Int) /\ DOMAIN leaves[l] = 1 .. Len(leaves[l])
                      /\ 1 \in 1 .. Len(leaves[l])
    OBVIOUS
  <2>1. leaves[l] \in Seq(Int) /\ Len(leaves[l]) >= 1
    BY <1>1
  <2> QED BY <2>1
<1>4. ASSUME NEW l \in 1 .. N, NEW i \in 1 .. Len(leaves[l]), leaves[l][i] = searchKey
      PROVE  l = c
  <2>1. leaves[l][i] \in Int /\ leaves[c][1] \in Int /\ leaves[l][1] \in Int
    BY <1>2, <1>3
  <2>2. ~(l < c)
    <3> SUFFICES ASSUME l < c PROVE FALSE
      OBVIOUS
    <3>1. leaves[l][i] < leaves[c][1]
      BY <1>1, <1>2, <1>3
    <3>2. childIndex > 0
      BY <1>1
    <3> QED BY <1>1, <1>4, <2>1, <3>1, <3>2
  <2>3. ~(l > c)
    <3> SUFFICES ASSUME l > c PROVE FALSE
      OBVIOUS
    <3>1. l \in childIndex + 2 .. N
      BY <1>1
    <3>2. searchKey < leaves[l][1]
      BY <1>1, <3>1
    <3>3. i = 1 \/ 1 < i
      OBVIOUS
    <3>4. i = 1 \/ leaves[l][1] < leaves[l][i]
      BY <1>1, <1>3, <3>3
    <3> QED BY <1>1, <1>4, <2>1, <3>2, <3>4
  <2> QED BY <1>1, <2>2, <2>3
<1>5. (\E l \in DOMAIN leaves : searchKey \in Index!Range(leaves[l]))
         <=> searchKey \in Index!Range(leaves[c])
  BY <1>1, <1>2, <1>3, <1>4 DEF Index!Range
<1> QED BY <1>1, <1>5 DEF Index!SearchFindsTheRow

-----------------------------------------------------------------------------
(*                          Chains of handlers                             *)

Calls == {"next", "abort"}
Frames == [handler : Nat, rest : Seq(Calls), loops : BOOLEAN]
Events == {"begin", "end"} \X Nat

\* How many of its calls a handler on the stack has made.
Done(f) == Len(handlers[f.handler]) - Len(f.rest)

\* b handlers have begun; those no longer on the stack have ended.
Ended(c, b) == c \in 1 .. b /\ \A i \in 1 .. Len(stack) : stack[i].handler # c
Aborts(c) == \E k \in 1 .. Len(handlers[c]) : handlers[c][k] = "abort"

ChainTypes(b) ==
    /\ style \in {"onion", "gin"} /\ handlers \in Seq(Seq(Calls))
    /\ index \in Nat /\ aborted \in BOOLEAN
    /\ stack \in Seq(Frames) /\ trace \in Seq(Events)
    /\ b \in 0 .. Len(handlers) /\ (handlers # <<>> => b >= 1)

\* A frame: its handler has begun, has made the first of its calls, and raised
\* the flag if abort was among them.
FrameOK(f, b, flag) ==
    /\ f \in Frames /\ f.handler \in 1 .. b
    /\ f.loops => style = "gin" /\ Done(f) >= 1
    /\ Done(f) \in Nat
    /\ \A k \in 1 .. Len(f.rest) : f.rest[k] = handlers[f.handler][Done(f) + k]
    /\ \A k \in 1 .. Done(f) : handlers[f.handler][k] = "abort" => flag

\* Each handler on the stack was let in by the one below it.
StackOK(s, b, flag) ==
    /\ \A i \in 1 .. Len(s) :
          /\ FrameOK(s[i], b, flag)
          /\ i = Len(s) => s[i].handler = 1
          /\ i > 1 => s[i].loops = (style = "gin")
    /\ \A i, j \in 1 .. Len(s) : i < j => s[j].handler < s[i].handler
StackPart(b) == StackOK(stack, b, aborted)

\* The trace has what began and what ended, once and in order.
OnlyEvents(b) ==
    \A k \in 1 .. Len(trace) :
       \/ \E c \in 1 .. b : trace[k] = Chain!Begin(c)
       \/ \E c \in 1 .. b : Ended(c, b) /\ trace[k] = Chain!End(c)
AllEvents(b) ==
    \A c \in 1 .. b :
       /\ \E k \in 1 .. Len(trace) : trace[k] = Chain!Begin(c)
       /\ Ended(c, b) => \E k \in 1 .. Len(trace) : trace[k] = Chain!End(c)
EventsOnce == \A k, l \in 1 .. Len(trace) : k # l => trace[k] # trace[l]
BeginInOrder(b) ==
    \A m, c \in 1 .. b, k, l \in 1 .. Len(trace) :
       m < c /\ trace[k] = Chain!Begin(m) /\ trace[l] = Chain!Begin(c) => k < l
TracePart(b) == OnlyEvents(b) /\ AllEvents(b) /\ EventsOnce /\ BeginInOrder(b)

\* Of a handler that aborts, and of each in the onion: what began after it has
\* ended before it, and after it has ended nothing begins.
NestingPart(b) ==
    /\ \A a, c \in 1 .. b :
          a < c /\ Ended(a, b) /\ (style = "onion" \/ Aborts(a)) =>
          /\ Ended(c, b)
          /\ \A k, l \in 1 .. Len(trace) :
                trace[k] = Chain!End(c) /\ trace[l] = Chain!End(a) => k < l
    /\ \A a \in 1 .. b : Ended(a, b) /\ Aborts(a) => aborted
    /\ \A a \in 1 .. b : handlers[a] # <<>> /\ handlers[a][1] = "abort" => a = b
    /\ aborted => \E a \in 1 .. b : Aborts(a)

\* The index is at the handler that runs, or past it if the loop that called it
\* is to go on.
GinPart(b) ==
    style = "gin" =>
    /\ stack # <<>> =>
          \/ aborted
          \/ index > Len(handlers) /\ b = Len(handlers)
          \/ index = IF stack[1].loops THEN b + 1 ELSE b
    /\ Len(stack) = 1 /\ ~stack[1].loops =>
          \A k \in 1 .. Done(stack[1]) :
             handlers[1][k] = "next" => aborted \/ b = Len(handlers)
    /\ stack = <<>> => \A k \in 1 .. Len(handlers[1]) :
                          handlers[1][k] = "next" => aborted \/ b = Len(handlers)

OnionPart(b) ==
    style = "onion" =>
    /\ ~aborted
    /\ \A c \in 1 .. Len(handlers) :
          handlers[c] = IF c = Len(handlers) THEN <<>> ELSE <<"next">>
    /\ \A i \in 2 .. Len(stack) : stack[i].rest = <<>>
    /\ IF stack # <<>> /\ stack[1].rest # <<>> THEN stack[1].handler = b
       ELSE b = Len(handlers)

ChainAt(b) ==
    /\ ChainTypes(b) /\ StackPart(b) /\ TracePart(b) /\ NestingPart(b)
    /\ GinPart(b) /\ OnionPart(b)

ChainInv == \E b \in 0 .. Len(handlers) : ChainAt(b)

LEMMA ReplaceTop ==
    ASSUME NEW T, NEW s \in Seq(T), s # <<>>, NEW x \in T
    PROVE  LET r == <<x>> \o Tail(s)
           IN  /\ r \in Seq(T) /\ Len(r) = Len(s) /\ r[1] = x
               /\ \A i \in 2 .. Len(s) : r[i] = s[i]
OBVIOUS

LEMMA PushOn ==
    ASSUME NEW T, NEW s \in Seq(T), NEW x \in T
    PROVE  LET r == <<x>> \o s
           IN  /\ r \in Seq(T) /\ Len(r) = Len(s) + 1 /\ r[1] = x
               /\ \A i \in 2 .. Len(s) + 1 : r[i] = s[i - 1]
OBVIOUS

\* Whether one begins or ends, and who, makes a different event.
LEMMA EventsDiffer ==
    /\ \A a, c : Chain!Begin(a) = Chain!Begin(c) => a = c
    /\ \A a, c : Chain!End(a) = Chain!End(c) => a = c
    /\ \A a, c : Chain!Begin(a) # Chain!End(c)
    /\ \A a \in Nat : Chain!Begin(a) \in Events /\ Chain!End(a) \in Events
BY DEF Chain!Begin, Chain!End, Events

LEMMA AppendIs ==
    ASSUME NEW T, NEW s \in Seq(T), NEW x \in T, NEW r, r = Append(s, x)
    PROVE  /\ Len(s) \in Nat /\ Len(r) = Len(s) + 1 /\ r[Len(s) + 1] = x
           /\ \A k \in 1 .. Len(s) : r[k] = s[k]
           /\ 1 .. Len(r) = (1 .. Len(s)) \cup {Len(s) + 1}
           /\ Len(s) + 1 \notin 1 .. Len(s)
OBVIOUS

\* A step of the running handler that begins and ends nobody.
LEMMA TopStep ==
    ASSUME NEW b \in Nat, ChainTypes(b), TracePart(b), NestingPart(b),
           UNCHANGED <<style, handlers, trace>>, Len(stack') = Len(stack),
           \A i \in 1 .. Len(stack) : stack'[i].handler = stack[i].handler,
           aborted => aborted', aborted' => aborted \/ \E a \in 1 .. b : Aborts(a)
    PROVE  TracePart(b)' /\ NestingPart(b)'
<1>1. \A c : Ended(c, b)' <=> Ended(c, b)
  BY DEF Ended
<1>2. \A c : Aborts(c)' <=> Aborts(c)
  BY DEF Aborts
<1>3. TracePart(b)'
  BY <1>1 DEF TracePart, OnlyEvents, AllEvents, EventsOnce, BeginInOrder
<1>4. NestingPart(b)'
  BY <1>1, <1>2 DEF NestingPart
<1> QED BY <1>3, <1>4

\* The next handler begins.
LEMMA BeginStep ==
    ASSUME NEW b \in Nat, NEW d \in Nat, d = b + 1, ChainTypes(b), StackPart(b), TracePart(b), NestingPart(b),
           UNCHANGED <<style, handlers, aborted>>, d <= Len(handlers), b >= 1,
           Len(stack') = Len(stack) + 1, stack'[1].handler = d,
           \A i \in 2 .. Len(stack) + 1 : stack'[i].handler = stack[i - 1].handler,
           trace' = Append(trace, Chain!Begin(d)), ~aborted,
           style = "onion" => ~Ended(b, b),
           handlers[b] # <<>> => handlers[b][1] # "abort"
    PROVE  TracePart(d)' /\ NestingPart(d)'
<1> DEFINE L == Len(trace)
<1>1. d \in Nat /\ L \in Nat /\ 1 .. d = (1 .. b) \cup {d} /\ d \notin 1 .. b
  BY DEF ChainTypes
<1>2. \A c : Ended(c, d)' <=> Ended(c, b)
  <2> SUFFICES ASSUME NEW c PROVE Ended(c, d)' <=> Ended(c, b)
    OBVIOUS
  <2>1. ASSUME NEW i \in 1 .. Len(stack) PROVE /\ i + 1 \in 2 .. Len(stack) + 1
                                               /\ stack'[i + 1].handler = stack[i].handler
    <3>1. i + 1 \in 2 .. Len(stack) + 1 /\ (i + 1) - 1 = i
      BY DEF ChainTypes
    <3> QED BY <3>1
  <2>2. Len(stack) \in Nat
    BY DEF ChainTypes
  <2>3. \A i \in 1 .. Len(stack') : i = 1 \/ (i \in 2 .. Len(stack) + 1 /\ i - 1 \in 1 .. Len(stack))
    BY <2>2
  <2>4. \A i \in 1 .. Len(stack) : i + 1 \in 1 .. Len(stack')
    BY <2>2
  <2>5. 1 \in 1 .. Len(stack')
    BY <2>2
  <2> QED BY <1>1, <2>1, <2>3, <2>4, <2>5 DEF Ended
<1>3. \A c : Aborts(c)' <=> Aborts(c)
  BY DEF Aborts
<1>4. /\ Len(trace') = L + 1 /\ trace'[L + 1] = Chain!Begin(d)
      /\ \A k \in 1 .. L : trace'[k] = trace[k]
      /\ 1 .. L + 1 = (1 .. L) \cup {L + 1} /\ L + 1 \notin 1 .. L
  <2>1. trace \in Seq(Events) /\ d \in Nat
    BY <1>1 DEF ChainTypes
  <2>2. Chain!Begin(d) \in Events
    BY EventsDiffer
  <2> QED BY <2>1, <2>2, AppendIs
<1> HIDE DEF L
<1>5. TracePart(d)'
  <2>1. \A k \in 1 .. L : trace[k] # Chain!Begin(d)
    <3>1. OnlyEvents(b)
      BY DEF TracePart
    <3> QED BY <1>1, <3>1, EventsDiffer DEF OnlyEvents, L
  <2>2. \A k, l \in 1 .. L + 1 : k # l => trace'[k] # trace'[l]
    <3>1. EventsOnce
      BY DEF TracePart
    <3> QED BY <1>4, <2>1, <3>1 DEF EventsOnce, L
  <2>3. \A m, c \in 1 .. d, k, l \in 1 .. L + 1 :
          m < c /\ trace'[k] = Chain!Begin(m) /\ trace'[l] = Chain!Begin(c) => k < l
    <3> SUFFICES ASSUME NEW m \in 1 .. d, NEW c \in 1 .. d, NEW k \in 1 .. L + 1,
                        NEW l \in 1 .. L + 1, m < c, trace'[k] = Chain!Begin(m),
                        trace'[l] = Chain!Begin(c)
                 PROVE  k < l
      OBVIOUS
    <3>1. m \in 1 .. b /\ m # d
      BY <1>1
    <3>2. k \in 1 .. L /\ trace[k] = Chain!Begin(m)
      BY <1>4, <3>1, EventsDiffer
    <3>3. CASE l \in 1 .. L
      <4>1. trace[l] = Chain!Begin(c)
        BY <1>4, <3>3
      <4>2. c \in 1 .. b
        BY <1>1, <2>1, <3>3, <4>1
      <4>3. BeginInOrder(b)
        BY DEF TracePart
      <4> QED BY <3>1, <3>2, <3>3, <4>1, <4>2, <4>3 DEF BeginInOrder, L
    <3>4. CASE l = L + 1
      BY <1>1, <3>2, <3>4 DEF L
    <3> QED BY <1>4, <3>3, <3>4
  <2>4. \A k \in 1 .. L + 1 :
          \/ \E c \in 1 .. d : trace'[k] = Chain!Begin(c)
          \/ \E c \in 1 .. d : Ended(c, d)' /\ trace'[k] = Chain!End(c)
    <3>1. OnlyEvents(b)
      BY DEF TracePart
    <3>2. ASSUME NEW k \in 1 .. L
          PROVE  \/ \E c \in 1 .. d : trace'[k] = Chain!Begin(c)
                 \/ \E c \in 1 .. d : Ended(c, d)' /\ trace'[k] = Chain!End(c)
      BY <1>1, <1>2, <1>4, <3>1 DEF OnlyEvents, L
    <3>3. d \in 1 .. d
      BY <1>1
    <3> QED BY <1>4, <3>2, <3>3
  <2>5. \A c \in 1 .. d : \E k \in 1 .. L + 1 : trace'[k] = Chain!Begin(c)
    <3>1. AllEvents(b)
      BY DEF TracePart
    <3> QED BY <1>1, <1>4, <3>1 DEF AllEvents, L
  <2>6. \A c \in 1 .. d : Ended(c, d)' => \E k \in 1 .. L + 1 : trace'[k] = Chain!End(c)
    <3> SUFFICES ASSUME NEW c \in 1 .. d, Ended(c, b)
                 PROVE  \E k \in 1 .. L + 1 : trace'[k] = Chain!End(c)
      BY <1>2
    <3>1. AllEvents(b) /\ c \in 1 .. b
      BY DEF TracePart, Ended
    <3>2. PICK k \in 1 .. L : trace[k] = Chain!End(c)
      BY <3>1 DEF AllEvents, L
    <3> QED BY <1>4, <3>2
  <2>7. Len(trace') = L + 1
    BY <1>4
  <2>8. OnlyEvents(d)'
    BY <2>4, <2>7 DEF OnlyEvents
  <2>9. AllEvents(d)'
    BY <2>5, <2>6, <2>7 DEF AllEvents
  <2>10. EventsOnce'
    BY <2>2, <2>7 DEF EventsOnce
  <2>11. BeginInOrder(d)'
    BY <2>3, <2>7 DEF BeginInOrder
  <2> QED BY <2>8, <2>9, <2>10, <2>11 DEF TracePart
<1>6. \A c : Ended(c, b) => c \in 1 .. b
  BY DEF Ended
<1>7. NestingPart(d)'
  <2>1. ASSUME NEW a \in 1 .. d, NEW c \in 1 .. d, a < c, Ended(a, b),
               style = "onion" \/ Aborts(a)
        PROVE  /\ Ended(c, b)
               /\ \A k, l \in 1 .. L + 1 :
                     trace'[k] = Chain!End(c) /\ trace'[l] = Chain!End(a) => k < l
    <3>1. a \in 1 .. b
      BY <1>6, <2>1
    <3>2. style = "onion"
      BY <2>1, <3>1 DEF NestingPart
    <3>3. a # b /\ b \in 1 .. b /\ a < b
      BY <2>1, <3>1, <3>2
    <3>4. Ended(b, b)
      BY <2>1, <3>1, <3>2, <3>3 DEF NestingPart
    <3> QED BY <3>2, <3>4
  <2>2. \A a \in 1 .. d : Ended(a, b) /\ Aborts(a) => aborted
    BY <1>6 DEF NestingPart
  <2>3. \A a \in 1 .. d : handlers[a] # <<>> /\ handlers[a][1] = "abort" => a = d
    BY <1>1 DEF NestingPart
  <2>4. \A k, l : k \in 1 .. Len(trace') => k \in 1 .. L + 1
    BY <1>4
  <2> QED BY <1>2, <1>3, <1>4, <2>1, <2>2, <2>3 DEF NestingPart
<1> QED BY <1>5, <1>7

\* The running handler ends.
LEMMA EndStep ==
    ASSUME NEW b \in Nat, ChainTypes(b), StackPart(b), TracePart(b), NestingPart(b),
           UNCHANGED <<style, handlers, aborted>>, stack # <<>>, stack' = Tail(stack),
           Done(stack[1]) = Len(handlers[stack[1].handler]),
           trace' = Append(trace, Chain!End(stack[1].handler))
    PROVE  TracePart(b)' /\ NestingPart(b)'
<1> DEFINE top == stack[1].handler  L == Len(trace)
<1>1. /\ Len(stack) \in Nat /\ Len(stack) >= 1 /\ Len(stack') = Len(stack) - 1 /\ L \in Nat
      /\ \A i \in 1 .. Len(stack) - 1 : stack'[i] = stack[i + 1]
  BY DEF ChainTypes
<1>2. top \in 1 .. b /\ \A i \in 2 .. Len(stack) : stack[i].handler < top
                                                    /\ stack[i].handler \in 1 .. b
  <2>1. 1 \in 1 .. Len(stack) /\ \A i \in 2 .. Len(stack) : i \in 1 .. Len(stack) /\ 1 < i
    BY <1>1
  <2> QED BY <2>1 DEF StackPart, StackOK, FrameOK
<1>3. \A c : Ended(c, b)' <=> Ended(c, b) \/ c = top
  <2> SUFFICES ASSUME NEW c PROVE Ended(c, b)' <=> Ended(c, b) \/ c = top
    OBVIOUS
  <2>1. (\A i \in 1 .. Len(stack') : stack'[i].handler # c)
           <=> \A i \in 2 .. Len(stack) : stack[i].handler # c
    <3>1. ASSUME NEW i \in 2 .. Len(stack), stack[i].handler = c
          PROVE  \E j \in 1 .. Len(stack') : stack'[j].handler = c
      <4>1. i - 1 \in 1 .. Len(stack) - 1 /\ (i - 1) + 1 = i
        BY <1>1
      <4>2. stack'[i - 1].handler = c
        BY <1>1, <3>1, <4>1
      <4> QED BY <1>1, <4>1, <4>2
    <3>2. ASSUME NEW i \in 1 .. Len(stack'), stack'[i].handler = c
          PROVE  \E j \in 2 .. Len(stack) : stack[j].handler = c
      <4>1. i + 1 \in 2 .. Len(stack) /\ i \in 1 .. Len(stack) - 1
        BY <1>1
      <4> QED BY <1>1, <3>2, <4>1
    <3> QED BY <3>1, <3>2
  <2>2. (\A i \in 1 .. Len(stack) : stack[i].handler # c)
           <=> c # top /\ \A i \in 2 .. Len(stack) : stack[i].handler # c
    <3>1. 1 .. Len(stack) = {1} \cup 2 .. Len(stack)
      BY <1>1
    <3> QED BY <3>1
  <2>3. \A i \in 2 .. Len(stack) : stack[i].handler # top
    BY <1>2
  <2> QED BY <1>2, <2>1, <2>2, <2>3 DEF Ended
<1>4. \A c : Aborts(c)' <=> Aborts(c)
  BY DEF Aborts
<1>5. /\ Len(trace') = L + 1 /\ trace'[L + 1] = Chain!End(top)
      /\ \A k \in 1 .. L : trace'[k] = trace[k]
      /\ 1 .. L + 1 = (1 .. L) \cup {L + 1} /\ L + 1 \notin 1 .. L
  <2>1. trace \in Seq(Events) /\ top \in Nat
    BY <1>2 DEF ChainTypes
  <2>2. Chain!End(top) \in Events
    BY <2>1, EventsDiffer
  <2> HIDE DEF top
  <2> QED BY <2>1, <2>2, AppendIs DEF top
<1>6. \A c \in 1 .. b : c > top => Ended(c, b)
  <2> SUFFICES ASSUME NEW c \in 1 .. b, c > top, NEW i \in 1 .. Len(stack),
                      stack[i].handler = c
               PROVE  FALSE
    BY DEF Ended
  <2>1. i = 1 \/ i \in 2 .. Len(stack)
    BY <1>1
  <2> QED BY <1>2, <2>1
<1>7. ~Ended(top, b)
  <2>1. 1 \in 1 .. Len(stack)
    BY <1>1
  <2> QED BY <2>1 DEF Ended
<1>8. Aborts(top) => aborted
  <2>1. 1 \in 1 .. Len(stack)
    BY <1>1
  <2> QED BY <2>1 DEF StackPart, StackOK, FrameOK, Aborts
<1> HIDE DEF top, L
<1>9. \A k \in 1 .. L : trace[k] # Chain!End(top)
  <2>1. OnlyEvents(b)
    BY DEF TracePart
  <2> QED BY <1>7, <2>1, EventsDiffer DEF OnlyEvents, L
<1>10. TracePart(b)'
  <2>0. OnlyEvents(b) /\ AllEvents(b) /\ EventsOnce /\ BeginInOrder(b)
    BY DEF TracePart
  <2>1. \A k \in 1 .. L + 1 :
          \/ \E c \in 1 .. b : trace'[k] = Chain!Begin(c)
          \/ \E c \in 1 .. b : Ended(c, b)' /\ trace'[k] = Chain!End(c)
    <3>1. ASSUME NEW k \in 1 .. L
          PROVE  \/ \E c \in 1 .. b : trace'[k] = Chain!Begin(c)
                 \/ \E c \in 1 .. b : Ended(c, b)' /\ trace'[k] = Chain!End(c)
      BY <1>3, <1>5, <2>0 DEF OnlyEvents, L
    <3> QED BY <1>2, <1>3, <1>5, <3>1
  <2>2. \A c \in 1 .. b : \E k \in 1 .. L + 1 : trace'[k] = Chain!Begin(c)
    BY <1>5, <2>0 DEF AllEvents, L
  <2>3. \A c \in 1 .. b : Ended(c, b)' => \E k \in 1 .. L + 1 : trace'[k] = Chain!End(c)
    BY <1>3, <1>5, <2>0 DEF AllEvents, L
  <2>4. \A k, l \in 1 .. L + 1 : k # l => trace'[k] # trace'[l]
    BY <1>5, <1>9, <2>0 DEF EventsOnce, L
  <2>5. \A m, c \in 1 .. b, k, l \in 1 .. L + 1 :
          m < c /\ trace'[k] = Chain!Begin(m) /\ trace'[l] = Chain!Begin(c) => k < l
    <3>1. \A c : \A k \in 1 .. L + 1 : trace'[k] = Chain!Begin(c) => k \in 1 .. L
                                                        /\ trace[k] = Chain!Begin(c)
      BY <1>5, EventsDiffer
    <3> QED BY <3>1, <2>0 DEF BeginInOrder, L
  <2>6. Len(trace') = L + 1
    BY <1>5
  <2>7. OnlyEvents(b)'
    BY <2>1, <2>6 DEF OnlyEvents
  <2>8. AllEvents(b)'
    BY <2>2, <2>3, <2>6 DEF AllEvents
  <2>9. EventsOnce'
    BY <2>4, <2>6 DEF EventsOnce
  <2>10. BeginInOrder(b)'
    BY <2>5, <2>6 DEF BeginInOrder
  <2> QED BY <2>7, <2>8, <2>9, <2>10 DEF TracePart
<1>11. NestingPart(b)'
  <2>1. ASSUME NEW a \in 1 .. b, NEW c \in 1 .. b, a < c, Ended(a, b) \/ a = top,
               style = "onion" \/ Aborts(a)
        PROVE  /\ Ended(c, b)
               /\ \A k, l \in 1 .. L + 1 :
                     trace'[k] = Chain!End(c) /\ trace'[l] = Chain!End(a) => k < l
    <3>1. Ended(c, b)
      BY <1>6, <2>1 DEF NestingPart
    <3>2. c # top
      BY <1>7, <3>1
    <3>3. ASSUME NEW k \in 1 .. L + 1, NEW l \in 1 .. L + 1,
                 trace'[k] = Chain!End(c), trace'[l] = Chain!End(a)
          PROVE  k < l
      <4>1. k \in 1 .. L /\ trace[k] = Chain!End(c)
        BY <1>5, <3>2, <3>3, EventsDiffer
      <4>2. CASE l = L + 1
        BY <1>1, <4>1, <4>2 DEF L
      <4>3. CASE l \in 1 .. L
        <5>1. trace[l] = Chain!End(a) /\ a # top
          BY <1>5, <1>9, <3>3, <4>3
        <5> QED BY <2>1, <4>1, <4>3, <5>1 DEF NestingPart, L
      <4> QED BY <1>5, <4>2, <4>3
    <3> QED BY <3>1, <3>3
  <2>2. \A a \in 1 .. b : (Ended(a, b) \/ a = top) /\ Aborts(a) => aborted
    BY <1>8 DEF NestingPart
  <2> QED BY <1>3, <1>4, <1>5, <2>1, <2>2 DEF NestingPart
<1> QED BY <1>10, <1>11

\* What the stack is after each of the things that happen to it.
LEMMA ReplaceOK ==
    ASSUME NEW b \in Nat, NEW s \in Seq(Frames), NEW flag \in BOOLEAN,
           NEW up \in BOOLEAN, flag => up, StackOK(s, b, flag), s # <<>>,
           NEW x, FrameOK(x, b, up), x.handler = s[1].handler
    PROVE  StackOK(<<x>> \o Tail(s), b, up)
<1> DEFINE r == <<x>> \o Tail(s)
<1>1. /\ r \in Seq(Frames) /\ Len(r) = Len(s) /\ r[1] = x /\ Len(s) \in Nat /\ Len(s) >= 1
      /\ \A i \in 2 .. Len(s) : r[i] = s[i]
  BY ReplaceTop DEF FrameOK
<1> HIDE DEF r
<1>2. \A i \in 1 .. Len(s) : r[i].handler = s[i].handler
  BY <1>1
<1>3. \A i \in 1 .. Len(s) : FrameOK(r[i], b, up)
  <2>1. \A i \in 1 .. Len(s) : FrameOK(s[i], b, up)
    BY DEF StackOK, FrameOK
  <2> QED BY <1>1, <2>1
<1>4. StackOK(r, b, up)
  BY <1>1, <1>2, <1>3 DEF StackOK
<1> QED BY <1>4 DEF r

LEMMA PushOK ==
    ASSUME NEW b \in Nat, NEW d \in Nat, d = b + 1, NEW s \in Seq(Frames),
           NEW flag \in BOOLEAN, StackOK(s, b, flag), s # <<>>,
           s[1].loops = (style = "gin"),
           NEW x, FrameOK(x, d, flag), x.handler = d
    PROVE  StackOK(<<x>> \o s, d, flag)
<1> DEFINE r == <<x>> \o s
<1>1. /\ r \in Seq(Frames) /\ Len(r) = Len(s) + 1 /\ r[1] = x /\ Len(s) \in Nat /\ Len(s) >= 1
      /\ \A i \in 2 .. Len(s) + 1 : r[i] = s[i - 1]
  BY PushOn DEF FrameOK
<1> HIDE DEF r
<1>2. \A i \in 2 .. Len(s) + 1 : i - 1 \in 1 .. Len(s) /\ r[i] = s[i - 1]
  BY <1>1
<1>3. \A i \in 1 .. Len(s) : FrameOK(s[i], d, flag) /\ s[i].handler < d
  <2>1. \A i \in 1 .. Len(s) : FrameOK(s[i], b, flag)
    BY DEF StackOK
  <2> QED BY <2>1 DEF FrameOK
<1>4. \A i \in 1 .. Len(r) : i = 1 \/ i \in 2 .. Len(s) + 1
  BY <1>1
<1>5. \A i \in 1 .. Len(r) : /\ FrameOK(r[i], d, flag)
                             /\ i = Len(r) => r[i].handler = 1
                             /\ i > 1 => r[i].loops = (style = "gin")
  <2>1. FrameOK(r[1], d, flag) /\ 1 # Len(r)
    BY <1>1
  <2>2. ASSUME NEW i \in 2 .. Len(s) + 1
        PROVE  /\ FrameOK(r[i], d, flag)
               /\ i = Len(r) => r[i].handler = 1
               /\ r[i].loops = (style = "gin")
    <3>1. i - 1 \in 1 .. Len(s) /\ r[i] = s[i - 1]
      BY <1>2
    <3>2. i = Len(r) => i - 1 = Len(s)
      BY <1>1
    <3>3. i - 1 = 1 \/ i - 1 > 1
      BY <3>1
    <3>4. s[i - 1].loops = (style = "gin")
      BY <3>1, <3>3 DEF StackOK
    <3>5. i = Len(r) => s[i - 1].handler = 1
      BY <3>1, <3>2 DEF StackOK
    <3> QED BY <1>3, <3>1, <3>4, <3>5
  <2> SUFFICES ASSUME NEW i \in 1 .. Len(r)
               PROVE  /\ FrameOK(r[i], d, flag)
                      /\ i = Len(r) => r[i].handler = 1
                      /\ i > 1 => r[i].loops = (style = "gin")
    OBVIOUS
  <2>3. CASE i = 1
    <3>1. ~(i > 1)
      BY <2>3
    <3> QED BY <2>1, <2>3, <3>1
  <2>4. CASE i \in 2 .. Len(s) + 1
    BY <2>2, <2>4
  <2> QED BY <1>4, <2>3, <2>4
<1>6. \A i, j \in 1 .. Len(r) : i < j => r[j].handler < r[i].handler
  <2> SUFFICES ASSUME NEW i \in 1 .. Len(r), NEW j \in 1 .. Len(r), i < j
               PROVE  r[j].handler < r[i].handler
    OBVIOUS
  <2>1. j \in 2 .. Len(s) + 1
    BY <1>4
  <2>2. CASE i = 1
    BY <1>1, <1>2, <1>3, <2>1, <2>2
  <2>3. CASE i \in 2 .. Len(s) + 1
    <3>1. i - 1 < j - 1
      BY <2>1
    <3> QED BY <1>2, <2>1, <2>3, <3>1 DEF StackOK
  <2> QED BY <1>4, <2>2, <2>3
<1>7. StackOK(r, d, flag)
  BY <1>5, <1>6 DEF StackOK
<1> QED BY <1>7 DEF r

LEMMA TailOK ==
    ASSUME NEW b \in Nat, NEW s \in Seq(Frames), NEW flag \in BOOLEAN,
           StackOK(s, b, flag), s # <<>>
    PROVE  StackOK(Tail(s), b, flag)
<1> DEFINE r == Tail(s)
<1>1. /\ Len(s) \in Nat /\ Len(r) = Len(s) - 1
      /\ \A i \in 1 .. Len(s) - 1 : i + 1 \in 1 .. Len(s) /\ r[i] = s[i + 1]
      /\ \A i, j \in 1 .. Len(s) - 1 : i < j => i + 1 < j + 1
      /\ \A i \in 1 .. Len(s) - 1 : i + 1 > 1 /\ (i = Len(s) - 1 => i + 1 = Len(s))
  OBVIOUS
<1> HIDE DEF r
<1>2. ASSUME NEW i \in 1 .. Len(r)
      PROVE  /\ FrameOK(r[i], b, flag)
             /\ i = Len(r) => r[i].handler = 1
             /\ i > 1 => r[i].loops = (style = "gin")
  <2>1. i + 1 \in 1 .. Len(s) /\ r[i] = s[i + 1] /\ i + 1 > 1
        /\ (i = Len(r) => i + 1 = Len(s))
    BY <1>1
  <2> QED BY <2>1 DEF StackOK
<1>3. \A i, j \in 1 .. Len(r) : i < j => r[j].handler < r[i].handler
  BY <1>1 DEF StackOK
<1>4. StackOK(r, b, flag)
  BY <1>2, <1>3 DEF StackOK
<1> QED BY <1>4 DEF r

\* A handler that has just begun.
LEMMA NewFrame ==
    ASSUME NEW b \in Nat, ChainTypes(b), NEW d \in 1 .. Len(handlers), NEW flag
    PROVE  /\ FrameOK(Chain!Frame(d), d, flag) /\ Chain!Frame(d).handler = d
           /\ Chain!Frame(d).rest = handlers[d] /\ Chain!Frame(d).loops = FALSE
<1>1. handlers[d] \in Seq(Calls) /\ d \in Nat
  BY DEF ChainTypes
<1>2. Len(handlers[d]) \in Nat /\ Len(handlers[d]) - Len(handlers[d]) = 0
  BY <1>1
<1>3. /\ Chain!Frame(d) = [handler |-> d, rest |-> handlers[d], loops |-> FALSE]
      /\ Chain!Frame(d) \in Frames /\ Done(Chain!Frame(d)) = 0
  BY <1>1, <1>2 DEF Chain!Frame, Frames, Done
<1> DEFINE f == Chain!Frame(d)
<1>4. f.handler = d /\ f.rest = handlers[d] /\ f.loops = FALSE
  BY <1>3
<1>5. \A k \in 1 .. Len(f.rest) : f.rest[k] = handlers[f.handler][0 + k]
  BY <1>2, <1>4
<1>6. d \in 1 .. d /\ 1 .. 0 = {}
  BY <1>1
<1>7. f \in Frames /\ Done(f) = 0
  BY <1>3
<1> HIDE DEF f
<1>8. FrameOK(f, d, flag)
  BY <1>4, <1>5, <1>6, <1>7 DEF FrameOK
<1> QED BY <1>4, <1>8 DEF f

\* The frame that runs.
LEMMA TopIs ==
    ASSUME NEW b \in Nat, ChainTypes(b), StackPart(b), stack # <<>>
    PROVE  /\ Len(stack) \in Nat /\ Len(stack) >= 1 /\ 1 \in 1 .. Len(stack)
           /\ Chain!Top = stack[1] /\ Chain!Top \in Frames /\ FrameOK(Chain!Top, b, aborted)
           /\ Chain!Top.handler \in 1 .. b /\ Chain!Top.rest \in Seq(Calls)
           /\ Chain!Top.handler \in 1 .. Len(handlers)
           /\ handlers[Chain!Top.handler] \in Seq(Calls)
           /\ Tail(stack) \in Seq(Frames) /\ Len(Tail(stack)) = Len(stack) - 1
<1>1. /\ Len(stack) \in Nat /\ Len(stack) >= 1 /\ 1 \in 1 .. Len(stack)
      /\ Chain!Top = stack[1] /\ Chain!Top \in Frames /\ b \in 0 .. Len(handlers)
      /\ Tail(stack) \in Seq(Frames) /\ Len(Tail(stack)) = Len(stack) - 1
  BY DEF ChainTypes, Chain!Top
<1>2. FrameOK(Chain!Top, b, aborted)
  BY <1>1 DEF StackPart, StackOK
<1>3. Chain!Top.handler \in 1 .. b /\ Chain!Top.rest \in Seq(Calls)
  BY <1>1, <1>2 DEF FrameOK, Frames
<1>4. Chain!Top.handler \in 1 .. Len(handlers)
  BY <1>1, <1>3
<1> QED BY <1>1, <1>2, <1>3, <1>4 DEF ChainTypes

\* The frame that runs after one of its calls.
LEMMA CallMade ==
    ASSUME NEW b \in Nat, ChainTypes(b), StackPart(b), stack # <<>>,
           Chain!Top.rest # <<>>, NEW y, NEW flag \in BOOLEAN, aborted => flag,
           y \in Frames, y.handler = Chain!Top.handler, y.rest = Tail(Chain!Top.rest),
           y.loops => style = "gin",
           Head(Chain!Top.rest) = "abort" => flag
    PROVE  FrameOK(y, b, flag) /\ Done(y) = Done(Chain!Top) + 1
<1> DEFINE t == Chain!Top  c == t.rest
<1>1. /\ t \in Frames /\ FrameOK(t, b, aborted) /\ c \in Seq(Calls)
      /\ t.handler \in 1 .. b /\ handlers[t.handler] \in Seq(Calls)
  BY TopIs
<1>2. /\ Len(c) \in Nat /\ Len(Tail(c)) = Len(c) - 1 /\ Head(c) = c[1] /\ 1 \in 1 .. Len(c)
      /\ \A k \in 1 .. Len(c) - 1 : k + 1 \in 1 .. Len(c) /\ Tail(c)[k] = c[k + 1]
  BY <1>1
<1>3. /\ Done(t) \in Nat /\ \A k \in 1 .. Len(c) : c[k] = handlers[t.handler][Done(t) + k]
      /\ \A k \in 1 .. Done(t) : handlers[t.handler][k] = "abort" => aborted
  BY <1>1 DEF FrameOK
<1>4. Len(handlers[t.handler]) \in Nat /\ Done(t) = Len(handlers[t.handler]) - Len(c)
  BY <1>1 DEF Done
<1>5. Done(y) = Len(handlers[t.handler]) - Len(Tail(c))
  BY DEF Done
<1> HIDE DEF t, c
<1>6. Done(y) = Done(t) + 1 /\ Done(y) \in Nat /\ Done(y) >= 1
  <2> DEFINE p == Len(handlers[t.handler])  q == Len(c)  r == Len(Tail(c))
  <2>1. p \in Nat /\ q \in Nat /\ r = q - 1 /\ Done(t) = p - q /\ Done(y) = p - r
    BY <1>2, <1>4, <1>5
  <2> HIDE DEF p, q, r
  <2>3. Done(y) = Done(t) + 1
    BY <2>1
  <2> QED BY <1>3, <2>3
<1>7. \A k \in 1 .. Len(y.rest) : y.rest[k] = handlers[y.handler][Done(y) + k]
  <2> SUFFICES ASSUME NEW k \in 1 .. Len(c) - 1
               PROVE  Tail(c)[k] = handlers[t.handler][Done(y) + k]
    BY <1>2 DEF t, c
  <2>1. Done(t) + (k + 1) = Done(y) + k
    BY <1>3, <1>6
  <2> QED BY <1>2, <1>3, <2>1
<1>8. \A k \in 1 .. Done(y) : handlers[y.handler][k] = "abort" => flag
  <2> SUFFICES ASSUME NEW k \in 1 .. Done(y), handlers[t.handler][k] = "abort"
               PROVE  flag
    BY DEF t
  <2>1. k \in 1 .. Done(t) \/ k = Done(t) + 1
    BY <1>3, <1>6
  <2>2. CASE k = Done(t) + 1
    BY <1>2, <1>3, <2>2 DEF t, c
  <2> QED BY <1>3, <2>1, <2>2
<1>9. y.handler \in 1 .. b
  BY <1>1 DEF t
<1> QED BY <1>6, <1>7, <1>8, <1>9 DEF FrameOK, t

LEMMA OneCall ==
    ASSUME NEW T, NEW s \in Seq(T), Len(s) = 1
    PROVE  Tail(s) = <<>> /\ Head(s) = s[1]
<1>1. s # <<>> /\ Head(s) = s[1]
  <2>1. ASSUME s = <<>> PROVE Len(s) = 0
    BY <2>1
  <2>2. 0 # 1
    OBVIOUS
  <2>3. s # <<>>
    BY <2>1, <2>2, Zenon
  <2> QED BY <2>3
<1>2. Tail(s) \in Seq(T) /\ Len(Tail(s)) = Len(s) - 1
  BY <1>1
<1> DEFINE r == Tail(s)
<1>3. r \in Seq(T) /\ Len(r) = 0
  BY <1>2
<1> HIDE DEF r
<1>4. r = <<>>
  BY <1>3
<1> QED BY <1>1, <1>4 DEF r

LEMMA TypesAre ==
    ASSUME NEW b \in Nat, ChainTypes(b), StackPart(b)
    PROVE  /\ b \in 0 .. Len(handlers) /\ Len(handlers) \in Nat /\ index \in Nat
           /\ aborted \in BOOLEAN /\ stack \in Seq(Frames) /\ trace \in Seq(Events)
           /\ style \in {"onion", "gin"} /\ handlers \in Seq(Seq(Calls))
           /\ stack # <<>> => b >= 1
<1>1. stack # <<>> => Chain!Top.handler \in 1 .. b
  BY TopIs
<1> QED BY <1>1 DEF ChainTypes

LEMMA SameFrames ==
    ASSUME NEW b, UNCHANGED <<style, handlers>>, StackOK(stack', b, aborted')
    PROVE  StackPart(b)'
<1>1. \A f, flag : FrameOK(f, b, flag)' <=> FrameOK(f, b, flag)
  BY DEF FrameOK, Done
<1>2. FrameOK(stack[1], b, aborted)' <=> FrameOK(stack'[1], b, aborted')
  BY DEF FrameOK, Done
<1>3. \A i \in 1 .. Len(stack') : FrameOK(stack[i], b, aborted)' <=> FrameOK(stack'[i], b, aborted')
  BY DEF FrameOK, Done
<1> QED BY <1>3 DEF StackPart, StackOK

\* The next handler begins: what is left to show of such a step.
LEMMA Begins ==
    ASSUME NEW b \in Nat, NEW d \in Nat, d = b + 1, ChainAt(b), d <= Len(handlers),
           UNCHANGED <<style, handlers, index, aborted>>, ~aborted, stack # <<>>,
           NEW s, s \in Seq(Frames), StackOK(s, b, aborted), s[1].loops = (style = "gin"),
           Len(s) = Len(stack), \A i \in 1 .. Len(s) : s[i].handler = stack[i].handler,
           stack' = <<Chain!Frame(d)>> \o s, trace' = Append(trace, Chain!Begin(d)),
           style = "onion" => ~Ended(b, b),
           handlers[b] # <<>> => handlers[b][1] # "abort"
    PROVE  /\ ChainTypes(d)' /\ StackPart(d)' /\ TracePart(d)' /\ NestingPart(d)'
           /\ Len(stack') = Len(s) + 1 /\ Len(s) \in Nat /\ Len(s) >= 1
           /\ stack'[1] = Chain!Frame(d) /\ \A i \in 2 .. Len(s) + 1 : stack'[i] = s[i - 1]
<1>1. ChainTypes(b) /\ StackPart(b) /\ TracePart(b) /\ NestingPart(b)
  BY DEF ChainAt
<1>2. b >= 1 /\ d \in 1 .. Len(handlers) /\ Len(stack) \in Nat /\ Len(stack) >= 1
  <2>1. b >= 1 /\ Len(handlers) \in Nat /\ stack \in Seq(Frames)
    <3> HIDE DEF ChainTypes
    <3> QED BY ONLY b \in Nat, stack # <<>>, <1>1, TypesAre
  <2>2. Len(stack) \in Nat /\ Len(stack) >= 1
    BY ONLY stack # <<>>, <2>1
  <2> QED BY <2>1, <2>2
<1>3. /\ FrameOK(Chain!Frame(d), d, aborted) /\ Chain!Frame(d).handler = d
      /\ Chain!Frame(d) \in Frames
  <2>1. FrameOK(Chain!Frame(d), d, aborted) /\ Chain!Frame(d).handler = d
    BY <1>1, <1>2, NewFrame
  <2> QED BY <2>1 DEF FrameOK
<1>4. s # <<>>
  BY <1>2
<1>5. /\ stack' \in Seq(Frames) /\ Len(stack') = Len(s) + 1 /\ stack'[1] = Chain!Frame(d)
      /\ \A i \in 2 .. Len(s) + 1 : stack'[i] = s[i - 1]
  BY <1>3, PushOn
<1>6. StackOK(stack', d, aborted)
  BY <1>1, <1>3, <1>4, PushOK, TypesAre
<1>7. StackPart(d)'
  BY <1>6, SameFrames
<1>8. ChainTypes(d)'
  <2>1. trace' \in Seq(Events)
    BY <1>1, EventsDiffer, TypesAre
  <2> QED BY <1>1, <1>2, <1>5, <2>1 DEF ChainTypes
<1>9. TracePart(d)' /\ NestingPart(d)'
  <2>1. \A i \in 2 .. Len(stack) + 1 : stack'[i].handler = stack[i - 1].handler
    <3>1. \A i \in 2 .. Len(stack) + 1 : i - 1 \in 1 .. Len(stack)
      BY <1>2
    <3> QED BY <1>5, <3>1
  <2>2. stack'[1].handler = d /\ Len(stack') = Len(stack) + 1
    BY <1>3, <1>5
  <2> QED BY <1>1, <1>2, <2>1, <2>2, BeginStep
<1> QED BY <1>2, <1>5, <1>7, <1>8, <1>9

\* The running handler goes on: what is left to show of such a step.
LEMMA GoesOn ==
    ASSUME NEW b \in Nat, ChainAt(b), stack # <<>>, UNCHANGED <<style, handlers, trace>>,
           NEW y, FrameOK(y, b, aborted'), y.handler = Chain!Top.handler,
           stack' = <<y>> \o Tail(stack), index' \in Nat, aborted' \in BOOLEAN,
           aborted => aborted', aborted' => aborted \/ \E a \in 1 .. b : Aborts(a)
    PROVE  /\ ChainTypes(b)' /\ StackPart(b)' /\ TracePart(b)' /\ NestingPart(b)'
           /\ Len(stack') = Len(stack) /\ Len(stack) \in Nat /\ Len(stack) >= 1
           /\ stack'[1] = y /\ \A i \in 2 .. Len(stack) : stack'[i] = stack[i]
<1>1. ChainTypes(b) /\ StackPart(b) /\ TracePart(b) /\ NestingPart(b)
  BY DEF ChainAt
<1>2. Chain!Top = stack[1] /\ y \in Frames
  BY <1>1, TopIs DEF FrameOK
<1>3. /\ stack' \in Seq(Frames) /\ Len(stack') = Len(stack) /\ stack'[1] = y
      /\ Len(stack) \in Nat /\ Len(stack) >= 1
      /\ \A i \in 2 .. Len(stack) : stack'[i] = stack[i]
  BY <1>1, <1>2, ReplaceTop, TypesAre
<1>4. StackOK(stack', b, aborted')
  BY <1>1, <1>2, ReplaceOK, TypesAre DEF StackPart
<1>5. StackPart(b)'
  BY <1>4, SameFrames
<1>6. ChainTypes(b)'
  BY <1>1, <1>3 DEF ChainTypes
<1>7. \A i \in 1 .. Len(stack) : stack'[i].handler = stack[i].handler
  BY <1>2, <1>3
<1> QED BY <1>1, <1>3, <1>5, <1>6, <1>7, TopStep

\* callInner: the handler on top is the last that began and has made none of its
\* calls.
LEMMA callInnerStep ==
    ASSUME NEW b \in Nat, NEW d \in Nat, d = b + 1, ChainAt(b), Chain!callInner
    PROVE  ChainAt(d)' /\ d <= Len(handlers')
<1> DEFINE t == Chain!Top  y == [Chain!Top EXCEPT !.rest = <<>>]
           s == <<y>> \o Tail(stack)
<1>1. ChainTypes(b) /\ StackPart(b) /\ TracePart(b) /\ NestingPart(b) /\ OnionPart(b)
  BY DEF ChainAt
<1>2. /\ style = "onion" /\ stack # <<>> /\ t.rest # <<>>
      /\ stack' = <<Chain!Frame(t.handler + 1)>> \o s
      /\ trace' = Append(trace, Chain!Begin(t.handler + 1))
      /\ UNCHANGED <<style, handlers, index, aborted>>
  BY DEF Chain!callInner, Chain!Invoke
<1>3. /\ t = stack[1] /\ t \in Frames /\ FrameOK(t, b, aborted) /\ t.rest \in Seq(Calls)
      /\ 1 \in 1 .. Len(stack) /\ Len(stack) \in Nat /\ Len(stack) >= 1
      /\ t.handler \in 1 .. b
  BY <1>1, <1>2, TopIs
<1>4. t.handler = b /\ ~aborted
  BY <1>1, <1>2, <1>3 DEF OnionPart
<1>5. b \in 1 .. Len(handlers) /\ Len(handlers) \in Nat
  BY <1>1, <1>3, TypesAre
<1>6. Len(handlers[b]) - Len(t.rest) \in Nat /\ Len(t.rest) \in Nat /\ Len(t.rest) >= 1
  BY <1>2, <1>3, <1>4 DEF FrameOK, Done
<1>7. b # Len(handlers) /\ handlers[b] = <<"next">>
  <2>1. Len(<<>>) = 0
    OBVIOUS
  <2> QED BY <1>1, <1>2, <1>5, <1>6, <2>1 DEF OnionPart
<1>8. Tail(t.rest) = <<>> /\ Head(t.rest) # "abort"
  <2>1. \A x : x = <<"next">> => Len(x) = 1 /\ x[1] = "next"
    OBVIOUS
  <2>5. Len(handlers[b]) = 1 /\ handlers[b][1] = "next"
    BY <1>7, <2>1
  <2>2. Len(t.rest) = 1 /\ Done(t) = 0
    <3> DEFINE p == Len(handlers[b])  q == Len(t.rest)
    <3>1. p = 1 /\ p - q \in Nat /\ q \in Nat /\ q >= 1 /\ Done(t) = p - q
      BY <1>4, <1>6, <2>5 DEF Done
    <3> HIDE DEF p, q
    <3>2. q = 1 /\ Done(t) = 0
      BY <3>1
    <3> QED BY <3>2 DEF q
  <2>3. t.rest[1] = handlers[b][0 + 1]
    BY <1>3, <1>4, <2>2 DEF FrameOK
  <2>4. t.rest[1] = "next"
    BY <1>7, <2>1, <2>3
  <2> HIDE DEF t
  <2> QED BY <1>3, <2>2, <2>4, OneCall
<1>9. /\ y \in Frames /\ y.handler = t.handler /\ y.rest = Tail(t.rest) /\ y.rest = <<>>
      /\ y.loops = t.loops
  <2>1. <<>> \in Seq(Calls)
    OBVIOUS
  <2> HIDE DEF t
  <2>2. y = [t EXCEPT !.rest = <<>>]
    BY DEF t
  <2> HIDE DEF y
  <2> QED BY <1>3, <1>8, <2>1, <2>2 DEF Frames
<1> HIDE DEF y
<1>10. FrameOK(y, b, aborted) /\ t.loops = FALSE
  <2>1. t.loops \in BOOLEAN /\ aborted \in BOOLEAN
    BY <1>1, <1>3, TypesAre DEF Frames
  <2>2. t.loops = FALSE
    BY <1>2, <1>3, <2>1 DEF FrameOK
  <2>3. aborted => aborted
    OBVIOUS
  <2>4. y.loops => style = "gin"
    BY <1>9, <2>2
  <2> HIDE DEF y
  <2>5. FrameOK(y, b, aborted)
    BY <1>1, <1>2, <1>8, <1>9, <2>1, <2>4, CallMade
  <2> QED BY <2>2, <2>5
<1>11. /\ s \in Seq(Frames) /\ Len(s) = Len(stack) /\ s[1] = y
       /\ \A i \in 2 .. Len(stack) : s[i] = stack[i]
  BY <1>1, <1>2, <1>9, ReplaceTop, TypesAre
<1>12. StackOK(s, b, aborted)
  <2>1. y.handler = stack[1].handler /\ stack \in Seq(Frames) /\ aborted \in BOOLEAN
    BY <1>1, <1>3, <1>9, TypesAre
  <2> HIDE DEF y
  <2> QED BY <1>1, <1>2, <1>10, <2>1, ReplaceOK DEF StackPart, y
<1> HIDE DEF t, y, s
<1>13. s[1].loops = (style = "gin")
  BY <1>2, <1>9, <1>10, <1>11
<1>14. \A i \in 1 .. Len(s) : s[i].handler = stack[i].handler
  BY <1>3, <1>9, <1>11
<1>15. ~Ended(b, b)
  BY <1>3, <1>4 DEF Ended
<1>16. handlers[b][1] # "abort"
  BY <1>7
<1>17. stack' = <<Chain!Frame(d)>> \o s /\ trace' = Append(trace, Chain!Begin(d)) /\ d <= Len(handlers)
  BY <1>2, <1>4, <1>5, <1>7
<1>18. /\ ChainTypes(d)' /\ StackPart(d)' /\ TracePart(d)' /\ NestingPart(d)'
       /\ Len(stack') = Len(s) + 1 /\ Len(s) \in Nat /\ Len(s) >= 1
       /\ stack'[1] = Chain!Frame(d) /\ \A i \in 2 .. Len(s) + 1 : stack'[i] = s[i - 1]
  BY <1>2, <1>4, <1>11, <1>12, <1>13, <1>14, <1>15, <1>16, <1>17, Begins, SMTT(60)
<1>19. OnionPart(d)'
  <2>1. \A i \in 2 .. Len(s) + 1 : stack'[i].rest = <<>>
    <3> SUFFICES ASSUME NEW i \in 2 .. Len(s) + 1 PROVE stack'[i].rest = <<>>
      OBVIOUS
    <3>1. i - 1 = 1 \/ i - 1 \in 2 .. Len(stack)
      BY <1>3, <1>11
    <3> QED BY <1>1, <1>2, <1>9, <1>11, <1>18, <3>1 DEF OnionPart
  <2>2. stack'[1].rest = handlers[d] /\ stack'[1].handler = d
    <3>1. d \in 1 .. Len(handlers)
      BY <1>5, <1>17
    <3> QED BY <1>1, <1>18, <3>1, NewFrame
  <2>3. handlers[d] = <<>> => d = Len(handlers)
    <3>1. d \in 1 .. Len(handlers)
      BY <1>5, <1>17
    <3>2. <<"next">> # <<>>
      OBVIOUS
    <3> QED BY <1>1, <1>2, <3>1, <3>2 DEF OnionPart
  <2>4. handlers[d] # <<>> \/ handlers[d] = <<>>
    OBVIOUS
  <2>5. stack' # <<>>
    BY <1>18 DEF ChainTypes
  <2>6. \A c \in 1 .. Len(handlers) :
           handlers[c] = IF c = Len(handlers) THEN <<>> ELSE <<"next">>
    BY <1>1, <1>2 DEF OnionPart
  <2>7. ~aborted' /\ handlers' = handlers /\ Len(stack') = Len(s) + 1
    BY <1>2, <1>4, <1>18
  <2> QED BY <2>1, <2>2, <2>3, <2>5, <2>6, <2>7 DEF OnionPart
<1>20. GinPart(d)'
  BY <1>2 DEF GinPart
<1> QED BY <1>2, <1>17, <1>18, <1>19, <1>20 DEF ChainAt

\* next: the handler on top starts its loop.
LEMMA nextStep ==
    ASSUME NEW b \in Nat, ChainAt(b), Chain!next
    PROVE  ChainAt(b)'
<1> DEFINE t == Chain!Top
           y == [Chain!Top EXCEPT !.loops = TRUE, !.rest = Tail(Chain!Top.rest)]
<1>1. ChainTypes(b) /\ StackPart(b) /\ TracePart(b) /\ NestingPart(b) /\ GinPart(b)
  BY DEF ChainAt
<1>2. /\ style = "gin" /\ stack # <<>> /\ t.loops = FALSE /\ t.rest # <<>>
      /\ Head(t.rest) = "next" /\ index' = index + 1
      /\ stack' = <<y>> \o Tail(stack)
      /\ UNCHANGED <<style, handlers, aborted, trace>>
  <2>1. t.loops \in BOOLEAN
    BY <1>1, TopIs DEF Chain!next, Frames
  <2> QED BY <2>1 DEF Chain!next
<1>3. /\ t = stack[1] /\ t \in Frames /\ FrameOK(t, b, aborted) /\ t.rest \in Seq(Calls)
      /\ 1 \in 1 .. Len(stack) /\ Len(stack) \in Nat /\ Len(stack) >= 1
      /\ b \in 0 .. Len(handlers) /\ Len(handlers) \in Nat /\ index \in Nat
      /\ aborted \in BOOLEAN
  BY <1>1, <1>2, TopIs, TypesAre
<1>4. y \in Frames /\ y.handler = t.handler /\ y.rest = Tail(t.rest) /\ y.loops = TRUE
  <2>1. Tail(t.rest) \in Seq(Calls)
    BY <1>2, <1>3
  <2> HIDE DEF t
  <2>2. y = [t EXCEPT !.loops = TRUE, !.rest = Tail(t.rest)]
    BY DEF t
  <2> HIDE DEF y
  <2> QED BY <1>3, <2>1, <2>2 DEF Frames
<1> HIDE DEF y
<1>5. FrameOK(y, b, aborted)
  BY <1>1, <1>2, <1>3, <1>4, CallMade
<1>6. /\ ChainTypes(b)' /\ StackPart(b)' /\ TracePart(b)' /\ NestingPart(b)'
      /\ Len(stack') = Len(stack) /\ stack'[1] = y
  <2>1. FrameOK(y, b, aborted') /\ index' \in Nat /\ aborted' \in BOOLEAN
        /\ (aborted => aborted') /\ (aborted' => aborted)
    BY <1>2, <1>3, <1>5
  <2> QED BY <1>1, <1>2, <1>4, <2>1, GoesOn
<1>7. GinPart(b)'
  <2>1. stack # <<>> => aborted \/ (index > Len(handlers) /\ b = Len(handlers)) \/ index = b
    BY <1>1, <1>2, <1>3 DEF GinPart
  <2>2. stack' # <<>> /\ stack'[1].loops = TRUE
    BY <1>3, <1>4, <1>6 DEF ChainTypes
  <2>3. aborted' \/ (index' > Len(handlers') /\ b = Len(handlers')) \/ index' = b + 1
    BY <1>2, <1>3, <2>1
  <2> QED BY <2>2, <2>3 DEF GinPart
<1>8. OnionPart(b)'
  BY <1>2 DEF OnionPart
<1> QED BY <1>6, <1>7, <1>8 DEF ChainAt

\* abort: the handler on top raises the flag.
LEMMA abortStep ==
    ASSUME NEW b \in Nat, ChainAt(b), Chain!abort
    PROVE  ChainAt(b)'
<1> DEFINE t == Chain!Top
           y == [Chain!Top EXCEPT !.rest = Tail(Chain!Top.rest)]
<1>1. /\ ChainTypes(b) /\ StackPart(b) /\ TracePart(b) /\ NestingPart(b) /\ GinPart(b)
      /\ OnionPart(b)
  BY DEF ChainAt
<1>2. /\ stack # <<>> /\ t.loops = FALSE /\ t.rest # <<>> /\ Head(t.rest) = "abort"
      /\ aborted' = TRUE
      /\ stack' = <<y>> \o Tail(stack)
      /\ UNCHANGED <<style, handlers, index, trace>>
  <2>1. t.loops \in BOOLEAN
    BY <1>1, TopIs DEF Chain!abort, Frames
  <2> QED BY <2>1 DEF Chain!abort
<1>3. /\ t = stack[1] /\ t \in Frames /\ FrameOK(t, b, aborted) /\ t.rest \in Seq(Calls)
      /\ 1 \in 1 .. Len(stack) /\ Len(stack) \in Nat /\ Len(stack) >= 1
      /\ b \in 0 .. Len(handlers) /\ Len(handlers) \in Nat /\ index \in Nat
      /\ aborted \in BOOLEAN /\ t.handler \in 1 .. b
      /\ handlers[t.handler] \in Seq(Calls)
  BY <1>1, <1>2, TopIs, TypesAre
<1>4. y \in Frames /\ y.handler = t.handler /\ y.rest = Tail(t.rest) /\ y.loops = FALSE
  <2>1. Tail(t.rest) \in Seq(Calls)
    BY <1>2, <1>3
  <2>3. t.loops = FALSE
    BY <1>2
  <2> HIDE DEF t
  <2>2. y = [t EXCEPT !.rest = Tail(t.rest)]
    BY DEF t
  <2> HIDE DEF y
  <2> QED BY <1>3, <2>1, <2>2, <2>3 DEF Frames
<1> HIDE DEF y
<1>5. FrameOK(y, b, TRUE)
  BY <1>1, <1>2, <1>3, <1>4, CallMade
<1>6. \E k \in 1 .. Len(handlers[t.handler]) : k = Done(t) + 1 /\ handlers[t.handler][k] = "abort"
  <2>1. 1 \in 1 .. Len(t.rest) /\ Len(t.rest) \in Nat /\ Head(t.rest) = t.rest[1]
    BY <1>2, <1>3
  <2>2. handlers[t.handler][Done(t) + 1] = "abort" /\ Done(t) \in Nat
    BY <1>2, <1>3, <2>1 DEF FrameOK
  <2>3. Done(t) + 1 \in 1 .. Len(handlers[t.handler])
    <3> DEFINE p == Len(handlers[t.handler])  q == Len(t.rest)  r == Done(t)
    <3>1. p \in Nat /\ q \in Nat /\ r \in Nat /\ r = p - q /\ q >= 1
      BY <1>3, <2>1, <2>2 DEF Done
    <3> HIDE DEF p, q, r
    <3>2. r + 1 \in 1 .. p
      BY <3>1
    <3> QED BY <3>2 DEF p, r
  <2> QED BY <2>2, <2>3
<1>7. \E a \in 1 .. b : Aborts(a)
  BY <1>3, <1>6 DEF Aborts
<1>8. /\ ChainTypes(b)' /\ StackPart(b)' /\ TracePart(b)' /\ NestingPart(b)'
      /\ Len(stack') = Len(stack) /\ stack'[1] = y
  <2>1. FrameOK(y, b, aborted') /\ index' \in Nat /\ aborted' \in BOOLEAN
        /\ (aborted => aborted')
    BY <1>2, <1>3, <1>5
  <2> QED BY <1>1, <1>2, <1>4, <1>7, <2>1, GoesOn
<1>9. GinPart(b)'
  BY <1>2 DEF GinPart
<1>10. OnionPart(b)'
  <2>1. style # "onion"
    <3> SUFFICES ASSUME style = "onion" PROVE FALSE
      OBVIOUS
    <3>1. t.handler \in 1 .. Len(handlers)
      BY <1>3
    <3>2. handlers[t.handler] = <<>> \/ handlers[t.handler] = <<"next">>
      BY <1>1, <3>1 DEF OnionPart
    <3>3. \A s, k : (s = <<>> \/ s = <<"next">>) /\ k \in 1 .. Len(s) => s[k] = "next"
      <4>1. 1 .. 0 = {} /\ 1 .. 1 = {1}
        OBVIOUS
      <4> QED BY <4>1
    <3> QED BY <1>6, <3>2, <3>3
  <2> QED BY <1>2, <2>1 DEF OnionPart
<1> QED BY <1>8, <1>9, <1>10 DEF ChainAt

\* The loop of next: with nobody having aborted, the handler it lets in is the
\* one after the last that began, and that one does not begin with abort.
LEMMA loopInvokes ==
    ASSUME NEW b \in Nat, NEW d \in Nat, d = b + 1, ChainAt(b), Chain!loop,
           index <= Len(handlers), ~aborted
    PROVE  ChainAt(d)' /\ d <= Len(handlers')
<1> DEFINE t == Chain!Top
<1>1. ChainTypes(b) /\ StackPart(b) /\ TracePart(b) /\ NestingPart(b) /\ GinPart(b)
  BY DEF ChainAt
<1>2. /\ style = "gin" /\ stack # <<>> /\ t.loops
      /\ stack' = <<Chain!Frame(index)>> \o stack
      /\ trace' = Append(trace, Chain!Begin(index))
      /\ UNCHANGED <<style, handlers, index, aborted>>
  BY DEF Chain!loop, Chain!Invoke
<1>3. /\ t = stack[1] /\ t \in Frames /\ FrameOK(t, b, aborted)
      /\ 1 \in 1 .. Len(stack) /\ Len(stack) \in Nat /\ Len(stack) >= 1
      /\ b \in 0 .. Len(handlers) /\ Len(handlers) \in Nat /\ index \in Nat
      /\ b >= 1 /\ stack \in Seq(Frames) /\ t.loops = TRUE
  BY <1>1, <1>2, TopIs, TypesAre DEF Frames
<1>4. index = d
  BY <1>1, <1>2, <1>3 DEF GinPart
<1>5. handlers[b] # <<>> => handlers[b][1] # "abort"
  <2> SUFFICES ASSUME handlers[b] # <<>>, handlers[b][1] = "abort" PROVE FALSE
    OBVIOUS
  <2>1. b \in 1 .. b /\ b \in 1 .. Len(handlers)
    BY <1>3
  <2>2. handlers[b] \in Seq(Calls)
    BY <1>1, <2>1, TypesAre
  <2>3. 1 \in 1 .. Len(handlers[b])
    BY <2>2
  <2>4. ~Ended(b, b)
    BY <1>1, <2>1, <2>3 DEF NestingPart, Aborts
  <2>5. PICK i \in 1 .. Len(stack) : stack[i].handler = b
    BY <2>1, <2>4 DEF Ended
  <2>6. stack[i].loops = TRUE /\ FrameOK(stack[i], b, aborted)
    <3>1. FrameOK(stack[i], b, aborted) /\ (i > 1 => stack[i].loops = (style = "gin"))
      BY <1>1 DEF StackPart, StackOK
    <3>2. i = 1 \/ i > 1
      BY <1>3
    <3> QED BY <1>2, <1>3, <3>1, <3>2
  <2>7. 1 \in 1 .. Done(stack[i])
    BY <2>6 DEF FrameOK
  <2> QED BY <2>5, <2>6, <2>7 DEF FrameOK
<1>6. d <= Len(handlers) /\ stack' = <<Chain!Frame(d)>> \o stack
      /\ trace' = Append(trace, Chain!Begin(d)) /\ index' = d
  BY <1>2, <1>4
<1>7. StackOK(stack, b, aborted) /\ stack[1].loops = (style = "gin") /\ style # "onion"
  BY <1>1, <1>2, <1>3 DEF StackPart
<1> HIDE DEF t
<1>8. /\ ChainTypes(d)' /\ StackPart(d)' /\ TracePart(d)' /\ NestingPart(d)'
      /\ Len(stack') = Len(stack) + 1 /\ stack'[1] = Chain!Frame(d)
  BY <1>2, <1>3, <1>5, <1>6, <1>7, Begins, SMTT(60)
<1>9. GinPart(d)'
  <2>1. stack'[1].loops = FALSE
    <3>1. d \in 1 .. Len(handlers)
      BY <1>3, <1>6
    <3> QED BY <1>1, <1>8, <3>1, NewFrame
  <2>2. stack' # <<>> /\ Len(stack') # 1
    BY <1>3, <1>8 DEF ChainTypes
  <2> QED BY <1>6, <2>1, <2>2 DEF GinPart
<1>10. OnionPart(d)'
  BY <1>2 DEF OnionPart
<1> QED BY <1>2, <1>6, <1>8, <1>9, <1>10 DEF ChainAt

\* The loop of next ends.
LEMMA loopEnds ==
    ASSUME NEW b \in Nat, ChainAt(b), Chain!loop, ~(index <= Len(handlers) /\ ~aborted)
    PROVE  ChainAt(b)'
<1> DEFINE t == Chain!Top  y == [Chain!Top EXCEPT !.loops = FALSE]
<1>1. ChainTypes(b) /\ StackPart(b) /\ TracePart(b) /\ NestingPart(b) /\ GinPart(b)
  BY DEF ChainAt
<1>2. /\ style = "gin" /\ stack # <<>> /\ t.loops = TRUE
      /\ stack' = <<y>> \o Tail(stack)
      /\ UNCHANGED <<style, handlers, index, aborted, trace>>
  <2>1. t.loops \in BOOLEAN
    BY <1>1, TopIs DEF Chain!loop, Frames
  <2> QED BY <2>1 DEF Chain!loop
<1>3. /\ t = stack[1] /\ t \in Frames /\ FrameOK(t, b, aborted)
      /\ 1 \in 1 .. Len(stack) /\ Len(stack) \in Nat /\ Len(stack) >= 1
      /\ b \in 0 .. Len(handlers) /\ Len(handlers) \in Nat /\ index \in Nat
      /\ aborted \in BOOLEAN
  BY <1>1, <1>2, TopIs, TypesAre
<1>4. y \in Frames /\ y.handler = t.handler /\ y.rest = t.rest /\ y.loops = FALSE
  <2> HIDE DEF t
  <2>2. y = [t EXCEPT !.loops = FALSE]
    BY DEF t
  <2> HIDE DEF y
  <2> QED BY <1>3, <2>2 DEF Frames
<1> HIDE DEF y
<1>5. FrameOK(y, b, aborted)
  <2>1. Done(y) = Done(t)
    BY <1>4 DEF Done
  <2> HIDE DEF t
  <2> QED BY <1>3, <1>4, <2>1 DEF FrameOK
<1>6. /\ ChainTypes(b)' /\ StackPart(b)' /\ TracePart(b)' /\ NestingPart(b)'
      /\ Len(stack') = Len(stack) /\ stack'[1] = y
  <2>1. FrameOK(y, b, aborted') /\ index' \in Nat /\ aborted' \in BOOLEAN
        /\ (aborted => aborted') /\ (aborted' => aborted)
    BY <1>2, <1>3, <1>5
  <2> QED BY <1>1, <1>2, <1>4, <2>1, GoesOn
<1>7. GinPart(b)'
  <2>1. aborted \/ (index > Len(handlers) /\ b = Len(handlers)) \/ index = b + 1
    BY <1>1, <1>2, <1>3 DEF GinPart
  <2>2. aborted \/ (index > Len(handlers) /\ b = Len(handlers))
    BY <1>3, <2>1
  <2>3. stack' # <<>>
    BY <1>3, <1>6 DEF ChainTypes
  <2>4. aborted' \/ (index' > Len(handlers') /\ b = Len(handlers'))
    BY <1>2, <2>2
  <2> QED BY <2>3, <2>4 DEF GinPart
<1>8. OnionPart(b)'
  BY <1>2 DEF OnionPart
<1> QED BY <1>6, <1>7, <1>8 DEF ChainAt

\* A handler returns; the first, with the whole chain begun unless one of those
\* it let in has aborted.
LEMMA returnStep ==
    ASSUME NEW b \in Nat, ChainAt(b), Chain!return
    PROVE  ChainAt(b)'
<1> DEFINE t == Chain!Top
<1>1. /\ ChainTypes(b) /\ StackPart(b) /\ TracePart(b) /\ NestingPart(b) /\ GinPart(b)
      /\ OnionPart(b)
  BY DEF ChainAt
<1>2. /\ stack # <<>> /\ t.loops = FALSE /\ t.rest = <<>> /\ stack' = Tail(stack)
      /\ trace' = Append(trace, Chain!End(t.handler))
      /\ index' = IF style = "gin" /\ Tail(stack) # <<>> THEN index + 1 ELSE index
      /\ UNCHANGED <<style, handlers, aborted>>
  <2>1. t.loops \in BOOLEAN
    BY <1>1, TopIs DEF Chain!return, Frames
  <2> QED BY <2>1 DEF Chain!return
<1>3. /\ t = stack[1] /\ t \in Frames /\ FrameOK(t, b, aborted)
      /\ 1 \in 1 .. Len(stack) /\ Len(stack) \in Nat /\ Len(stack) >= 1
      /\ b \in 0 .. Len(handlers) /\ Len(handlers) \in Nat /\ index \in Nat
      /\ b >= 1 /\ stack \in Seq(Frames) /\ aborted \in BOOLEAN /\ t.handler \in 1 .. b
      /\ handlers[t.handler] \in Seq(Calls) /\ trace \in Seq(Events)
      /\ Tail(stack) \in Seq(Frames) /\ Len(Tail(stack)) = Len(stack) - 1
  BY <1>1, <1>2, TopIs, TypesAre
<1>4. Done(t) = Len(handlers[t.handler])
  <2>1. Len(t.rest) = 0
    BY <1>2
  <2>2. Len(handlers[t.handler]) \in Nat
    BY <1>3
  <2> QED BY <2>1, <2>2 DEF Done
<1>5. \A i \in 1 .. Len(stack) - 1 : i + 1 \in 2 .. Len(stack) /\ stack'[i] = stack[i + 1]
  BY <1>2, <1>3
<1>6. trace' \in Seq(Events) /\ index' \in Nat
  <2>1. t.handler \in Nat
    BY <1>3
  <2>2. Chain!End(t.handler) \in Events
    BY <2>1, EventsDiffer
  <2> HIDE DEF t
  <2> QED BY <1>2, <1>3, <2>2
<1>7. ChainTypes(b)'
  BY <1>1, <1>2, <1>3, <1>6 DEF ChainTypes
<1>8. StackPart(b)'
  <2>1. StackOK(Tail(stack), b, aborted)
    BY <1>1, <1>2, <1>3, TailOK DEF StackPart
  <2> QED BY <1>2, <2>1, SameFrames
<1>9. TracePart(b)' /\ NestingPart(b)'
  BY <1>1, <1>2, <1>3, <1>4, EndStep
<1>10. GinPart(b)'
  <2> SUFFICES ASSUME style = "gin" PROVE GinPart(b)'
    BY <1>2 DEF GinPart
  <2>1. CASE Len(stack) = 1
    <3>1. Tail(stack) = <<>> /\ t.handler = 1
      BY <1>1, <1>3, <2>1, OneCall DEF StackPart, StackOK
    <3>2. \A k \in 1 .. Len(handlers[1]) : handlers[1][k] = "next" => aborted \/ b = Len(handlers)
      BY <1>1, <1>2, <1>3, <1>4, <2>1, <3>1 DEF GinPart
    <3>3. stack' = <<>> /\ Len(stack') = 0
      BY <1>2, <3>1
    <3> QED BY <1>2, <3>2, <3>3 DEF GinPart
  <2>2. CASE Len(stack) > 1
    <3>1. Tail(stack) # <<>> /\ 2 \in 1 .. Len(stack) /\ 1 \in 1 .. Len(stack) - 1
      <4>1. Len(Tail(stack)) # 0
        BY <1>3, <2>2
      <4>2. ASSUME Tail(stack) = <<>> PROVE FALSE
        BY <4>1, <4>2
      <4>3. 2 \in 1 .. Len(stack) /\ 1 \in 1 .. Len(stack) - 1
        BY <1>3, <2>2
      <4> QED BY <4>2, <4>3
    <3>2. stack'[1] = stack[2]
      BY <1>5, <3>1
    <3>3. stack'[1].loops = TRUE
      <4>1. stack[2].loops = (style = "gin")
        BY <1>1, <3>1 DEF StackPart, StackOK
      <4> QED BY <3>2, <4>1
    <3>4. aborted \/ (index > Len(handlers) /\ b = Len(handlers)) \/ index = b
      BY <1>1, <1>2, <1>3 DEF GinPart
    <3>5. index' = index + 1
      BY <1>2, <3>1
    <3>6. aborted' \/ (index' > Len(handlers') /\ b = Len(handlers')) \/ index' = b + 1
      <4>1. index \in Nat /\ Len(handlers) \in Nat /\ aborted' = aborted /\ handlers' = handlers
        BY <1>2, <1>3
      <4>2. index > Len(handlers) => index' > Len(handlers')
        BY <3>5, <4>1
      <4> QED BY <3>4, <3>5, <4>1, <4>2
    <3>7. stack' # <<>>
      BY <1>2, <3>1
    <3> QED BY <3>3, <3>6, <3>7 DEF GinPart
  <2> QED BY <1>3, <2>1, <2>2
<1>11. OnionPart(b)'
  <2> SUFFICES ASSUME style = "onion" PROVE OnionPart(b)'
    BY <1>2 DEF OnionPart
  <2>1. b = Len(handlers)
    BY <1>1, <1>2, <1>3 DEF OnionPart
  <2>2. \A i \in 1 .. Len(stack) - 1 : stack'[i].rest = <<>>
    BY <1>1, <1>5 DEF OnionPart
  <2>3. Len(stack') = Len(stack) - 1 /\ (stack' # <<>> => 1 \in 1 .. Len(stack) - 1)
    BY <1>2, <1>3
  <2>4. \A i \in 2 .. Len(stack') : i \in 1 .. Len(stack) - 1
    BY <1>3, <2>3
  <2>5. ~(stack' # <<>> /\ stack'[1].rest # <<>>)
    BY <2>2, <2>3
  <2>6. ~aborted /\ \A c \in 1 .. Len(handlers) :
           handlers[c] = IF c = Len(handlers) THEN <<>> ELSE <<"next">>
    BY <1>1 DEF OnionPart
  <2> QED BY <1>2, <2>1, <2>2, <2>4, <2>5, <2>6 DEF OnionPart
<1> QED BY <1>7, <1>8, <1>9, <1>10, <1>11 DEF ChainAt

LEMMA ChainStarts ==
    ASSUME Chain!Init
    PROVE  ChainAt(1) /\ 1 \in 0 .. Len(handlers)
<1> DEFINE f == Chain!Frame(1)  e == Chain!Begin(1)
<1>1. /\ style \in {"onion", "gin"} /\ index = 1 /\ aborted = FALSE
      /\ stack = <<f>> /\ trace = <<e>>
  BY DEF Chain!Init
<1>2. PICK c \in 1 .. MaxHandlers :
         IF style = "onion"
         THEN handlers = [k \in 1 .. c |-> IF k = c THEN <<>> ELSE <<"next">>]
         ELSE handlers \in [1 .. c -> Chain!HandlerCalls]
  BY DEF Chain!Init
<1>3. c \in Nat /\ c >= 1
  BY ChainAssumption
<1>4. handlers \in [1 .. c -> Seq(Calls)]
  <2>1. CASE style = "onion"
    <3>1. <<>> \in Seq(Calls) /\ <<"next">> \in Seq(Calls)
      BY DEF Calls
    <3> QED BY <1>2, <2>1, <3>1
  <2>2. CASE style # "onion"
    <3>1. Chain!HandlerCalls \subseteq Seq(Calls)
      <4> SUFFICES ASSUME NEW s \in Chain!HandlerCalls
                   PROVE  s \in Seq(Calls)
        OBVIOUS
      <4>1. PICK k \in 0 .. MaxCalls : s \in [1 .. k -> Calls]
        BY DEF Chain!HandlerCalls, Calls
      <4>2. k \in Nat
        BY ChainAssumption
      <4> QED BY <4>1, <4>2
    <3> QED BY <1>2, <2>2, <3>1
  <2> QED BY <2>1, <2>2
<1>5. handlers \in Seq(Seq(Calls)) /\ Len(handlers) = c /\ DOMAIN handlers = 1 .. c
  BY <1>3, <1>4
<1>6. 1 \in 1 .. Len(handlers) /\ handlers[1] \in Seq(Calls)
  BY <1>3, <1>5
<1>7. f = [handler |-> 1, rest |-> handlers[1], loops |-> FALSE] /\ f \in Frames
  BY <1>6 DEF Chain!Frame, Frames
<1>8. f.handler = 1 /\ f.rest = handlers[1] /\ f.loops = FALSE /\ Done(f) = 0
  <2>1. Len(handlers[1]) \in Nat
    BY <1>6
  <2>2. f.handler = 1 /\ f.rest = handlers[1] /\ f.loops = FALSE
    BY <1>7
  <2> HIDE DEF f
  <2> QED BY <2>1, <2>2 DEF Done
<1>9. e \in Events
  BY EventsDiffer
<1> HIDE DEF f, e
<1>10. /\ stack \in Seq(Frames) /\ Len(stack) = 1 /\ stack[1] = f /\ stack # <<>>
       /\ trace \in Seq(Events) /\ Len(trace) = 1 /\ trace[1] = e
  BY <1>1, <1>7, <1>9
<1>11. ChainTypes(1)
  <2>1. 1 \in 0 .. Len(handlers) /\ 1 \in Nat /\ 1 >= 1
    BY <1>3, <1>5
  <2> QED BY <1>1, <1>5, <1>10, <2>1 DEF ChainTypes
<1>12. 1 .. 1 = {1} /\ 1 .. 0 = {} /\ 2 .. 1 = {}
  OBVIOUS
<1>13. StackPart(1)
  <2>1. FrameOK(f, 1, aborted)
    BY <1>6, <1>11, NewFrame DEF f
  <2> QED BY <1>8, <1>10, <1>12, <2>1 DEF StackPart, StackOK
<1>14. ~Ended(1, 1)
  BY <1>8, <1>10, <1>12 DEF Ended
<1>15. TracePart(1)
  BY <1>10, <1>12, <1>14 DEF TracePart, OnlyEvents, AllEvents, EventsOnce, BeginInOrder, e
<1>16. NestingPart(1)
  BY <1>1, <1>12, <1>14 DEF NestingPart
<1>17. GinPart(1)
  BY <1>1, <1>8, <1>10, <1>12 DEF GinPart
<1>18. OnionPart(1)
  <2> SUFFICES ASSUME style = "onion" PROVE OnionPart(1)
    BY DEF OnionPart
  <2>1. \A k \in 1 .. Len(handlers) :
           handlers[k] = IF k = Len(handlers) THEN <<>> ELSE <<"next">>
    BY <1>2, <1>5
  <2>2. handlers[1] = <<>> => Len(handlers) = 1
    <3>1. <<"next">> # <<>>
      OBVIOUS
    <3> QED BY <1>6, <2>1, <3>1
  <2>3. IF stack[1].rest # <<>> THEN stack[1].handler = 1 ELSE 1 = Len(handlers)
    BY <1>8, <1>10, <2>2
  <2> QED BY <1>1, <1>10, <1>12, <2>1, <2>3 DEF OnionPart
<1> QED BY <1>11, <1>13, <1>15, <1>16, <1>17, <1>18, <1>5, <1>3 DEF ChainAt

LEMMA ChainIdle ==
    ASSUME IdleChain
    PROVE  ChainAt(0) /\ 0 \in 0 .. Len(handlers)
<1> DEFINE e == <<>>
<1>1. /\ style = "onion" /\ handlers = e /\ index = 1 /\ aborted = FALSE
      /\ stack = e /\ trace = e /\ Len(e) = 0 /\ e \in Seq(Frames) /\ e \in Seq(Events)
      /\ e \in Seq(Seq(Calls))
  BY DEF IdleChain
<1>2. 1 .. 0 = {} /\ 2 .. 0 = {} /\ 0 \in 0 .. 0
  OBVIOUS
<1>3. ChainTypes(0)
  <2> HIDE DEF e
  <2>1. e = <<>>
    BY DEF e
  <2> QED BY <1>1, <1>2, <2>1 DEF ChainTypes
<1>4. StackPart(0) /\ TracePart(0) /\ NestingPart(0)
  <2> HIDE DEF e
  <2> QED BY <1>1, <1>2 DEF StackPart, StackOK, TracePart, OnlyEvents, AllEvents, EventsOnce,
                            BeginInOrder, NestingPart
<1>5. GinPart(0) /\ OnionPart(0)
  <2>1. GinPart(0)
    BY <1>1 DEF GinPart
  <2>2. stack = <<>> /\ Len(stack) = 0 /\ Len(handlers) = 0
    BY <1>1
  <2>3. OnionPart(0)
    BY <1>1, <1>2, <2>2 DEF OnionPart
  <2> QED BY <2>1, <2>3
<1>6. 0 \in 0 .. Len(handlers)
  BY <1>1, <1>2
<1> QED BY <1>3, <1>4, <1>5, <1>6 DEF ChainAt

LEMMA InitChain == Init => ChainInv
BY ChainStarts, ChainIdle DEF Init, ChainInv

LEMMA ChainStays ==
    ASSUME NEW b, ChainAt(b), UNCHANGED chainVars
    PROVE  ChainAt(b)'
<1>1. UNCHANGED <<style, handlers, index, aborted, stack, trace>>
  BY DEF chainVars
<1>2. ChainTypes(b)'
  BY <1>1 DEF ChainAt, ChainTypes
<1>3. StackPart(b)'
  BY <1>1, SameFrames DEF ChainAt, StackPart
<1>4. (\A c : Ended(c, b)' <=> Ended(c, b)) /\ (\A c : Aborts(c)' <=> Aborts(c))
  BY <1>1 DEF Ended, Aborts
<1>5. TracePart(b)'
  BY <1>1, <1>4 DEF ChainAt, TracePart, OnlyEvents, AllEvents, EventsOnce, BeginInOrder
<1>6. NestingPart(b)'
  BY <1>1, <1>4 DEF ChainAt, NestingPart
<1>7. GinPart(b)' /\ OnionPart(b)'
  BY <1>1 DEF ChainAt, GinPart, OnionPart, Done
<1> QED BY <1>2, <1>3, <1>5, <1>6, <1>7 DEF ChainAt

LEMMA ChainStep == ChainInv /\ [Next]_vars => ChainInv'
<1> SUFFICES ASSUME ChainInv, [Next]_vars PROVE ChainInv'
  OBVIOUS
<1>1. PICK b \in 0 .. Len(handlers) : ChainAt(b)
  BY DEF ChainInv
<1>2. Len(handlers) \in Nat /\ b \in Nat
  BY <1>1 DEF ChainAt, ChainTypes
<1>3. ASSUME ChainAt(b)', handlers' = handlers PROVE ChainInv'
  BY <1>3 DEF ChainInv
<1>4. ASSUME NEW d \in Nat, ChainAt(d)', d <= Len(handlers'), handlers' = handlers PROVE ChainInv'
  <2>1. d \in 0 .. Len(handlers')
    BY <1>2, <1>4
  <2> QED BY <1>4, <2>1 DEF ChainInv
<1>5. ASSUME UNCHANGED chainVars PROVE ChainInv'
  BY <1>1, <1>3, <1>5, ChainStays DEF chainVars
<1>6. CASE middlewares
  <2>1. Chain!Next
    BY <1>6 DEF middlewares
  <2>2. CASE Chain!callInner
    <3>1. b + 1 \in Nat /\ handlers' = handlers
      BY <1>2, <2>2 DEF Chain!callInner
    <3>2. ChainAt(b + 1)' /\ b + 1 <= Len(handlers')
      BY <1>1, <1>2, <2>2, <3>1, callInnerStep
    <3> QED BY <1>4, <3>1, <3>2
  <2>3. CASE Chain!next
    BY <1>1, <1>2, <1>3, <2>3, nextStep DEF Chain!next
  <2>4. CASE Chain!loop
    <3>0. handlers' = handlers
      BY <2>4 DEF Chain!loop
    <3>1. CASE index <= Len(handlers) /\ ~aborted
      <4>1. b + 1 \in Nat
        BY <1>2
      <4>2. ChainAt(b + 1)' /\ b + 1 <= Len(handlers')
        BY <1>1, <1>2, <2>4, <3>1, <4>1, loopInvokes
      <4> QED BY <1>4, <3>0, <4>1, <4>2
    <3>2. CASE ~(index <= Len(handlers) /\ ~aborted)
      <4>1. ChainAt(b)'
        BY <1>1, <1>2, <2>4, <3>2, loopEnds
      <4> QED BY <1>3, <3>0, <4>1
    <3> QED BY <3>1, <3>2
  <2>5. CASE Chain!abort
    BY <1>1, <1>2, <1>3, <2>5, abortStep DEF Chain!abort
  <2>6. CASE Chain!return
    BY <1>1, <1>2, <1>3, <2>6, returnStep DEF Chain!return
  <2>7. CASE Chain!Terminated
    BY <1>5, <2>7 DEF Chain!Terminated, Chain!chainVars, chainVars
  <2> QED BY <2>1, <2>2, <2>3, <2>4, <2>5, <2>6, <2>7 DEF Chain!Next
<1>7. chainingHashMap \/ valueContext \/ dataPassing \/ idempotent \/ trees
      \/ bPlusTreeIndex \/ protobufEncoding \/ slicesAndRoutes \/ deferredCalls
      \/ UNCHANGED vars => UNCHANGED chainVars
  BY DEF chainingHashMap, valueContext, dataPassing, idempotent, trees, bPlusTreeIndex,
         protobufEncoding, slicesAndRoutes, deferredCalls, vars
<1> QED BY <1>5, <1>6, <1>7 DEF Next

\* Where an event is that the trace has once.
LEMMA PositionIs ==
    ASSUME NEW b \in Nat, ChainTypes(b), EventsOnce, NEW k \in 1 .. Len(trace)
    PROVE  Chain!Position(trace[k]) = k
<1>1. DOMAIN trace = 1 .. Len(trace)
  BY DEF ChainTypes
<1>2. \A l \in DOMAIN trace : trace[l] = trace[k] <=> l = k
  BY <1>1 DEF EventsOnce
<1> QED BY <1>1, <1>2 DEF Chain!Position

LEMMA ChainInOrder ==
    ASSUME NEW b \in Nat, ChainAt(b)
    PROVE  Chain!ChainRunsInOrder /\ Chain!OnionIsNested
<1>1. /\ ChainTypes(b) /\ StackPart(b) /\ NestingPart(b) /\ GinPart(b) /\ OnionPart(b)
      /\ OnlyEvents(b) /\ AllEvents(b) /\ EventsOnce /\ BeginInOrder(b)
  BY DEF ChainAt, TracePart
<1>2. /\ DOMAIN trace = 1 .. Len(trace) /\ DOMAIN handlers = 1 .. Len(handlers)
      /\ b \in 0 .. Len(handlers) /\ Len(handlers) \in Nat
      /\ handlers \in Seq(Seq(Calls)) /\ (handlers # <<>> => b >= 1)
      /\ style \in {"onion", "gin"}
  BY <1>1 DEF ChainTypes
<1>3. \A k \in 1 .. Len(trace) : Chain!Position(trace[k]) = k
  BY <1>1, PositionIs
<1>4. Chain!Began = 1 .. b
  <2>1. ASSUME NEW c \in DOMAIN handlers, NEW k \in DOMAIN trace, trace[k] = Chain!Begin(c)
        PROVE  c \in 1 .. b
    BY <1>1, <1>2, <2>1, EventsDiffer DEF OnlyEvents
  <2>2. \A c \in 1 .. b : c \in DOMAIN handlers /\ \E k \in DOMAIN trace : trace[k] = Chain!Begin(c)
    <3>1. \A c \in 1 .. b : c \in 1 .. Len(handlers)
      BY <1>2
    <3> QED BY <1>1, <1>2, <3>1 DEF AllEvents
  <2> QED BY <2>1, <2>2 DEF Chain!Began
<1>6. \A m, c \in 1 .. b : m < c => Chain!Position(Chain!Begin(m)) < Chain!Position(Chain!Begin(c))
  <2> SUFFICES ASSUME NEW m \in 1 .. b, NEW c \in 1 .. b, m < c
               PROVE  Chain!Position(Chain!Begin(m)) < Chain!Position(Chain!Begin(c))
    OBVIOUS
  <2>1. PICK k \in 1 .. Len(trace) : trace[k] = Chain!Begin(m)
    BY <1>1 DEF AllEvents
  <2>2. PICK l \in 1 .. Len(trace) : trace[l] = Chain!Begin(c)
    BY <1>1 DEF AllEvents
  <2>3. k < l
    BY <1>1, <2>1, <2>2 DEF BeginInOrder
  <2> QED BY <1>3, <2>1, <2>2, <2>3
<1>7. \A k, l \in DOMAIN trace : k # l => trace[k] # trace[l]
  BY <1>1, <1>2 DEF EventsOnce
<1>8. ASSUME stack = <<>>
      PROVE  \A c \in 1 .. b : Ended(c, b) /\ \E k \in 1 .. Len(trace) : trace[k] = Chain!End(c)
  <2>1. \A c \in 1 .. b : Ended(c, b)
    <3>1. Len(stack) = 0 /\ 1 .. 0 = {}
      BY <1>8
    <3> QED BY <3>1 DEF Ended
  <2> QED BY <1>1, <2>1 DEF AllEvents
<1>9. ASSUME stack = <<>>, NEW a \in 1 .. b, NEW c \in 1 .. b, a < c,
             style = "onion" \/ Aborts(a)
      PROVE  Chain!Position(Chain!End(c)) < Chain!Position(Chain!End(a))
  <2>1. PICK k \in 1 .. Len(trace) : trace[k] = Chain!End(c)
    BY <1>8, <1>9
  <2>2. PICK l \in 1 .. Len(trace) : trace[l] = Chain!End(a)
    BY <1>8, <1>9
  <2>3. k < l
    BY <1>1, <1>8, <1>9, <2>1, <2>2 DEF NestingPart
  <2> QED BY <1>3, <2>1, <2>2, <2>3
<1>10. \A c \in 1 .. Len(handlers) : /\ handlers[c] \in Seq(Calls)
                                    /\ DOMAIN handlers[c] = 1 .. Len(handlers[c])
                                    /\ (Chain!Calls(c, "abort") <=> Aborts(c))
  <2> SUFFICES ASSUME NEW c \in 1 .. Len(handlers)
               PROVE  /\ handlers[c] \in Seq(Calls)
                      /\ DOMAIN handlers[c] = 1 .. Len(handlers[c])
                      /\ (Chain!Calls(c, "abort") <=> Aborts(c))
    OBVIOUS
  <2>1. handlers[c] \in Seq(Calls)
    BY <1>2
  <2>2. DOMAIN handlers[c] = 1 .. Len(handlers[c])
    BY <2>1
  <2> QED BY <2>1, <2>2 DEF Chain!Calls, Aborts
<1>11. \A c \in 1 .. b : c \in 1 .. Len(handlers)
  BY <1>2
<1>12. ASSUME stack = <<>>, NEW a \in 1 .. b, Chain!Calls(a, "abort"), NEW c \in 1 .. b, c > a
       PROVE  Head(handlers[a]) = "next"
  <2>1. Aborts(a) /\ handlers[a] \in Seq(Calls)
    <3>1. a \in 1 .. Len(handlers)
      BY <1>11
    <3> QED BY <1>10, <1>12, <3>1
  <2>2. handlers[a] # <<>> /\ handlers[a][1] \in Calls /\ Head(handlers[a]) = handlers[a][1]
    <3>1. Len(handlers[a]) \in Nat /\ Len(handlers[a]) >= 1
      BY <2>1 DEF Aborts
    <3>2. Len(<<>>) = 0 /\ 0 # 1
      OBVIOUS
    <3>3. handlers[a] # <<>> /\ 1 \in 1 .. Len(handlers[a])
      BY <3>1, <3>2
    <3> QED BY <2>1, <3>3
  <2>3. handlers[a][1] # "abort"
    <3>1. handlers[a][1] = "abort" => a = b
      BY <1>1, <2>2 DEF NestingPart
    <3>2. a # b
      BY <1>2, <1>12
    <3> QED BY <3>1, <3>2
  <2> QED BY <2>2, <2>3 DEF Calls
<1>13. ASSUME stack = <<>>, \A c \in DOMAIN handlers : ~Chain!Calls(c, "abort"),
              Len(handlers) > 1 => Chain!Calls(1, "next")
       PROVE  1 .. b = DOMAIN handlers
  <2>1. ~aborted
    BY <1>1, <1>2, <1>10, <1>11, <1>13 DEF NestingPart
  <2>2. CASE style = "onion"
    BY <1>1, <1>2, <1>13, <2>2 DEF OnionPart
  <2>3. CASE style = "gin" /\ Len(handlers) > 1
    <3>1. 1 \in 1 .. Len(handlers)
      BY <1>2, <2>3
    <3>2. PICK k \in 1 .. Len(handlers[1]) : handlers[1][k] = "next"
      BY <1>10, <1>13, <2>3, <3>1 DEF Chain!Calls
    <3>3. b = Len(handlers)
      BY <1>1, <1>13, <2>1, <2>3, <3>2 DEF GinPart
    <3> QED BY <1>2, <3>3
  <2>4. CASE Len(handlers) <= 1
    <3>1. CASE handlers = <<>>
      <4>1. Len(handlers) = 0
        BY <3>1
      <4> QED BY <1>2, <4>1
    <3>2. CASE handlers # <<>>
      <4> DEFINE p == Len(handlers)
      <4>2. b >= 1 /\ b \in 0 .. p /\ p \in Nat /\ p <= 1
        BY <1>2, <2>4, <3>2
      <4> HIDE DEF p
      <4>3. b = p
        BY <4>2
      <4>1. b = Len(handlers)
        BY <4>3 DEF p
      <4> QED BY <1>2, <4>1
    <3> QED BY <3>1, <3>2
  <2>5. style = "onion" \/ style = "gin"
    BY <1>2
  <2>6. Len(handlers) <= 1 \/ Len(handlers) > 1
    <3>1. Len(handlers) \in Nat
      BY <1>2
    <3> QED BY ONLY <3>1
  <2> QED BY <2>2, <2>3, <2>4, <2>5, <2>6, Zenon
<1>14. Chain!ChainRunsInOrder
  <2>1. ASSUME stack = <<>> PROVE \A c \in 1 .. b : \E k \in DOMAIN trace : trace[k] = Chain!End(c)
    BY <1>2, <1>8, <2>1
  <2>2. ASSUME stack = <<>> PROVE
           \A a \in 1 .. b : Chain!Calls(a, "abort") =>
              \A c \in 1 .. b : c > a =>
                 /\ Head(handlers[a]) = "next"
                 /\ Chain!Position(Chain!End(c)) < Chain!Position(Chain!End(a))
    <3> SUFFICES ASSUME NEW a \in 1 .. b, Chain!Calls(a, "abort"), NEW c \in 1 .. b, c > a
                 PROVE  /\ Head(handlers[a]) = "next"
                        /\ Chain!Position(Chain!End(c)) < Chain!Position(Chain!End(a))
      OBVIOUS
    <3>1. a \in 1 .. Len(handlers) /\ a < c
      BY <1>11
    <3>2. Aborts(a)
      BY <1>10, <3>1
    <3> QED BY <1>9, <1>12, <2>2, <3>1, <3>2
  <2> QED BY <1>2, <1>4, <1>6, <1>7, <1>13, <2>1, <2>2, Zenon DEF Chain!ChainRunsInOrder
<1>15. Chain!OnionIsNested
  <2> SUFFICES ASSUME style = "onion", stack = <<>>, NEW m \in DOMAIN handlers,
                      NEW c \in DOMAIN handlers, m < c
               PROVE  Chain!Position(Chain!End(c)) < Chain!Position(Chain!End(m))
    BY DEF Chain!OnionIsNested
  <2>1. b = Len(handlers)
    BY <1>1 DEF OnionPart
  <2> QED BY <1>2, <1>9, <2>1
<1> QED BY <1>14, <1>15

\* In every chain of handlers, whatever each of them calls, they begin in order,
\* none after one has aborted, and a handler ends after those it let in.
THEOREM ChainsKeepOrder == Spec => []ChainsRunInOrder
<1>1. ChainInv => ChainsRunInOrder
  BY ChainInOrder DEF ChainInv, ChainsRunInOrder, ChainAt, ChainTypes
<1> QED BY <1>1, InitChain, ChainStep, PTL DEF Spec

-----------------------------------------------------------------------------
(*                        Integers in bytes                                *)

\* The numbers a reader has after each of the bytes from the last one down, if
\* it starts with `top`.
Reads(f, bytes, top) ==
    /\ f \in [0 .. Len(bytes) -> Int] /\ f[0] = top
    /\ \A k \in 1 .. Len(bytes) :
          f[k] = (bytes[Len(bytes) + 1 - k] % Base) + Base * f[k - 1]

\* What is left of the number, put on top of the bytes, is the number.
CodeInv ==
    /\ number \in Nat /\ n \in Nat /\ encoded \in BOOLEAN /\ buf \in Seq(Nat)
    /\ \A b \in 1 .. Len(buf) : /\ buf[b] \in 0 .. 2 * Base - 1
                                /\ buf[b] >= Base <=> (~encoded \/ b < Len(buf))
    /\ \E f : Reads(f, buf, IF encoded THEN 0 ELSE n) /\ f[Len(buf)] = number
    /\ ~encoded /\ Len(buf) > 0 => n > 0
    /\ encoded /\ Len(buf) > 1 => buf[Len(buf)] # 0

\* Dividing by the base.
LEMMA Digits ==
    ASSUME NEW m \in Nat
    PROVE  /\ m % Base \in 0 .. Base - 1 /\ m \div Base \in Nat
           /\ m = (m % Base) + Base * (m \div Base)
           /\ ((m % Base) + Base) % Base = m % Base
           /\ m > Base - 1 => m \div Base > 0
           /\ m <= Base - 1 => m % Base = m
<1>1. Base \in Nat /\ Base > 1
  BY VarintAssumption
<1>2. m % Base \in 0 .. Base - 1 /\ m \div Base \in Nat /\ m = (m % Base) + Base * (m \div Base)
  BY <1>1
<1>3. ASSUME NEW x \in 0 .. Base - 1 PROVE (x + Base) % Base = x /\ x % Base = x
  BY <1>1
<1>4. m > Base - 1 => m \div Base > 0
  BY <1>1
<1> QED BY <1>2, <1>3, <1>4

\* One more byte on top.
LEMMA ReadsOn ==
    ASSUME NEW s \in Seq(Nat), NEW x \in Nat, NEW top \in Int, NEW f, Reads(f, s, top),
           NEW new \in Int, top = (x % Base) + Base * new
    PROVE  \E g : Reads(g, Append(s, x), new) /\ g[Len(s) + 1] = f[Len(s)]
<1> DEFINE r == Append(s, x)  L == Len(s)
           g == [k \in 0 .. L + 1 |-> IF k = 0 THEN new ELSE f[k - 1]]
<1>1. /\ L \in Nat /\ r \in Seq(Nat) /\ Len(r) = L + 1 /\ r[L + 1] = x
      /\ \A i \in 1 .. L : r[i] = s[i]
  OBVIOUS
<1>2. /\ f \in [0 .. L -> Int] /\ f[0] = top
      /\ \A k \in 1 .. L : f[k] = (s[L + 1 - k] % Base) + Base * f[k - 1]
  BY DEF Reads
<1>3. \A k \in 1 .. L + 1 : k \in 0 .. L + 1 /\ k # 0 /\ k - 1 \in 0 .. L /\ 0 \in 0 .. L + 1
  BY <1>1
<1>4. \A k \in 0 .. L + 1 : (IF k = 0 THEN new ELSE f[k - 1]) \in Int
  <2> HIDE DEF L, r
  <2> SUFFICES ASSUME NEW k \in 0 .. L + 1, k # 0 PROVE f[k - 1] \in Int
    OBVIOUS
  <2>1. k - 1 \in 0 .. L
    BY <1>1
  <2> QED BY <1>2, <2>1
<1>5. g \in [0 .. L + 1 -> Int]
  BY <1>4
<1>6. g[0] = new /\ \A k \in 1 .. L + 1 : g[k] = f[k - 1]
  BY <1>1, <1>3
<1> HIDE DEF r, L, g
<1>7. ASSUME NEW k \in 1 .. L + 1 PROVE g[k] = (r[(L + 1) + 1 - k] % Base) + Base * g[k - 1]
  <2>1. CASE k = 1
    <3>1. (L + 1) + 1 - k = L + 1 /\ k - 1 = 0 /\ 1 \in 1 .. L + 1
      BY <1>1, <2>1
    <3> QED BY <1>1, <1>2, <1>6, <2>1, <3>1
  <2>2. CASE k # 1
    <3>1. /\ (L + 1) + 1 - k = L + 1 - (k - 1) /\ k - 1 \in 1 .. L /\ k - 1 \in 1 .. L + 1
          /\ L + 1 - (k - 1) \in 1 .. L
      BY <1>1, <2>2
    <3> QED BY <1>1, <1>2, <1>6, <3>1
  <2> QED BY <2>1, <2>2
<1>8. Reads(g, r, new)
  BY <1>1, <1>5, <1>6, <1>7 DEF Reads
<1>9. g[L + 1] = f[L]
  <2>1. L + 1 \in 1 .. L + 1 /\ (L + 1) - 1 = L
    BY <1>1
  <2> QED BY <1>6, <2>1
<1> QED BY <1>8, <1>9 DEF r, L

\* The reader of the definition is that one.
LEMMA ReadIs ==
    ASSUME NEW s \in Seq(Nat), NEW f, Reads(f, s, 0)
    PROVE  Code!Read(s) = f[Len(s)]
<1> DEFINE L == Len(s)
           V(v) == v = [k \in 0 .. L |-> IF k = 0 THEN 0
                                         ELSE (s[L + 1 - k] % Base) + Base * v[k - 1]]
           c == CHOOSE v : V(v)
<1>1. /\ L \in Nat /\ f \in [0 .. L -> Int] /\ f[0] = 0
      /\ \A k \in 1 .. L : f[k] = (s[L + 1 - k] % Base) + Base * f[k - 1]
  BY DEF Reads
<1>2. \A k \in 0 .. L : k = 0 \/ k \in 1 .. L
  BY <1>1
<1>3. V(f)
  <2>1. f = [k \in 0 .. L |-> f[k]]
    BY <1>1
  <2>2. \A k \in 0 .. L : f[k] = IF k = 0 THEN 0 ELSE (s[L + 1 - k] % Base) + Base * f[k - 1]
    BY <1>1, <1>2
  <2> HIDE DEF L
  <2> QED BY <2>1, <2>2
<1>4. V(c)
  <2> HIDE DEF V
  <2> QED BY <1>3
<1>5. \A k \in 0 .. L : c[k] = IF k = 0 THEN 0 ELSE (s[L + 1 - k] % Base) + Base * c[k - 1]
  <2> HIDE DEF c, L
  <2> QED BY <1>4
<1>6. Code!Read(s) = c[L]
  BY DEF Code!Read
<1> HIDE DEF c, V, L
<1> DEFINE Good == {k \in Nat : k <= L => c[k] = f[k]}
<1>7. 0 \in Good
  BY <1>1, <1>5
<1>8. ASSUME NEW k \in Nat, k \in Good PROVE k + 1 \in Good
  <2> SUFFICES ASSUME k + 1 <= L PROVE c[k + 1] = f[k + 1]
    OBVIOUS
  <2>1. k + 1 \in 1 .. L /\ k + 1 \in 0 .. L /\ k + 1 # 0 /\ (k + 1) - 1 = k
    BY <1>1
  <2>2. c[k] = f[k]
    BY <1>1, <1>8
  <2> QED BY <1>1, <1>5, <2>1, <2>2
<1> HIDE DEF Good
<1>9. L \in Good
  BY <1>1, <1>7, <1>8, InductionOnNumbers
<1> QED BY <1>1, <1>6, <1>9 DEF Good, L

\* The two encodings of numbers give numbers.
LEMMA ZigzagIs ==
    ASSUME NEW v \in Code!Signed
    PROVE  Code!zigzag(v) = (IF v >= 0 THEN 2 * v ELSE -2 * v - 1) /\ Code!zigzag(v) \in Code!Unsigned
<1>1. Half \in Nat /\ Half > 0 /\ v \in Int /\ -Half <= v /\ v < Half
  BY VarintAssumption DEF Code!Signed
<1>2. CASE v >= 0
  <2>1. 2 * v \in 0 .. 2 * Half - 1
    BY <1>1, <1>2
  <2>2. (2 * v) % (2 * Half) = 2 * v
    BY <1>1, <2>1
  <2> QED BY <1>1, <1>2, <2>1, <2>2 DEF Code!zigzag, Code!Unsigned
<1>3. CASE v < 0
  <2>1. 2 * v + 2 * Half \in 0 .. 2 * Half - 1
    BY <1>1, <1>3
  <2>2. (2 * v) % (2 * Half) = 2 * v + 2 * Half
    BY <1>1, <2>1
  <2>3. Code!zigzag(v) = 2 * Half - 1 - (2 * v + 2 * Half)
    BY <1>3, <2>2 DEF Code!zigzag
  <2>4. 2 * Half - 1 - (2 * v + 2 * Half) = -2 * v - 1
    BY <1>1
  <2>5. -2 * v - 1 \in 0 .. 2 * Half - 1
    BY <1>1, <1>3
  <2> QED BY <1>1, <1>3, <2>3, <2>4, <2>5 DEF Code!Unsigned
<1> QED BY <1>1, <1>2, <1>3

LEMMA ZigzagIsRight == Code!ZigzagIsOneToOne
<1>1. Half \in Nat /\ Half > 0
  BY VarintAssumption
<1>2. \A v \in Code!Signed : v \in Int /\ -Half <= v /\ v < Half
  BY <1>1 DEF Code!Signed
<1>3. ASSUME NEW u \in Code!Unsigned PROVE \E v \in Code!Signed : Code!zigzag(v) = u
  <2>1. u \in Int /\ 0 <= u /\ u < 2 * Half
    BY <1>1, <1>3 DEF Code!Unsigned
  <2>2. CASE u % 2 = 0
    <3>1. PICK w \in Int : u = 2 * w
      BY <2>1, <2>2
    <3>2. w \in Code!Signed /\ w >= 0
      BY <1>1, <2>1, <3>1 DEF Code!Signed
    <3> QED BY <3>1, <3>2, ZigzagIs
  <2>3. CASE u % 2 = 1
    <3>1. PICK w \in Int : u = -2 * w - 1
      <4>1. u = 2 * (u \div 2) + 1 /\ u \div 2 \in Int
        BY <2>1, <2>3
      <4>2. -(u \div 2) - 1 \in Int /\ u = -2 * (-(u \div 2) - 1) - 1
        BY <4>1
      <4> QED BY <4>2
    <3>2. w \in Code!Signed /\ ~(w >= 0)
      BY <1>1, <2>1, <3>1 DEF Code!Signed
    <3> QED BY <3>1, <3>2, ZigzagIs
  <2> QED BY <2>1, <2>2, <2>3
<1>4. {Code!zigzag(v) : v \in Code!Signed} = Code!Unsigned
  BY <1>3, ZigzagIs
<1>5. ASSUME NEW v \in Code!Signed, NEW w \in Code!Signed
      PROVE  /\ v # w => Code!zigzag(v) # Code!zigzag(w)
             /\ v >= 0 /\ -v < w /\ w < v => Code!zigzag(w) < Code!zigzag(v)
  <2>1. v \in Int /\ w \in Int
    BY <1>2
  <2>2. /\ Code!zigzag(v) = (IF v >= 0 THEN 2 * v ELSE -2 * v - 1)
        /\ Code!zigzag(w) = (IF w >= 0 THEN 2 * w ELSE -2 * w - 1)
    BY ZigzagIs
  <2> QED BY <2>1, <2>2
<1> QED BY <1>4, <1>5 DEF Code!ZigzagIsOneToOne

LEMMA CodeStarts ==
    ASSUME number \in Nat, n = number, buf = <<>>, encoded = FALSE
    PROVE  CodeInv
<1> DEFINE f == [k \in 0 .. 0 |-> number]
<1>1. buf \in Seq(Nat) /\ Len(buf) = 0 /\ 1 .. 0 = {} /\ 0 \in 0 .. 0
  OBVIOUS
<1>2. f \in [0 .. 0 -> Int] /\ f[0] = number
  OBVIOUS
<1> HIDE DEF f
<1>3. Reads(f, buf, n)
  BY <1>1, <1>2 DEF Reads
<1> QED BY <1>1, <1>2, <1>3 DEF CodeInv

LEMMA InitCode == Init => CodeInv
<1> SUFFICES ASSUME Init PROVE CodeInv
  OBVIOUS
<1>1. CASE Code!Init
  <2>1. number \in Code!Unsigned
    BY <1>1, ZigzagIs DEF Code!Init
  <2>2. number \in Nat
    BY <2>1, VarintAssumption DEF Code!Unsigned
  <2> QED BY <1>1, <2>2, CodeStarts DEF Code!Init
<1>2. CASE IdleCode
  BY <1>2, CodeStarts DEF IdleCode
<1> QED BY <1>1, <1>2 DEF Init

LEMMA moreStep ==
    ASSUME CodeInv, Code!more
    PROVE  CodeInv'
<1> DEFINE x == (n % Base) + Base  L == Len(buf)
<1>1. /\ number \in Nat /\ n \in Nat /\ encoded = FALSE /\ buf \in Seq(Nat)
      /\ \A b \in 1 .. L : buf[b] \in 0 .. 2 * Base - 1 /\ buf[b] >= Base
  BY DEF CodeInv, Code!more
<1>2. /\ n > Base - 1 /\ buf' = Append(buf, x) /\ n' = n \div Base
      /\ number' = number /\ encoded' = FALSE
  BY <1>1 DEF Code!more
<1>3. PICK f : Reads(f, buf, n) /\ f[L] = number
  BY <1>1 DEF CodeInv
<1>4. /\ n' \in Nat /\ n' > 0 /\ x \in Nat /\ x \in 0 .. 2 * Base - 1 /\ x >= Base
      /\ n = (x % Base) + Base * n'
  <2> DEFINE r == n % Base
  <2>1. /\ r \in 0 .. Base - 1 /\ n = r + Base * (n \div Base) /\ (r + Base) % Base = r
        /\ n \div Base \in Nat /\ n \div Base > 0
    BY <1>1, <1>2, Digits
  <2>2. Base \in Nat /\ Base > 1
    BY VarintAssumption
  <2>3. x = r + Base
    OBVIOUS
  <2> HIDE DEF r, x
  <2>4. x \in Nat /\ x \in 0 .. 2 * Base - 1 /\ x >= Base /\ x % Base = r
    BY <2>1, <2>2, <2>3
  <2> QED BY <1>2, <2>1, <2>4
<1> HIDE DEF x
<1>5. /\ buf' \in Seq(Nat) /\ Len(buf') = L + 1 /\ buf'[L + 1] = x /\ L \in Nat
      /\ \A b \in 1 .. L : buf'[b] = buf[b]
  BY <1>1, <1>2, <1>4, AppendIs
<1>6. \E g : Reads(g, buf', n') /\ g[L + 1] = f[L]
  <2>1. n \in Int /\ n' \in Int
    BY <1>1, <1>4
  <2>2. \E g : Reads(g, Append(buf, x), n') /\ g[Len(buf) + 1] = f[Len(buf)]
    BY <1>1, <1>3, <1>4, <2>1, ReadsOn
  <2> QED BY <1>2, <2>2
<1>7. \A b \in 1 .. L + 1 : b = L + 1 \/ b \in 1 .. L
  BY <1>5
<1>8. \A b \in 1 .. L + 1 : buf'[b] \in 0 .. 2 * Base - 1 /\ buf'[b] >= Base
  BY <1>1, <1>4, <1>5, <1>7
<1>9. ~encoded'
  BY <1>2
<1> HIDE DEF L
<1> QED BY <1>1, <1>2, <1>3, <1>4, <1>5, <1>6, <1>8, <1>9 DEF CodeInv

LEMMA lastByteStep ==
    ASSUME CodeInv, Code!lastByte
    PROVE  CodeInv'
<1> DEFINE L == Len(buf)
<1>1. /\ number \in Nat /\ n \in Nat /\ encoded = FALSE /\ buf \in Seq(Nat)
      /\ \A b \in 1 .. L : buf[b] \in 0 .. 2 * Base - 1 /\ buf[b] >= Base
      /\ L > 0 => n > 0
  BY DEF CodeInv, Code!lastByte
<1>2. /\ n <= Base - 1 /\ buf' = Append(buf, n) /\ n' = n
      /\ number' = number /\ encoded' = TRUE
  BY <1>1 DEF Code!lastByte
<1>3. PICK f : Reads(f, buf, n) /\ f[L] = number
  BY <1>1 DEF CodeInv
<1>4. n = (n % Base) + Base * 0 /\ n \in 0 .. 2 * Base - 1 /\ ~(n >= Base)
  <2>1. Base \in Nat /\ Base > 1 /\ Base * 0 = 0
    BY VarintAssumption
  <2>2. n % Base = n
    BY <1>1, <1>2, Digits
  <2> QED BY <1>1, <1>2, <2>1, <2>2
<1>5. /\ buf' \in Seq(Nat) /\ Len(buf') = L + 1 /\ buf'[L + 1] = n /\ L \in Nat
      /\ \A b \in 1 .. L : buf'[b] = buf[b]
  BY <1>1, <1>2, AppendIs
<1>6. \E g : Reads(g, buf', 0) /\ g[L + 1] = f[L]
  BY <1>1, <1>2, <1>3, <1>4, ReadsOn
<1>7. \A b \in 1 .. L + 1 : (b = L + 1 /\ ~(b < L + 1)) \/ (b \in 1 .. L /\ b < L + 1)
  BY <1>5
<1>8. \A b \in 1 .. L + 1 : /\ buf'[b] \in 0 .. 2 * Base - 1
                           /\ buf'[b] >= Base <=> b < L + 1
  BY <1>1, <1>4, <1>5, <1>7
<1>9. encoded'
  BY <1>2
<1>10. L + 1 > 1 => n # 0
  BY <1>1, <1>5
<1> HIDE DEF L
<1> QED BY <1>1, <1>2, <1>3, <1>4, <1>5, <1>6, <1>8, <1>9, <1>10 DEF CodeInv

LEMMA CodeStep == CodeInv /\ [Next]_vars => CodeInv'
<1> SUFFICES ASSUME CodeInv, [Next]_vars PROVE CodeInv'
  OBVIOUS
<1>1. ASSUME UNCHANGED varintVars PROVE CodeInv'
  BY <1>1 DEF CodeInv, Reads, varintVars
<1>2. CASE protobufEncoding
  BY <1>2, moreStep, lastByteStep DEF protobufEncoding, Code!Next
<1>3. chainingHashMap \/ valueContext \/ dataPassing \/ idempotent \/ trees
      \/ bPlusTreeIndex \/ slicesAndRoutes \/ middlewares \/ deferredCalls
      \/ UNCHANGED vars => UNCHANGED varintVars
  BY DEF chainingHashMap, valueContext, dataPassing, idempotent, trees, bPlusTreeIndex,
         slicesAndRoutes, middlewares, deferredCalls, vars
<1> QED BY <1>1, <1>2, <1>3 DEF Next

LEMMA CodeIsRight == CodeInv => Code!ReadsBack
<1> SUFFICES ASSUME CodeInv, encoded PROVE Code!ReadsBack
  BY DEF Code!ReadsBack
<1>1. /\ buf \in Seq(Nat) /\ DOMAIN buf = 1 .. Len(buf)
      /\ \A b \in 1 .. Len(buf) : /\ buf[b] \in 0 .. 2 * Base - 1
                                  /\ buf[b] >= Base <=> b < Len(buf)
      /\ Len(buf) > 1 => buf[Len(buf)] # 0
  BY DEF CodeInv
<1>2. PICK f : Reads(f, buf, 0) /\ f[Len(buf)] = number
  BY DEF CodeInv
<1>3. Code!Read(buf) = number
  BY <1>1, <1>2, ReadIs
<1> QED BY <1>1, <1>3 DEF Code!ReadsBack

-----------------------------------------------------------------------------
(*                        What is stored comes back                        *)

\* For all keys, values, leaves, numbers and bases: the hash map has one node
\* for each key and counts them, the search in the B+ tree finds exactly the
\* keys the leaves have, the bytes of a number are read back as it, and zigzag
\* has a code of its own for each integer.
THEOREM EverythingComesBack == Spec => []StoredComesBack
<1>1. Init => NodesInv /\ IndexInv /\ CodeInv
  BY InitNodes, InitIndex, InitCode
<1>2. TablesInv /\ NodesInv /\ IndexInv /\ CodeInv /\ [Next]_vars
         => NodesInv' /\ IndexInv' /\ CodeInv'
  BY NodesStep, IndexStep, CodeStep
<1>3. TablesInv /\ NodesInv /\ IndexInv /\ CodeInv => StoredComesBack
  BY NodesAreRight, IndexIsRight, CodeIsRight, ZigzagIsRight DEF StoredComesBack
<1> QED BY <1>1, <1>2, <1>3, TablesHoldWhatWasPut, PTL DEF Spec
=============================================================================
