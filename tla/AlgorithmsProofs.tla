-------------------------- MODULE AlgorithmsProofs --------------------------
(***************************************************************************)
(* What the searches and the sorts of 09-algorithm return is right, for    *)
(* arrays of every length and all integers.  For each loop and each        *)
(* recursion the invariant says what is done already: of a search, what is *)
(* known of the elements outside left .. right; of a sort, which elements  *)
(* are in order, and within which pending call the others are.             *)
(***************************************************************************)
EXTENDS Algorithms, Selections

-----------------------------------------------------------------------------
(*                             The searches                                *)

Indices == 0 .. len - 1

Typed ==
    /\ find \in Searches /\ over \in BOOLEAN
    /\ len \in Nat /\ arr \in [Indices -> Int] /\ target \in Int
    /\ left \in Nat /\ right \in Int /\ result \in Int
    /\ left <= right + 1
    /\ IF find = "searchInsert" THEN left <= right /\ right <= len ELSE right < len

InputInv ==
    find # "findMin" => \A p, q \in Indices : p <= q => arr[p] <= arr[q]

\* What is not in the interval any more is not needed.
SearchPart ==
    find = "search" /\ ~over =>
    /\ result = -1
    /\ \A p \in Indices : arr[p] = target => left <= p /\ p <= right

FirstPart ==
    find = "findFirst" =>
    /\ \A p \in Indices : p < left => arr[p] < target
    /\ \A p \in Indices : right < p => arr[p] >= target
    /\ \A p \in Indices : right < p /\ arr[p] = target => result # -1 /\ result <= p
    /\ result # -1 => result \in Indices /\ arr[result] = target /\ right < result

LastPart ==
    find = "findLast" =>
    /\ \A p \in Indices : right < p => arr[p] > target
    /\ \A p \in Indices : p < left => arr[p] <= target
    /\ \A p \in Indices : p < left /\ arr[p] = target => result # -1 /\ p <= result
    /\ result # -1 => result \in Indices /\ arr[result] = target /\ result < left

InsertPart ==
    find = "searchInsert" =>
    /\ \A p \in Indices : p < left => arr[p] < target
    /\ \A p \in Indices : right <= p => arr[p] >= target

\* The smallest element is in the interval.
MinPart ==
    find = "findMin" =>
    \E k \in Indices : RotatedAt(arr, len, k) /\ left <= k /\ k <= right

SearchInv ==
    /\ Typed /\ InputInv
    /\ SearchPart /\ FirstPart /\ LastPart /\ InsertPart /\ MinPart
    /\ SearchIsRight

-----------------------------------------------------------------------------
\* The middle is in the interval, and below its end when there are two.
LEMMA MidIsInside ==
    ASSUME Typed
    PROVE  /\ mid \in Int
           /\ left <= right => left <= mid /\ mid <= right
           /\ left < right => mid < right
BY DEF Typed, mid

\* Only the round of the search that runs can be taken, and it goes on with
\* the same input.
LEMMA SearchStep ==
    ASSUME SearchInv, search
    PROVE  SearchInv'
<1>1. mid \in Indices /\ left <= mid /\ mid <= right /\ mid \in Int
  BY MidIsInside DEF SearchInv, Typed, search, Indices, Searches
<1>2. UNCHANGED <<find, arr, len, target>> /\ find = "search" /\ ~over
  BY DEF search, input
<1>3. \A p \in Indices : arr[p] \in Int
  BY DEF SearchInv, Typed
<1>4. \/ left' = left /\ right' = right /\ result' = mid /\ arr[mid] = target /\ over'
      \/ /\ arr[mid] # target /\ result' = result /\ ~over'
         /\ \/ left' = mid + 1 /\ right' = right /\ arr[mid] < target
            \/ left' = left /\ right' = mid - 1 /\ arr[mid] > target
  BY <1>1, <1>2, <1>3 DEF search, SearchInv, Typed
<1>5. over' \in BOOLEAN
  BY DEF search, SearchInv, Typed
<1>6. Typed' /\ InputInv'
  BY <1>1, <1>2, <1>4, <1>5 DEF SearchInv, Typed, InputInv, Indices
<1>7. SearchPart'
  BY <1>1, <1>2, <1>3, <1>4 DEF SearchInv, Typed, InputInv, SearchPart, Indices
<1>8. SearchIsRight'
  BY <1>1, <1>2, <1>4 DEF SearchInv, Typed, SearchPart, SearchIsRight, Indices
<1> QED
  BY <1>2, <1>6, <1>7, <1>8
  DEF SearchInv, FirstPart, LastPart, InsertPart, MinPart

LEMMA FirstStep ==
    ASSUME SearchInv, findFirst
    PROVE  SearchInv'
<1>1. mid \in Indices /\ left <= mid /\ mid <= right /\ mid \in Int
  BY MidIsInside DEF SearchInv, Typed, findFirst, Indices, Searches
<1>2. UNCHANGED <<find, arr, len, target, over>> /\ find = "findFirst" /\ ~over
  BY DEF findFirst, input
<1>3. \A p \in Indices : arr[p] \in Int
  BY DEF SearchInv, Typed
<1>4. Typed' /\ InputInv'
  BY <1>1, <1>2 DEF SearchInv, Typed, InputInv, findFirst, Indices
<1>5. FirstPart'
  BY <1>1, <1>2, <1>3 DEF SearchInv, Typed, InputInv, FirstPart, findFirst, Indices
<1> QED
  BY <1>2, <1>4, <1>5
  DEF SearchInv, SearchPart, LastPart, InsertPart, MinPart, SearchIsRight

LEMMA LastStep ==
    ASSUME SearchInv, findLast
    PROVE  SearchInv'
<1>1. mid \in Indices /\ left <= mid /\ mid <= right /\ mid \in Int
  BY MidIsInside DEF SearchInv, Typed, findLast, Indices, Searches
<1>2. UNCHANGED <<find, arr, len, target, over>> /\ find = "findLast" /\ ~over
  BY DEF findLast, input
<1>3. \A p \in Indices : arr[p] \in Int
  BY DEF SearchInv, Typed
<1>4. Typed' /\ InputInv'
  BY <1>1, <1>2 DEF SearchInv, Typed, InputInv, findLast, Indices
<1>5. LastPart'
  BY <1>1, <1>2, <1>3 DEF SearchInv, Typed, InputInv, LastPart, findLast, Indices
<1> QED
  BY <1>2, <1>4, <1>5
  DEF SearchInv, SearchPart, FirstPart, InsertPart, MinPart, SearchIsRight

LEMMA InsertStep ==
    ASSUME SearchInv, searchInsert
    PROVE  SearchInv'
<1>1. mid \in Indices /\ left <= mid /\ mid < right /\ mid \in Int
  BY MidIsInside DEF SearchInv, Typed, searchInsert, Indices, Searches
<1>2. UNCHANGED <<find, arr, len, target, over>> /\ find = "searchInsert" /\ ~over
  BY DEF searchInsert, input
<1>3. \A p \in Indices : arr[p] \in Int
  BY DEF SearchInv, Typed
<1>4. Typed' /\ InputInv'
  BY <1>1, <1>2 DEF SearchInv, Typed, InputInv, searchInsert, Indices
<1>5. InsertPart'
  BY <1>1, <1>2, <1>3 DEF SearchInv, Typed, InputInv, InsertPart, searchInsert, Indices
<1> QED
  BY <1>2, <1>4, <1>5
  DEF SearchInv, SearchPart, FirstPart, LastPart, MinPart, SearchIsRight

\* An element larger than the last of the interval is before the smallest.
LEMMA MinStep ==
    ASSUME SearchInv, findMin
    PROVE  SearchInv'
<1>1. mid \in Indices /\ left <= mid /\ mid < right /\ mid \in Int /\ right \in Indices
  BY MidIsInside DEF SearchInv, Typed, findMin, Indices, Searches
<1>2. UNCHANGED <<find, arr, len, target, over>> /\ find = "findMin" /\ ~over
  BY DEF findMin, input
<1>3. \A p \in Indices : arr[p] \in Int
  BY DEF SearchInv, Typed
<1>4. Typed' /\ InputInv'
  BY <1>1, <1>2 DEF SearchInv, Typed, InputInv, findMin, Indices
<1>5. MinPart'
  <2>1. PICK k \in Indices : RotatedAt(arr, len, k) /\ left <= k /\ k <= right
    BY <1>2 DEF SearchInv, MinPart
  <2>2. RotatedAt(arr, len, k)'
    BY <2>1, <1>2 DEF RotatedAt
  <2>3. left' <= k /\ k <= right'
    <3>1. CASE arr[mid] > arr[right]
      <4>1. mid < k
        BY <2>1, <1>1, <1>3, <3>1 DEF RotatedAt, Indices, SearchInv, Typed
      <4> QED BY <4>1, <3>1, <2>1, <1>1 DEF findMin, Indices
    <3>2. CASE ~(arr[mid] > arr[right])
      <4>1. k <= mid
        BY <2>1, <1>1, <1>3, <3>2 DEF RotatedAt, Indices, SearchInv, Typed
      <4> QED BY <4>1, <3>2, <2>1, <1>1 DEF findMin, Indices
    <3> QED BY <3>1, <3>2
  <2>4. k \in Indices'
    BY <2>1, <1>2 DEF Indices
  <2> QED BY <2>2, <2>3, <2>4 DEF MinPart
<1> QED
  BY <1>2, <1>4, <1>5
  DEF SearchInv, SearchPart, FirstPart, LastPart, InsertPart, SearchIsRight

\* When the loop is left, what is known of the elements outside the interval
\* is known of all of them.
LEMMA ReturnStep ==
    ASSUME SearchInv, Return
    PROVE  SearchInv'
<1>1. UNCHANGED <<find, arr, len, target, left, right>> /\ ~over /\ over'
  BY DEF Return, input
<1>2. \A p \in Indices : arr[p] \in Int
  BY DEF SearchInv, Typed
<1>3. Typed' /\ InputInv' /\ SearchPart' /\ InsertPart'
  BY <1>1 DEF SearchInv, Typed, InputInv, SearchPart, InsertPart, Return, Indices
<1>4. FirstPart' /\ LastPart'
  BY <1>1 DEF SearchInv, FirstPart, LastPart, Return, Indices
<1>5. MinPart'
  BY <1>1 DEF SearchInv, MinPart, RotatedAt, Indices
<1>6. SearchIsRight'
  <2>1. CASE find \in {"search", "findFirst", "findLast"}
    <3>1. left > right /\ result' = result
      BY <2>1 DEF Return
    <3> QED
      BY <3>1, <2>1, <1>1, <1>2
      DEF SearchInv, Typed, SearchPart, FirstPart, LastPart, SearchIsRight, Indices
  <2>2. CASE find = "searchInsert"
    <3>1. left = right /\ result' = left
      BY <2>2 DEF Return, SearchInv, Typed
    <3> QED
      BY <3>1, <2>2, <1>1, <1>2
      DEF SearchInv, Typed, InsertPart, SearchIsRight, Indices
  <2>3. CASE find = "findMin"
    <3>1. PICK k \in Indices : RotatedAt(arr, len, k) /\ left <= k /\ k <= right
      BY <2>3 DEF SearchInv, MinPart
    <3>2. k = left /\ result' = left
      BY <3>1, <2>3 DEF Return, SearchInv, Typed, Indices
    <3>3. \A p \in Indices : arr[k] <= arr[p]
      BY <3>1, <1>2 DEF RotatedAt, Indices, SearchInv, Typed
    <3> QED
      BY <3>1, <3>2, <3>3, <2>3, <1>1 DEF SearchIsRight, Indices
  <2> QED
    BY <2>1, <2>2, <2>3 DEF SearchInv, Typed, Searches
<1> QED BY <1>3, <1>4, <1>5, <1>6 DEF SearchInv

LEMMA SearchesStart ==
    ASSUME Init
    PROVE  SearchInv
<1>1. arr \in [Indices -> Int] /\ target \in Int /\ len \in Nat
  <2>1. len \in Nat /\ target \in Int /\ arr \in [Indices -> Values]
    BY SearchAssumption DEF Init, Indices
  <2>2. \A f \in [Indices -> Values] : f \in [Indices -> Int]
    BY SearchAssumption
  <2> QED BY <2>1, <2>2
<1>2. Typed
  <2>1. find \in Searches /\ over \in BOOLEAN
    BY DEF Init
  <2>2. /\ left = 0 /\ result = -1
        /\ right = IF find = "searchInsert" THEN len ELSE len - 1
    BY DEF Init, HalfOpen
  <2> QED BY <1>1, <2>1, <2>2 DEF Typed
<1>3. InputInv
  BY <1>1 DEF Init, InputInv, Sorted, Indices
<1>4. SearchPart /\ FirstPart /\ LastPart /\ InsertPart
  BY <1>1, <1>2 DEF Init, SearchPart, FirstPart, LastPart, InsertPart, Indices, HalfOpen
<1>5. MinPart
  BY <1>1, <1>2 DEF Init, MinPart, Indices, HalfOpen
<1>6. SearchIsRight
  BY DEF Init, SearchIsRight
<1> QED BY <1>2, <1>3, <1>4, <1>5, <1>6 DEF SearchInv

LEMMA SearchesGoOn ==
    ASSUME SearchInv, [Next]_searchVars
    PROVE  SearchInv'
<1>1. CASE Round
  BY <1>1, SearchStep, FirstStep, LastStep, InsertStep, MinStep DEF Round
<1>2. CASE Return
  BY <1>2, ReturnStep
<1>3. CASE UNCHANGED searchVars
  BY <1>3
  DEF searchVars, input, SearchInv, Typed, InputInv, SearchPart, FirstPart, LastPart,
      InsertPart, MinPart, SearchIsRight, RotatedAt, Indices
<1> QED BY <1>1, <1>2, <1>3 DEF Next, Terminated

\* The invariant holds at the beginning and after every step.
LEMMA SearchInvariant == Spec => []SearchInv
BY SearchesStart, SearchesGoOn, PTL DEF Spec

-----------------------------------------------------------------------------
\* What the searches of binary/main.go return is right, for sorted arrays and,
\* in findMin, rotated ones without repeated elements.
THEOREM SearchesAreRight == Spec => []SearchIsRight
<1>1. SearchInv => SearchIsRight
  BY DEF SearchInv
<1> QED BY <1>1, SearchInvariant, PTL

\* Every round of every loop ends it or leaves a shorter interval, so that the
\* loops of binary/main.go end after at most len rounds.
THEOREM SearchesShrink == Spec => EveryRoundShrinks
<1>1. SearchInv /\ [Next]_searchVars
        => [Round => over' \/ right' - left' < right - left]_searchVars
  <2> SUFFICES ASSUME SearchInv, Round
               PROVE  over' \/ right' - left' < right - left
    OBVIOUS
  <2>1. left \in Int /\ right \in Int
    BY DEF SearchInv, Typed
  <2>2. /\ mid \in Int
        /\ left <= right => left <= mid /\ mid <= right
        /\ left < right => mid < right
    BY MidIsInside DEF SearchInv
  <2>3. CASE search
    BY <2>1, <2>2, <2>3 DEF search
  <2>4. CASE findFirst \/ findLast
    BY <2>1, <2>2, <2>4 DEF findFirst, findLast
  <2>5. CASE searchInsert \/ findMin
    BY <2>1, <2>2, <2>5 DEF searchInsert, findMin
  <2> QED BY <2>3, <2>4, <2>5 DEF Round
<1> QED BY <1>1, SearchInvariant, PTL DEF Spec, EveryRoundShrinks

-----------------------------------------------------------------------------
(*                        Loops and arrays                                 *)

Distinct(a) == \A p, q \in DOMAIN a : p # q => a[p] # a[q]

\* b has the elements of a, in another order within S.
Shuffles(a, b, S) ==
    /\ DOMAIN b = DOMAIN a
    /\ \A p \in DOMAIN a \ S : b[p] = a[p]
    /\ \A p \in S : \E q \in S : b[p] = a[q]
    /\ Distinct(a) => Distinct(b)

LEMMA SwapIs ==
    ASSUME NEW a, NEW p, NEW q, NEW k \in DOMAIN a
    PROVE  Sorts!Swap(a, p, q)[k] =
              IF k = q THEN a[p] ELSE IF k = p THEN a[q] ELSE a[k]
BY DEF Sorts!Swap

LEMMA SwapKeeps ==
    ASSUME NEW a, NEW p, NEW q
    PROVE  DOMAIN Sorts!Swap(a, p, q) = DOMAIN a
BY DEF Sorts!Swap

LEMMA SwapShuffles ==
    ASSUME NEW a, NEW S \in SUBSET DOMAIN a, NEW p \in S, NEW q \in S
    PROVE  Shuffles(a, Sorts!Swap(a, p, q), S)
<1> DEFINE b == Sorts!Swap(a, p, q)
<1>1. DOMAIN b = DOMAIN a /\ p \in DOMAIN a /\ q \in DOMAIN a
  BY SwapKeeps
<1>2. \A k \in DOMAIN a :
         b[k] = IF k = q THEN a[p] ELSE IF k = p THEN a[q] ELSE a[k]
  BY <1>1, SwapIs
<1> HIDE DEF b
<1>3. Distinct(a) => Distinct(b)
  BY <1>1, <1>2 DEF Distinct
<1>4. \A k \in DOMAIN a \ S : b[k] = a[k]
  BY <1>2
<1>5. ASSUME NEW k \in S PROVE \E l \in S : b[k] = a[l]
  <2>1. b[k] \in {a[p], a[q], a[k]}
    BY <1>2
  <2> QED BY <2>1
<1> QED BY <1>1, <1>3, <1>4, <1>5 DEF Shuffles, b

LEMMA ShufflesItself ==
    ASSUME NEW a, NEW S \in SUBSET DOMAIN a
    PROVE  Shuffles(a, a, S)
BY DEF Shuffles

LEMMA ShufflesAgain ==
    ASSUME NEW a, NEW b, NEW c, NEW S \in SUBSET DOMAIN a,
           Shuffles(a, b, S), Shuffles(b, c, S)
    PROVE  Shuffles(a, c, S)
<1>1. DOMAIN c = DOMAIN a /\ (Distinct(a) => Distinct(c))
  BY DEF Shuffles
<1>2. \A p \in DOMAIN a \ S : c[p] = a[p]
  BY DEF Shuffles
<1>3. ASSUME NEW p \in S PROVE \E q \in S : c[p] = a[q]
  <2>1. PICK q \in S : c[p] = b[q]
    BY DEF Shuffles
  <2>2. PICK k \in S : b[q] = a[k]
    BY DEF Shuffles
  <2> QED BY <2>1, <2>2
<1> QED BY <1>1, <1>2, <1>3 DEF Shuffles

LEMMA ShufflesMore ==
    ASSUME NEW a, NEW b, NEW S, NEW T, S \subseteq T, T \subseteq DOMAIN a,
           Shuffles(a, b, S)
    PROVE  Shuffles(a, b, T)
<1>1. ASSUME NEW p \in T PROVE \E q \in T : b[p] = a[q]
  <2>1. CASE p \in S
    BY <2>1 DEF Shuffles
  <2>2. CASE p \notin S
    BY <2>2 DEF Shuffles
  <2> QED BY <2>1, <2>2
<1> QED BY <1>1 DEF Shuffles

\* Elements are pairs of integers.
Pair == Int \X Int

LEMMA PairHas ==
    ASSUME NEW x \in Pair
    PROVE  x[1] \in Int /\ x[2] \in Int
BY DEF Pair

LEMMA ShuffleTyped ==
    ASSUME NEW m \in Nat, NEW a \in [0 .. m - 1 -> Pair], NEW b, NEW S \in SUBSET (0 .. m - 1),
           Shuffles(a, b, S), b = [k \in DOMAIN b |-> b[k]]
    PROVE  b \in [0 .. m - 1 -> Pair]
<1>1. DOMAIN a = 0 .. m - 1 /\ DOMAIN b = 0 .. m - 1
  BY DEF Shuffles
<1>2. ASSUME NEW k \in 0 .. m - 1 PROVE b[k] \in Pair
  <2>1. CASE k \in S
    BY <2>1 DEF Shuffles
  <2>2. CASE k \notin S
    BY <2>2, <1>1 DEF Shuffles
  <2> QED BY <2>1, <2>2
<1> QED BY <1>1, <1>2
-----------------------------------------------------------------------------
(*                              bubbleSort                                 *)

Bubbled(b, k) == IF b[k - 1][1] > b[k][1] THEN Sorts!Swap(b, k - 1, k) ELSE b

PassBy(f, a, n) ==
    f = [k \in 0 .. n - 1 |->
           IF k = 0 THEN a
           ELSE LET b == f[k - 1]
                IN  IF b[k - 1][1] > b[k][1] THEN Sorts!Swap(b, k - 1, k) ELSE b]

\* The arrays of size m, and equal keys in their first order.
Arrays(m) == [0 .. m - 1 -> Pair]
InOrder(a) == \A p, q \in DOMAIN a : p < q /\ a[p][1] = a[q][1] => a[p][2] < a[q][2]

LEMMA BubbledTyped ==
    ASSUME NEW m \in Nat, NEW b \in Arrays(m), NEW k \in 1 .. m - 1
    PROVE  /\ Bubbled(b, k) \in Arrays(m) /\ Shuffles(b, Bubbled(b, k), 0 .. k)
           /\ \A p \in 0 .. m - 1 :
                 Bubbled(b, k)[p] = IF ~ b[k - 1][1] > b[k][1] THEN b[p]
                                    ELSE IF p = k THEN b[k - 1]
                                    ELSE IF p = k - 1 THEN b[k] ELSE b[p]
<1> DEFINE c == Bubbled(b, k)
<1>1. DOMAIN b = 0 .. m - 1 /\ 0 .. k \subseteq DOMAIN b /\ k \in 0 .. k /\ k - 1 \in 0 .. k
  BY DEF Arrays
<1>2. Shuffles(b, c, 0 .. k)
  BY <1>1, SwapShuffles, ShufflesItself DEF Bubbled
<1>3. c = [p \in DOMAIN c |-> c[p]]
  BY <1>1 DEF Arrays, Bubbled, Sorts!Swap
<1>4. c \in Arrays(m)
  BY <1>1, <1>2, <1>3, ShuffleTyped DEF Arrays
<1>5. ASSUME NEW p \in 0 .. m - 1
      PROVE  c[p] = IF ~ b[k - 1][1] > b[k][1] THEN b[p]
                    ELSE IF p = k THEN b[k - 1] ELSE IF p = k - 1 THEN b[k] ELSE b[p]
  BY <1>1, SwapIs DEF Bubbled
<1> QED BY <1>2, <1>4, <1>5

LEMMA PassSteps ==
    ASSUME NEW m \in Nat, NEW a \in Arrays(m), NEW n \in 1 .. m
    PROVE  \E f \in [0 .. n - 1 -> Arrays(m)] :
              /\ f[0] = a /\ Sorts!Pass(a, n) = f[n - 1]
              /\ \A k \in 1 .. n - 1 : f[k] = Bubbled(f[k - 1], k)
<1> DEFINE T == Arrays(m)
           F == [k \in Int |-> [b \in T |-> IF k \in 1 .. n - 1 THEN Bubbled(b, k) ELSE b]]
<1>1. F \in [Int -> [T -> T]]
  <2>1. ASSUME NEW k \in Int, NEW b \in T
        PROVE  (IF k \in 1 .. n - 1 THEN Bubbled(b, k) ELSE b) \in T
    BY BubbledTyped
  <2> HIDE DEF T
  <2> QED BY <2>1
<1>2. PICK f \in [0 .. n - 1 -> T] :
         f[0] = a /\ \A k \in 0 + 1 .. n - 1 : f[k] = F[k][f[k - 1]]
  <2> DEFINE lo == 0  hi == n - 1
  <2>1. lo \in Int /\ hi \in Int /\ lo <= hi /\ a \in T
    OBVIOUS
  <2> HIDE DEF T, F, lo, hi
  <2>2. \E f : Runs(f, T, lo, hi, a, F)
    BY <1>1, <2>1, LoopExists
  <2> QED BY <2>2 DEF Runs, lo, hi
<1>3. ASSUME NEW k \in 1 .. n - 1 PROVE f[k] = Bubbled(f[k - 1], k) /\ f[k - 1] \in T
  <2>1. k - 1 \in 0 .. n - 1 /\ k \in Int /\ k \in 0 + 1 .. n - 1
    OBVIOUS
  <2>2. f[k - 1] \in T
    BY <1>2, <2>1
  <2>3. f[k] = F[k][f[k - 1]]
    BY <1>2, <2>1
  <2> HIDE DEF T
  <2> QED BY <2>1, <2>2, <2>3
<1>4. PassBy(f, a, n)
  <2>1. f = [k \in 0 .. n - 1 |-> f[k]]
    BY <1>2
  <2>2. ASSUME NEW k \in 0 .. n - 1
        PROVE  f[k] = IF k = 0 THEN a
                      ELSE IF f[k - 1][k - 1][1] > f[k - 1][k][1]
                           THEN Sorts!Swap(f[k - 1], k - 1, k) ELSE f[k - 1]
    <3>1. k = 0 \/ k \in 1 .. n - 1
      OBVIOUS
    <3> QED BY <3>1, <1>2, <1>3 DEF Bubbled
  <2> QED BY <2>1, <2>2 DEF PassBy
<1>5. Sorts!Pass(a, n) = (CHOOSE g : PassBy(g, a, n))[n - 1]
  BY DEF Sorts!Pass, PassBy
<1>6. PICK g : PassBy(g, a, n) /\ Sorts!Pass(a, n) = g[n - 1]
  BY <1>4, <1>5
<1>7. g = f
  <2> DEFINE S == {k \in Nat : k \in 0 .. n - 1 => g[k] = f[k]}
  <2>1. ASSUME NEW h, PassBy(h, a, n), NEW k \in 0 .. n - 1
        PROVE  h[k] = IF k = 0 THEN a
                      ELSE IF h[k - 1][k - 1][1] > h[k - 1][k][1]
                           THEN Sorts!Swap(h[k - 1], k - 1, k) ELSE h[k - 1]
    <3> DEFINE u == [l \in 0 .. n - 1 |->
                       IF l = 0 THEN a
                       ELSE IF h[l - 1][l - 1][1] > h[l - 1][l][1]
                            THEN Sorts!Swap(h[l - 1], l - 1, l) ELSE h[l - 1]]
    <3>1. h = u
      BY <2>1 DEF PassBy
    <3>2. u[k] = IF k = 0 THEN a
                 ELSE IF h[k - 1][k - 1][1] > h[k - 1][k][1]
                      THEN Sorts!Swap(h[k - 1], k - 1, k) ELSE h[k - 1]
      OBVIOUS
    <3> HIDE DEF u
    <3> QED BY <3>1, <3>2
  <2>2. 0 \in S
    BY <2>1, <1>2, <1>6
  <2>3. ASSUME NEW k \in Nat, k \in S PROVE k + 1 \in S
    <3>1. CASE k + 1 \in 0 .. n - 1
      <4>1. k \in 0 .. n - 1 /\ k + 1 # 0 /\ (k + 1) - 1 = k
        BY <3>1
      <4>2. g[k] = f[k]
        BY <2>3, <4>1
      <4>3. g[k + 1] = f[k + 1]
        <5>1. g[k + 1] = IF g[k][k][1] > g[k][k + 1][1]
                         THEN Sorts!Swap(g[k], k, k + 1) ELSE g[k]
          BY <1>6, <2>1, <3>1, <4>1
        <5>2. f[k + 1] = IF f[k][k][1] > f[k][k + 1][1]
                         THEN Sorts!Swap(f[k], k, k + 1) ELSE f[k]
          BY <1>4, <2>1, <3>1, <4>1
        <5> QED BY <4>2, <5>1, <5>2
      <4> QED BY <4>3
    <3> QED BY <3>1
  <2>4. Nat \subseteq S
    <3> HIDE DEF S
    <3> QED BY <2>2, <2>3, InductionOnNumbers
  <2>5. DOMAIN g = 0 .. n - 1 /\ g = [k \in DOMAIN g |-> g[k]]
    BY <1>6 DEF PassBy
  <2>6. \A k \in 0 .. n - 1 : g[k] = f[k]
    BY <2>4
  <2> QED BY <2>5, <2>6, <1>2
<1> QED BY <1>2, <1>3, <1>6, <1>7

\* What a pass over the first n elements of a has made of it after round k.
Passed(b, a, n, k) ==
    /\ Shuffles(a, b, 0 .. n - 1)
    /\ \A p \in 0 .. k : b[p][1] <= b[k][1]
    /\ \A p \in k + 1 .. n - 1 : b[p] = a[p]
    /\ InOrder(a) => InOrder(b)
    /\ b # a => \E p \in 0 .. k - 1 : b[p] # a[p]
    /\ b = a => \A p, q \in 0 .. k : p <= q => a[p][1] <= a[q][1]

LEMMA BubbledInOrder ==
    ASSUME NEW m \in Nat, NEW b \in Arrays(m), NEW k \in 1 .. m - 1, InOrder(b)
    PROVE  InOrder(Bubbled(b, k))
<1> DEFINE c == Bubbled(b, k)
<1>1. c \in Arrays(m) /\ DOMAIN b = 0 .. m - 1 /\ DOMAIN c = 0 .. m - 1
  BY BubbledTyped DEF Arrays
<1>2. \A p \in 0 .. m - 1 : c[p] = IF ~ b[k - 1][1] > b[k][1] THEN b[p]
                                   ELSE IF p = k THEN b[k - 1]
                                   ELSE IF p = k - 1 THEN b[k] ELSE b[p]
  BY BubbledTyped
<1>3. \A p \in 0 .. m - 1 : b[p][1] \in Int /\ b[p][2] \in Int
  BY PairHas DEF Arrays
<1> HIDE DEF c
<1> SUFFICES ASSUME NEW p \in 0 .. m - 1, NEW q \in 0 .. m - 1, p < q, c[p][1] = c[q][1]
             PROVE  c[p][2] < c[q][2]
  BY <1>1 DEF InOrder, c
<1>4. CASE ~ b[k - 1][1] > b[k][1]
  BY <1>1, <1>2, <1>4 DEF InOrder
<1>5. CASE b[k - 1][1] > b[k][1]
  <2>1. /\ c[p] = IF p = k THEN b[k - 1] ELSE IF p = k - 1 THEN b[k] ELSE b[p]
        /\ c[q] = IF q = k THEN b[k - 1] ELSE IF q = k - 1 THEN b[k] ELSE b[q]
    BY <1>2, <1>5
  <2>2. k \in 0 .. m - 1 /\ k - 1 \in 0 .. m - 1
    OBVIOUS
  <2>3. ~(p = k - 1 /\ q = k)
    BY <1>3, <1>5, <2>1, <2>2
  <2>4. \A x, y \in 0 .. m - 1 : x < y /\ b[x][1] = b[y][1] => b[x][2] < b[y][2]
    BY <1>1 DEF InOrder
  <2>5. CASE p = k
    <3>1. c[q] = b[q] /\ c[p] = b[k - 1] /\ k - 1 < q
      BY <2>1, <2>5
    <3> QED BY <3>1, <2>2, <2>4
  <2>6. CASE p = k - 1
    <3>1. c[q] = b[q] /\ c[p] = b[k] /\ k < q
      BY <2>1, <2>3, <2>6
    <3> QED BY <3>1, <2>2, <2>4
  <2>7. CASE p # k /\ p # k - 1
    <3>1. c[p] = b[p] /\ \E y \in 0 .. m - 1 : p < y /\ c[q] = b[y]
      <4>1. CASE q = k
        BY <2>1, <2>2, <2>7, <4>1
      <4>2. CASE q = k - 1
        BY <2>1, <2>2, <2>7, <4>2
      <4>3. CASE q # k /\ q # k - 1
        BY <2>1, <2>7, <4>3
      <4> QED BY <4>1, <4>2, <4>3
    <3> QED BY <3>1, <2>4
  <2> QED BY <2>5, <2>6, <2>7
<1> QED BY <1>4, <1>5

LEMMA PassRound ==
    ASSUME NEW m \in Nat, NEW a \in Arrays(m), NEW n \in 1 .. m, NEW k \in 1 .. n - 1,
           NEW b \in Arrays(m), Passed(b, a, n, k - 1)
    PROVE  Passed(Bubbled(b, k), a, n, k)
<1> DEFINE c == Bubbled(b, k)  larger == b[k - 1][1] > b[k][1]
<1>1. /\ k \in 1 .. m - 1 /\ k \in 0 .. m - 1 /\ k - 1 \in 0 .. m - 1
      /\ k \in 0 .. n - 1 /\ k \in k - 1 + 1 .. n - 1
      /\ DOMAIN a = 0 .. m - 1 /\ DOMAIN b = 0 .. m - 1
      /\ 0 .. k \subseteq 0 .. n - 1 /\ 0 .. n - 1 \subseteq 0 .. m - 1
  BY DEF Arrays
<1>2. c \in Arrays(m) /\ Shuffles(b, c, 0 .. k)
  BY <1>1, BubbledTyped
<1>3. \A p \in 0 .. m - 1 : c[p] = IF ~ larger THEN b[p]
                                   ELSE IF p = k THEN b[k - 1]
                                   ELSE IF p = k - 1 THEN b[k] ELSE b[p]
  BY <1>1, BubbledTyped
<1>4. \A p \in 0 .. m - 1 : b[p][1] \in Int
  BY PairHas DEF Arrays
<1>5. /\ \A p \in 0 .. k - 1 : b[p][1] <= b[k - 1][1]
      /\ \A p \in k - 1 + 1 .. n - 1 : b[p] = a[p]
      /\ b # a => \E p \in 0 .. k - 1 - 1 : b[p] # a[p]
      /\ b = a => \A p, q \in 0 .. k - 1 : p <= q => a[p][1] <= a[q][1]
  BY DEF Passed
<1> HIDE DEF c
<1>6. Shuffles(a, c, 0 .. n - 1)
  <2>1. Shuffles(b, c, 0 .. n - 1)
    BY <1>1, <1>2, ShufflesMore
  <2> QED BY <1>1, <2>1, ShufflesAgain DEF Passed
<1>7. ASSUME NEW p \in 0 .. k PROVE c[p][1] <= c[k][1]
  <2>1. p \in 0 .. m - 1 /\ (p = k \/ p \in 0 .. k - 1)
    BY <1>1
  <2>2. CASE larger
    <3>1. c[k] = b[k - 1] /\ c[p] \in {b[k - 1], b[k], b[p]}
      BY <1>1, <1>3, <2>1, <2>2
    <3>2. p = k \/ b[p][1] <= b[k - 1][1]
      BY <1>5, <2>1
    <3> QED BY <1>1, <1>4, <2>1, <2>2, <3>1, <3>2
  <2>3. CASE ~larger
    <3>1. c[k] = b[k] /\ c[p] = b[p]
      BY <1>1, <1>3, <2>1, <2>3
    <3>2. p = k \/ b[p][1] <= b[k - 1][1]
      BY <1>5, <2>1
    <3> QED BY <1>1, <1>4, <2>1, <2>3, <3>1, <3>2
  <2> QED BY <2>2, <2>3
<1>8. ASSUME NEW p \in k + 1 .. n - 1 PROVE c[p] = a[p]
  <2>1. p \in 0 .. m - 1 /\ p # k /\ p # k - 1 /\ p \in k - 1 + 1 .. n - 1
    OBVIOUS
  <2> QED BY <1>3, <1>5, <2>1
<1>9. InOrder(a) => InOrder(c)
  BY <1>1, BubbledInOrder DEF Passed, c
<1>10. b # a => \E p \in 0 .. k - 1 : c[p] # a[p]
  <2> SUFFICES ASSUME b # a PROVE \E p \in 0 .. k - 1 : c[p] # a[p]
    OBVIOUS
  <2>1. PICK p \in 0 .. k - 1 - 1 : b[p] # a[p]
    BY <1>5
  <2>2. p \in 0 .. m - 1 /\ p # k /\ p # k - 1 /\ p \in 0 .. k - 1
    OBVIOUS
  <2> QED BY <1>3, <2>1, <2>2
<1>11. b = a /\ larger => c[k - 1] # a[k - 1] /\ k - 1 \in 0 .. k - 1
  BY <1>1, <1>3, <1>4
<1>12. ~larger => c = b
  BY DEF c, Bubbled
<1>13. c # a => \E p \in 0 .. k - 1 : c[p] # a[p]
  BY <1>10, <1>11, <1>12
<1>14. ASSUME c = a, NEW p \in 0 .. k, NEW q \in 0 .. k, p <= q
       PROVE  a[p][1] <= a[q][1]
  <2>1. b = a /\ ~larger
    BY <1>10, <1>11, <1>14
  <2>2. q = k \/ (p \in 0 .. k - 1 /\ q \in 0 .. k - 1)
    BY <1>14
  <2>3. CASE q = k
    BY <1>7, <1>14, <2>3
  <2>4. CASE p \in 0 .. k - 1 /\ q \in 0 .. k - 1
    BY <1>5, <1>14, <2>1, <2>4
  <2> QED BY <2>2, <2>3, <2>4
<1>15. Passed(c, a, n, k)
  BY <1>6, <1>7, <1>8, <1>9, <1>13, <1>14 DEF Passed
<1> QED BY <1>15 DEF c

\* A pass over the first n elements.
LEMMA PassIs ==
    ASSUME NEW m \in Nat, NEW a \in Arrays(m), NEW n \in 1 .. m
    PROVE  Sorts!Pass(a, n) \in Arrays(m) /\ Passed(Sorts!Pass(a, n), a, n, n - 1)
<1>1. PICK f \in [0 .. n - 1 -> Arrays(m)] :
         /\ f[0] = a /\ Sorts!Pass(a, n) = f[n - 1]
         /\ \A k \in 1 .. n - 1 : f[k] = Bubbled(f[k - 1], k)
  BY PassSteps
<1> DEFINE S == {k \in Nat : k \in 0 .. n - 1 => Passed(f[k], a, n, k)}
<1>2. 0 \in S
  <2>1. DOMAIN a = 0 .. m - 1 /\ 0 .. n - 1 \subseteq 0 .. m - 1
    BY DEF Arrays
  <2>2. Shuffles(a, a, 0 .. n - 1)
    BY <2>1, ShufflesItself
  <2>3. a[0][1] \in Int
    BY PairHas DEF Arrays
  <2>4. Passed(a, a, n, 0)
    BY <2>2, <2>3 DEF Passed
  <2> QED BY <1>1, <2>4
<1>3. ASSUME NEW k \in Nat, k \in S PROVE k + 1 \in S
  <2>1. CASE k + 1 \in 0 .. n - 1
    <3>1. k \in 0 .. n - 1 /\ k + 1 \in 1 .. n - 1 /\ (k + 1) - 1 = k
      BY <2>1
    <3>2. f[k] \in Arrays(m) /\ Passed(f[k], a, n, k)
      BY <1>1, <1>3, <3>1
    <3> DEFINE l == k + 1
    <3>3. l \in 1 .. n - 1 /\ l - 1 = k
      BY <3>1
    <3> HIDE DEF l
    <3>4. Passed(Bubbled(f[k], l), a, n, l)
      BY <3>2, <3>3, PassRound
    <3>5. f[l] = Bubbled(f[k], l)
      BY <1>1, <3>3
    <3> QED BY <3>4, <3>5 DEF l
  <2> QED BY <2>1
<1>4. Nat \subseteq S
  <2> HIDE DEF S
  <2> QED BY <1>2, <1>3, InductionOnNumbers
<1>5. n - 1 \in Nat /\ n - 1 \in 0 .. n - 1
  OBVIOUS
<1> QED BY <1>1, <1>4, <1>5

Spots == 0 .. size - 1

SortTyped ==
    /\ sort \in Sorts!Sorts /\ size \in Nat /\ elements \in Arrays(size)
    /\ outer \in Int /\ sorted \in BOOLEAN
    /\ Sorts!NothingLost

\* Behind the elements still to be sorted are the largest ones, in order.
BubblePart ==
    /\ outer \in Nat /\ InOrder(elements)
    /\ \A p, q \in Spots : p < q /\ q >= size - outer => elements[p][1] <= elements[q][1]
    /\ sorted => \A p, q \in Spots : p < q => elements[p][1] <= elements[q][1]

\* A sort moves elements, and loses none.
LEMMA NothingIsLost ==
    ASSUME SortTyped, NEW S \in SUBSET Spots, Shuffles(elements, elements', S),
           elements' \in Arrays(size)
    PROVE  Sorts!NothingLost'
<1>1. DOMAIN elements = Spots /\ DOMAIN elements' = Spots
  BY DEF SortTyped, Arrays, Spots
<1>2. Distinct(elements)
  BY DEF SortTyped, Sorts!NothingLost, Distinct
<1>3. Distinct(elements')
  BY <1>2 DEF Shuffles
<1>4. ASSUME NEW p \in Spots PROVE elements'[p][2] \in Spots
  <2>1. \E q \in Spots : elements'[p] = elements[q]
    BY <1>1 DEF Shuffles
  <2> QED BY <2>1, <1>1 DEF SortTyped, Sorts!NothingLost
<1> QED BY <1>1, <1>3, <1>4 DEF Sorts!NothingLost, Distinct

LEMMA BubbleStep ==
    ASSUME SortTyped, BubblePart, Sorts!bubbleSort
    PROVE  SortTyped' /\ BubblePart'
<1> DEFINE n == size - outer
<1>1. /\ UNCHANGED <<sort, size>> /\ elements' = Sorts!Pass(elements, n)
      /\ outer' = outer + 1 /\ sorted' = (elements' = elements)
      /\ outer < size - 1
  BY DEF Sorts!bubbleSort
<1>2. n \in 1 .. size /\ size \in Nat /\ elements \in Arrays(size)
  BY <1>1 DEF SortTyped, BubblePart
<1>3. n \in Nat /\ 0 .. n - 1 \subseteq Spots /\ n - 1 = size - outer'
      /\ outer' \in Nat /\ DOMAIN elements = Spots
  BY <1>1, <1>2 DEF SortTyped, BubblePart, Spots, Arrays
<1> HIDE DEF n
<1>4. elements' \in Arrays(size) /\ Passed(elements', elements, n, n - 1)
  BY <1>1, <1>2, PassIs
<1>5. SortTyped'
  <2>1. Sorts!NothingLost'
    BY <1>3, <1>4, NothingIsLost DEF Passed
  <2> QED BY <1>1, <1>3, <1>4, <2>1 DEF SortTyped
<1>6. \A p \in Spots : elements[p][1] \in Int /\ elements'[p][1] \in Int
  BY <1>2, <1>4, PairHas DEF Arrays, Spots
<1>7. ASSUME NEW p \in Spots, NEW q \in Spots, p < q, q >= n - 1
      PROVE  elements'[p][1] <= elements'[q][1]
  <2>1. CASE q = n - 1
    <3>1. p \in 0 .. n - 1
      BY <1>3, <1>7, <2>1 DEF Spots
    <3> QED BY <1>4, <2>1, <3>1 DEF Passed
  <2>2. CASE q >= n
    <3>1. q \notin 0 .. n - 1 /\ elements'[q] = elements[q]
      BY <1>3, <1>4, <2>2 DEF Passed, Shuffles, Spots
    <3>2. PICK r \in Spots : r < q /\ elements'[p] = elements[r]
      <4>1. CASE p \in 0 .. n - 1
        <5>1. PICK r \in 0 .. n - 1 : elements'[p] = elements[r]
          BY <1>4, <4>1 DEF Passed, Shuffles
        <5>2. r \in Spots /\ r < q
          BY <1>3, <2>2 DEF Spots
        <5> QED BY <5>1, <5>2
      <4>2. CASE p \notin 0 .. n - 1
        BY <1>3, <1>4, <1>7, <4>2 DEF Passed, Shuffles
      <4> QED BY <4>1, <4>2
    <3>3. elements[r][1] <= elements[q][1]
      BY <2>2, <3>2 DEF BubblePart, n
    <3> QED BY <3>1, <3>2, <3>3
  <2> QED BY <1>3, <1>7, <2>1, <2>2 DEF Spots
<1>8. ASSUME elements' = elements, NEW p \in Spots, NEW q \in Spots, p < q
      PROVE  elements[p][1] <= elements[q][1]
  <2>1. CASE q \in 0 .. n - 1
    <3>1. p \in 0 .. n - 1 /\ p <= q
      BY <1>3, <1>8, <2>1 DEF Spots
    <3> QED BY <1>4, <1>8, <2>1, <3>1 DEF Passed
  <2>2. CASE q \notin 0 .. n - 1
    <3>1. q >= n - 1
      BY <1>3, <2>2 DEF Spots
    <3> QED BY <1>7, <1>8, <3>1
  <2> QED BY <2>1, <2>2
<1>9. Spots' = Spots
  BY <1>1 DEF Spots
<1>10. InOrder(elements')
  BY <1>4 DEF Passed, BubblePart
<1>11. sorted' => \A p, q \in Spots : p < q => elements'[p][1] <= elements'[q][1]
  BY <1>1, <1>8
<1> HIDE DEF Spots
<1>12. \A p, q \in Spots : p < q /\ q >= size' - outer' => elements'[p][1] <= elements'[q][1]
  BY <1>1, <1>3, <1>7
<1>13. BubblePart'
  BY <1>3, <1>9, <1>10, <1>11, <1>12 DEF BubblePart
<1> QED BY <1>5, <1>13

-----------------------------------------------------------------------------
(*                            insertionSort                                *)

Bounded(T, hi) == T \subseteq Int /\ T # {} /\ hi \in Int /\ \A x \in T : x <= hi

LEMMA MaxOf ==
    ASSUME NEW T, NEW hi, Bounded(T, hi)
    PROVE  Sorts!Max(T) \in T /\ \A y \in T : y <= Sorts!Max(T)
<1> DEFINE U == {hi - x : x \in T}
<1>1. U \in SUBSET Nat /\ U # {}
  <2>1. \A x \in T : hi - x \in Nat
    BY DEF Bounded
  <2>2. PICK x \in T : TRUE
    BY DEF Bounded
  <2>3. hi - x \in U
    BY <2>2
  <2> QED BY <2>1, <2>3
<1>2. PICK u \in U : \A v \in U : u <= v
  <2> HIDE DEF U
  <2> QED BY <1>1, Least
<1>3. PICK x \in T : u = hi - x
  BY <1>2
<1>4. \A y \in T : x >= y
  <2> SUFFICES ASSUME NEW y \in T PROVE x >= y
    OBVIOUS
  <2>1. u <= hi - y
    BY <1>2
  <2> QED BY <1>3, <2>1 DEF Bounded
<1>5. Sorts!Max(T) \in T /\ \A y \in T : Sorts!Max(T) >= y
  BY <1>4 DEF Sorts!Max
<1>6. \A y \in T : y \in Int
  BY DEF Bounded
<1> HIDE DEF U
<1> QED BY <1>5, <1>6

Before(x, y) == x[1] < y[1] \/ (x[1] = y[1] /\ x[2] < y[2])

\* The elements before outer are in order, the others where they were.
InsertionPart ==
    /\ outer \in Nat
    /\ \A p, q \in Spots : p < q /\ q < outer => Before(elements[p], elements[q])
    /\ \A p \in Spots : IF p < outer THEN elements[p][2] < outer
                        ELSE elements[p][2] = p
    /\ sorted => outer >= size

\* Where an element of the array after a round comes from.
From(stop, p) ==
    IF p = stop THEN outer ELSE IF p \in stop + 1 .. outer THEN p - 1 ELSE p

LEMMA InsertionIs ==
    ASSUME SortTyped, InsertionPart, Sorts!insertionSort
    PROVE  \E stop \in 0 .. outer :
              /\ elements' \in Arrays(size)
              /\ \A p \in Spots : elements'[p] = elements[From(stop, p)]
              /\ \A p \in 0 .. stop - 1 : Before(elements[p], elements[outer])
              /\ \A p \in stop .. outer - 1 : Before(elements[outer], elements[p])
<1> DEFINE T == {-1} \cup {p \in 0 .. outer - 1 : Sorts!key(p) <= Sorts!key(outer)}
           stop == Sorts!Max(T) + 1
<1>1. /\ outer < size /\ outer \in Spots /\ size \in Nat /\ outer \in Nat
      /\ elements \in Arrays(size) /\ DOMAIN elements = Spots
      /\ 0 .. outer \subseteq Spots
  BY DEF SortTyped, InsertionPart, Sorts!insertionSort, Spots, Arrays
<1>2. elements' = [k \in DOMAIN elements |->
                     IF k = stop THEN elements[outer]
                     ELSE IF k \in stop + 1 .. outer THEN elements[k - 1]
                     ELSE elements[k]]
  BY DEF Sorts!insertionSort
<1>3. Sorts!Max(T) \in T /\ \A y \in T : y <= Sorts!Max(T)
  <2>1. Bounded(T, outer)
    BY <1>1 DEF Bounded
  <2> HIDE DEF T
  <2> QED BY <2>1, MaxOf
<1> HIDE DEF stop
<1>4. stop \in 0 .. outer
  BY <1>1, <1>3 DEF stop
<1>5. \A p \in Spots : elements[p] \in Pair /\ elements[p][1] \in Int
  BY <1>1, PairHas DEF Arrays, Spots
<1>6. ASSUME NEW p \in stop .. outer - 1 PROVE elements[outer][1] < elements[p][1]
  <2>1. p \notin T /\ p \in 0 .. outer - 1
    BY <1>3, <1>4, <1>6, <1>1 DEF stop
  <2>2. ~(elements[p][1] <= elements[outer][1])
    BY <2>1 DEF Sorts!key
  <2> QED BY <2>1, <2>2, <1>1, <1>5
<1>7. ASSUME NEW p \in 0 .. stop - 1 PROVE Before(elements[p], elements[outer])
  <2> DEFINE r == stop - 1
  <2>1. r \in T /\ r \in 0 .. outer - 1
    BY <1>1, <1>3, <1>4 DEF stop
  <2>2. elements[r][1] <= elements[outer][1]
    BY <2>1 DEF Sorts!key
  <2>3. p = r \/ Before(elements[p], elements[r])
    BY <2>1, <1>1, <1>4 DEF InsertionPart
  <2>4. elements[p][1] <= elements[r][1] /\ p \in Spots /\ r \in Spots /\ p < outer
    BY <2>1, <2>3, <1>1, <1>4, <1>5 DEF Before
  <2>5. elements[p][2] < outer /\ elements[outer][2] = outer
    BY <2>4, <1>1 DEF InsertionPart
  <2> HIDE DEF r
  <2> QED BY <2>2, <2>4, <2>5, <1>1, <1>5 DEF Before
<1>8. \A p \in Spots : elements'[p] = elements[From(stop, p)]
  BY <1>1, <1>2 DEF From
<1>9. elements' \in Arrays(size)
  <2>1. \A p \in Spots : From(stop, p) \in Spots
    BY <1>1, <1>4 DEF From, Spots
  <2>2. elements' = [p \in Spots |-> elements'[p]]
    BY <1>1, <1>2
  <2>3. \A p \in Spots : elements'[p] \in Pair
    BY <1>5, <1>8, <2>1
  <2> QED BY <2>2, <2>3 DEF Arrays, Spots
<1>10. \A p \in stop .. outer - 1 : Before(elements[outer], elements[p])
  BY <1>6 DEF Before
<1> QED BY <1>4, <1>7, <1>8, <1>9, <1>10

LEMMA InsertionStep ==
    ASSUME SortTyped, InsertionPart, Sorts!insertionSort
    PROVE  SortTyped' /\ InsertionPart'
<1>1. /\ outer < size /\ outer \in Spots /\ size \in Nat /\ outer \in Nat
      /\ UNCHANGED <<sort, size, sorted>> /\ ~sorted /\ outer' = outer + 1
      /\ DOMAIN elements = Spots /\ 0 .. outer \in SUBSET Spots
  <2>1. sorted' = sorted /\ ~sorted
    BY DEF Sorts!insertionSort
  <2> QED BY <2>1 DEF SortTyped, InsertionPart, Sorts!insertionSort, Spots, Arrays
<1>2. PICK stop \in 0 .. outer :
         /\ elements' \in Arrays(size)
         /\ \A p \in Spots : elements'[p] = elements[From(stop, p)]
         /\ \A p \in 0 .. stop - 1 : Before(elements[p], elements[outer])
         /\ \A p \in stop .. outer - 1 : Before(elements[outer], elements[p])
  BY InsertionIs
<1>3. /\ DOMAIN elements' = Spots /\ Spots' = Spots
      /\ \A p \in Spots : From(stop, p) \in Spots
      /\ \A p, q \in Spots : From(stop, p) = From(stop, q) => p = q
      /\ \A p \in Spots \ (0 .. outer) : From(stop, p) = p
      /\ \A p \in 0 .. outer : From(stop, p) \in 0 .. outer
  BY <1>1, <1>2 DEF From, Spots, Arrays
<1>4. Shuffles(elements, elements', 0 .. outer)
  <2>1. Distinct(elements')
    BY <1>1, <1>2, <1>3 DEF Distinct, SortTyped, Sorts!NothingLost
  <2> QED BY <1>1, <1>2, <1>3, <2>1 DEF Shuffles
<1>5. SortTyped'
  <2>1. Sorts!NothingLost'
    BY <1>1, <1>2, <1>4, NothingIsLost
  <2> QED BY <1>1, <1>2, <2>1 DEF SortTyped
<1>6. ASSUME NEW p \in Spots, NEW q \in Spots, p < q, q < outer + 1
      PROVE  Before(elements'[p], elements'[q])
  <2>1. CASE p = stop
    <3>1. From(stop, p) = outer /\ From(stop, q) = q - 1 /\ q - 1 \in stop .. outer - 1
      BY <1>1, <1>2, <1>6, <2>1 DEF From, Spots
    <3> QED BY <1>2, <3>1
  <2>2. CASE q = stop
    <3>1. From(stop, q) = outer /\ From(stop, p) = p /\ p \in 0 .. stop - 1
      BY <1>1, <1>2, <1>6, <2>2 DEF From, Spots
    <3> QED BY <1>2, <3>1
  <2>3. CASE p # stop /\ q # stop
    <3>1. From(stop, p) < From(stop, q) /\ From(stop, q) < outer
      BY <1>1, <1>2, <1>6, <2>3 DEF From, Spots
    <3> QED BY <1>2, <1>3, <3>1 DEF InsertionPart
  <2> QED BY <2>1, <2>2, <2>3
<1>7. ASSUME NEW p \in Spots
      PROVE  IF p < outer + 1 THEN elements'[p][2] < outer + 1 ELSE elements'[p][2] = p
  <2>1. CASE p \in 0 .. outer
    <3>1. From(stop, p) \in Spots /\ From(stop, p) \in 0 .. outer
      BY <1>3, <2>1
    <3>2. elements[From(stop, p)][2] < outer + 1
      BY <3>1, <1>1 DEF InsertionPart, SortTyped, Sorts!NothingLost, Spots
    <3> QED BY <3>2, <1>1, <1>2, <2>1
  <2>2. CASE p \notin 0 .. outer
    BY <1>1, <1>2, <1>3, <2>2 DEF InsertionPart, Spots
  <2> QED BY <2>1, <2>2
<1> HIDE DEF Spots
<1>8. InsertionPart'
  <2>1. outer' \in Nat /\ ~sorted'
    BY <1>1
  <2>2. \A p, q \in Spots' : p < q /\ q < outer' => Before(elements'[p], elements'[q])
    BY <1>1, <1>3, <1>6
  <2>3. \A p \in Spots' : IF p < outer' THEN elements'[p][2] < outer'
                         ELSE elements'[p][2] = p
    BY <1>1, <1>3, <1>7
  <2> QED BY <2>1, <2>2, <2>3 DEF InsertionPart
<1> QED BY <1>5, <1>8

-----------------------------------------------------------------------------
(*                              quickSort                                  *)

Started(a, lo, hi) ==
    [a |-> Sorts!Swap(a, lo + (hi - lo) \div 2, hi - 1), left |-> lo]

Parted(s, k, right_) ==
    IF s.a[k - 1][1] < s.a[right_][1]
    THEN [a |-> Sorts!Swap(s.a, s.left, k - 1), left |-> s.left + 1] ELSE s

PartBy(f, a, lo, hi) ==
    f = [k \in lo .. hi - 1 |->
           IF k = lo THEN Started(a, lo, hi) ELSE Parted(f[k - 1], k, hi - 1)]

\* What the loop of Partition has done before it looks at element k: smaller
\* elements than the last, then others.
PartInv(s, k, a, m, lo, hi) ==
    /\ s = [a |-> s.a, left |-> s.left]
    /\ s.a \in Arrays(m) /\ Shuffles(a, s.a, lo .. hi - 1)
    /\ s.left \in lo .. k
    /\ \A p \in lo .. s.left - 1 : s.a[p][1] < s.a[hi - 1][1]
    /\ \A p \in s.left .. k - 1 : s.a[hi - 1][1] <= s.a[p][1]

LEMMA PartInvOf ==
    ASSUME NEW m, NEW a, NEW lo, NEW hi, NEW k, NEW c \in Arrays(m), NEW l \in lo .. k,
           Shuffles(a, c, lo .. hi - 1),
           \A p \in lo .. l - 1 : c[p][1] < c[hi - 1][1],
           \A p \in l .. k - 1 : c[hi - 1][1] <= c[p][1]
    PROVE  PartInv([a |-> c, left |-> l], k, a, m, lo, hi)
<1> DEFINE u == [a |-> c, left |-> l]
<1>1. u.a = c /\ u.left = l /\ u = [a |-> u.a, left |-> u.left]
  OBVIOUS
<1> HIDE DEF u
<1>2. PartInv(u, k, a, m, lo, hi)
  BY <1>1 DEF PartInv
<1> QED BY <1>2 DEF u

LEMMA SwapTyped ==
    ASSUME NEW m \in Nat, NEW a \in Arrays(m), NEW p \in 0 .. m - 1, NEW q \in 0 .. m - 1
    PROVE  Sorts!Swap(a, p, q) \in Arrays(m)
BY DEF Sorts!Swap, Arrays

LEMMA StartedInv ==
    ASSUME NEW m \in Nat, NEW a \in Arrays(m), NEW lo \in Nat, NEW hi \in Nat,
           hi - lo >= 2, hi <= m
    PROVE  PartInv(Started(a, lo, hi), lo, a, m, lo, hi)
<1> DEFINE half == lo + (hi - lo) \div 2  b == Sorts!Swap(a, half, hi - 1)
<1>1. half \in lo .. hi - 1 /\ hi - 1 \in lo .. hi - 1 /\ lo .. hi - 1 \subseteq 0 .. m - 1
  OBVIOUS
<1> HIDE DEF half
<1>2. b \in Arrays(m)
  BY <1>1, SwapTyped
<1>3. Shuffles(a, b, lo .. hi - 1)
  BY <1>1, SwapShuffles DEF Arrays
<1>4. Started(a, lo, hi) = [a |-> b, left |-> lo]
  BY DEF Started, half
<1> HIDE DEF b
<1>5. PartInv([a |-> b, left |-> lo], lo, a, m, lo, hi)
  BY <1>2, <1>3 DEF PartInv
<1> QED BY <1>4, <1>5

LEMMA PartedInv ==
    ASSUME NEW m \in Nat, NEW a \in Arrays(m), NEW lo \in Nat, NEW hi \in Nat,
           hi - lo >= 2, hi <= m, NEW k \in lo + 1 .. hi - 1, NEW s,
           PartInv(s, k - 1, a, m, lo, hi)
    PROVE  PartInv(Parted(s, k, hi - 1), k, a, m, lo, hi)
<1> DEFINE S == lo .. hi - 1  b == s.a  l == s.left  r == hi - 1
           c == Sorts!Swap(b, l, k - 1)
<1>1. /\ b \in Arrays(m) /\ Shuffles(a, b, S) /\ l \in lo .. k - 1
      /\ \A p \in lo .. l - 1 : b[p][1] < b[r][1]
      /\ \A p \in l .. k - 1 - 1 : b[r][1] <= b[p][1]
      /\ s = [a |-> b, left |-> l]
  BY DEF PartInv
<1>2. /\ l \in S /\ k - 1 \in S /\ r \in S /\ S \subseteq 0 .. m - 1 /\ k - 1 # r
      /\ DOMAIN a = 0 .. m - 1 /\ DOMAIN b = 0 .. m - 1 /\ l # r
      /\ l \in Int /\ k \in Int /\ l <= k - 1
  BY <1>1 DEF Arrays
<1>3. \A p \in S : b[p][1] \in Int
  BY <1>1, <1>2, PairHas DEF Arrays
<1>4. CASE b[k - 1][1] < b[r][1]
  <2>1. Parted(s, k, hi - 1) = [a |-> c, left |-> l + 1]
    BY <1>4 DEF Parted
  <2>2. c \in Arrays(m)
    BY <1>1, <1>2, SwapTyped
  <2>3. Shuffles(b, c, S)
    BY <1>2, SwapShuffles
  <2>4. Shuffles(a, c, S)
    <3> HIDE DEF S, b, c
    <3> QED BY <1>1, <1>2, <2>3, ShufflesAgain
  <2>5. \A p \in S : c[p] = IF p = k - 1 THEN b[l] ELSE IF p = l THEN b[k - 1] ELSE b[p]
    BY <1>2, SwapIs
  <2> HIDE DEF b, c, l
  <2>6. c[r] = b[r]
    BY <1>2, <2>5
  <2>7. ASSUME NEW p \in lo .. l PROVE c[p][1] < c[r][1]
    <3>1. p \in S
      BY <1>1, <1>2
    <3>2. CASE p = l
      <4>1. c[p] = b[k - 1]
        BY <1>2, <2>5, <3>1, <3>2
      <4> QED BY <4>1, <2>6, <1>4
    <3>3. CASE p # l
      <4>1. p \in lo .. l - 1 /\ p # k - 1
        BY <1>2, <3>3
      <4> QED BY <4>1, <3>1, <3>3, <2>5, <2>6, <1>1
    <3> QED BY <3>2, <3>3
  <2>8. \A p \in l + 1 .. k - 1 : c[r][1] <= c[p][1]
    <3> SUFFICES ASSUME NEW p \in l + 1 .. k - 1 PROVE c[r][1] <= c[p][1]
      OBVIOUS
    <3>1. p \in S /\ p # l
      BY <1>1, <1>2
    <3>2. CASE p = k - 1
      <4>1. c[p] = b[l] /\ l \in l .. k - 1 - 1
        BY <1>2, <2>5, <3>1, <3>2
      <4> QED BY <4>1, <2>6, <1>1
    <3>3. CASE p # k - 1
      <4>1. p \in l .. k - 1 - 1 /\ c[p] = b[p]
        BY <1>2, <2>5, <3>1, <3>3
      <4> QED BY <4>1, <2>6, <1>1
    <3> QED BY <3>2, <3>3
  <2>9. l + 1 \in lo .. k
    BY <1>1, <1>2
  <2>10. PartInv([a |-> c, left |-> l + 1], k, a, m, lo, hi)
    <3> DEFINE above == l + 1
    <3>2. \A p \in above .. k - 1 : c[hi - 1][1] <= c[p][1]
      BY <2>8
    <3>3. above - 1 = l /\ above \in lo .. k
      BY <2>9, <1>2
    <3> HIDE DEF above
    <3>1. /\ above \in lo .. k /\ \A p \in lo .. above - 1 : c[p][1] < c[hi - 1][1]
          /\ \A p \in above .. k - 1 : c[hi - 1][1] <= c[p][1]
      BY <2>7, <3>2, <3>3
    <3>4. PartInv([a |-> c, left |-> above], k, a, m, lo, hi)
      BY <2>2, <2>4, <3>1, PartInvOf
    <3> QED BY <3>4 DEF above
  <2> QED BY <2>1, <2>10
<1>5. CASE ~(b[k - 1][1] < b[r][1])
  <2>1. Parted(s, k, hi - 1) = s
    BY <1>5 DEF Parted
  <2>2. b[r][1] <= b[k - 1][1]
    <3>1. r \in lo .. hi - 1 /\ k - 1 \in lo .. hi - 1
      BY <1>2
    <3>2. b[r][1] \in Int /\ b[k - 1][1] \in Int
      BY <1>3, <3>1
    <3> HIDE DEF r
    <3> QED BY <3>2, <1>5
  <2>3. \A p \in l .. k - 1 : b[r][1] <= b[p][1]
    <3> SUFFICES ASSUME NEW p \in l .. k - 1 PROVE b[r][1] <= b[p][1]
      OBVIOUS
    <3>1. p = k - 1 \/ p \in l .. k - 1 - 1
      BY <1>2
    <3> QED BY <1>1, <2>2, <3>1
  <2>4. l \in lo .. k
    BY <1>1, <1>2
  <2>5. PartInv(s, k, a, m, lo, hi)
    BY <1>1, <2>3, <2>4 DEF PartInv
  <2> QED BY <2>1, <2>5
<1> QED BY <1>4, <1>5

LEMMA PartRun ==
    ASSUME NEW m \in Nat, NEW a \in Arrays(m), NEW lo \in Nat, NEW hi \in Nat,
           hi - lo >= 2, hi <= m, NEW f, f[lo] = Started(a, lo, hi),
           \A k \in lo + 1 .. hi - 1 : PartInv(f[k - 1], k - 1, a, m, lo, hi)
                                         => f[k] = Parted(f[k - 1], k, hi - 1)
    PROVE  \A k \in lo .. hi - 1 : PartInv(f[k], k, a, m, lo, hi)
<1> DEFINE S == {d \in Nat : lo + d <= hi - 1 => PartInv(f[lo + d], lo + d, a, m, lo, hi)}
<1>1. 0 \in S
  <2>1. PartInv(f[lo], lo, a, m, lo, hi) /\ lo + 0 = lo
    BY StartedInv
  <2> QED BY <2>1
<1>2. ASSUME NEW d \in Nat, d \in S PROVE d + 1 \in S
  <2> DEFINE k == lo + (d + 1)
  <2>1. CASE k <= hi - 1
    <3>1. k \in lo + 1 .. hi - 1 /\ k - 1 = lo + d /\ lo + d <= hi - 1
      BY <2>1
    <3>2. PartInv(f[k - 1], k - 1, a, m, lo, hi)
      BY <1>2, <3>1
    <3> HIDE DEF k
    <3>3. PartInv(Parted(f[k - 1], k, hi - 1), k, a, m, lo, hi)
      BY <3>1, <3>2, PartedInv
    <3>4. f[k] = Parted(f[k - 1], k, hi - 1)
      BY <3>1, <3>2
    <3>5. PartInv(f[k], k, a, m, lo, hi)
      BY <3>3, <3>4
    <3> QED BY <3>5 DEF k
  <2> QED BY <2>1
<1>3. Nat \subseteq S
  <2> HIDE DEF S
  <2> QED BY <1>1, <1>2, InductionOnNumbers
<1> SUFFICES ASSUME NEW k \in lo .. hi - 1 PROVE PartInv(f[k], k, a, m, lo, hi)
  OBVIOUS
<1>4. k - lo \in Nat /\ lo + (k - lo) = k /\ k <= hi - 1
  OBVIOUS
<1>5. k - lo \in S
  BY <1>3, <1>4
<1> QED BY <1>4, <1>5

LEMMA PartMeans ==
    ASSUME NEW a, NEW lo \in Nat, NEW hi \in Nat, NEW f, PartBy(f, a, lo, hi),
           NEW k \in lo .. hi - 1
    PROVE  f[k] = IF k = lo THEN Started(a, lo, hi) ELSE Parted(f[k - 1], k, hi - 1)
<1> DEFINE u == [p \in lo .. hi - 1 |->
                   IF p = lo THEN Started(a, lo, hi) ELSE Parted(f[p - 1], p, hi - 1)]
<1>1. f = u
  BY DEF PartBy
<1>2. u[k] = IF k = lo THEN Started(a, lo, hi) ELSE Parted(f[k - 1], k, hi - 1)
  OBVIOUS
<1> HIDE DEF u
<1> QED BY <1>1, <1>2

LEMMA PartExists ==
    ASSUME NEW m \in Nat, NEW a \in Arrays(m), NEW lo \in Nat, NEW hi \in Nat,
           hi - lo >= 2, hi <= m
    PROVE  \E f : PartBy(f, a, lo, hi)
<1> DEFINE T == [a : Arrays(m), left : Int]
           Good(s, k) == PartInv(s, k - 1, a, m, lo, hi) /\ k \in lo + 1 .. hi - 1
           F == [k \in Int |-> [s \in T |-> IF Good(s, k) THEN Parted(s, k, hi - 1) ELSE s]]
           begin == Started(a, lo, hi)
           end == hi - 1
<1>1. \A s, k : k \in Int /\ PartInv(s, k, a, m, lo, hi) => s \in T
  BY DEF PartInv
<1>2. F \in [Int -> [T -> T]]
  <2>1. ASSUME NEW k \in Int, NEW s \in T
        PROVE  (IF Good(s, k) THEN Parted(s, k, hi - 1) ELSE s) \in T
    BY <1>1, PartedInv
  <2> HIDE DEF T, Good
  <2> QED BY <2>1
<1>3. begin \in T /\ end \in Int /\ lo <= end /\ lo \in Int
  BY <1>1, StartedInv
<1>4. PICK f : Runs(f, T, lo, end, begin, F)
  <2> HIDE DEF T, F, begin, end
  <2> QED BY <1>2, <1>3, LoopExists
<1>5. f[lo] = begin /\ \A k \in lo + 1 .. end : f[k] = F[k][f[k - 1]] /\ f[k - 1] \in T
  <2> HIDE DEF F, begin, T
  <2>1. \A k \in lo + 1 .. end : k - 1 \in lo .. end
    OBVIOUS
  <2> HIDE DEF end
  <2> QED BY <1>4, <2>1 DEF Runs
<1>6. ASSUME NEW k \in lo + 1 .. end, PartInv(f[k - 1], k - 1, a, m, lo, hi)
      PROVE  f[k] = Parted(f[k - 1], k, hi - 1)
  <2>1. k \in Int /\ Good(f[k - 1], k)
    BY <1>6
  <2> HIDE DEF Good, T, begin
  <2>2. f[k] = F[k][f[k - 1]] /\ f[k - 1] \in T
    BY <1>5
  <2> QED BY <2>1, <2>2
<1>7. \A k \in lo .. end : PartInv(f[k], k, a, m, lo, hi)
  BY <1>5, <1>6, PartRun
<1>8. ASSUME NEW k \in lo .. end
      PROVE  f[k] = IF k = lo THEN begin ELSE Parted(f[k - 1], k, hi - 1)
  <2>1. k = lo \/ (k \in lo + 1 .. end /\ k - 1 \in lo .. end)
    OBVIOUS
  <2> HIDE DEF begin, end
  <2> QED BY <2>1, <1>5, <1>6, <1>7
<1>9. f = [k \in lo .. end |-> f[k]]
  BY <1>4 DEF Runs
<1>10. PartBy(f, a, lo, hi)
  BY <1>8, <1>9 DEF PartBy
<1> QED BY <1>10

\* After Partition, nothing before the element it returns is larger, and
\* nothing behind it is smaller.
Split(d, a, m, lo, hi) ==
    /\ d.a \in Arrays(m) /\ Shuffles(a, d.a, lo .. hi - 1)
    /\ d.left \in lo .. hi - 1
    /\ \A p \in lo .. d.left : d.a[p][1] <= d.a[d.left][1]
    /\ \A p \in d.left .. hi - 1 : d.a[d.left][1] <= d.a[p][1]

LEMMA PartitionIs ==
    ASSUME NEW m \in Nat, NEW a \in Arrays(m), NEW lo \in Nat, NEW hi \in Nat,
           hi - lo >= 2, hi <= m
    PROVE  Split(Sorts!Partition(a, lo, hi), a, m, lo, hi)
<1> DEFINE r == hi - 1
<1>1. PICK f : /\ PartBy(f, a, lo, hi)
               /\ Sorts!Partition(a, lo, hi)
                    = [f[r] EXCEPT !.a = Sorts!Swap(f[r].a, f[r].left, r)]
  <2>1. Sorts!Partition(a, lo, hi) =
          LET f == CHOOSE g : PartBy(g, a, lo, hi)
          IN  [f[r] EXCEPT !.a = Sorts!Swap(f[r].a, f[r].left, r)]
    BY DEF Sorts!Partition, PartBy, Started, Parted
  <2> QED BY <2>1, PartExists
<1>2. r \in lo .. hi - 1 /\ lo \in lo .. hi - 1 /\ r \in Int
      /\ \A k \in lo + 1 .. hi - 1 : k \in lo .. hi - 1 /\ k # lo
  OBVIOUS
<1>3. PartInv(f[r], r, a, m, lo, hi)
  <2>1. f[lo] = Started(a, lo, hi)
    BY <1>1, <1>2, PartMeans
  <2>2. \A k \in lo + 1 .. hi - 1 : f[k] = Parted(f[k - 1], k, hi - 1)
    BY <1>1, <1>2, PartMeans
  <2> QED BY <1>2, <2>1, <2>2, PartRun
<1> DEFINE S == lo .. hi - 1  s == f[r]  b == s.a  l == s.left  c == Sorts!Swap(b, l, r)
           d == Sorts!Partition(a, lo, hi)
<1>4. /\ b \in Arrays(m) /\ Shuffles(a, b, S) /\ l \in lo .. r
      /\ \A p \in lo .. l - 1 : b[p][1] < b[r][1]
      /\ \A p \in l .. r - 1 : b[r][1] <= b[p][1]
      /\ s = [a |-> b, left |-> l]
  BY <1>3 DEF PartInv
<1>5. d = [a |-> c, left |-> l]
  <2> HIDE DEF b, l, c
  <2>1. d = [s EXCEPT !.a = Sorts!Swap(s.a, s.left, r)]
    BY <1>1
  <2>2. d = [s EXCEPT !.a = c]
    BY <2>1 DEF b, l, c
  <2> HIDE DEF d, s
  <2> QED BY <1>4, <2>2
<1>6. /\ l \in S /\ r \in S /\ S \subseteq 0 .. m - 1 /\ l \in Int
      /\ DOMAIN a = 0 .. m - 1 /\ DOMAIN b = 0 .. m - 1
  BY <1>4 DEF Arrays
<1>7. \A p \in S : b[p][1] \in Int
  BY <1>4, <1>6, PairHas DEF Arrays
<1>8. \A p \in S : c[p] = IF p = r THEN b[l] ELSE IF p = l THEN b[r] ELSE b[p]
  BY <1>6, SwapIs
<1>9. c \in Arrays(m)
  BY <1>4, <1>6, SwapTyped
<1>10. Shuffles(a, c, S)
  <2>1. Shuffles(b, c, S)
    BY <1>6, SwapShuffles
  <2> HIDE DEF S, b, c
  <2> QED BY <1>4, <1>6, <2>1, ShufflesAgain
<1> HIDE DEF b, c, l, s, d
<1>11. c[l] = b[r]
  BY <1>6, <1>8
<1>12. ASSUME NEW p \in lo .. l PROVE c[p][1] <= c[l][1]
  <2>1. p \in S
    BY <1>6
  <2>2. CASE p = l
    BY <1>6, <1>7, <1>11, <2>2
  <2>3. CASE p # l
    <3>1. p \in lo .. l - 1 /\ p # r
      BY <1>4, <1>6, <2>3
    <3>2. c[p] = b[p]
      BY <1>8, <2>1, <2>3, <3>1
    <3>3. b[p][1] < b[r][1]
      BY <1>4, <3>1
    <3> QED BY <3>2, <3>3, <1>6, <1>7, <1>11, <2>1
  <2> QED BY <2>2, <2>3
<1>13. ASSUME NEW p \in l .. r PROVE c[l][1] <= c[p][1]
  <2>1. p \in S
    BY <1>6
  <2>2. CASE p = l
    BY <1>6, <1>7, <1>11, <2>2
  <2>3. CASE p # l
    <3>1. \E q \in l .. r - 1 : c[p] = b[q]
      <4>1. CASE p = r
        <5>1. l \in l .. r - 1
          BY <1>4, <1>6, <2>3, <4>1
        <5> QED BY <1>8, <2>1, <4>1, <5>1
      <4>2. CASE p # r
        <5>1. p \in l .. r - 1
          BY <1>6, <4>2
        <5> QED BY <1>8, <2>1, <2>3, <4>2, <5>1
      <4> QED BY <4>1, <4>2
    <3> QED BY <3>1, <1>4, <1>11
  <2> QED BY <2>2, <2>3
<1>14. d.a = c /\ d.left = l
  BY <1>5
<1>15. Split(d, a, m, lo, hi)
  BY <1>6, <1>9, <1>10, <1>12, <1>13, <1>14 DEF Split
<1> QED BY <1>15 DEF d

\* Calls that are made in place of the next one.
LEMMA PushTwo ==
    ASSUME NEW T, NEW s \in Seq(T), s # <<>>, NEW x \in T, NEW y \in T
    PROVE  LET t == <<x, y>> \o Tail(s)
           IN  /\ t \in Seq(T) /\ Len(t) = Len(s) + 1 /\ t[1] = x /\ t[2] = y
               /\ \A k \in 3 .. Len(s) + 1 : t[k] = s[k - 1]
OBVIOUS

LEMMA PopOne ==
    ASSUME NEW T, NEW s \in Seq(T), s # <<>>
    PROVE  /\ Tail(s) \in Seq(T) /\ Len(Tail(s)) = Len(s) - 1 /\ Len(s) \in Nat \ {0}
           /\ \A k \in 1 .. Len(s) - 1 : Tail(s)[k] = s[k + 1]
           /\ Head(s) = s[1]
OBVIOUS

Ranges == [lo : Nat, hi : Nat, flag : BOOLEAN]

LEMMA RangeOf ==
    ASSUME NEW s \in Seq(Ranges), NEW c \in 1 .. Len(s)
    PROVE  /\ s[c] \in Ranges
           /\ s[c].lo \in Nat /\ s[c].hi \in Nat /\ s[c].flag \in BOOLEAN
<1>1. s[c] \in Ranges
  OBVIOUS
<1> QED BY <1>1 DEF Ranges

Covers(c, p, q) == c.lo <= p /\ q < c.hi
Apart(c, d) == c.hi <= d.lo \/ d.hi <= c.lo

\* Whatever is out of order is within a part that is still to be sorted, and
\* these parts do not overlap.
QuickPart ==
    /\ calls \in Seq(Ranges)
    /\ \A c \in DOMAIN calls : calls[c].lo <= calls[c].hi /\ calls[c].hi <= size
    /\ \A c, d \in DOMAIN calls : c # d => Apart(calls[c], calls[d])
    /\ \A p, q \in Spots : p < q => \/ elements[p][1] <= elements[q][1]
                                    \/ \E c \in DOMAIN calls : Covers(calls[c], p, q)
    /\ sorted => calls = <<>>

LEMMA QuickPop ==
    ASSUME SortTyped, QuickPart, Sorts!quickSort, Head(calls).hi - Head(calls).lo < 2
    PROVE  SortTyped' /\ QuickPart'
<1>1. /\ UNCHANGED <<sort, size, sorted, elements, outer>> /\ ~sorted
      /\ calls' = Tail(calls) /\ calls # <<>> /\ calls \in Seq(Ranges)
  <2>1. ~sorted /\ sorted' = sorted
    BY DEF Sorts!quickSort
  <2> QED BY <2>1 DEF Sorts!quickSort, QuickPart
<1> DEFINE t == calls'  n == Len(calls)
<1>2. /\ t \in Seq(Ranges) /\ Len(t) = n - 1 /\ n \in Nat \ {0}
      /\ \A k \in 1 .. n - 1 : t[k] = calls[k + 1]
      /\ Head(calls) = calls[1]
  BY <1>1, PopOne
<1>3. DOMAIN calls = 1 .. n /\ DOMAIN t = 1 .. n - 1
  BY <1>1, <1>2
<1> HIDE DEF t, n
<1>4. \A k \in 1 .. n - 1 : k + 1 \in 1 .. n
  BY <1>2
<1>5. \A c \in DOMAIN t : t[c].lo <= t[c].hi /\ t[c].hi <= size
  BY <1>2, <1>3, <1>4 DEF QuickPart
<1>6. ASSUME NEW c \in 1 .. n - 1, NEW d \in 1 .. n - 1, c # d PROVE Apart(t[c], t[d])
  <2>1. c + 1 # d + 1 /\ t[c] = calls[c + 1] /\ t[d] = calls[d + 1]
    BY <1>2, <1>6
  <2>2. Apart(calls[c + 1], calls[d + 1])
    BY <1>3, <1>4, <2>1 DEF QuickPart
  <2> QED BY <2>1, <2>2
<1>7. ASSUME NEW p \in Spots, NEW q \in Spots, p < q, ~(elements[p][1] <= elements[q][1])
      PROVE  \E c \in DOMAIN t : Covers(t[c], p, q)
  <2>1. PICK d \in 1 .. n : Covers(calls[d], p, q)
    BY <1>3, <1>7 DEF QuickPart
  <2>2. d # 1
    <3>1. calls[1].hi - calls[1].lo < 2 /\ calls[1].lo \in Int /\ calls[1].hi \in Int
      <4>1. calls[1] \in Ranges
        BY <1>1, <1>2, <1>3
      <4> QED BY <4>1, <1>2 DEF Ranges
    <3> QED BY <3>1, <2>1, <1>7 DEF Covers, Spots, SortTyped
  <2>3. d - 1 \in 1 .. n - 1 /\ (d - 1) + 1 = d
    BY <2>2, <1>2
  <2>4. t[d - 1] = calls[d]
    BY <1>2, <2>3
  <2> QED BY <1>3, <2>1, <2>3, <2>4
<1>8. SortTyped'
  BY <1>1 DEF SortTyped, Sorts!NothingLost
<1>9. Spots' = Spots
  BY <1>1 DEF Spots
<1>10. QuickPart'
  BY <1>1, <1>2, <1>3, <1>5, <1>6, <1>7, <1>9 DEF QuickPart, t
<1> QED BY <1>8, <1>10

LEMMA QuickSplit ==
    ASSUME SortTyped, QuickPart, Sorts!quickSort, Head(calls).hi - Head(calls).lo >= 2
    PROVE  SortTyped' /\ QuickPart'
<1> DEFINE lo == Head(calls).lo  hi == Head(calls).hi  d == Sorts!Partition(elements, lo, hi)
           l == d.left  x == Sorts!Part(lo, l)  y == Sorts!Part(l + 1, hi)
           t == calls'  n == Len(calls)
<1>1. /\ UNCHANGED <<sort, size, sorted, outer>> /\ ~sorted /\ sorted' = sorted
      /\ elements' = d.a /\ calls' = <<x, y>> \o Tail(calls)
      /\ calls # <<>> /\ calls \in Seq(Ranges)
  <2>1. ~sorted /\ sorted' = sorted
    BY DEF Sorts!quickSort
  <2>2. lo \in Nat /\ hi \in Nat
    <3>1. calls \in Seq(Ranges) /\ calls # <<>>
      BY DEF QuickPart, Sorts!quickSort
    <3>2. Head(calls) \in Ranges
      BY <3>1
    <3> QED BY <3>2 DEF Ranges
  <2>3. ~(hi - lo < 2)
    BY <2>2
  <2> QED BY <2>1, <2>3 DEF Sorts!quickSort, QuickPart
<1>2. /\ calls[1] \in Ranges /\ calls[1].lo = lo /\ calls[1].hi = hi /\ n \in Nat \ {0}
      /\ DOMAIN calls = 1 .. n
  BY <1>1
<1>18. \A c \in 1 .. n : calls[c].lo \in Nat /\ calls[c].hi \in Nat /\ calls[c] \in Ranges
  BY <1>1, RangeOf
<1>3. /\ lo \in Nat /\ hi \in Nat /\ hi - lo >= 2 /\ hi <= size /\ size \in Nat
      /\ elements \in Arrays(size) /\ DOMAIN elements = Spots
  BY <1>2 DEF Ranges, QuickPart, SortTyped, Arrays, Spots
<1> HIDE DEF lo, hi, n
<1>4. Split(d, elements, size, lo, hi)
  BY <1>3, PartitionIs
<1> HIDE DEF d
<1>5. l \in lo .. hi - 1 /\ l \in Nat /\ elements' \in Arrays(size)
      /\ Shuffles(elements, elements', lo .. hi - 1)
  BY <1>1, <1>3, <1>4 DEF Split
<1>6. /\ x = [lo |-> lo, hi |-> l, flag |-> FALSE] /\ x \in Ranges
      /\ y = [lo |-> l + 1, hi |-> hi, flag |-> FALSE] /\ y \in Ranges
  BY <1>3, <1>5 DEF Sorts!Part, Ranges
<1> HIDE DEF x, y
<1>7. /\ t \in Seq(Ranges) /\ Len(t) = n + 1 /\ t[1] = x /\ t[2] = y
      /\ \A k \in 3 .. n + 1 : t[k] = calls[k - 1]
      /\ DOMAIN t = 1 .. n + 1
  BY <1>1, <1>6, PushTwo DEF n
<1> HIDE DEF t
<1>8. lo .. hi - 1 \in SUBSET Spots
  BY <1>3 DEF Spots
<1>9. SortTyped'
  <2>1. Sorts!NothingLost'
    BY <1>5, <1>8, NothingIsLost
  <2> QED BY <1>1, <1>5, <2>1 DEF SortTyped
<1>10. \A c \in 1 .. n + 1 : c = 1 \/ c = 2 \/ (c \in 3 .. n + 1 /\ c - 1 \in 1 .. n /\ c - 1 # 1)
  BY <1>2
<1>11. ASSUME NEW c \in 1 .. n + 1 PROVE t[c].lo <= t[c].hi /\ t[c].hi <= size
  <2>1. CASE c = 1
    BY <1>3, <1>5, <1>6, <1>7, <2>1
  <2>2. CASE c = 2
    BY <1>3, <1>5, <1>6, <1>7, <2>2
  <2>3. CASE c \in 3 .. n + 1 /\ c - 1 \in 1 .. n
    BY <1>2, <1>7, <2>3 DEF QuickPart
  <2> QED BY <1>10, <2>1, <2>2, <2>3
<1>12. ASSUME NEW c \in 3 .. n + 1, NEW z \in {x, y} PROVE Apart(z, t[c]) /\ Apart(t[c], z)
  <2>1. t[c] = calls[c - 1] /\ c - 1 \in 1 .. n /\ c - 1 # 1
    BY <1>7, <1>10
  <2>2. Apart(calls[1], t[c]) /\ t[c] \in Ranges
    BY <1>1, <1>2, <2>1 DEF QuickPart
  <2>3. lo <= z.lo /\ z.hi <= hi /\ z.lo \in Nat /\ z.hi \in Nat
    BY <1>3, <1>5, <1>6
  <2>4. t[c].lo \in Nat /\ t[c].hi \in Nat
    BY <2>2 DEF Ranges
  <2> QED BY <2>2, <2>3, <2>4, <1>2, <1>3 DEF Apart
<1>13. ASSUME NEW c \in 1 .. n + 1, NEW e \in 1 .. n + 1, c # e PROVE Apart(t[c], t[e])
  <2>1. Apart(x, y) /\ Apart(y, x)
    BY <1>3, <1>5, <1>6 DEF Apart
  <2>2. CASE c \in {1, 2} /\ e \in {1, 2}
    BY <1>7, <1>13, <2>1, <2>2
  <2>3. CASE c \in {1, 2} /\ e \in 3 .. n + 1
    BY <1>7, <1>12, <2>3
  <2>4. CASE c \in 3 .. n + 1 /\ e \in {1, 2}
    BY <1>7, <1>12, <2>4
  <2>5. CASE c \in 3 .. n + 1 /\ e \in 3 .. n + 1
    <3>1. c - 1 \in 1 .. n /\ e - 1 \in 1 .. n /\ c - 1 # e - 1
      BY <1>2, <1>13, <2>5
    <3> QED BY <3>1, <2>5, <1>2, <1>7 DEF QuickPart
  <2> QED BY <1>10, <2>2, <2>3, <2>4, <2>5
<1>14. \A p \in Spots : elements[p][1] \in Int /\ elements'[p][1] \in Int /\ p \in Int
  BY <1>3, <1>5, PairHas DEF Arrays, Spots
<1>15. ASSUME NEW p \in Spots, NEW q \in Spots, p < q
       PROVE  \/ elements'[p][1] <= elements'[q][1]
              \/ \E c \in 1 .. n + 1 : Covers(t[c], p, q)
  <2> DEFINE b == elements'  S == lo .. hi - 1
  <2>1. /\ \A k \in S : k \in lo .. l => b[k][1] <= b[l][1]
        /\ \A k \in S : k \in l .. hi - 1 => b[l][1] <= b[k][1]
        /\ l \in Spots
    BY <1>1, <1>4, <1>5, <1>8 DEF Split
  <2>2. CASE p \in S /\ q \in S
    <3>1. CASE q < l
      <4>1. Covers(x, p, q)
        BY <1>5, <1>6, <2>2, <3>1 DEF Covers
      <4> QED BY <4>1, <1>2, <1>7
    <3>2. CASE l < p
      <4>1. Covers(y, p, q)
        <5>1. l + 1 <= p
          BY <1>5, <1>14, <3>2
        <5>2. q < hi
          BY <1>3, <2>2
        <5> QED BY <1>6, <5>1, <5>2 DEF Covers
      <4> QED BY <4>1, <1>2, <1>7
    <3>3. CASE p <= l /\ l <= q
      <4>1. p \in lo .. l /\ q \in l .. hi - 1
        BY <1>3, <1>5, <2>2, <3>3
      <4>2. b[p][1] <= b[l][1] /\ b[l][1] <= b[q][1]
        BY <2>1, <2>2, <4>1
      <4> HIDE DEF b
      <4> QED BY <4>2, <1>14, <2>1 DEF b
    <3> QED BY <3>1, <3>2, <3>3, <1>5, <1>14
  <2>3. CASE p \notin S \/ q \notin S
    <3>1. PICK p0 \in Spots, q0 \in Spots :
             /\ b[p] = elements[p0] /\ b[q] = elements[q0]
             /\ p0 < q0
             /\ p \notin S => p0 = p
             /\ q \notin S => q0 = q
             /\ p \in S => p0 \in S
             /\ q \in S => q0 \in S
      <4>1. CASE p \notin S /\ q \notin S
        BY <1>3, <1>5, <1>15, <4>1 DEF Shuffles
      <4>2. CASE p \in S /\ q \notin S
        <5>1. PICK p0 \in S : b[p] = elements[p0]
          BY <1>5, <4>2 DEF Shuffles
        <5>2. b[q] = elements[q] /\ hi <= q
          <6>1. b[q] = elements[q]
            BY <1>3, <1>5, <4>2 DEF Shuffles
          <6>2. lo <= q
            BY <1>3, <1>14, <1>15, <4>2
          <6> QED BY <6>1, <6>2, <1>3, <1>14, <4>2
        <5>3. p0 < q /\ p0 \in Spots
          BY <1>3, <1>8, <1>14, <5>2
        <5> QED BY <4>2, <5>1, <5>2, <5>3
      <4>3. CASE p \notin S /\ q \in S
        <5>1. PICK q0 \in S : b[q] = elements[q0]
          BY <1>5, <4>3 DEF Shuffles
        <5>2. b[p] = elements[p] /\ p < lo
          BY <1>3, <1>5, <1>14, <1>15, <4>3 DEF Shuffles
        <5>3. p < q0 /\ q0 \in Spots
          BY <1>3, <1>8, <1>14, <5>2
        <5> QED BY <4>3, <5>1, <5>2, <5>3
      <4> QED BY <2>3, <4>1, <4>2, <4>3
    <3>2. CASE elements[p0][1] <= elements[q0][1]
      BY <3>1, <3>2
    <3>3. CASE ~(elements[p0][1] <= elements[q0][1])
      <4>1. PICK c \in 1 .. n : Covers(calls[c], p0, q0)
        BY <1>2, <3>1, <3>3 DEF QuickPart
      <4>2. calls[c] \in Ranges /\ calls[c].lo \in Nat /\ calls[c].hi \in Nat
        BY <1>18
      <4>3. c # 1
        BY <1>2, <1>3, <1>14, <2>3, <3>1, <4>1 DEF Covers
      <4>4. Apart(calls[c], calls[1])
        BY <1>2, <4>3 DEF QuickPart
      <4>5. p0 \notin S /\ q0 \notin S
        BY <1>2, <1>3, <1>14, <3>1, <4>1, <4>2, <4>4 DEF Covers, Apart
      <4>6. p0 = p /\ q0 = q
        BY <3>1, <4>5
      <4>7. c + 1 \in 3 .. n + 1 /\ (c + 1) - 1 = c
        BY <1>2, <4>3
      <4>8. t[c + 1] = calls[c] /\ c + 1 \in 1 .. n + 1
        BY <1>7, <4>7
      <4> QED BY <4>1, <4>6, <4>8
    <3> QED BY <3>2, <3>3
  <2> QED BY <2>2, <2>3
<1>16. Spots' = Spots
  BY <1>1 DEF Spots
<1>17. QuickPart'
  <2>1. DOMAIN t = 1 .. n + 1 /\ size' = size /\ ~sorted'
    BY <1>1, <1>7
  <2>2. t \in Seq(Ranges)
    BY <1>7
  <2>3. \A c \in DOMAIN t : t[c].lo <= t[c].hi /\ t[c].hi <= size'
    BY <1>11, <2>1
  <2>4. \A c, e \in DOMAIN t : c # e => Apart(t[c], t[e])
    BY <1>13, <2>1
  <2>5. \A p, q \in Spots' : p < q => \/ elements'[p][1] <= elements'[q][1]
                                     \/ \E c \in DOMAIN t : Covers(t[c], p, q)
    BY <1>15, <1>16, <2>1
  <2> QED BY <2>1, <2>2, <2>3, <2>4, <2>5 DEF QuickPart, t
<1> QED BY <1>9, <1>17

-----------------------------------------------------------------------------
(*                              mergeSort                                  *)

Halves(a, m, lo, cut, hi) ==
    /\ a \in Arrays(m)
    /\ lo \in Nat /\ cut \in Nat /\ hi \in Nat
    /\ lo <= cut /\ cut <= hi /\ hi <= m
    /\ \A p, q \in lo .. cut - 1 : p < q => Before(a[p], a[q])
    /\ \A p, q \in cut .. hi - 1 : p < q => Before(a[p], a[q])
    /\ \A p \in lo .. cut - 1, q \in cut .. hi - 1 : a[p][2] < a[q][2]

LEMMA HalvesHave ==
    ASSUME NEW m \in Nat, NEW a, NEW lo, NEW cut, NEW hi, Halves(a, m, lo, cut, hi)
    PROVE  /\ lo \in Int /\ cut \in Int /\ hi \in Int /\ lo <= cut /\ cut <= hi
           /\ \A k \in lo .. hi - 1 : /\ k \in Int /\ k \in 0 .. m - 1
                                      /\ a[k][1] \in Int /\ a[k][2] \in Int
           /\ \A p, q \in lo .. cut - 1 : p <= q => a[p][1] <= a[q][1]
           /\ \A p, q \in cut .. hi - 1 : p <= q => a[p][1] <= a[q][1]
<1>1. /\ lo \in Int /\ cut \in Int /\ hi \in Int /\ lo <= cut /\ cut <= hi
      /\ \A k \in lo .. hi - 1 : k \in Int /\ k \in 0 .. m - 1
  BY DEF Halves
<1>2. \A k \in lo .. hi - 1 : a[k][1] \in Int /\ a[k][2] \in Int
  BY <1>1, PairHas DEF Halves, Arrays
<1>3. \A k : k \in lo .. cut - 1 \/ k \in cut .. hi - 1 => k \in lo .. hi - 1
  BY <1>1
<1>4. ASSUME NEW p \in lo .. cut - 1, NEW q \in lo .. cut - 1, p <= q
      PROVE  a[p][1] <= a[q][1]
  <2>1. CASE p = q
    BY <2>1, <1>2, <1>3
  <2>2. CASE p < q
    BY <2>2, <1>2, <1>3 DEF Halves, Before
  <2> QED BY <2>1, <2>2, <1>1, <1>3, <1>4
<1>5. ASSUME NEW p \in cut .. hi - 1, NEW q \in cut .. hi - 1, p <= q
      PROVE  a[p][1] <= a[q][1]
  <2>1. CASE p = q
    BY <2>1, <1>2, <1>3
  <2>2. CASE p < q
    BY <2>2, <1>2, <1>3 DEF Halves, Before
  <2> QED BY <2>1, <2>2, <1>1, <1>3, <1>5
<1> QED BY <1>1, <1>2, <1>4, <1>5

\* Which of the next elements of two halves goes first, and the next one of the
\* right half when place p is filled and l is the next one of the left.
LeftFirst(a, cut, hi, l, r) == l < cut /\ (r = hi \/ a[l][1] <= a[r][1])
RightOf(cut, l, p) == cut + p - l
GoOn(a, cut, hi, l, p) ==
    IF LeftFirst(a, cut, hi, l, RightOf(cut, l, p)) THEN l + 1 ELSE l

MergeBy(f, a, lo, cut, hi) ==
    f = [p \in lo .. hi |-> IF p = lo THEN lo ELSE GoOn(a, cut, hi, f[p - 1], p - 1)]

LEMMA MergeExists ==
    ASSUME NEW a, NEW lo \in Int, NEW cut \in Int, NEW hi \in Int, lo <= hi
    PROVE  \E f : MergeBy(f, a, lo, cut, hi)
<1> DEFINE F == [p \in Int |-> [l \in Int |-> GoOn(a, cut, hi, l, p - 1)]]
<1>1. F \in [Int -> [Int -> Int]]
  BY DEF GoOn
<1>2. PICK f : Runs(f, Int, lo, hi, lo, F)
  <2> HIDE DEF F
  <2> QED BY <1>1, LoopExists
<1>3. f = [p \in lo .. hi |-> f[p]]
  BY <1>2 DEF Runs
<1>4. ASSUME NEW p \in lo .. hi
      PROVE  f[p] = IF p = lo THEN lo ELSE GoOn(a, cut, hi, f[p - 1], p - 1)
  <2>1. CASE p = lo
    BY <1>2, <2>1 DEF Runs
  <2>2. CASE p # lo
    <3>1. p \in lo + 1 .. hi /\ p - 1 \in lo .. hi /\ p \in Int
      BY <2>2
    <3>2. f[p] = F[p][f[p - 1]] /\ f[p - 1] \in Int
      <4> HIDE DEF F
      <4> QED BY <1>2, <3>1 DEF Runs
    <3> QED BY <2>2, <3>1, <3>2
  <2> QED BY <2>1, <2>2
<1> QED BY <1>3, <1>4 DEF MergeBy

LEMMA MergeMeans ==
    ASSUME NEW a, NEW lo, NEW cut, NEW hi, NEW f, MergeBy(f, a, lo, cut, hi),
           NEW p \in lo .. hi
    PROVE  f[p] = IF p = lo THEN lo ELSE GoOn(a, cut, hi, f[p - 1], p - 1)
<1> DEFINE body(q) == IF q = lo THEN lo ELSE GoOn(a, cut, hi, f[q - 1], q - 1)
           g == [q \in lo .. hi |-> body(q)]
<1>1. f = g
  BY DEF MergeBy
<1> HIDE DEF body
<1>2. g[p] = body(p)
  OBVIOUS
<1> HIDE DEF g
<1> QED BY <1>1, <1>2 DEF body

\* Before place p is filled: l and r are the next elements of the halves, what
\* was taken is in front of both, and is before everything that is left.
Taken(lo, cut, l, r) == (lo .. l - 1) \cup (cut .. r - 1)
Left(cut, hi, l, r) == (l .. cut - 1) \cup (r .. hi - 1)
MergeInv(a, lo, cut, hi, l, p) ==
    LET r == RightOf(cut, l, p)
    IN  /\ l \in lo .. cut /\ r \in cut .. hi
        /\ \A k \in Taken(lo, cut, l, r), x \in Left(cut, hi, l, r) : Before(a[k], a[x])
\* The element that is put into place p.
Chosen(a, cut, hi, l, p) ==
    LET r == RightOf(cut, l, p) IN IF LeftFirst(a, cut, hi, l, r) THEN l ELSE r

\* The smaller of the next elements goes before all that are left.
LEMMA MergeGoesOn ==
    ASSUME NEW m \in Nat, NEW a, NEW lo, NEW cut, NEW hi, Halves(a, m, lo, cut, hi),
           NEW l, NEW p \in lo .. hi - 1, MergeInv(a, lo, cut, hi, l, p)
    PROVE  LET n == GoOn(a, cut, hi, l, p)
               r == RightOf(cut, l, p)
               t == RightOf(cut, n, p + 1)
           IN  /\ MergeInv(a, lo, cut, hi, n, p + 1)
               /\ Chosen(a, cut, hi, l, p) \in Left(cut, hi, l, r)
               /\ Taken(lo, cut, n, t) =
                    Taken(lo, cut, l, r) \cup {Chosen(a, cut, hi, l, p)}
<1> DEFINE n == GoOn(a, cut, hi, l, p)  r == RightOf(cut, l, p)
           t == RightOf(cut, n, p + 1)  y == Chosen(a, cut, hi, l, p)
<1>1. /\ lo \in Int /\ cut \in Int /\ hi \in Int /\ lo <= cut /\ cut <= hi /\ p \in Int
      /\ l \in lo .. cut /\ r \in cut .. hi /\ r = cut + p - l /\ p < hi
      /\ \A k \in Taken(lo, cut, l, r), x \in Left(cut, hi, l, r) : Before(a[k], a[x])
      /\ \A k \in lo .. hi - 1 : k \in Int /\ a[k][1] \in Int /\ a[k][2] \in Int
      /\ \A k, x \in lo .. cut - 1 : k <= x => a[k][1] <= a[x][1]
      /\ \A k, x \in cut .. hi - 1 : k <= x => a[k][1] <= a[x][1]
      /\ \A k, x \in lo .. cut - 1 : k < x => Before(a[k], a[x])
      /\ \A k, x \in cut .. hi - 1 : k < x => Before(a[k], a[x])
      /\ \A k \in lo .. cut - 1, x \in cut .. hi - 1 : a[k][2] < a[x][2]
  <2>1. /\ lo \in Int /\ cut \in Int /\ hi \in Int /\ lo <= cut /\ cut <= hi
        /\ \A k \in lo .. hi - 1 : k \in Int /\ a[k][1] \in Int /\ a[k][2] \in Int
        /\ \A k, x \in lo .. cut - 1 : k <= x => a[k][1] <= a[x][1]
        /\ \A k, x \in cut .. hi - 1 : k <= x => a[k][1] <= a[x][1]
    BY HalvesHave
  <2>2. /\ \A k, x \in lo .. cut - 1 : k < x => Before(a[k], a[x])
        /\ \A k, x \in cut .. hi - 1 : k < x => Before(a[k], a[x])
        /\ \A k \in lo .. cut - 1, x \in cut .. hi - 1 : a[k][2] < a[x][2]
    BY DEF Halves
  <2>3. p \in Int /\ p < hi /\ r = cut + p - l
    BY <2>1 DEF RightOf
  <2>4. /\ l \in lo .. cut /\ r \in cut .. hi
        /\ \A k \in Taken(lo, cut, l, r), x \in Left(cut, hi, l, r) : Before(a[k], a[x])
    BY DEF MergeInv
  <2> HIDE DEF r
  <2> QED BY <2>1, <2>2, <2>3, <2>4
<1>2. CASE LeftFirst(a, cut, hi, l, r)
  <2>1. n = l + 1 /\ t = r /\ y = l /\ l < cut
    BY <1>1, <1>2 DEF GoOn, RightOf, Chosen, LeftFirst
  <2>2. /\ Taken(lo, cut, n, t) = Taken(lo, cut, l, r) \cup {y}
        /\ y \in Left(cut, hi, l, r) /\ n \in lo .. cut
        /\ Left(cut, hi, n, t) \subseteq Left(cut, hi, l, r)
    BY <1>1, <2>1 DEF Taken, Left
  <2>3. ASSUME NEW x \in Left(cut, hi, n, t) PROVE Before(a[y], a[x])
    <3>1. CASE x \in l + 1 .. cut - 1
      BY <1>1, <2>1, <3>1
    <3>2. CASE x \in r .. hi - 1
      <4>1. /\ r # hi /\ r \in cut .. hi - 1 /\ x \in cut .. hi - 1 /\ r <= x
            /\ l \in lo .. cut - 1 /\ l \in lo .. hi - 1 /\ x \in lo .. hi - 1
            /\ r \in lo .. hi - 1
        BY <1>1, <2>1, <3>2
      <4>2. a[l][1] <= a[r][1] /\ a[r][1] <= a[x][1] /\ a[l][2] < a[x][2]
        BY <1>1, <1>2, <4>1 DEF LeftFirst
      <4>3. a[l][1] \in Int /\ a[r][1] \in Int /\ a[x][1] \in Int
        BY <1>1, <4>1
      <4> QED BY <2>1, <4>2, <4>3 DEF Before
    <3> QED BY <2>1, <2>3, <3>1, <3>2 DEF Left
  <2> QED BY <1>1, <2>1, <2>2, <2>3 DEF MergeInv
<1>3. CASE ~LeftFirst(a, cut, hi, l, r)
  <2>1. n = l /\ t = r + 1 /\ y = r
    BY <1>1, <1>3 DEF GoOn, RightOf, Chosen
  <2>2. r < hi /\ (l < cut => ~(a[l][1] <= a[r][1]))
    BY <1>1, <1>3 DEF LeftFirst
  <2>3. /\ Taken(lo, cut, n, t) = Taken(lo, cut, l, r) \cup {y}
        /\ y \in Left(cut, hi, l, r) /\ t \in cut .. hi
        /\ Left(cut, hi, n, t) \subseteq Left(cut, hi, l, r)
    BY <1>1, <2>1, <2>2 DEF Taken, Left
  <2>4. ASSUME NEW x \in Left(cut, hi, n, t) PROVE Before(a[y], a[x])
    <3>1. CASE x \in r + 1 .. hi - 1
      BY <1>1, <2>1, <3>1
    <3>2. CASE x \in l .. cut - 1
      <4>1. /\ l < cut /\ r \in lo .. hi - 1 /\ x \in lo .. cut - 1 /\ l <= x
            /\ l \in lo .. cut - 1 /\ l \in lo .. hi - 1 /\ x \in lo .. hi - 1
        BY <1>1, <2>2, <3>2
      <4>2. ~(a[l][1] <= a[r][1]) /\ a[l][1] <= a[x][1]
        BY <1>1, <2>2, <4>1
      <4>3. a[l][1] \in Int /\ a[r][1] \in Int /\ a[x][1] \in Int
        BY <1>1, <4>1
      <4> QED BY <2>1, <4>2, <4>3 DEF Before
    <3> QED BY <2>1, <2>4, <3>1, <3>2 DEF Left
  <2> QED BY <1>1, <2>1, <2>3, <2>4 DEF MergeInv
<1> QED BY <1>2, <1>3

\* What is taken stays taken, and at each place the two indices fit to it.
LEMMA MergeRun ==
    ASSUME NEW m \in Nat, NEW a, NEW lo, NEW cut, NEW hi, Halves(a, m, lo, cut, hi),
           NEW f, MergeBy(f, a, lo, cut, hi)
    PROVE  \A q \in lo .. hi :
              /\ MergeInv(a, lo, cut, hi, f[q], q)
              /\ \A p \in lo .. q - 1 :
                    Chosen(a, cut, hi, f[p], p)
                      \in Taken(lo, cut, f[q], RightOf(cut, f[q], q))
<1> DEFINE Done(q) ==
             /\ MergeInv(a, lo, cut, hi, f[q], q)
             /\ \A p \in lo .. q - 1 :
                   Chosen(a, cut, hi, f[p], p)
                     \in Taken(lo, cut, f[q], RightOf(cut, f[q], q))
           S == {d \in Nat : lo + d <= hi => Done(lo + d)}
<1>1. /\ lo \in Int /\ cut \in Int /\ hi \in Int /\ lo <= cut /\ cut <= hi
  BY HalvesHave
<1>2. Done(lo)
  <2>1. f[lo] = lo
    BY <1>1, MergeMeans
  <2>2. RightOf(cut, lo, lo) = cut
    BY <1>1 DEF RightOf
  <2> QED BY <1>1, <2>1, <2>2 DEF MergeInv, Taken
<1>3. ASSUME NEW d \in Nat, d \in S PROVE d + 1 \in S
  <2> SUFFICES ASSUME lo + (d + 1) <= hi PROVE Done(lo + (d + 1))
    OBVIOUS
  <2> DEFINE p == lo + d  q == p + 1
  <2>1. /\ p \in lo .. hi - 1 /\ q \in lo .. hi /\ q - 1 = p /\ q # lo
        /\ p \in Int /\ lo + (d + 1) = q
    BY <1>1
  <2>2. Done(p)
    BY <1>1, <1>3, <2>1
  <2> HIDE DEF p, q
  <2>3. f[q] = GoOn(a, cut, hi, f[p], p)
    BY <2>1, MergeMeans
  <2>4. q = p + 1
    BY DEF q
  <2>5. /\ MergeInv(a, lo, cut, hi, f[q], q)
        /\ Taken(lo, cut, f[q], RightOf(cut, f[q], q)) =
             Taken(lo, cut, f[p], RightOf(cut, f[p], p))
               \cup {Chosen(a, cut, hi, f[p], p)}
    BY <2>1, <2>2, <2>3, <2>4, MergeGoesOn
  <2>6. \A k \in lo .. q - 1 : k = p \/ k \in lo .. p - 1
    BY <1>1, <2>1
  <2> QED BY <2>1, <2>2, <2>5, <2>6
<1>4. 0 \in S
  BY <1>1, <1>2
<1> HIDE DEF S
<1>5. Nat \subseteq S
  BY <1>3, <1>4, InductionOnNumbers
<1> SUFFICES ASSUME NEW q \in lo .. hi PROVE Done(q)
  OBVIOUS
<1>6. q - lo \in Nat /\ lo + (q - lo) = q /\ q <= hi
  BY <1>1
<1> QED BY <1>5, <1>6 DEF S

\* The elements are put one behind the other, in the order of Before.
LEMMA MergedIs ==
    ASSUME NEW m \in Nat, NEW a, NEW lo, NEW cut, NEW hi, Halves(a, m, lo, cut, hi)
    PROVE  LET b == Sorts!Merged(a, lo, cut, hi)
           IN  /\ b \in Arrays(m) /\ Shuffles(a, b, lo .. hi - 1)
               /\ \A p, q \in lo .. hi - 1 : p < q => Before(b[p], b[q])
<1> DEFINE b == Sorts!Merged(a, lo, cut, hi)  D == lo .. hi - 1
<1>1. /\ lo \in Int /\ cut \in Int /\ hi \in Int /\ lo <= cut /\ cut <= hi
  BY HalvesHave
<1>2. PICK f : /\ MergeBy(f, a, lo, cut, hi)
               /\ b = [p \in DOMAIN a |->
                         IF p \notin lo .. hi - 1 THEN a[p]
                         ELSE IF LeftFirst(a, cut, hi, f[p], RightOf(cut, f[p], p))
                              THEN a[f[p]] ELSE a[RightOf(cut, f[p], p)]]
  <2>1. b = LET f == CHOOSE g : MergeBy(g, a, lo, cut, hi)
            IN  [p \in DOMAIN a |->
                   IF p \notin lo .. hi - 1 THEN a[p]
                   ELSE IF LeftFirst(a, cut, hi, f[p], RightOf(cut, f[p], p))
                        THEN a[f[p]] ELSE a[RightOf(cut, f[p], p)]]
    BY DEF Sorts!Merged, MergeBy, GoOn, LeftFirst, RightOf
  <2>2. \E f : MergeBy(f, a, lo, cut, hi)
    <3>1. lo <= hi
      BY <1>1
    <3> QED BY <1>1, <3>1, MergeExists
  <2> HIDE DEF b
  <2> QED BY <2>1, <2>2
<1> DEFINE from(p) == Chosen(a, cut, hi, f[p], p)
           taken(q) == Taken(lo, cut, f[q], RightOf(cut, f[q], q))
           rest(q) == Left(cut, hi, f[q], RightOf(cut, f[q], q))
<1>3. ASSUME NEW q \in D
      PROVE  /\ from(q) \in rest(q) /\ from(q) \in D
             /\ \A p \in lo .. q - 1 : from(p) \in taken(q)
             /\ \A k \in taken(q), x \in rest(q) : Before(a[k], a[x]) /\ k # x
  <2>1. q \in lo .. hi /\ q \in Int
    BY <1>1
  <2>2. /\ MergeInv(a, lo, cut, hi, f[q], q)
        /\ \A p \in lo .. q - 1 : from(p) \in taken(q)
    BY <1>2, <2>1, MergeRun
  <2>3. from(q) \in rest(q)
    BY <2>2, MergeGoesOn
  <2>4. /\ \A k \in taken(q), x \in rest(q) : Before(a[k], a[x])
        /\ f[q] \in lo .. cut /\ RightOf(cut, f[q], q) \in cut .. hi
    BY <2>2 DEF MergeInv
  <2>5. rest(q) \subseteq D /\ \A k \in taken(q), x \in rest(q) : k # x
    <3> DEFINE l == f[q]  r == RightOf(cut, f[q], q)
    <3>1. l \in lo .. cut /\ r \in cut .. hi
      BY <2>4
    <3> HIDE DEF l, r
    <3>2. /\ Left(cut, hi, l, r) \subseteq D
          /\ \A k \in Taken(lo, cut, l, r), x \in Left(cut, hi, l, r) : k # x
      BY <1>1, <3>1 DEF Taken, Left
    <3> QED BY <3>2 DEF l, r
  <2> HIDE DEF from, taken, rest
  <2> QED BY <2>2, <2>3, <2>4, <2>5
<1>4. /\ a \in Arrays(m) /\ DOMAIN a = 0 .. m - 1 /\ D \subseteq 0 .. m - 1
      /\ \A p \in D : p \in Int
  BY HalvesHave DEF Halves, Arrays
<1>5. /\ DOMAIN b = DOMAIN a
      /\ \A p \in DOMAIN a \ D : b[p] = a[p]
      /\ \A p \in D : b[p] = a[from(p)]
  <2> HIDE DEF b
  <2> QED BY <1>2, <1>4 DEF Chosen
<1> HIDE DEF from, taken, rest, b
<1>6. ASSUME NEW p \in D, NEW q \in D, p < q
      PROVE  Before(a[from(p)], a[from(q)]) /\ from(p) # from(q)
  <2>1. p \in lo .. q - 1
    BY <1>1, <1>6
  <2> QED BY <1>3, <2>1
<1>7. \A p, q \in D : from(p) = from(q) => p = q
  <2> SUFFICES ASSUME NEW p \in D, NEW q \in D, p # q PROVE from(p) # from(q)
    OBVIOUS
  <2>1. p < q \/ q < p
    BY <1>4
  <2> HIDE DEF D
  <2> QED BY <1>6, <2>1
<1>8. Distinct(a) => Distinct(b)
  <2> SUFFICES ASSUME Distinct(a), NEW p \in DOMAIN a, NEW q \in DOMAIN a, p # q
               PROVE  b[p] # b[q]
    BY <1>5 DEF Distinct
  <2> HIDE DEF D
  <2>1. CASE p \in D /\ q \in D
    BY <2>1, <1>3, <1>4, <1>5, <1>7 DEF Distinct
  <2>2. CASE p \in D /\ q \notin D
    BY <2>2, <1>3, <1>4, <1>5 DEF Distinct
  <2>3. CASE p \notin D /\ q \in D
    BY <2>3, <1>3, <1>4, <1>5 DEF Distinct
  <2>4. CASE p \notin D /\ q \notin D
    BY <2>4, <1>5 DEF Distinct
  <2> QED BY <2>1, <2>2, <2>3, <2>4
<1>9. Shuffles(a, b, D)
  <2> HIDE DEF D
  <2> QED BY <1>3, <1>5, <1>8 DEF Shuffles
<1>10. b \in Arrays(m)
  <2>1. b = [p \in DOMAIN b |-> b[p]]
    BY <1>2, <1>5
  <2> HIDE DEF D
  <2> QED BY <1>4, <1>9, <2>1, ShuffleTyped DEF Arrays
<1>11. \A p, q \in D : p < q => Before(b[p], b[q])
  <2> HIDE DEF D
  <2> QED BY <1>5, <1>6
<1> QED BY <1>9, <1>10, <1>11 DEF b

LEMMA PushThree ==
    ASSUME NEW T, NEW s \in Seq(T), s # <<>>, NEW x \in T, NEW y \in T, NEW z \in T
    PROVE  LET t == <<x, y, z>> \o Tail(s)
           IN  /\ t \in Seq(T) /\ Len(t) = Len(s) + 2 /\ t[1] = x /\ t[2] = y /\ t[3] = z
               /\ \A k \in 4 .. Len(s) + 2 : t[k] = s[k - 2]
OBVIOUS

\* A call, the middle of its part, and two places in one half of that.
Mid(c) == c.lo + (c.hi - c.lo) \div 2
SameHalf(c, p, q) == (c.lo <= p /\ q < Mid(c)) \/ (Mid(c) <= p /\ q < c.hi)
Within(c, d) ==
    /\ d.flag
    /\ (d.lo <= c.lo /\ c.hi <= Mid(d)) \/ (Mid(d) <= c.lo /\ c.hi <= d.hi)
\* In order, unless one of the first n calls has still to see to it.
Loose(a, s, n, p, q) == Before(a[p], a[q]) \/ \E c \in 1 .. n : Covers(s[c], p, q)
\* What a call finds in its part: what was there at first, or two halves that
\* hold what was in them at first.
Found(a, c) ==
    IF c.flag
    THEN /\ \A p \in c.lo .. Mid(c) - 1 : a[p][2] \in c.lo .. Mid(c) - 1
         /\ \A p \in Mid(c) .. c.hi - 1 : a[p][2] \in Mid(c) .. c.hi - 1
    ELSE \A p \in c.lo .. c.hi - 1 : a[p][2] = p

\* A part is within a half of each part around it that waits to be merged, and
\* out of order are only elements of a part still to be sorted.
MergePart ==
    /\ calls \in Seq(Ranges)
    /\ \A c \in DOMAIN calls : calls[c].lo <= calls[c].hi /\ calls[c].hi <= size
    /\ \A c, d \in DOMAIN calls : c < d => \/ Apart(calls[c], calls[d])
                                           \/ Within(calls[c], calls[d])
    /\ \A c \in DOMAIN calls : Found(elements, calls[c])
    /\ \A p, q \in Spots : p < q => Loose(elements, calls, Len(calls), p, q)
    /\ \A d \in DOMAIN calls : \A p, q \in Spots :
          calls[d].flag /\ p < q /\ SameHalf(calls[d], p, q)
          => Loose(elements, calls, d - 1, p, q)
    /\ sorted => calls = <<>>

LEMMA MidOf ==
    ASSUME NEW c \in Ranges, c.lo <= c.hi
    PROVE  /\ c.lo \in Nat /\ c.hi \in Nat /\ Mid(c) \in Nat
           /\ c.lo <= Mid(c) /\ Mid(c) <= c.hi
           /\ c.hi - c.lo >= 2 => c.lo < Mid(c) /\ Mid(c) < c.hi
<1>1. c.lo \in Nat /\ c.hi \in Nat
  BY DEF Ranges
<1> QED BY <1>1 DEF Mid

LEMMA MergeHave ==
    ASSUME SortTyped, MergePart
    PROVE  /\ calls \in Seq(Ranges) /\ size \in Nat /\ Len(calls) \in Nat
           /\ DOMAIN calls = 1 .. Len(calls)
           /\ DOMAIN elements = Spots
           /\ \A p \in Spots : p \in Int
           /\ \A c \in 1 .. Len(calls) :
                 /\ calls[c] \in Ranges /\ calls[c].flag \in BOOLEAN
                 /\ calls[c].lo \in Nat /\ calls[c].hi \in Nat /\ Mid(calls[c]) \in Nat
                 /\ calls[c].lo <= Mid(calls[c]) /\ Mid(calls[c]) <= calls[c].hi
                 /\ calls[c].lo <= calls[c].hi /\ calls[c].hi <= size
<1>1. /\ calls \in Seq(Ranges) /\ size \in Nat /\ Len(calls) \in Nat
      /\ DOMAIN calls = 1 .. Len(calls)
      /\ DOMAIN elements = Spots /\ \A p \in Spots : p \in Int
  BY DEF SortTyped, MergePart, Arrays, Spots
<1>2. ASSUME NEW c \in 1 .. Len(calls)
      PROVE  /\ calls[c] \in Ranges /\ calls[c].flag \in BOOLEAN
             /\ calls[c].lo \in Nat /\ calls[c].hi \in Nat /\ Mid(calls[c]) \in Nat
             /\ calls[c].lo <= Mid(calls[c]) /\ Mid(calls[c]) <= calls[c].hi
             /\ calls[c].lo <= calls[c].hi /\ calls[c].hi <= size
  <2>1. calls[c] \in Ranges /\ calls[c].flag \in BOOLEAN
    BY <1>1, RangeOf
  <2>2. calls[c].lo <= calls[c].hi /\ calls[c].hi <= size
    BY <1>1 DEF MergePart
  <2> QED BY <2>1, <2>2, MidOf
<1> QED BY <1>1, <1>2

LEMMA MergePop ==
    ASSUME SortTyped, MergePart, Sorts!mergeSort, Head(calls).hi - Head(calls).lo < 2
    PROVE  SortTyped' /\ MergePart'
<1>1. /\ UNCHANGED <<sort, size, sorted, elements, outer>> /\ ~sorted
      /\ calls' = Tail(calls) /\ calls # <<>>
  <2>1. ~sorted /\ sorted' = sorted
    BY DEF Sorts!mergeSort
  <2>2. Head(calls) = calls[1] /\ 1 \in 1 .. Len(calls)
    BY MergeHave DEF Sorts!mergeSort
  <2>3. Head(calls).hi \in Nat /\ Head(calls).lo \in Nat
    BY <2>2, MergeHave
  <2>4. ~(Head(calls).hi - Head(calls).lo >= 2)
    BY <2>3
  <2> QED BY <2>1, <2>4 DEF Sorts!mergeSort
<1> DEFINE t == calls'  n == Len(calls)
<1>2. /\ t \in Seq(Ranges) /\ Len(t) = n - 1 /\ n \in Nat \ {0}
      /\ \A k \in 1 .. n - 1 : t[k] = calls[k + 1]
      /\ Head(calls) = calls[1]
  BY <1>1, PopOne, MergeHave
<1>3. DOMAIN calls = 1 .. n /\ DOMAIN t = 1 .. n - 1
  BY <1>1, <1>2, MergeHave
<1>0. /\ size \in Nat /\ \A p \in Spots : p \in Int
      /\ \A c \in 1 .. n : calls[c].lo \in Nat /\ calls[c].hi \in Nat
  BY MergeHave
<1> HIDE DEF t, n
<1>4. \A k \in 1 .. n - 1 : k + 1 \in 1 .. n /\ k \in Int
  BY <1>2
<1>5. ASSUME NEW c \in 1 .. n - 1
      PROVE  t[c].lo <= t[c].hi /\ t[c].hi <= size /\ Found(elements, t[c])
  BY <1>2, <1>3, <1>4 DEF MergePart
<1>6. ASSUME NEW c \in 1 .. n - 1, NEW d \in 1 .. n - 1, c < d
      PROVE  Apart(t[c], t[d]) \/ Within(t[c], t[d])
  <2>1. c + 1 < d + 1 /\ t[c] = calls[c + 1] /\ t[d] = calls[d + 1]
    BY <1>2, <1>4, <1>6
  <2>2. Apart(calls[c + 1], calls[d + 1]) \/ Within(calls[c + 1], calls[d + 1])
    BY <1>3, <1>4, <2>1 DEF MergePart
  <2> QED BY <2>1, <2>2
<1>7. ASSUME NEW p \in Spots, NEW q \in Spots, p < q, NEW k \in 1 .. n,
             Loose(elements, calls, k, p, q)
      PROVE  Loose(elements, t, k - 1, p, q)
  <2> SUFFICES ASSUME NEW c \in 1 .. k, Covers(calls[c], p, q)
               PROVE  \E d \in 1 .. k - 1 : Covers(t[d], p, q)
    BY <1>7 DEF Loose
  <2>1. c # 1
    <3> SUFFICES ASSUME c = 1 PROVE FALSE
      OBVIOUS
    <3>1. calls[1].hi - calls[1].lo < 2 /\ calls[1].lo \in Int /\ calls[1].hi \in Int
      BY <1>0, <1>2
    <3> QED BY <3>1, <1>0, <1>7 DEF Covers
  <2>2. c - 1 \in 1 .. k - 1 /\ c - 1 \in 1 .. n - 1 /\ (c - 1) + 1 = c
    BY <2>1, <1>2
  <2>3. t[c - 1] = calls[c]
    BY <1>2, <2>2
  <2> QED BY <2>2, <2>3
<1>8. ASSUME NEW p \in Spots, NEW q \in Spots, p < q PROVE Loose(elements, t, n - 1, p, q)
  <2>1. Loose(elements, calls, n, p, q)
    BY <1>8 DEF MergePart, n
  <2> QED BY <1>2, <1>7, <1>8, <2>1
<1>9. ASSUME NEW d \in 1 .. n - 1, NEW p \in Spots, NEW q \in Spots,
             t[d].flag, p < q, SameHalf(t[d], p, q)
      PROVE  Loose(elements, t, d - 1, p, q)
  <2>1. t[d] = calls[d + 1] /\ (d + 1) - 1 = d /\ d + 1 \in 1 .. n /\ d \in 1 .. n
    BY <1>2, <1>4
  <2>2. Loose(elements, calls, (d + 1) - 1, p, q)
    BY <1>3, <1>9, <2>1 DEF MergePart
  <2> QED BY <1>7, <1>9, <2>1, <2>2
<1>10. SortTyped'
  BY <1>1 DEF SortTyped, Sorts!NothingLost
<1>11. Spots' = Spots
  BY <1>1 DEF Spots
<1>12. MergePart'
  <2>1. t \in Seq(Ranges) /\ Len(t) = n - 1 /\ DOMAIN t = 1 .. n - 1 /\ ~sorted'
        /\ size' = size /\ elements' = elements
    BY <1>1, <1>2, <1>3
  <2> QED BY <1>5, <1>6, <1>8, <1>9, <1>11, <2>1 DEF MergePart, t
<1> QED BY <1>10, <1>12


LEMMA Flagged ==
    ASSUME NEW c \in Ranges
    PROVE  LET d == [c EXCEPT !.flag = TRUE]
           IN  d \in Ranges /\ d.lo = c.lo /\ d.hi = c.hi /\ d.flag
<1> DEFINE d == [c EXCEPT !.flag = TRUE]
<1>1. d.lo = c.lo /\ d.hi = c.hi
  BY DEF Ranges
<1>2. d.flag
  BY DEF Ranges
<1>3. d \in Ranges
  BY DEF Ranges
<1> QED BY <1>1, <1>2, <1>3

LEMMA MergeSplit ==
    ASSUME SortTyped, MergePart, Sorts!mergeSort,
           Head(calls).hi - Head(calls).lo >= 2, ~Head(calls).flag
    PROVE  SortTyped' /\ MergePart'
<1> DEFINE top == Head(calls)  lo == top.lo  hi == top.hi  cut == Mid(top)
           x == Sorts!Part(lo, cut)  y == Sorts!Part(cut, hi)
           z == [top EXCEPT !.flag = TRUE]
           t == calls'  n == Len(calls)
<1>1. /\ top = calls[1] /\ 1 \in 1 .. n /\ n \in Nat \ {0} /\ calls # <<>>
      /\ calls \in Seq(Ranges)
  BY MergeHave DEF Sorts!mergeSort
<1>2. /\ lo \in Nat /\ hi \in Nat /\ cut \in Nat /\ hi - lo >= 2 /\ hi <= size /\ size \in Nat
      /\ lo < cut /\ cut < hi /\ top \in Ranges /\ ~top.flag
  <2>1. top \in Ranges /\ lo <= hi
    BY <1>1, MergeHave
  <2> HIDE DEF top
  <2>2. lo \in Nat /\ hi \in Nat /\ cut \in Nat /\ (hi - lo >= 2 => lo < cut /\ cut < hi)
    BY <2>1, MidOf
  <2> QED BY <1>1, <2>1, <2>2, MergeHave DEF top
<1>3. /\ UNCHANGED <<sort, size, sorted, elements, outer>> /\ ~sorted
      /\ calls' = <<x, y, z>> \o Tail(calls)
  <2>1. ~sorted /\ sorted' = sorted /\ UNCHANGED <<sort, size, outer>>
    BY DEF Sorts!mergeSort
  <2>2. lo + (hi - lo) \div 2 = cut /\ ~(hi - lo < 2)
    BY <1>2 DEF Mid
  <2>3. UNCHANGED elements /\ calls' = <<x, y, z>> \o Tail(calls)
    <3> HIDE DEF cut
    <3> QED BY <1>2, <2>2 DEF Sorts!mergeSort
  <2> QED BY <2>1, <2>3
<1>4. /\ x = [lo |-> lo, hi |-> cut, flag |-> FALSE] /\ x \in Ranges
      /\ y = [lo |-> cut, hi |-> hi, flag |-> FALSE] /\ y \in Ranges
      /\ z.lo = lo /\ z.hi = hi /\ z.flag /\ z \in Ranges
      /\ Mid(z) = cut
  <2>1. z.lo = lo /\ z.hi = hi /\ z.flag /\ z \in Ranges
    BY <1>2, Flagged
  <2>2. Mid(z) = cut
    BY <2>1 DEF Mid
  <2> HIDE DEF cut, z
  <2> QED BY <1>2, <2>1, <2>2 DEF Sorts!Part, Ranges
<1> HIDE DEF top, lo, hi, cut, x, y, z
<1>5. /\ t \in Seq(Ranges) /\ Len(t) = n + 2 /\ t[1] = x /\ t[2] = y /\ t[3] = z
      /\ \A k \in 4 .. n + 2 : t[k] = calls[k - 2]
      /\ DOMAIN t = 1 .. n + 2
  BY <1>1, <1>3, <1>4, PushThree DEF n
<1>6. /\ \A p \in Spots : p \in Int
      /\ \A c \in 1 .. n : /\ calls[c].lo \in Nat /\ calls[c].hi \in Nat
                           /\ Mid(calls[c]) \in Nat /\ calls[c].hi <= size
                           /\ calls[c].lo <= calls[c].hi
      /\ DOMAIN calls = 1 .. n
  BY MergeHave
<1> HIDE DEF t, n
<1>7. /\ calls[1].lo = lo /\ calls[1].hi = hi /\ Found(elements, calls[1]) /\ ~calls[1].flag
  BY <1>1, <1>2, <1>6 DEF lo, hi, MergePart
<1>8. \A c \in 1 .. n + 2 : \/ c \in {1, 2, 3}
                            \/ c \in 4 .. n + 2 /\ c - 2 \in 2 .. n /\ c - 2 \in 1 .. n
  BY <1>1
<1>9. ASSUME NEW c \in 1 .. n + 2
      PROVE  t[c].lo <= t[c].hi /\ t[c].hi <= size /\ Found(elements, t[c])
  <2>0. \A p \in lo .. hi - 1 : elements[p][2] = p /\ p \in Int
    BY <1>2, <1>7 DEF Found
  <2>1. CASE c = 1
    <3>1. \A p \in lo .. cut - 1 : elements[p][2] = p
      BY <1>2, <2>0
    <3> QED BY <2>1, <3>1, <1>2, <1>4, <1>5 DEF Found
  <2>2. CASE c = 2
    <3>1. \A p \in cut .. hi - 1 : elements[p][2] = p
      BY <1>2, <2>0
    <3> QED BY <2>2, <3>1, <1>2, <1>4, <1>5 DEF Found
  <2>3. CASE c = 3
    <3>1. \A p \in lo .. cut - 1 : elements[p][2] \in lo .. cut - 1
      BY <1>2, <2>0
    <3>2. \A p \in cut .. hi - 1 : elements[p][2] \in cut .. hi - 1
      BY <1>2, <2>0
    <3>3. t[c].lo = lo /\ t[c].hi = hi /\ t[c].flag /\ Mid(t[c]) = cut
      BY <2>3, <1>4, <1>5
    <3> QED BY <3>1, <3>2, <3>3, <1>2 DEF Found
  <2>4. CASE c \in 4 .. n + 2 /\ c - 2 \in 1 .. n
    BY <2>4, <1>5, <1>6 DEF MergePart
  <2> QED BY <1>8, <2>1, <2>2, <2>3, <2>4
<1>10. ASSUME NEW c \in 2 .. n, NEW u, u.lo \in Nat, u.hi \in Nat, lo <= u.lo, u.hi <= hi
       PROVE  Apart(u, calls[c]) \/ Within(u, calls[c])
  <2>1. c \in 1 .. n /\ 1 < c
    BY <1>1
  <2>2. Apart(calls[1], calls[c]) \/ Within(calls[1], calls[c])
    BY <1>1, <1>6, <2>1 DEF MergePart
  <2>3. calls[c].lo \in Nat /\ calls[c].hi \in Nat /\ Mid(calls[c]) \in Nat
    BY <1>6, <2>1
  <2> QED BY <1>2, <1>7, <1>10, <2>2, <2>3 DEF Apart, Within
<1>11. ASSUME NEW c \in 1 .. n + 2, NEW d \in 1 .. n + 2, c < d
       PROVE  Apart(t[c], t[d]) \/ Within(t[c], t[d])
  <2>1. CASE c = 1 /\ d = 2
    BY <2>1, <1>2, <1>4, <1>5 DEF Apart
  <2>2. CASE c \in {1, 2} /\ d = 3
    BY <2>2, <1>2, <1>4, <1>5 DEF Within
  <2>3. CASE c \in {1, 2, 3} /\ d \in 4 .. n + 2
    <3>1. t[d] = calls[d - 2] /\ d - 2 \in 2 .. n
      BY <1>1, <1>5, <2>3
    <3>2. t[c].lo \in Nat /\ t[c].hi \in Nat /\ lo <= t[c].lo /\ t[c].hi <= hi
      BY <1>2, <1>4, <1>5, <2>3
    <3> QED BY <1>10, <3>1, <3>2
  <2>4. CASE c \in 4 .. n + 2 /\ d \in 4 .. n + 2
    <3>1. c - 2 \in 1 .. n /\ d - 2 \in 1 .. n /\ c - 2 < d - 2
      BY <1>1, <1>11, <2>4
    <3> QED BY <3>1, <2>4, <1>5, <1>6 DEF MergePart
  <2> QED BY <1>8, <1>11, <2>1, <2>2, <2>3, <2>4
<1>12. ASSUME NEW p \in Spots, NEW q \in Spots, p < q, NEW k \in 1 .. n,
              Loose(elements, calls, k, p, q)
       PROVE  Loose(elements, t, k + 2, p, q)
  <2> SUFFICES ASSUME NEW c \in 1 .. k, Covers(calls[c], p, q)
               PROVE  \E d \in 1 .. k + 2 : Covers(t[d], p, q)
    BY <1>12 DEF Loose
  <2>1. CASE c = 1
    <3>1. Covers(z, p, q)
      BY <2>1, <1>4, <1>7 DEF Covers
    <3>2. 3 \in 1 .. k + 2
      BY <1>1
    <3> QED BY <3>1, <3>2, <1>5
  <2>2. CASE c # 1
    <3>1. c + 2 \in 4 .. n + 2 /\ c + 2 \in 1 .. k + 2 /\ (c + 2) - 2 = c
      BY <1>1, <2>2
    <3>2. t[c + 2] = calls[c]
      BY <1>5, <3>1
    <3> QED BY <3>1, <3>2
  <2> QED BY <2>1, <2>2
<1>13. ASSUME NEW p \in Spots, NEW q \in Spots, p < q PROVE Loose(elements, t, n + 2, p, q)
  <2>1. Loose(elements, calls, n, p, q)
    BY <1>13 DEF MergePart, n
  <2> QED BY <1>1, <1>12, <1>13, <2>1
<1>14. ASSUME NEW d \in 1 .. n + 2, NEW p \in Spots, NEW q \in Spots,
              t[d].flag, p < q, SameHalf(t[d], p, q)
       PROVE  Loose(elements, t, d - 1, p, q)
  <2>1. CASE d \in {1, 2}
    BY <1>4, <1>5, <1>14, <2>1
  <2>2. CASE d = 3
    <3>3. t[d].lo = lo /\ t[d].hi = hi /\ Mid(t[d]) = cut
      BY <2>2, <1>4, <1>5
    <3>1. Covers(x, p, q) \/ Covers(y, p, q)
      BY <1>4, <1>14, <3>3 DEF SameHalf, Covers
    <3>2. 1 \in 1 .. d - 1 /\ 2 \in 1 .. d - 1
      BY <2>2
    <3> QED BY <1>5, <3>1, <3>2 DEF Loose
  <2>3. CASE d \in 4 .. n + 2
    <3>1. t[d] = calls[d - 2] /\ d - 2 \in 1 .. n /\ (d - 2) - 1 \in 1 .. n
          /\ ((d - 2) - 1) + 2 = d - 1
      BY <1>1, <1>5, <2>3
    <3>2. Loose(elements, calls, (d - 2) - 1, p, q)
      BY <1>6, <1>14, <3>1 DEF MergePart
    <3>3. Loose(elements, t, ((d - 2) - 1) + 2, p, q)
      BY <1>12, <1>14, <3>1, <3>2
    <3> QED BY <3>1, <3>3
  <2> QED BY <1>8, <2>1, <2>2, <2>3
<1>15. SortTyped'
  BY <1>3 DEF SortTyped, Sorts!NothingLost
<1>16. Spots' = Spots
  BY <1>3 DEF Spots
<1>17. MergePart'
  <2>1. t \in Seq(Ranges) /\ Len(t) = n + 2 /\ DOMAIN t = 1 .. n + 2 /\ ~sorted'
        /\ size' = size /\ elements' = elements
    BY <1>3, <1>5
  <2> QED BY <1>9, <1>11, <1>13, <1>14, <1>16, <2>1 DEF MergePart, t
<1> QED BY <1>15, <1>17


LEMMA MergeMerge ==
    ASSUME SortTyped, MergePart, Sorts!mergeSort,
           Head(calls).hi - Head(calls).lo >= 2, Head(calls).flag
    PROVE  SortTyped' /\ MergePart'
<1> DEFINE top == Head(calls)  lo == top.lo  hi == top.hi  cut == Mid(top)
           S == lo .. hi - 1
           t == calls'  n == Len(calls)  b == elements'
<1>1. /\ top = calls[1] /\ 1 \in 1 .. n /\ n \in Nat \ {0} /\ calls # <<>>
      /\ calls \in Seq(Ranges)
  BY MergeHave DEF Sorts!mergeSort
<1>2. /\ lo \in Nat /\ hi \in Nat /\ cut \in Nat /\ hi - lo >= 2 /\ hi <= size /\ size \in Nat
      /\ lo < cut /\ cut < hi /\ top \in Ranges /\ top.flag
  <2>1. top \in Ranges /\ lo <= hi
    BY <1>1, MergeHave
  <2> HIDE DEF top
  <2>2. lo \in Nat /\ hi \in Nat /\ cut \in Nat /\ (hi - lo >= 2 => lo < cut /\ cut < hi)
    BY <2>1, MidOf
  <2> QED BY <1>1, <2>1, <2>2, MergeHave DEF top
<1>3. /\ UNCHANGED <<sort, size, sorted, outer>> /\ ~sorted
      /\ b = Sorts!Merged(elements, lo, cut, hi)
      /\ calls' = Tail(calls)
  <2>1. ~sorted /\ sorted' = sorted /\ UNCHANGED <<sort, size, outer>>
    BY DEF Sorts!mergeSort
  <2>2. lo + (hi - lo) \div 2 = cut /\ ~(hi - lo < 2)
    BY <1>2 DEF Mid
  <2>3. b = Sorts!Merged(elements, lo, cut, hi) /\ calls' = Tail(calls)
    <3> HIDE DEF cut
    <3> QED BY <1>2, <2>2 DEF Sorts!mergeSort
  <2> QED BY <2>1, <2>3
<1>4. calls[1].lo = lo /\ calls[1].hi = hi /\ calls[1].flag /\ Mid(calls[1]) = cut
  BY <1>1, <1>2
<1> HIDE DEF top, lo, hi, cut
<1>5. /\ t \in Seq(Ranges) /\ Len(t) = n - 1
      /\ \A k \in 1 .. n - 1 : t[k] = calls[k + 1]
      /\ DOMAIN t = 1 .. n - 1
  BY <1>1, <1>3, PopOne
<1>6. /\ \A p \in Spots : p \in Int
      /\ \A c \in 1 .. n : /\ calls[c].lo \in Nat /\ calls[c].hi \in Nat
                           /\ Mid(calls[c]) \in Nat /\ calls[c].hi <= size
                           /\ calls[c].lo <= Mid(calls[c]) /\ Mid(calls[c]) <= calls[c].hi
                           /\ calls[c].lo <= calls[c].hi
      /\ DOMAIN calls = 1 .. n /\ DOMAIN elements = Spots
  BY MergeHave
<1> HIDE DEF t, n, b
<1>7. S \subseteq Spots /\ \A p \in S : p \in Int
  BY <1>2 DEF Spots
<1>8. Halves(elements, size, lo, cut, hi)
  <2>1. elements \in Arrays(size)
    BY DEF SortTyped
  <2>2. /\ \A p \in lo .. cut - 1 : elements[p][2] \in lo .. cut - 1
        /\ \A p \in cut .. hi - 1 : elements[p][2] \in cut .. hi - 1
    BY <1>1, <1>4, <1>6 DEF MergePart, Found
  <2>3. \A p \in lo .. cut - 1, q \in cut .. hi - 1 : elements[p][2] < elements[q][2]
    <3> SUFFICES ASSUME NEW p \in lo .. cut - 1, NEW q \in cut .. hi - 1
                 PROVE  elements[p][2] < elements[q][2]
      OBVIOUS
    <3>1. elements[p][2] \in lo .. cut - 1 /\ elements[q][2] \in cut .. hi - 1
      BY <2>2
    <3> QED BY <3>1, <1>2
  <2>4. ASSUME NEW p \in Spots, NEW q \in Spots, p < q, SameHalf(calls[1], p, q)
        PROVE  Before(elements[p], elements[q])
    <3>1. Loose(elements, calls, 1 - 1, p, q)
      BY <1>1, <1>4, <1>6, <2>4 DEF MergePart
    <3> QED BY <3>1 DEF Loose
  <2>5. ASSUME NEW p \in lo .. cut - 1, NEW q \in lo .. cut - 1, p < q
        PROVE  Before(elements[p], elements[q])
    <3>1. p \in Spots /\ q \in Spots /\ SameHalf(calls[1], p, q)
      BY <1>2, <1>4, <1>7 DEF SameHalf
    <3> QED BY <2>4, <2>5, <3>1
  <2>6. ASSUME NEW p \in cut .. hi - 1, NEW q \in cut .. hi - 1, p < q
        PROVE  Before(elements[p], elements[q])
    <3>1. p \in Spots /\ q \in Spots /\ SameHalf(calls[1], p, q)
      BY <1>2, <1>4, <1>7 DEF SameHalf
    <3> QED BY <2>4, <2>6, <3>1
  <2> QED BY <1>2, <2>1, <2>3, <2>5, <2>6 DEF Halves
<1>9. /\ b \in Arrays(size) /\ Shuffles(elements, b, S)
      /\ \A p, q \in S : p < q => Before(b[p], b[q])
  BY <1>2, <1>3, <1>8, MergedIs
<1>10. /\ \A p \in Spots : p \notin S => b[p] = elements[p]
       /\ \A p \in S : \E k \in S : b[p] = elements[k]
  BY <1>6, <1>7, <1>9 DEF Shuffles
<1>11. SortTyped'
  <2>1. S \in SUBSET Spots
    BY <1>7
  <2>2. Sorts!NothingLost'
    BY <1>9, <2>1, NothingIsLost DEF b
  <2> QED BY <1>3, <1>9, <2>2 DEF SortTyped, b
<1>12. \A c \in 1 .. n - 1 : c + 1 \in 1 .. n /\ c + 1 \in 2 .. n /\ c \in Int
  BY <1>1
<1>13. ASSUME NEW c \in 2 .. n PROVE Apart(calls[1], calls[c]) \/ Within(calls[1], calls[c])
  <2>1. c \in 1 .. n /\ 1 < c
    BY <1>1
  <2> QED BY <1>1, <1>6, <2>1 DEF MergePart
<1>14. ASSUME NEW c \in 2 .. n PROVE Found(b, calls[c])
  <2> DEFINE e == calls[c]
  <2>1. /\ e.lo \in Nat /\ e.hi \in Nat /\ Mid(e) \in Nat /\ e.hi <= size
        /\ e.lo <= Mid(e) /\ Mid(e) <= e.hi
        /\ Found(elements, e) /\ (Apart(calls[1], e) \/ Within(calls[1], e))
    BY <1>6, <1>13 DEF MergePart
  <2> HIDE DEF e
  <2>2. \A p \in e.lo .. e.hi - 1 : p \in Spots /\ p \in Int
    BY <1>2, <2>1 DEF Spots
  <2>3. ASSUME e.flag
        PROVE  /\ \A p \in e.lo .. Mid(e) - 1 : b[p][2] \in e.lo .. Mid(e) - 1
               /\ \A p \in Mid(e) .. e.hi - 1 : b[p][2] \in Mid(e) .. e.hi - 1
    <3>1. /\ \A p \in e.lo .. Mid(e) - 1 : elements[p][2] \in e.lo .. Mid(e) - 1
          /\ \A p \in Mid(e) .. e.hi - 1 : elements[p][2] \in Mid(e) .. e.hi - 1
      BY <2>1, <2>3 DEF Found
    <3>2. ASSUME NEW p \in e.lo .. Mid(e) - 1 PROVE b[p][2] \in e.lo .. Mid(e) - 1
      <4>1. p \in e.lo .. e.hi - 1 /\ p \in Int
        BY <2>1
      <4>2. CASE p \notin S
        BY <4>1, <4>2, <3>1, <2>2, <1>10
      <4>3. CASE p \in S
        <5>1. \A k \in S : k \in e.lo .. Mid(e) - 1
          BY <1>2, <1>4, <2>1, <4>1, <4>3 DEF Apart, Within
        <5> QED BY <4>3, <5>1, <3>1, <1>10
      <4> QED BY <4>2, <4>3
    <3>3. ASSUME NEW p \in Mid(e) .. e.hi - 1 PROVE b[p][2] \in Mid(e) .. e.hi - 1
      <4>1. p \in e.lo .. e.hi - 1 /\ p \in Int
        BY <2>1
      <4>2. CASE p \notin S
        BY <4>1, <4>2, <3>1, <2>2, <1>10
      <4>3. CASE p \in S
        <5>1. \A k \in S : k \in Mid(e) .. e.hi - 1
          BY <1>2, <1>4, <2>1, <4>1, <4>3 DEF Apart, Within
        <5> QED BY <4>3, <5>1, <3>1, <1>10
      <4> QED BY <4>2, <4>3
    <3> QED BY <3>2, <3>3
  <2>4. ASSUME ~e.flag, NEW p \in e.lo .. e.hi - 1 PROVE b[p][2] = p
    <3>1. Apart(calls[1], e)
      BY <2>1, <2>4 DEF Within
    <3>2. p \notin S /\ p \in Spots
      BY <1>2, <1>4, <2>1, <2>2, <3>1 DEF Apart
    <3>3. elements[p][2] = p
      BY <2>1, <2>4 DEF Found
    <3> QED BY <3>2, <3>3, <1>10
  <2> QED BY <2>3, <2>4 DEF Found, e
<1>15. ASSUME NEW p \in Spots, NEW q \in Spots, p < q, NEW k \in 1 .. n,
              \A p0, q0 \in Spots :
                 /\ p0 < q0 /\ (p0 = p \/ (p \in S /\ p0 \in S))
                 /\ (q0 = q \/ (q \in S /\ q0 \in S))
                 => Loose(elements, calls, k, p0, q0)
       PROVE  Loose(b, t, k - 1, p, q)
  <2>1. CASE p \in S /\ q \in S
    BY <2>1, <1>9, <1>15 DEF Loose
  <2>2. CASE p \notin S \/ q \notin S
    <3>1. PICK p0 \in Spots, q0 \in Spots :
             /\ b[p] = elements[p0] /\ b[q] = elements[q0]
             /\ p0 < q0
             /\ p \notin S => p0 = p
             /\ q \notin S => q0 = q
             /\ p \in S => p0 \in S
             /\ q \in S => q0 \in S
      <4>1. CASE p \notin S /\ q \notin S
        BY <1>10, <1>15, <4>1
      <4>2. CASE p \in S /\ q \notin S
        <5>1. PICK p0 \in S : b[p] = elements[p0]
          BY <1>10, <4>2
        <5>4. p \in Int /\ q \in Int /\ p < q /\ b[q] = elements[q]
          BY <1>6, <1>10, <1>15, <4>2
        <5>2. b[q] = elements[q] /\ hi <= q
          BY <1>2, <4>2, <5>4
        <5>3. p0 < q /\ p0 \in Spots
          BY <1>2, <1>6, <1>7, <5>2
        <5> QED BY <4>2, <5>1, <5>2, <5>3
      <4>3. CASE p \notin S /\ q \in S
        <5>1. PICK q0 \in S : b[q] = elements[q0]
          BY <1>10, <4>3
        <5>4. p \in Int /\ q \in Int /\ p < q /\ b[p] = elements[p]
          BY <1>6, <1>10, <1>15, <4>3
        <5>2. b[p] = elements[p] /\ p < lo
          BY <1>2, <4>3, <5>4
        <5>3. p < q0 /\ q0 \in Spots
          BY <1>2, <1>6, <1>7, <5>2
        <5> QED BY <4>3, <5>1, <5>2, <5>3
      <4> QED BY <2>2, <4>1, <4>2, <4>3
    <3>2. Loose(elements, calls, k, p0, q0)
      BY <1>15, <3>1
    <3>3. CASE Before(elements[p0], elements[q0])
      BY <3>1, <3>3 DEF Loose
    <3>4. ASSUME NEW c \in 1 .. k, Covers(calls[c], p0, q0) PROVE Loose(b, t, k - 1, p, q)
      <4>0. /\ c \in 1 .. n /\ calls[c].lo \in Nat /\ calls[c].hi \in Nat
            /\ Mid(calls[c]) \in Nat /\ calls[c].lo <= Mid(calls[c])
            /\ Mid(calls[c]) <= calls[c].hi
            /\ p \in Int /\ q \in Int /\ p0 \in Int /\ q0 \in Int
        <5>1. c \in 1 .. n
          BY <1>1
        <5> QED BY <5>1, <1>6
      <4>1. c # 1
        <5> SUFFICES ASSUME c = 1 PROVE FALSE
          OBVIOUS
        <5>1. lo <= p0 /\ q0 < hi
          BY <1>4, <3>4 DEF Covers
        <5> QED BY <5>1, <1>2, <2>2, <3>1, <4>0
      <4>2. Apart(calls[1], calls[c]) \/ Within(calls[1], calls[c])
        <5>1. c \in 2 .. n
          BY <1>1, <4>0, <4>1
        <5> QED BY <5>1, <1>13
      <4>3. Covers(calls[c], p, q)
        <5>1. CASE Apart(calls[1], calls[c])
          <6>1. p0 \notin S /\ q0 \notin S
            BY <1>2, <1>4, <3>1, <3>4, <4>0, <5>1 DEF Apart, Covers
          <6> QED BY <6>1, <3>1, <3>4
        <5>2. CASE Within(calls[1], calls[c])
          <6>1. calls[c].lo <= lo /\ hi <= calls[c].hi
            BY <1>2, <1>4, <4>0, <5>2 DEF Within
          <6>2. calls[c].lo <= p
            BY <1>2, <3>1, <3>4, <4>0, <6>1 DEF Covers
          <6>3. q < calls[c].hi
            BY <1>2, <3>1, <3>4, <4>0, <6>1 DEF Covers
          <6> QED BY <6>2, <6>3 DEF Covers
        <5> QED BY <4>2, <5>1, <5>2
      <4>4. c - 1 \in 1 .. k - 1 /\ c - 1 \in 1 .. n - 1 /\ (c - 1) + 1 = c
        BY <4>0, <4>1, <1>1
      <4>5. t[c - 1] = calls[c]
        BY <1>5, <4>4
      <4> QED BY <4>3, <4>4, <4>5 DEF Loose
    <3> QED BY <3>2, <3>3, <3>4 DEF Loose
  <2> QED BY <2>1, <2>2
<1>16. ASSUME NEW p \in Spots, NEW q \in Spots, p < q PROVE Loose(b, t, n - 1, p, q)
  <2>1. \A p0, q0 \in Spots : p0 < q0 => Loose(elements, calls, n, p0, q0)
    BY DEF MergePart, n
  <2>2. n \in 1 .. n
    BY <1>1
  <2> QED BY <1>15, <1>16, <2>1, <2>2
<1>17. ASSUME NEW d \in 1 .. n - 1, NEW p \in Spots, NEW q \in Spots,
              t[d].flag, p < q, SameHalf(t[d], p, q)
       PROVE  Loose(b, t, d - 1, p, q)
  <2>1. t[d] = calls[d + 1] /\ (d + 1) - 1 = d /\ d + 1 \in 2 .. n /\ d + 1 \in 1 .. n
        /\ d \in 1 .. n
    BY <1>1, <1>5, <1>12
  <2> DEFINE e == calls[d + 1]
  <2>2. /\ e.lo \in Nat /\ e.hi \in Nat /\ Mid(e) \in Nat
        /\ (Apart(calls[1], e) \/ Within(calls[1], e))
        /\ e.flag /\ SameHalf(e, p, q) /\ e.lo <= Mid(e) /\ Mid(e) <= e.hi
    BY <1>6, <1>13, <1>17, <2>1
  <2>3. ASSUME NEW p0 \in Spots, NEW q0 \in Spots, p0 < q0,
               p0 = p \/ (p \in S /\ p0 \in S), q0 = q \/ (q \in S /\ q0 \in S)
        PROVE  Loose(elements, calls, d, p0, q0)
    <3>1. SameHalf(e, p0, q0)
      <4> HIDE DEF e
      <4>1. p \in Int /\ q \in Int /\ p0 \in Int /\ q0 \in Int
        BY <1>6
      <4>2. CASE e.lo <= p /\ q < Mid(e)
        <5>1. e.lo <= p0
          BY <1>2, <1>4, <1>17, <2>2, <2>3, <4>1, <4>2 DEF Apart, Within
        <5>2. q0 < Mid(e)
          BY <1>2, <1>4, <1>17, <2>2, <2>3, <4>1, <4>2 DEF Apart, Within
        <5> QED BY <5>1, <5>2 DEF SameHalf
      <4>3. CASE Mid(e) <= p /\ q < e.hi
        <5>1. Mid(e) <= p0
          BY <1>2, <1>4, <1>17, <2>2, <2>3, <4>1, <4>3 DEF Apart, Within
        <5>2. q0 < e.hi
          BY <1>2, <1>4, <1>17, <2>2, <2>3, <4>1, <4>3 DEF Apart, Within
        <5> QED BY <5>1, <5>2 DEF SameHalf
      <4> QED BY <2>2, <4>2, <4>3 DEF SameHalf
    <3>2. Loose(elements, calls, (d + 1) - 1, p0, q0)
      BY <1>6, <2>1, <2>2, <2>3, <3>1 DEF MergePart
    <3> QED BY <2>1, <3>2
  <2> QED BY <1>15, <1>17, <2>1, <2>3
<1>18. Spots' = Spots
  BY <1>3 DEF Spots
<1>19. ASSUME NEW c \in 1 .. n - 1
       PROVE  t[c].lo <= t[c].hi /\ t[c].hi <= size /\ Found(b, t[c])
  BY <1>5, <1>6, <1>12, <1>14
<1>20. ASSUME NEW c \in 1 .. n - 1, NEW d \in 1 .. n - 1, c < d
       PROVE  Apart(t[c], t[d]) \/ Within(t[c], t[d])
  <2>1. c + 1 < d + 1 /\ t[c] = calls[c + 1] /\ t[d] = calls[d + 1]
    BY <1>5, <1>12, <1>20
  <2>2. Apart(calls[c + 1], calls[d + 1]) \/ Within(calls[c + 1], calls[d + 1])
    BY <1>6, <1>12, <2>1 DEF MergePart
  <2> QED BY <2>1, <2>2
<1>21. MergePart'
  <2>1. t \in Seq(Ranges) /\ Len(t) = n - 1 /\ DOMAIN t = 1 .. n - 1 /\ ~sorted'
        /\ size' = size
    BY <1>3, <1>5
  <2> QED BY <1>16, <1>17, <1>18, <1>19, <1>20, <2>1 DEF MergePart, t, b
<1> QED BY <1>11, <1>21


LEMMA MergeStep ==
    ASSUME SortTyped, MergePart, Sorts!mergeSort
    PROVE  SortTyped' /\ MergePart'
<1>1. Head(calls) = calls[1] /\ 1 \in 1 .. Len(calls)
  BY MergeHave DEF Sorts!mergeSort
<1>2. Head(calls).hi \in Nat /\ Head(calls).lo \in Nat
  BY <1>1, MergeHave
<1>3. Head(calls).hi - Head(calls).lo < 2 \/ Head(calls).hi - Head(calls).lo >= 2
  BY <1>2
<1> QED BY <1>3, MergePop, MergeSplit, MergeMerge

-----------------------------------------------------------------------------
(*                               heapSort                                  *)

Heaps == [n : Nat, node : Nat]
Child(x, y) == y = 2 * x + 1 \/ y = 2 * x + 2

LEMMA HeapOf ==
    ASSUME NEW s \in Seq(Heaps), NEW c \in 1 .. Len(s)
    PROVE  s[c] \in Heaps /\ s[c].n \in Nat /\ s[c].node \in Nat
<1>1. s[c] \in Heaps
  OBVIOUS
<1> QED BY <1>1 DEF Heaps

LEMMA PushOne ==
    ASSUME NEW T, NEW s \in Seq(T), s # <<>>, NEW x \in T
    PROVE  LET t == <<x>> \o Tail(s)
           IN  /\ t \in Seq(T) /\ Len(t) = Len(s) /\ t[1] = x
               /\ \A k \in 2 .. Len(s) : t[k] = s[k]
OBVIOUS

\* No node from the last call's on is smaller than its children, but for the
\* one heapify looks at; that one's parent is not smaller than its children.
\* Behind the heap are the largest elements, in order.
HeapPart ==
    /\ -1 <= outer /\ outer < size
    /\ calls \in Seq(Heaps)
    /\ \A c \in DOMAIN calls : calls[c].n = outer + 1 /\ calls[c].node <= outer
    /\ \A c \in 2 .. Len(calls) : calls[c].node = Len(calls) - c
    /\ calls # <<>> => calls[1].node >= Len(calls) - 1
    /\ \A x, y \in Spots :
          Child(x, y) /\ y <= outer /\ x >= Len(calls) - 1
          => elements[y][1] <= elements[x][1] \/ (calls # <<>> /\ x = calls[1].node)
    /\ calls # <<>> =>
          \A x, y \in Spots :
             /\ Child(x, calls[1].node) /\ Child(calls[1].node, y)
             /\ y <= outer /\ x >= Len(calls) - 1
             => elements[y][1] <= elements[x][1]
    /\ \A p, q \in Spots : p < q /\ q > outer => elements[p][1] <= elements[q][1]
    /\ sorted => calls = <<>> /\ outer <= 0

LEMMA HeapHave ==
    ASSUME SortTyped, HeapPart
    PROVE  /\ size \in Nat /\ outer \in Int /\ Len(calls) \in Nat
           /\ DOMAIN calls = 1 .. Len(calls)
           /\ DOMAIN elements = Spots
           /\ \A p \in Spots : p \in Nat /\ p < size /\ elements[p][1] \in Int
           /\ \A p \in Nat : p < size => p \in Spots
           /\ \A c \in 1 .. Len(calls) : calls[c].n \in Nat /\ calls[c].node \in Nat
<1>1. /\ size \in Nat /\ outer \in Int /\ DOMAIN elements = Spots
      /\ elements \in Arrays(size) /\ \A p \in Spots : p \in 0 .. size - 1
  BY DEF SortTyped, Arrays, Spots
<1>2. \A p \in Spots : elements[p][1] \in Int
  BY <1>1, PairHas DEF Arrays
<1>3. Len(calls) \in Nat /\ DOMAIN calls = 1 .. Len(calls)
  BY DEF HeapPart
<1>4. \A c \in 1 .. Len(calls) : calls[c].n \in Nat /\ calls[c].node \in Nat
  BY HeapOf DEF HeapPart
<1>5. /\ \A p \in Spots : p \in Nat /\ p < size
      /\ \A p \in Nat : p < size => p \in Spots
  BY <1>1 DEF Spots
<1> QED BY <1>1, <1>2, <1>3, <1>4, <1>5

\* The node heapify goes on with: itself, or its largest child.
NextNode(h, n) ==
    LET l == 2 * h + 1
        r == l + 1
        upper == IF l < n /\ elements[l][1] > elements[h][1] THEN l ELSE h
    IN  IF r < n /\ elements[r][1] > elements[upper][1] THEN r ELSE upper

LEMMA LargerChild ==
    ASSUME SortTyped, HeapPart, NEW h \in Nat, NEW n \in Nat, h < n, n <= size
    PROVE  LET g == NextNode(h, n)
           IN  /\ g = h => \A y \in Spots : Child(h, y) /\ y < n
                                            => elements[y][1] <= elements[h][1]
               /\ g # h => /\ Child(h, g) /\ g < n /\ g \in Spots
                           /\ elements[h][1] < elements[g][1]
                           /\ \A y \in Spots : Child(h, y) /\ y < n
                                               => elements[y][1] <= elements[g][1]
<1> DEFINE l == 2 * h + 1  r == l + 1  g == NextNode(h, n)
           u == IF l < n /\ elements[l][1] > elements[h][1] THEN l ELSE h
<1>1. l \in Nat /\ r \in Nat /\ l # h /\ r # h /\ r # l /\ r = 2 * h + 2
  OBVIOUS
<1>2. g = IF r < n /\ elements[r][1] > elements[u][1] THEN r ELSE u
  BY DEF NextNode
<1>3. size \in Nat /\ \A p \in Nat : p < n => p \in Spots /\ elements[p][1] \in Int
  BY HeapHave
<1>4. \A y : Child(h, y) <=> y = l \/ y = r
  BY <1>1 DEF Child
<1> HIDE DEF l, r
<1>5. CASE l < n /\ r < n
  BY <1>1, <1>2, <1>3, <1>4, <1>5
<1>6. CASE l < n /\ ~(r < n)
  BY <1>1, <1>2, <1>3, <1>4, <1>6
<1>7. CASE ~(l < n) /\ ~(r < n)
  BY <1>1, <1>2, <1>3, <1>4, <1>7
<1>8. r < n => l < n
  BY DEF l, r
<1> QED BY <1>5, <1>6, <1>7, <1>8


LEMMA HeapTop ==
    ASSUME SortTyped, HeapPart, calls # <<>>
    PROVE  /\ Head(calls) = calls[1] /\ Len(calls) \in Nat \ {0} /\ 1 \in 1 .. Len(calls)
           /\ calls[1].node \in Nat /\ calls[1].n = outer + 1 /\ calls[1].node <= outer
           /\ calls[1].node >= Len(calls) - 1
           /\ outer \in Nat /\ calls[1].node < outer + 1 /\ outer + 1 <= size
           /\ calls \in Seq(Heaps)
<1>1. calls \in Seq(Heaps) /\ Head(calls) = calls[1] /\ Len(calls) \in Nat \ {0}
      /\ 1 \in 1 .. Len(calls)
  BY DEF HeapPart
<1>2. calls[1].node \in Nat /\ outer \in Int /\ size \in Nat /\ DOMAIN calls = 1 .. Len(calls)
  BY <1>1, HeapHave
<1>3. calls[1].n = outer + 1 /\ calls[1].node <= outer /\ outer < size
      /\ calls[1].node >= Len(calls) - 1
  BY <1>1, <1>2 DEF HeapPart
<1> QED BY <1>1, <1>2, <1>3

LEMMA HeapPop ==
    ASSUME SortTyped, HeapPart, Sorts!heapify,
           NextNode(calls[1].node, outer + 1) = calls[1].node
    PROVE  SortTyped' /\ HeapPart'
<1> DEFINE h == calls[1].node  n == Len(calls)  t == calls'
<1>1. /\ Head(calls) = calls[1] /\ n \in Nat \ {0} /\ 1 \in 1 .. n
      /\ h \in Nat /\ calls[1].n = outer + 1 /\ h <= outer /\ h >= n - 1
      /\ outer \in Nat /\ h < outer + 1 /\ outer + 1 <= size
      /\ calls \in Seq(Heaps) /\ calls # <<>>
  BY HeapTop DEF Sorts!heapify
<1>2. /\ UNCHANGED <<sort, size, sorted, elements, outer>> /\ ~sorted
      /\ calls' = Tail(calls)
  <2>1. ~sorted /\ sorted' = sorted /\ UNCHANGED <<sort, size, outer>>
    BY DEF Sorts!heapify
  <2>2. UNCHANGED elements /\ calls' = Tail(calls)
    BY <1>1 DEF Sorts!heapify, NextNode, Sorts!key
  <2> QED BY <2>1, <2>2
<1>3. /\ t \in Seq(Heaps) /\ Len(t) = n - 1 /\ DOMAIN t = 1 .. n - 1
      /\ \A k \in 1 .. n - 1 : t[k] = calls[k + 1]
      /\ (t # <<>> => Len(t) # 0)
  BY <1>1, <1>2, PopOne
<1>4. \A y \in Spots : Child(h, y) /\ y < outer + 1 => elements[y][1] <= elements[h][1]
  BY <1>1, HeapHave, LargerChild
<1>5. /\ DOMAIN calls = 1 .. n /\ size \in Nat
      /\ \A p \in Spots : p \in Nat /\ elements[p][1] \in Int
  BY HeapHave
<1> HIDE DEF h, n, t
<1>6. ASSUME NEW c \in 1 .. n - 1
      PROVE  t[c].n = outer + 1 /\ t[c].node <= outer /\ t[c].node = (n - 1) - c
  <2>1. t[c] = calls[c + 1] /\ c + 1 \in 1 .. n /\ c + 1 \in 2 .. n /\ n - (c + 1) = (n - 1) - c
    BY <1>1, <1>3
  <2>2. calls[c + 1].n = outer + 1 /\ calls[c + 1].node <= outer
    BY <1>5, <2>1 DEF HeapPart
  <2>3. calls[c + 1].node = n - (c + 1)
    BY <2>1 DEF HeapPart, n
  <2> QED BY <2>1, <2>2, <2>3
<1>7. t # <<>> => t[1].node = n - 2
  <2> SUFFICES ASSUME t # <<>> PROVE t[1].node = n - 2
    OBVIOUS
  <2>1. 1 \in 1 .. n - 1 /\ (n - 1) - 1 = n - 2
    BY <1>1, <1>3
  <2> QED BY <2>1, <1>6
<1>8. ASSUME NEW x \in Spots, NEW y \in Spots, Child(x, y), y <= outer, x >= (n - 1) - 1
      PROVE  elements[y][1] <= elements[x][1] \/ (t # <<>> /\ x = t[1].node)
  <2>1. CASE x = h
    BY <1>1, <1>4, <1>5, <1>8, <2>1
  <2>2. CASE x # h /\ x >= n - 1
    BY <1>8, <2>2 DEF HeapPart, h, n
  <2>3. CASE x = n - 2
    <3>1. n - 1 # 0
      BY <1>5, <2>3, <1>1
    <3>2. t # <<>>
      BY <1>3, <3>1
    <3> QED BY <1>7, <2>3, <3>2
  <2>4. x = n - 2 \/ x >= n - 1
    BY <1>1, <1>5, <1>8
  <2> QED BY <2>1, <2>2, <2>3, <2>4
<1>9. ASSUME t # <<>>, NEW x \in Spots, NEW y \in Spots,
             Child(x, t[1].node), x >= (n - 1) - 1
      PROVE  FALSE
  <2>1. x = n - 2 \/ x > n - 2
    BY <1>1, <1>5, <1>9
  <2>2. n - 2 = 2 * x + 1 \/ n - 2 = 2 * x + 2
    BY <1>7, <1>9 DEF Child
  <2> QED BY <1>1, <1>5, <2>1, <2>2
<1>10. SortTyped'
  BY <1>2 DEF SortTyped, Sorts!NothingLost
<1>11. Spots' = Spots
  BY <1>2 DEF Spots
<1>12. HeapPart'
  <2>1. t \in Seq(Heaps) /\ Len(t) = n - 1 /\ DOMAIN t = 1 .. n - 1 /\ ~sorted'
        /\ size' = size /\ elements' = elements /\ outer' = outer
    BY <1>2, <1>3
  <2>2. -1 <= outer' /\ outer' < size'
    BY <1>1, <1>5, <2>1
  <2>3. \A c \in DOMAIN t : t[c].n = outer' + 1 /\ t[c].node <= outer'
    BY <1>6, <2>1
  <2>4. \A c \in 2 .. Len(t) : t[c].node = Len(t) - c
    BY <1>1, <1>6, <2>1
  <2>5. t # <<>> => t[1].node >= Len(t) - 1
    BY <1>1, <1>7, <2>1
  <2>6. \A x, y \in Spots' :
          Child(x, y) /\ y <= outer' /\ x >= Len(t) - 1
          => elements'[y][1] <= elements'[x][1] \/ (t # <<>> /\ x = t[1].node)
    BY <1>8, <1>11, <2>1
  <2>7. t # <<>> =>
          \A x, y \in Spots' :
             /\ Child(x, t[1].node) /\ Child(t[1].node, y)
             /\ y <= outer' /\ x >= Len(t) - 1
             => elements'[y][1] <= elements'[x][1]
    BY <1>9, <1>11, <2>1
  <2>8. \A p, q \in Spots' : p < q /\ q > outer' => elements'[p][1] <= elements'[q][1]
    BY <1>11, <2>1 DEF HeapPart
  <2> QED BY <2>1, <2>2, <2>3, <2>4, <2>5, <2>6, <2>7, <2>8 DEF HeapPart, t
<1> QED BY <1>10, <1>12

LEMMA HeapSift ==
    ASSUME SortTyped, HeapPart, Sorts!heapify,
           NextNode(calls[1].node, outer + 1) # calls[1].node
    PROVE  SortTyped' /\ HeapPart'
<1> DEFINE h == calls[1].node  n == Len(calls)  t == calls'
           g == NextNode(h, outer + 1)  b == elements'
<1>1. /\ Head(calls) = calls[1] /\ n \in Nat \ {0} /\ 1 \in 1 .. n
      /\ h \in Nat /\ calls[1].n = outer + 1 /\ h <= outer /\ h >= n - 1
      /\ outer \in Nat /\ h < outer + 1 /\ outer + 1 <= size
      /\ calls \in Seq(Heaps) /\ calls # <<>>
  BY HeapTop DEF Sorts!heapify
<1>2. /\ UNCHANGED <<sort, size, sorted, outer>> /\ ~sorted
      /\ b = Sorts!Swap(elements, h, g)
      /\ calls' = <<[n |-> outer + 1, node |-> g]>> \o Tail(calls)
  <2>1. ~sorted /\ sorted' = sorted /\ UNCHANGED <<sort, size, outer>>
    BY DEF Sorts!heapify
  <2>2. /\ b = Sorts!Swap(elements, h, g)
        /\ calls' = <<Sorts!Heapify(outer + 1, g)>> \o Tail(calls)
    BY <1>1 DEF Sorts!heapify, NextNode, Sorts!key
  <2> QED BY <2>1, <2>2 DEF Sorts!Heapify
<1>3. /\ DOMAIN calls = 1 .. n /\ size \in Nat /\ DOMAIN elements = Spots
      /\ \A p \in Spots : p \in Nat /\ p < size /\ elements[p][1] \in Int
      /\ \A p \in Nat : p < size => p \in Spots
  BY HeapHave
<1> HIDE DEF h, n, t, b
<1>4. /\ Child(h, g) /\ g < outer + 1 /\ g \in Spots /\ g \in Nat /\ g # h
      /\ elements[h][1] < elements[g][1]
      /\ \A y \in Spots : Child(h, y) /\ y < outer + 1 => elements[y][1] <= elements[g][1]
  BY <1>1, <1>3, LargerChild DEF h
<1> HIDE DEF g
<1>5. g <= outer /\ h < g /\ h \in Spots
  BY <1>1, <1>3, <1>4 DEF Child
<1>6. [n |-> outer + 1, node |-> g] \in Heaps
  BY <1>1, <1>4 DEF Heaps
<1>7. /\ t \in Seq(Heaps) /\ Len(t) = n /\ DOMAIN t = 1 .. n
      /\ t[1].n = outer + 1 /\ t[1].node = g
      /\ \A k \in 2 .. n : t[k] = calls[k]
      /\ t # <<>>
  BY <1>1, <1>2, <1>6, PushOne DEF n, t
<1>8. \A k \in Spots : b[k] = IF k = g THEN elements[h] ELSE IF k = h THEN elements[g]
                              ELSE elements[k]
  BY <1>2, <1>3, SwapIs
<1>9. Shuffles(elements, b, {h, g})
  <2>1. {h, g} \in SUBSET DOMAIN elements
    BY <1>3, <1>4, <1>5
  <2> QED BY <1>2, <2>1, SwapShuffles
<1>10. SortTyped'
  <2>1. {h, g} \in SUBSET Spots /\ elements \in Arrays(size)
    BY <1>4, <1>5 DEF SortTyped
  <2>2. b \in Arrays(size)
    BY <1>2, <2>1, <1>3, SwapTyped DEF Spots
  <2>3. Sorts!NothingLost'
    BY <1>9, <2>1, <2>2, NothingIsLost DEF b
  <2> QED BY <1>2, <2>2, <2>3 DEF SortTyped, b
<1>11. ASSUME NEW x \in Spots, NEW y \in Spots, Child(x, y), y <= outer, x >= n - 1, x # h
       PROVE  elements[y][1] <= elements[x][1]
  BY <1>11 DEF HeapPart, h, n
<1>12. ASSUME NEW x \in Spots, NEW y \in Spots, Child(x, h), Child(h, y), y <= outer, x >= n - 1
       PROVE  elements[y][1] <= elements[x][1]
  BY <1>1, <1>12 DEF HeapPart, h, n
<1>13. ASSUME NEW x \in Spots, NEW y \in Spots, Child(x, y), y <= outer, x >= n - 1, x # g
       PROVE  b[y][1] <= b[x][1]
  <2>1. x # y
    BY <1>3, <1>13 DEF Child
  <2>2. CASE x = h
    <3>1. y < outer + 1
      BY <1>1, <1>3, <1>13
    <3>2. CASE y = g
      BY <2>2, <3>2, <1>3, <1>4, <1>5, <1>8
    <3>3. CASE y # g
      BY <2>1, <2>2, <3>1, <3>3, <1>4, <1>5, <1>8, <1>13
    <3> QED BY <3>2, <3>3
  <2>3. CASE x # h
    <3>1. y # g
      <4> SUFFICES ASSUME y = g PROVE FALSE
        OBVIOUS
      <4> QED BY <1>1, <1>3, <1>4, <1>13, <2>3 DEF Child
    <3>2. CASE y = h
      <4>1. elements[g][1] <= elements[x][1]
        BY <1>4, <1>5, <1>12, <1>13, <3>2
      <4> QED BY <4>1, <2>3, <3>1, <3>2, <1>8, <1>13
    <3>3. CASE y # h
      BY <2>3, <3>1, <3>3, <1>8, <1>11, <1>13
    <3> QED BY <3>2, <3>3
  <2> QED BY <2>2, <2>3
<1>14. ASSUME NEW x \in Spots, NEW y \in Spots, Child(x, g), Child(g, y), y <= outer
       PROVE  b[y][1] <= b[x][1]
  <2>1. x = h
    BY <1>1, <1>3, <1>4, <1>14 DEF Child
  <2>2. y # g /\ y # h /\ g >= n - 1
    BY <1>1, <1>3, <1>4, <1>5, <1>14 DEF Child
  <2>3. elements[y][1] <= elements[g][1]
    BY <1>4, <1>11, <1>14, <2>2
  <2> QED BY <1>4, <1>5, <1>8, <2>1, <2>2, <2>3
<1>15. ASSUME NEW p \in Spots, NEW q \in Spots, p < q, q > outer
       PROVE  b[p][1] <= b[q][1]
  <2>1. q # g /\ q # h /\ b[q] = elements[q]
    BY <1>1, <1>3, <1>4, <1>5, <1>8, <1>15
  <2>2. PICK r \in Spots : r < q /\ b[p] = elements[r]
    <3>1. CASE p = g \/ p = h
      BY <1>1, <1>3, <1>4, <1>5, <1>8, <1>15, <3>1
    <3>2. CASE p # g /\ p # h
      BY <1>8, <1>15, <3>2
    <3> QED BY <3>1, <3>2
  <2> QED BY <2>1, <2>2, <1>15 DEF HeapPart
<1>16. Spots' = Spots
  BY <1>2 DEF Spots
<1>17. ASSUME NEW c \in 1 .. n PROVE t[c].n = outer + 1 /\ t[c].node <= outer
  <2>1. CASE c = 1
    BY <1>5, <1>7, <2>1
  <2>2. CASE c # 1
    <3>1. c \in 2 .. n
      BY <2>2, <1>1
    <3> QED BY <3>1, <1>3, <1>7 DEF HeapPart
  <2> QED BY <2>1, <2>2
<1>18. HeapPart'
  <2>1. t \in Seq(Heaps) /\ Len(t) = n /\ DOMAIN t = 1 .. n /\ ~sorted'
        /\ size' = size /\ b = elements' /\ outer' = outer
    BY <1>2, <1>7 DEF b
  <2>2. -1 <= outer' /\ outer' < size'
    BY <1>1, <1>3, <2>1
  <2>3. \A c \in DOMAIN t : t[c].n = outer' + 1 /\ t[c].node <= outer'
    BY <1>17, <2>1
  <2>4. \A c \in 2 .. Len(t) : t[c].node = Len(t) - c
    BY <1>7, <2>1 DEF HeapPart, n
  <2>5. t # <<>> => t[1].node >= Len(t) - 1
    BY <1>1, <1>4, <1>5, <1>7, <2>1
  <2>6. \A x, y \in Spots' :
          Child(x, y) /\ y <= outer' /\ x >= Len(t) - 1
          => b[y][1] <= b[x][1] \/ (t # <<>> /\ x = t[1].node)
    BY <1>7, <1>13, <1>16, <2>1
  <2>7. t # <<>> =>
          \A x, y \in Spots' :
             /\ Child(x, t[1].node) /\ Child(t[1].node, y)
             /\ y <= outer' /\ x >= Len(t) - 1
             => b[y][1] <= b[x][1]
    BY <1>7, <1>14, <1>16, <2>1
  <2>8. \A p, q \in Spots' : p < q /\ q > outer' => b[p][1] <= b[q][1]
    BY <1>15, <1>16, <2>1
  <2> QED BY <2>1, <2>2, <2>3, <2>4, <2>5, <2>6, <2>7, <2>8 DEF HeapPart, t, b
<1> QED BY <1>10, <1>18


LEMMA HeapifyStep ==
    ASSUME SortTyped, HeapPart, Sorts!heapify
    PROVE  SortTyped' /\ HeapPart'
BY HeapPop, HeapSift

\* The root of a heap is its largest element.
LEMMA HeapRoot ==
    ASSUME SortTyped, HeapPart, calls = <<>>, NEW p \in Spots, p <= outer
    PROVE  elements[p][1] <= elements[0][1]
<1> DEFINE Good == {k \in Nat : \A q \in Spots : q <= outer /\ q <= k
                                                 => elements[q][1] <= elements[0][1]}
<1>1. /\ size \in Nat /\ \A q \in Spots : q \in Nat /\ q < size /\ elements[q][1] \in Int
      /\ \A q \in Nat : q < size => q \in Spots
      /\ outer \in Int
  BY HeapHave
<1>2. ASSUME NEW x \in Spots, NEW y \in Spots, Child(x, y), y <= outer
      PROVE  elements[y][1] <= elements[x][1]
  <2>1. Len(calls) = 0 /\ x >= Len(calls) - 1
    BY <1>1
  <2> QED BY <1>2, <2>1 DEF HeapPart
<1>3. 0 \in Good
  <2>1. 0 \in Spots
    BY <1>1
  <2> QED BY <1>1, <2>1
<1>4. ASSUME NEW k \in Nat, k \in Good PROVE k + 1 \in Good
  <2> SUFFICES ASSUME NEW q \in Spots, q <= outer, q = k + 1
               PROVE  elements[q][1] <= elements[0][1]
    BY <1>1, <1>4
  <2> DEFINE x == k \div 2
  <2>1. x \in Nat /\ x <= k /\ (k + 1 = 2 * x + 1 \/ k + 1 = 2 * x + 2)
    OBVIOUS
  <2> HIDE DEF x
  <2>2. x \in Spots /\ x <= outer /\ 0 \in Spots
    BY <1>1, <2>1
  <2>3. elements[q][1] <= elements[x][1]
    BY <1>2, <2>1, <2>2 DEF Child
  <2>4. elements[x][1] <= elements[0][1]
    BY <1>4, <2>1, <2>2
  <2> QED BY <1>1, <2>2, <2>3, <2>4
<1> HIDE DEF Good
<1>5. Nat \subseteq Good
  BY <1>3, <1>4, InductionOnNumbers
<1>6. p \in Good
  BY <1>1, <1>5
<1> QED BY <1>1, <1>6 DEF Good

LEMMA ExtractStep ==
    ASSUME SortTyped, HeapPart, Sorts!extract
    PROVE  SortTyped' /\ HeapPart'
<1> DEFINE t == calls'  b == elements'
<1>1. /\ UNCHANGED <<sort, size, sorted>> /\ ~sorted /\ calls = <<>> /\ outer > 0
      /\ b = Sorts!Swap(elements, 0, outer) /\ outer' = outer - 1
      /\ calls' = <<[n |-> outer, node |-> 0]>>
  <2>1. ~sorted /\ sorted' = sorted /\ UNCHANGED <<sort, size>>
    BY DEF Sorts!extract
  <2> QED BY <2>1 DEF Sorts!extract, Sorts!Heapify
<1>2. /\ size \in Nat /\ outer \in Int /\ DOMAIN elements = Spots
      /\ \A p \in Spots : p \in Nat /\ p < size /\ elements[p][1] \in Int
      /\ \A p \in Nat : p < size => p \in Spots
  BY HeapHave
<1>3. outer \in Nat /\ outer < size /\ outer \in Spots /\ 0 \in Spots
      /\ outer - 1 \in Nat
  BY <1>1, <1>2 DEF HeapPart
<1>4. [n |-> outer, node |-> 0] \in Heaps
  BY <1>3 DEF Heaps
<1>5. /\ t \in Seq(Heaps) /\ Len(t) = 1 /\ DOMAIN t = 1 .. 1
      /\ t[1].n = outer /\ t[1].node = 0 /\ t # <<>>
  <2> DEFINE u == [n |-> outer, node |-> 0]
  <2>1. u.n = outer /\ u.node = 0
    OBVIOUS
  <2> HIDE DEF u
  <2>2. <<u>> \in Seq(Heaps) /\ Len(<<u>>) = 1 /\ DOMAIN <<u>> = 1 .. 1 /\ <<u>>[1] = u
        /\ <<u>> # <<>>
    BY <1>4 DEF u
  <2> QED BY <1>1, <2>1, <2>2 DEF u
<1> HIDE DEF t, b
<1>6. \A k \in Spots : b[k] = IF k = outer THEN elements[0] ELSE IF k = 0 THEN elements[outer]
                              ELSE elements[k]
  BY <1>1, <1>2, SwapIs
<1>7. Shuffles(elements, b, {0, outer})
  <2>1. {0, outer} \in SUBSET DOMAIN elements
    BY <1>2, <1>3
  <2> QED BY <1>1, <2>1, SwapShuffles
<1>8. SortTyped'
  <2>1. {0, outer} \in SUBSET Spots /\ elements \in Arrays(size)
    BY <1>3 DEF SortTyped
  <2>2. b \in Arrays(size)
    BY <1>1, <1>2, <2>1, SwapTyped DEF Spots
  <2>3. Sorts!NothingLost'
    BY <1>7, <2>1, <2>2, NothingIsLost DEF b
  <2> QED BY <1>1, <1>3, <2>2, <2>3 DEF SortTyped, b
<1>9. ASSUME NEW x \in Spots, NEW y \in Spots, Child(x, y), y <= outer - 1, x # 0
      PROVE  b[y][1] <= b[x][1]
  <2>1. Len(calls) = 0 /\ x >= Len(calls) - 1
    BY <1>1, <1>2
  <2>2. y <= outer /\ y # outer /\ y # 0 /\ x # outer
    BY <1>2, <1>3, <1>9 DEF Child
  <2>3. elements[y][1] <= elements[x][1]
    BY <1>1, <1>9, <2>1, <2>2 DEF HeapPart
  <2> QED BY <1>6, <1>9, <2>2, <2>3
<1>10. \A x \in Spots : ~Child(x, 0)
  BY <1>2 DEF Child
<1>11. ASSUME NEW p \in Spots, NEW q \in Spots, p < q, q > outer - 1
       PROVE  b[p][1] <= b[q][1]
  <2>1. CASE q = outer
    <3>1. PICK r \in Spots : r <= outer /\ b[p] = elements[r]
      <4>1. p < outer /\ p <= outer /\ p # outer
        <5>1. p \in Int /\ outer \in Int /\ p < outer
          BY <1>2, <1>11, <2>1
        <5> QED BY <5>1
      <4>2. CASE p = 0
        <5>1. b[p] = elements[outer] /\ outer \in Spots /\ outer <= outer
          BY <1>3, <1>6, <4>1, <4>2
        <5> QED BY <5>1
      <4>3. CASE p # 0
        <5>1. b[p] = elements[p]
          BY <1>6, <4>1, <4>3
        <5> QED BY <4>1, <5>1
      <4> QED BY <4>2, <4>3
    <3>2. elements[r][1] <= elements[0][1]
      BY <1>1, <3>1, HeapRoot
    <3> QED BY <1>6, <2>1, <3>1, <3>2
  <2>2. CASE q > outer
    <3>1. b[q] = elements[q]
      BY <1>2, <1>3, <1>6, <2>2
    <3>2. PICK r \in Spots : r < q /\ b[p] = elements[r]
      <4>1. CASE p = outer \/ p = 0
        BY <1>2, <1>3, <1>6, <1>11, <2>2, <4>1
      <4>2. CASE p # outer /\ p # 0
        BY <1>6, <1>11, <4>2
      <4> QED BY <4>1, <4>2
    <3> QED BY <2>2, <3>1, <3>2 DEF HeapPart
  <2>3. q = outer \/ q > outer
    <3>1. q \in Int /\ outer \in Int
      BY <1>2
    <3> QED BY <3>1, <1>11
  <2> QED BY <2>1, <2>2, <2>3
<1>12. Spots' = Spots
  BY <1>1 DEF Spots
<1>13. HeapPart'
  <2>1. t \in Seq(Heaps) /\ Len(t) = 1 /\ DOMAIN t = 1 .. 1 /\ ~sorted'
        /\ size' = size /\ b = elements' /\ outer' = outer - 1
    BY <1>1, <1>5 DEF b
  <2>2. -1 <= outer' /\ outer' < size'
    BY <1>2, <1>3, <2>1
  <2>3. \A c \in DOMAIN t : t[c].n = outer' + 1 /\ t[c].node <= outer'
    BY <1>3, <1>5, <2>1
  <2>4. \A c \in 2 .. Len(t) : t[c].node = Len(t) - c
    BY <2>1
  <2>5. t # <<>> => t[1].node >= Len(t) - 1
    BY <1>5, <2>1
  <2>6. \A x, y \in Spots' :
          Child(x, y) /\ y <= outer' /\ x >= Len(t) - 1
          => b[y][1] <= b[x][1] \/ (t # <<>> /\ x = t[1].node)
    BY <1>5, <1>9, <1>12, <2>1
  <2>7. t # <<>> =>
          \A x, y \in Spots' :
             /\ Child(x, t[1].node) /\ Child(t[1].node, y)
             /\ y <= outer' /\ x >= Len(t) - 1
             => b[y][1] <= b[x][1]
    BY <1>5, <1>10, <1>12, <2>1
  <2>8. \A p, q \in Spots' : p < q /\ q > outer' => b[p][1] <= b[q][1]
    BY <1>11, <1>12, <2>1
  <2> QED BY <2>1, <2>2, <2>3, <2>4, <2>5, <2>6, <2>7, <2>8 DEF HeapPart, t, b
<1> QED BY <1>8, <1>13


-----------------------------------------------------------------------------
(*                            All the sorts                                *)

SortInv ==
    /\ SortTyped
    /\ sort = "bubbleSort" => BubblePart
    /\ sort = "insertionSort" => InsertionPart
    /\ sort = "quickSort" => QuickPart
    /\ sort = "mergeSort" => MergePart
    /\ sort = "heapSort" => HeapPart

\* What is left to do when a sort returns: nothing.
LEMMA SortReturns ==
    ASSUME SortInv, Sorts!Return
    PROVE  SortInv'
<1>1. /\ UNCHANGED <<sort, size, elements, outer, calls>> /\ sorted' /\ calls = <<>>
      /\ sorted' \in BOOLEAN
  <2>1. sorted' = TRUE
    BY DEF Sorts!Return
  <2> QED BY <2>1 DEF Sorts!Return
<1>2. /\ sort = "bubbleSort" => outer >= size - 1
      /\ sort = "insertionSort" => outer >= size
      /\ sort = "heapSort" => outer <= 0
  BY DEF Sorts!Return
<1>3. SortTyped'
  BY <1>1 DEF SortInv, SortTyped, Sorts!NothingLost
<1>4. Spots' = Spots
  BY <1>1 DEF Spots
<1>5. ASSUME sort = "bubbleSort" PROVE BubblePart'
  <2>1. ASSUME NEW p \in Spots, NEW q \in Spots, p < q
        PROVE  elements[p][1] <= elements[q][1]
    <3>1. q >= size - outer
      BY <1>2, <1>5, <2>1 DEF Spots, SortInv, SortTyped
    <3> QED BY <1>5, <2>1, <3>1 DEF SortInv, BubblePart
  <2> QED BY <1>1, <1>4, <1>5, <2>1 DEF SortInv, BubblePart, InOrder
<1>6. ASSUME sort = "insertionSort" PROVE InsertionPart'
  BY <1>1, <1>2, <1>4, <1>6 DEF SortInv, InsertionPart
<1>7. ASSUME sort = "quickSort" PROVE QuickPart'
  BY <1>1, <1>4, <1>7 DEF SortInv, QuickPart
<1>8. ASSUME sort = "mergeSort" PROVE MergePart'
  BY <1>1, <1>4, <1>8 DEF SortInv, MergePart
<1>9. ASSUME sort = "heapSort" PROVE HeapPart'
  BY <1>1, <1>2, <1>4, <1>9 DEF SortInv, HeapPart
<1> QED BY <1>1, <1>3, <1>5, <1>6, <1>7, <1>8, <1>9 DEF SortInv

LEMMA QuickStep ==
    ASSUME SortTyped, QuickPart, Sorts!quickSort
    PROVE  SortTyped' /\ QuickPart'
<1>1. calls \in Seq(Ranges) /\ calls # <<>>
  BY DEF QuickPart, Sorts!quickSort
<1>2. Head(calls) \in Ranges
  BY <1>1
<1>3. Head(calls).hi - Head(calls).lo < 2 \/ Head(calls).hi - Head(calls).lo >= 2
  BY <1>2 DEF Ranges
<1> QED BY <1>3, QuickPop, QuickSplit

LEMMA SortsGoOn ==
    ASSUME SortInv, [Sorts!Next]_(Sorts!sortVars)
    PROVE  SortInv'
<1>1. CASE Sorts!bubbleSort
  <2>1. sort = "bubbleSort" /\ sort' = sort
    BY <1>1 DEF Sorts!bubbleSort
  <2> QED BY <1>1, <2>1, BubbleStep DEF SortInv
<1>2. CASE Sorts!insertionSort
  <2>1. sort = "insertionSort" /\ sort' = sort
    BY <1>2 DEF Sorts!insertionSort
  <2> QED BY <1>2, <2>1, InsertionStep DEF SortInv
<1>3. CASE Sorts!quickSort
  <2>1. sort = "quickSort" /\ sort' = sort
    BY <1>3 DEF Sorts!quickSort
  <2> QED BY <1>3, <2>1, QuickStep DEF SortInv
<1>4. CASE Sorts!mergeSort
  <2>1. sort = "mergeSort" /\ sort' = sort
    BY <1>4 DEF Sorts!mergeSort
  <2> QED BY <1>4, <2>1, MergeStep DEF SortInv
<1>5. CASE Sorts!heapify
  <2>1. sort = "heapSort" /\ sort' = sort
    BY <1>5 DEF Sorts!heapify
  <2> QED BY <1>5, <2>1, HeapifyStep DEF SortInv
<1>6. CASE Sorts!extract
  <2>1. sort = "heapSort" /\ sort' = sort
    BY <1>6 DEF Sorts!extract
  <2> QED BY <1>6, <2>1, ExtractStep DEF SortInv
<1>7. CASE UNCHANGED <<sort, size, elements, outer, calls, sorted>>
  <2>1. SortTyped' = SortTyped /\ Spots' = Spots
    BY <1>7 DEF SortTyped, Sorts!NothingLost, Spots
  <2>2. /\ BubblePart' = BubblePart /\ InsertionPart' = InsertionPart
        /\ QuickPart' = QuickPart
    BY <1>7, <2>1 DEF BubblePart, InOrder, InsertionPart, QuickPart
  <2>3. MergePart' = MergePart
    BY <1>7, <2>1 DEF MergePart
  <2>4. HeapPart' = HeapPart
    BY <1>7, <2>1 DEF HeapPart
  <2> QED BY <1>7, <2>1, <2>2, <2>3, <2>4 DEF SortInv
<1> QED
  BY <1>1, <1>2, <1>3, <1>4, <1>5, <1>6, <1>7, SortReturns
  DEF Sorts!Next, Sorts!Terminated, Sorts!sortVars

LEMMA SortsStart ==
    ASSUME Sorts!Init
    PROVE  SortInv
<1>1. /\ sort \in Sorts!Sorts /\ size \in Nat /\ sorted = FALSE
  BY SearchAssumption DEF Sorts!Init
<1>2. PICK keys \in [0 .. size - 1 -> Values] :
         elements = [k \in 0 .. size - 1 |-> <<keys[k], k>>]
  BY DEF Sorts!Init
<1>3. /\ sort = "bubbleSort" => outer = 0
      /\ sort = "insertionSort" => outer = 1
      /\ sort \in {"quickSort", "mergeSort"} => outer = 0
      /\ sort = "heapSort" => outer = size - 1
  BY DEF Sorts!Init
<1>4. /\ sort \in {"quickSort", "mergeSort"} => calls = <<Sorts!Part(0, size)>>
      /\ sort = "heapSort" =>
            calls = [c \in 1 .. size \div 2 |-> Sorts!Heapify(size, size \div 2 - c)]
  BY DEF Sorts!Init
<1>5. \A p \in Spots : /\ p \in Int /\ 0 <= p /\ p < size
                       /\ elements[p] \in Pair /\ elements[p][1] \in Int
                       /\ elements[p][2] = p
  <2> SUFFICES ASSUME NEW p \in Spots
               PROVE  /\ p \in Int /\ 0 <= p /\ p < size
                      /\ elements[p] \in Pair /\ elements[p][1] \in Int
                      /\ elements[p][2] = p
    OBVIOUS
  <2>1. p \in Int /\ 0 <= p /\ p < size /\ elements[p] = <<keys[p], p>>
    BY <1>1, <1>2 DEF Spots
  <2>2. keys[p] \in Int
    BY <1>2, SearchAssumption DEF Spots
  <2> QED BY <2>1, <2>2 DEF Pair
<1>6. DOMAIN elements = Spots /\ elements \in Arrays(size)
  <2>1. DOMAIN elements = Spots /\ elements = [k \in Spots |-> elements[k]]
    BY <1>2 DEF Spots
  <2> QED BY <2>1, <1>5 DEF Arrays, Spots
<1>7. SortTyped
  <2>1. Sorts!NothingLost
    <3>1. \A p, q \in Spots : p # q => elements[p] # elements[q]
      BY <1>5
    <3> QED BY <3>1, <1>5, <1>6 DEF Sorts!NothingLost
  <2>2. outer \in Int
    BY <1>1, <1>3 DEF Sorts!Sorts
  <2> QED BY <1>1, <1>6, <2>1, <2>2 DEF SortTyped
<1>8. ASSUME sort = "bubbleSort" PROVE BubblePart
  <2>1. outer \in Nat /\ ~sorted
    BY <1>1, <1>3, <1>8
  <2>2. InOrder(elements)
    BY <1>5, <1>6 DEF InOrder
  <2>3. \A q \in Spots : ~(q >= size - outer)
    BY <1>1, <1>3, <1>5, <1>8
  <2> QED BY <2>1, <2>2, <2>3 DEF BubblePart
<1>9. ASSUME sort = "insertionSort" PROVE InsertionPart
  <2>1. outer = 1 /\ ~sorted
    BY <1>1, <1>3, <1>9
  <2> QED BY <2>1, <1>5 DEF InsertionPart
<1>10. ASSUME sort \in {"quickSort", "mergeSort"}
       PROVE  /\ calls \in Seq(Ranges) /\ Len(calls) = 1 /\ DOMAIN calls = 1 .. 1
              /\ calls[1].lo = 0 /\ calls[1].hi = size /\ ~calls[1].flag
  <2> DEFINE u == Sorts!Part(0, size)
  <2>1. u.lo = 0 /\ u.hi = size /\ u.flag = FALSE /\ u \in Ranges
    BY <1>1 DEF Sorts!Part, Ranges
  <2> HIDE DEF u
  <2>2. <<u>> \in Seq(Ranges) /\ Len(<<u>>) = 1 /\ DOMAIN <<u>> = 1 .. 1 /\ <<u>>[1] = u
    BY <2>1
  <2> QED BY <1>4, <1>10, <2>1, <2>2 DEF u
<1>11. ASSUME sort = "quickSort" PROVE QuickPart
  <2>1. /\ calls \in Seq(Ranges) /\ DOMAIN calls = 1 .. 1 /\ ~sorted
        /\ calls[1].lo = 0 /\ calls[1].hi = size
    BY <1>1, <1>10, <1>11
  <2>2. \A p, q \in Spots : Covers(calls[1], p, q)
    BY <1>5, <2>1 DEF Covers
  <2> QED BY <1>1, <2>1, <2>2 DEF QuickPart
<1>12. ASSUME sort = "mergeSort" PROVE MergePart
  <2>1. /\ calls \in Seq(Ranges) /\ DOMAIN calls = 1 .. 1 /\ ~sorted /\ Len(calls) = 1
        /\ calls[1].lo = 0 /\ calls[1].hi = size /\ ~calls[1].flag
    BY <1>1, <1>10, <1>12
  <2>2. \A p, q \in Spots : Loose(elements, calls, 1, p, q)
    BY <1>5, <2>1 DEF Covers, Loose
  <2>3. Found(elements, calls[1])
    BY <1>5, <2>1 DEF Found, Spots
  <2> QED BY <1>1, <2>1, <2>2, <2>3 DEF MergePart
<1>13. ASSUME sort = "heapSort" PROVE HeapPart
  <2> DEFINE half == size \div 2
  <2>1. /\ half \in Nat /\ 2 * half <= size /\ size <= 2 * half + 1
        /\ calls = [c \in 1 .. half |-> Sorts!Heapify(size, half - c)]
        /\ outer = size - 1 /\ ~sorted
    BY <1>1, <1>3, <1>4, <1>13
  <2> HIDE DEF half
  <2>2. \A c \in 1 .. half : Sorts!Heapify(size, half - c) \in Heaps
    BY <1>1, <2>1 DEF Sorts!Heapify, Heaps
  <2>3. calls \in Seq(Heaps) /\ Len(calls) = half /\ DOMAIN calls = 1 .. half
    BY <2>1, <2>2
  <2>4. \A c \in 1 .. half : calls[c].n = size /\ calls[c].node = half - c
    BY <2>1 DEF Sorts!Heapify
  <2>5. calls # <<>> => 1 \in 1 .. half
    BY <2>1, <2>3
  <2>6. ASSUME NEW x \in Spots, NEW y \in Spots, Child(x, y), x >= half - 1
        PROVE  calls # <<>> /\ x = calls[1].node
    <3>1. x = half - 1
      BY <1>1, <1>5, <2>1, <2>6 DEF Child
    <3>2. 1 \in 1 .. half
      BY <1>5, <2>1, <3>1
    <3>3. calls # <<>>
      BY <2>3, <3>2
    <3> QED BY <2>4, <3>1, <3>2, <3>3
  <2>7. ASSUME calls # <<>>, NEW x \in Spots, Child(x, calls[1].node), x >= half - 1
        PROVE  FALSE
    <3>1. calls[1].node = half - 1
      BY <2>4, <2>5, <2>7
    <3>2. x \in Int /\ 0 <= x
      BY <1>5
    <3> QED BY <2>1, <2>7, <3>1, <3>2 DEF Child
  <2>8. -1 <= outer /\ outer < size
    BY <1>1, <2>1
  <2>9. ASSUME NEW c \in 1 .. half PROVE calls[c].n = outer + 1 /\ calls[c].node <= outer
    <3>1. calls[c].n = size /\ calls[c].node = half - c /\ c \in Int /\ 1 <= c /\ c <= half
      BY <2>1, <2>4
    <3> QED BY <1>1, <2>1, <3>1
  <2>10. \A c \in 2 .. Len(calls) : calls[c].node = Len(calls) - c
    BY <2>1, <2>3, <2>4
  <2>11. calls # <<>> => calls[1].node >= Len(calls) - 1
    BY <2>1, <2>3, <2>4, <2>5
  <2>12. \A q \in Spots : ~(q > outer)
    BY <1>1, <1>5, <2>1
  <2>13. ~sorted
    BY <2>1
  <2> QED BY <2>3, <2>6, <2>7, <2>8, <2>9, <2>10, <2>11, <2>12, <2>13 DEF HeapPart
<1> QED BY <1>7, <1>8, <1>9, <1>11, <1>12, <1>13 DEF SortInv

LEMMA SortedMeans ==
    ASSUME SortInv
    PROVE  Sorts!ResultIsSorted
<1> SUFFICES ASSUME sorted, NEW p \in Spots, NEW q \in Spots, p < q
             PROVE  /\ elements[p][1] <= elements[q][1]
                    /\ sort \in Sorts!Stable /\ elements[p][1] = elements[q][1]
                       => elements[p][2] < elements[q][2]
  <2>1. DOMAIN elements = Spots
    BY DEF SortInv, SortTyped, Arrays, Spots
  <2> QED BY <2>1 DEF Sorts!ResultIsSorted, Sorts!key
<1>1. /\ elements[p][1] \in Int /\ elements[q][1] \in Int /\ p \in Int /\ q \in Int
      /\ size \in Nat /\ p \in DOMAIN elements /\ q \in DOMAIN elements /\ 0 <= p /\ q < size
  BY PairHas DEF SortInv, SortTyped, Arrays, Spots
<1>2. CASE sort = "bubbleSort"
  BY <1>1, <1>2 DEF SortInv, BubblePart, InOrder
<1>3. Before(elements[p], elements[q]) =>
         /\ elements[p][1] <= elements[q][1]
         /\ elements[p][1] = elements[q][1] => elements[p][2] < elements[q][2]
  BY <1>1 DEF Before
<1>4. CASE sort = "insertionSort"
  <2>1. q < outer
    BY <1>1, <1>4 DEF SortInv, InsertionPart
  <2> QED BY <1>3, <1>4, <2>1 DEF SortInv, InsertionPart
<1>5. CASE sort = "mergeSort"
  <2>1. calls = <<>> /\ Loose(elements, calls, Len(calls), p, q)
    BY <1>5 DEF SortInv, MergePart
  <2>2. Len(calls) = 0
    BY <2>1
  <2>3. Before(elements[p], elements[q])
    BY <2>1, <2>2 DEF Loose
  <2> QED BY <1>3, <2>3
<1>6. CASE sort = "quickSort"
  <2>1. calls = <<>>
    BY <1>6 DEF SortInv, QuickPart
  <2>2. DOMAIN calls = {}
    BY <2>1
  <2>3. elements[p][1] <= elements[q][1]
    BY <1>6, <2>2 DEF SortInv, QuickPart
  <2> QED BY <1>6, <2>3 DEF Sorts!Stable
<1>7. CASE sort = "heapSort"
  <2>1. outer <= 0
    BY <1>7 DEF SortInv, HeapPart
  <2>2. q > outer
    BY <1>1, <2>1 DEF SortInv, SortTyped
  <2>3. elements[p][1] <= elements[q][1]
    BY <1>7, <2>2 DEF SortInv, HeapPart
  <2> QED BY <1>7, <2>3 DEF Sorts!Stable
<1> QED BY <1>2, <1>4, <1>5, <1>6, <1>7 DEF SortInv, SortTyped, Sorts!Sorts

-----------------------------------------------------------------------------
(*                            All programs                                 *)

AlgorithmsInv ==
    /\ program \in {"binary", "sorting", "dp"}
    /\ IF program = "binary" THEN SearchInv ELSE IdleSearch
    /\ IF program = "sorting" THEN SortInv ELSE IdleSort

LEMMA ProgramsStart ==
    ASSUME AlgorithmsInit
    PROVE  AlgorithmsInv
BY SearchesStart, SortsStart DEF AlgorithmsInit, AlgorithmsInv

LEMMA ProgramsGoOn ==
    ASSUME AlgorithmsInv, [AlgorithmsNext]_vars
    PROVE  AlgorithmsInv'
<1>1. CASE binary
  <2>1. program = "binary" /\ program' = program /\ Next /\ UNCHANGED sortingVars
    BY <1>1 DEF binary
  <2>2. SearchInv'
    BY <2>1, SearchesGoOn DEF AlgorithmsInv
  <2>3. IdleSort'
    BY <2>1 DEF AlgorithmsInv, IdleSort, sortingVars
  <2> QED BY <2>1, <2>2, <2>3 DEF AlgorithmsInv
<1>2. CASE sorting
  <2>1. program = "sorting" /\ program' = program /\ Sorts!Next /\ UNCHANGED searchVars
    BY <1>2 DEF sorting
  <2>2. SortInv'
    BY <2>1, SortsGoOn DEF AlgorithmsInv
  <2>3. IdleSearch'
    BY <2>1 DEF AlgorithmsInv, IdleSearch, searchVars, input
  <2> QED BY <2>1, <2>2, <2>3 DEF AlgorithmsInv
<1>3. CASE UNCHANGED <<program, searchVars, sortingVars>>
  <2>1. program' = program /\ UNCHANGED searchVars /\ UNCHANGED sortingVars
    BY <1>3
  <2>2. IdleSearch' = IdleSearch
    BY <2>1 DEF IdleSearch, searchVars, input
  <2>3. IdleSort' = IdleSort
    BY <2>1 DEF IdleSort, sortingVars
  <2>4. SearchInv => SearchInv'
    BY <2>1, SearchesGoOn
  <2>5. SortInv => SortInv'
    <3>1. UNCHANGED Sorts!sortVars
      BY <2>1 DEF sortingVars, Sorts!sortVars
    <3> QED BY <3>1, SortsGoOn
  <2> QED BY <2>1, <2>2, <2>3, <2>4, <2>5 DEF AlgorithmsInv
<1> QED BY <1>1, <1>2, <1>3 DEF AlgorithmsNext, tables, vars

\* At the beginning and after every step, each program's part of the invariant
\* holds, and the other programs' variables are as at the beginning.
THEOREM AlgorithmsInvariant == AlgorithmsSpec => []AlgorithmsInv
BY ProgramsStart, ProgramsGoOn, PTL DEF AlgorithmsSpec

\* Whatever is searched or sorted, what the functions of binary/main.go return
\* is right, and those of sorting/main.go lose no element, leave the array
\* sorted, and are stable where the program prints that they are.
THEOREM SearchesAndSortsAreRight == AlgorithmsSpec => []ArraysAreRight
<1>1. AlgorithmsInv => ArraysAreRight
  <2> SUFFICES ASSUME AlgorithmsInv PROVE ArraysAreRight
    OBVIOUS
  <2>1. SearchIsRight
    <3>1. CASE program = "binary"
      BY <3>1 DEF AlgorithmsInv, SearchInv
    <3>2. CASE IdleSearch
      BY <3>2 DEF IdleSearch, SearchIsRight
    <3> QED BY <3>1, <3>2 DEF AlgorithmsInv
  <2>2. Sorts!NothingLost /\ Sorts!ResultIsSorted
    <3>1. CASE program = "sorting"
      BY <3>1, SortedMeans DEF AlgorithmsInv, SortInv, SortTyped
    <3>2. CASE IdleSort
      <4>1. DOMAIN elements = {}
        BY <3>2 DEF IdleSort
      <4> QED BY <4>1 DEF Sorts!NothingLost, Sorts!ResultIsSorted
    <3> QED BY <3>1, <3>2 DEF AlgorithmsInv
  <2> QED BY <2>1, <2>2 DEF ArraysAreRight
<1> QED BY <1>1, AlgorithmsInvariant, PTL
=============================================================================
