---------------------------- MODULE BinarySearch ----------------------------
(***************************************************************************)
(* The searches of 09-algorithm/binary/main.go.  One step is one round of  *)
(* the loop.  Indices start at 0, as in Go.  `find` says which search runs.*)
(***************************************************************************)
EXTENDS Integers

CONSTANTS MaxLen,  \* arrays have up to this many elements
          Values   \* taken from these numbers

ASSUME SearchAssumption == MaxLen \in Nat /\ Values \subseteq Int

VARIABLES find, arr, len, target,  \* the input; none of these changes
          left, right, result,
          over                     \* the loop is left

input == <<find, arr, len, target>>
searchVars == <<input, left, right, result, over>>

Sorted(a, n) == \A i, j \in 0 .. n - 1 : i <= j => a[i] <= a[j]
Increasing(a, n) == \A i, j \in 0 .. n - 1 : i < j => a[i] < a[j]

\* An increasing array that was turned so that its smallest element is at k.
RotatedAt(a, n, k) ==
    /\ \A i, j \in 0 .. k - 1 : i < j => a[i] < a[j]
    /\ \A i, j \in k .. n - 1 : i < j => a[i] < a[j]
    /\ \A i \in 0 .. k - 1, j \in k .. n - 1 : a[j] < a[i]

HalfOpen == {"searchInsert"}
Searches == {"search", "findFirst", "findLast", "searchInsert", "findMin"}

\* The three searches for a value return -1 when they have not found it.
Init ==
    /\ find \in Searches
    /\ len \in 0 .. MaxLen
    /\ arr \in [0 .. len - 1 -> Values]
    /\ target \in Values
    /\ IF find = "findMin" THEN \E k \in 0 .. len - 1 : RotatedAt(arr, len, k)
                           ELSE Sorted(arr, len)
    /\ left = 0
    /\ right = IF find \in HalfOpen THEN len ELSE len - 1
    /\ result = -1
    /\ over = FALSE

mid == left + (right - left) \div 2

-----------------------------------------------------------------------------
search ==
    /\ find = "search" /\ ~over /\ left <= right
    /\ \/ /\ arr[mid] = target
          /\ result' = mid /\ over' = TRUE
          /\ UNCHANGED <<left, right>>
       \/ /\ arr[mid] < target
          /\ left' = mid + 1
          /\ UNCHANGED <<right, result, over>>
       \/ /\ arr[mid] > target
          /\ right' = mid - 1
          /\ UNCHANGED <<left, result, over>>
    /\ UNCHANGED input

findFirst ==
    /\ find = "findFirst" /\ ~over /\ left <= right
    /\ IF arr[mid] >= target
       THEN /\ result' = IF arr[mid] = target THEN mid ELSE result
            /\ right' = mid - 1
            /\ UNCHANGED left
       ELSE /\ left' = mid + 1
            /\ UNCHANGED <<right, result>>
    /\ UNCHANGED <<over, input>>

findLastEager ==  \* variant: an equal element sends it to the left
    /\ find = "findLast" /\ ~over /\ left <= right
    /\ IF arr[mid] < target
       THEN /\ left' = mid + 1
            /\ UNCHANGED <<right, result>>
       ELSE /\ result' = IF arr[mid] = target THEN mid ELSE result
            /\ right' = mid - 1
            /\ UNCHANGED left
    /\ UNCHANGED <<over, input>>

findLast ==
    /\ find = "findLast" /\ ~over /\ left <= right
    /\ IF arr[mid] <= target
       THEN /\ result' = IF arr[mid] = target THEN mid ELSE result
            /\ left' = mid + 1
            /\ UNCHANGED right
       ELSE /\ right' = mid - 1
            /\ UNCHANGED <<left, result>>
    /\ UNCHANGED <<over, input>>

searchInsertStuck ==  \* variant: right is not moved below mid, nor left past it
    /\ find = "searchInsert" /\ ~over /\ left < right
    /\ IF arr[mid] < target THEN left' = mid /\ UNCHANGED right
                            ELSE right' = mid /\ UNCHANGED left
    /\ UNCHANGED <<result, over, input>>

\* The interval excludes right.
searchInsert ==
    /\ find = "searchInsert" /\ ~over /\ left < right
    /\ IF arr[mid] < target THEN left' = mid + 1 /\ UNCHANGED right
                            ELSE right' = mid /\ UNCHANGED left
    /\ UNCHANGED <<result, over, input>>

findMin ==
    /\ find = "findMin" /\ ~over /\ left < right
    /\ IF arr[mid] > arr[right] THEN left' = mid + 1 /\ UNCHANGED right
                                ELSE right' = mid /\ UNCHANGED left
    /\ UNCHANGED <<result, over, input>>

\* The condition of the loop fails.  The last two searches return left.
Return ==
    /\ ~over
    /\ IF find \in {"searchInsert", "findMin"}
       THEN left >= right /\ result' = left
       ELSE left > right /\ UNCHANGED result
    /\ over' = TRUE
    /\ UNCHANGED <<left, right, input>>

Round == search \/ findFirst \/ findLast \/ searchInsert \/ findMin

Terminated == over /\ UNCHANGED searchVars

Next == Round \/ Return \/ Terminated

Spec == Init /\ [][Next]_searchVars

-----------------------------------------------------------------------------
\* Whatever the array and the target: an index that is returned is right, it
\* is the first, the last or any of the target's, and -1 is returned only when
\* the target is not there; an element is inserted behind the smaller ones and
\* before the others; the minimum is minimal.
SearchIsRight ==
    over =>
    /\ find \in {"search", "findFirst", "findLast"} =>
          IF result = -1
          THEN \A i \in 0 .. len - 1 : arr[i] # target
          ELSE result \in 0 .. len - 1 /\ arr[result] = target
    /\ find = "findFirst" =>
          \A i \in 0 .. len - 1 : arr[i] = target => result <= i
    /\ find = "findLast" =>
          \A i \in 0 .. len - 1 : arr[i] = target => i <= result
    /\ find = "searchInsert" =>
          /\ result \in 0 .. len
          /\ \A i \in 0 .. len - 1 : arr[i] < target <=> i < result
    /\ find = "findMin" =>
          /\ result \in 0 .. len - 1
          /\ \A i \in 0 .. len - 1 : arr[result] <= arr[i]

\* No round leaves the interval as it is, unless it ends the search: what
\* main.go:186-189 says keeps the loops from running for ever.
EveryRoundShrinks ==
    [][Round => over' \/ right' - left' < right - left]_searchVars
=============================================================================
