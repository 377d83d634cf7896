------------------------------ MODULE Sorting ------------------------------
(***************************************************************************)
(* The sorts of 09-algorithm/sorting/main.go.  One step is one round of    *)
(* the outer loop, or one call of the recursion; the pending calls are on  *)
(* a stack.  An element is a pair of its key and the place it had at       *)
(* first, which no sort looks at: it tells equal keys apart.               *)
(***************************************************************************)
EXTENDS Integers, SequencesExt

CONSTANTS MaxLen, Values

VARIABLES sort,   \* which sort runs
          len, arr,
          i,      \* the variable of the outer loop
          calls,  \* calls of the recursive function, the next one first
          over

sortVars == <<sort, len, arr, i, calls, over>>

Sorts == {"bubbleSort", "insertionSort", "quickSort", "mergeSort", "heapSort"}
Stable == {"bubbleSort", "insertionSort", "mergeSort"}

key(k) == arr[k][1]
Swap(a, j, k) == [a EXCEPT ![j] = a[k], ![k] = a[j]]

\* a[lo:hi]; flag says of mergeSort's call that its halves are done.
Part(lo, hi) == [lo |-> lo, hi |-> hi, flag |-> FALSE]
\* heapify(arr, n, node)
Heapify(n, node) == [n |-> n, node |-> node]

Init ==
    /\ sort \in Sorts
    /\ len \in 0 .. MaxLen
    /\ \E keys \in [0 .. len - 1 -> Values] :
          arr = [k \in 0 .. len - 1 |-> <<keys[k], k>>]
    /\ i = CASE sort = "insertionSort" -> 1
             [] sort = "heapSort" -> len - 1
             [] OTHER -> 0
    /\ calls = CASE sort \in {"quickSort", "mergeSort"} -> <<Part(0, len)>>
                 [] sort = "heapSort" ->
                      [c \in 1 .. len \div 2 |-> Heapify(len, len \div 2 - c)]
                 [] OTHER -> <<>>
    /\ over = FALSE

-----------------------------------------------------------------------------
\* A pass of bubbleSort: the larger of two neighbours moves on.
Pass(a, n) ==
    LET upTo[j \in 0 .. n - 1] ==
          IF j = 0 THEN a
          ELSE LET b == upTo[j - 1]
               IN  IF b[j - 1][1] > b[j][1] THEN Swap(b, j - 1, j) ELSE b
    IN  upTo[n - 1]

bubbleSort ==
    /\ sort = "bubbleSort" /\ ~over /\ i < len - 1
    /\ arr' = Pass(arr, len - i)
    /\ i' = i + 1
    /\ over' = (arr' = arr)
    /\ UNCHANGED <<sort, len, calls>>

\* Elements larger than arr[i] move up, down to the first that is not larger.
insertionSort ==
    /\ sort = "insertionSort" /\ ~over /\ i < len
    /\ LET stop == Max({-1} \cup {j \in 0 .. i - 1 : key(j) <= key(i)}) + 1
       IN  arr' = [k \in DOMAIN arr |-> IF k = stop THEN arr[i]
                                        ELSE IF k \in stop + 1 .. i THEN arr[k - 1]
                                        ELSE arr[k]]
    /\ i' = i + 1
    /\ UNCHANGED <<sort, len, calls, over>>

\* The middle element goes to the end, the smaller ones to the front, then the
\* middle element behind them.  Yields the array and where that element is.
Partition(a, lo, hi) ==
    LET right == hi - 1
        upTo[k \in lo .. right] ==
          IF k = lo THEN [a |-> Swap(a, lo + (hi - lo) \div 2, right), left |-> lo]
          ELSE LET s == upTo[k - 1]
               IN  IF s.a[k - 1][1] < s.a[right][1]
                   THEN [a |-> Swap(s.a, s.left, k - 1), left |-> s.left + 1]
                   ELSE s
        split == upTo[right]
    IN  [split EXCEPT !.a = Swap(split.a, split.left, right)]

quickSort ==
    /\ sort = "quickSort" /\ ~over /\ calls # <<>>
    /\ LET lo == Head(calls).lo
           hi == Head(calls).hi
           split == Partition(arr, lo, hi)
       IN  IF hi - lo < 2
           THEN calls' = Tail(calls) /\ UNCHANGED arr
           ELSE /\ arr' = split.a
                /\ calls' = <<Part(lo, split.left), Part(split.left + 1, hi)>>
                              \o Tail(calls)
    /\ UNCHANGED <<sort, len, i, over>>

\* The left half's element goes first when it is not larger, and when only it has
\* any left.  In front of place p of the result, left[p] is the variable i.
Merged(a, lo, mid, hi) ==
    LET LeftFirst(l, r) == l < mid /\ (r = hi \/ a[l][1] <= a[r][1])
        right(l, p) == mid + p - l
        left[p \in lo .. hi] ==
          IF p = lo THEN lo
          ELSE LET l == left[p - 1]
               IN  IF LeftFirst(l, right(l, p - 1)) THEN l + 1 ELSE l
    IN  [p \in DOMAIN a |->
            IF p \notin lo .. hi - 1 THEN a[p]
            ELSE LET l == left[p]
                     r == right(l, p)
                 IN  IF LeftFirst(l, r) THEN a[l] ELSE a[r]]

mergeSort ==
    /\ sort = "mergeSort" /\ ~over /\ calls # <<>>
    /\ LET lo == Head(calls).lo
           hi == Head(calls).hi
           mid == lo + (hi - lo) \div 2
       IN  CASE hi - lo < 2 -> calls' = Tail(calls) /\ UNCHANGED arr
             [] hi - lo >= 2 /\ ~Head(calls).flag ->
                  /\ calls' = <<Part(lo, mid), Part(mid, hi),
                                [Head(calls) EXCEPT !.flag = TRUE]>> \o Tail(calls)
                  /\ UNCHANGED arr
             [] OTHER -> /\ arr' = Merged(arr, lo, mid, hi)
                         /\ calls' = Tail(calls)
    /\ UNCHANGED <<sort, len, i, over>>

\* The larger child, the left one of equals, changes places with a smaller
\* node, and heapify goes on there.
heapify ==
    /\ sort = "heapSort" /\ ~over /\ calls # <<>>
    /\ LET n == Head(calls).n
           node == Head(calls).node
           left == 2 * node + 1
           right == left + 1
           upper == IF left < n /\ key(left) > key(node) THEN left ELSE node
           largest == IF right < n /\ key(right) > key(upper) THEN right ELSE upper
       IN  IF largest = node
           THEN calls' = Tail(calls) /\ UNCHANGED arr
           ELSE /\ arr' = Swap(arr, node, largest)
                /\ calls' = <<Heapify(n, largest)>> \o Tail(calls)
    /\ UNCHANGED <<sort, len, i, over>>

\* The maximum goes behind what is still a heap.
extract ==
    /\ sort = "heapSort" /\ ~over /\ calls = <<>> /\ i > 0
    /\ arr' = Swap(arr, 0, i)
    /\ calls' = <<Heapify(i, 0)>>
    /\ i' = i - 1
    /\ UNCHANGED <<sort, len, over>>

\* No call is pending and the outer loop is at its end.
Return ==
    /\ ~over
    /\ calls = <<>>
    /\ CASE sort = "bubbleSort" -> i >= len - 1
         [] sort = "insertionSort" -> i >= len
         [] sort = "heapSort" -> i <= 0
         [] OTHER -> TRUE
    /\ over' = TRUE
    /\ UNCHANGED <<sort, len, arr, i, calls>>

Terminated == over /\ UNCHANGED sortVars

Next == bubbleSort \/ insertionSort \/ quickSort \/ mergeSort \/ heapify
        \/ extract \/ Return \/ Terminated

-----------------------------------------------------------------------------
\* At every step the array holds each of its elements once.
NothingLost ==
    /\ \A j, k \in DOMAIN arr : j # k => arr[j] # arr[k]
    /\ \A j \in DOMAIN arr : arr[j][2] \in DOMAIN arr

\* The result is sorted, and the sorts printed to be stable
\* (main.go:43, 65, 138) leave equal elements in their order.
ResultIsSorted ==
    over =>
    \A j, k \in DOMAIN arr :
        j < k => /\ key(j) <= key(k)
                 /\ sort \in Stable /\ key(j) = key(k) => arr[j][2] < arr[k][2]
=============================================================================
