------------------------- MODULE DynamicProgramming -------------------------
(***************************************************************************)
(* 09-algorithm/dp/main.go: tables filled by nested loops, one entry at a  *)
(* step.  Reference is what the entries are meant to be, by definition and *)
(* not by recurrence.                                                      *)
(***************************************************************************)
EXTENDS Integers, SequencesExt, Combinatorics

CONSTANTS MaxSize,  \* of the tables
          Weights,  \* of the items, as many as there are values
          Worths,
          Numbers,  \* nums of lis and maxSubArray
          Letters   \* of the strings of lcs

VARIABLES solve,    \* what is solved
          given,    \* its input
          i, j,     \* variables of the loops
          dp        \* the table, indexed as in the code

dpVars == <<solve, given, i, j, dp>>

Problems == {"fib", "climbStairs", "lis", "maxSubArray", "knapsack", "lcs"}

Inputs ==
    [fib |-> 0 .. MaxSize,
     climbStairs |-> 0 .. MaxSize,
     lis |-> BoundedSeq(Numbers, MaxSize),
     maxSubArray |-> BoundedSeq(Numbers, MaxSize) \ {<<>>},
     knapsack |-> {g \in [weights : BoundedSeq(Weights, 3),
                          values : BoundedSeq(Worths, 3), W : 0 .. MaxSize] :
                     Len(g.weights) = Len(g.values)},
     lcs |-> [s1 : BoundedSeq(Letters, 3), s2 : BoundedSeq(Letters, 3)]]

\* fib keeps the whole table, and beside it the last two entries as fibOpt
\* does; climbStairs only those; maxSubArray currSum and maxSum.
Table(p, g) ==
    CASE p = "fib" -> [table |-> [k \in 0 .. g |-> IF k = 1 THEN 1 ELSE 0],
                       prev |-> 0, curr |-> IF g = 0 THEN 0 ELSE 1]
      [] p = "climbStairs" -> [prev |-> 1, curr |-> 1]
      [] p = "lis" -> [k \in 1 .. Len(g) |-> 1]
      [] p = "maxSubArray" -> [curr |-> g[1], max |-> g[1]]
      [] p = "knapsack" -> [w \in 0 .. g.W |-> 0]
      [] p = "lcs" -> [ij \in (0 .. Len(g.s1)) \X (0 .. Len(g.s2)) |-> 0]

Init ==
    /\ solve \in Problems
    /\ given \in Inputs[solve]
    /\ dp = Table(solve, given)
    /\ i = IF solve \in {"knapsack", "lcs"} THEN 1 ELSE 2
    /\ j = IF solve = "knapsack" THEN given.W ELSE 1

-----------------------------------------------------------------------------
fib ==
    /\ solve = "fib" /\ i <= given
    /\ dp' = [table |-> [dp.table EXCEPT ![i] = dp.table[i - 1] + dp.table[i - 2]],
              prev |-> dp.curr, curr |-> dp.prev + dp.curr]
    /\ i' = i + 1
    /\ UNCHANGED <<solve, given, j>>

climbStairs ==
    /\ solve = "climbStairs" /\ i <= given
    /\ dp' = [prev |-> dp.curr, curr |-> dp.prev + dp.curr]
    /\ i' = i + 1
    /\ UNCHANGED <<solve, given, j>>

\* The longest increasing subsequence that ends at i, from those that end at j.
lis ==
    /\ solve = "lis" /\ i <= Len(given)
    /\ IF j < i
       THEN /\ dp' = IF given[j] < given[i] /\ dp[j] + 1 > dp[i]
                     THEN [dp EXCEPT ![i] = dp[j] + 1] ELSE dp
            /\ j' = j + 1
            /\ UNCHANGED i
       ELSE i' = i + 1 /\ j' = 1 /\ UNCHANGED dp
    /\ UNCHANGED <<solve, given>>

maxSubArray ==
    /\ solve = "maxSubArray" /\ i <= Len(given)
    /\ LET joined == dp.curr + given[i]
           curr == IF joined > given[i] THEN joined ELSE given[i]
       IN  dp' = [curr |-> curr, max |-> IF curr > dp.max THEN curr ELSE dp.max]
    /\ i' = i + 1
    /\ UNCHANGED <<solve, given, j>>

knapsackForwards ==  \* variant: capacities in ascending order
    /\ solve = "knapsack" /\ i <= Len(given.weights)
    /\ LET w == given.weights[i]
           c == given.W - j + w
           taken == dp[c - w] + given.values[i]
       IN  IF j >= w
           THEN /\ dp' = IF taken > dp[c] THEN [dp EXCEPT ![c] = taken] ELSE dp
                /\ j' = j - 1
                /\ UNCHANGED i
           ELSE i' = i + 1 /\ j' = given.W /\ UNCHANGED dp
    /\ UNCHANGED <<solve, given>>

\* From the largest capacity down, so that dp[j - w] is still without item i.
knapsack ==
    /\ solve = "knapsack" /\ i <= Len(given.weights)
    /\ LET w == given.weights[i]
           taken == dp[j - w] + given.values[i]
       IN  IF j >= w
           THEN /\ dp' = IF taken > dp[j] THEN [dp EXCEPT ![j] = taken] ELSE dp
                /\ j' = j - 1
                /\ UNCHANGED i
           ELSE i' = i + 1 /\ j' = given.W /\ UNCHANGED dp
    /\ UNCHANGED <<solve, given>>

lcs ==
    /\ solve = "lcs" /\ i <= Len(given.s1)
    /\ IF j <= Len(given.s2)
       THEN /\ dp' = [dp EXCEPT ![<<i, j>>] =
                        CASE given.s1[i] = given.s2[j] -> dp[i - 1, j - 1] + 1
                          [] given.s1[i] # given.s2[j] /\ dp[i - 1, j] > dp[i, j - 1]
                               -> dp[i - 1, j]
                          [] OTHER -> dp[i, j - 1]]
            /\ j' = j + 1
            /\ UNCHANGED i
       ELSE i' = i + 1 /\ j' = 1 /\ UNCHANGED dp
    /\ UNCHANGED <<solve, given>>

\* The outer loop has ended.
over ==
    CASE solve \in {"fib", "climbStairs"} -> i > given
      [] solve \in {"lis", "maxSubArray"} -> i > Len(given)
      [] solve = "knapsack" -> i > Len(given.weights)
      [] solve = "lcs" -> i > Len(given.s1)

Terminated == over /\ UNCHANGED dpVars

Next == fib \/ climbStairs \/ lis \/ maxSubArray \/ knapsack \/ lcs \/ Terminated

-----------------------------------------------------------------------------
\* Ways up n stairs in steps of one or two: with d double steps there are
\* n - d steps, d of which are double.
Ways(n) == MapThenSumSet(LAMBDA d : choose(n - d, d), 0 .. n \div 2)

\* Sets of indices by which a strictly increasing subsequence is picked.
Rising(s, idx) == \A k, l \in idx : k < l => s[k] < s[l]

Sum(s, idx) == MapThenSumSet(LAMBDA k : s[k], idx)

\* What s picks at idx.
Picked(s, idx) == LET order == SetToSortSeq(idx, <) IN [k \in DOMAIN order |-> s[order[k]]]
Subsequences(s) == {Picked(s, idx) : idx \in SUBSET DOMAIN s}
Common(s, t) == Max({Len(u) : u \in Subsequences(s) \cap Subsequences(t)})

\* The best worth of a set of items that weighs at most c.
Best(g, c) ==
    Max({Sum(g.values, items) :
           items \in {x \in SUBSET DOMAIN g.values : Sum(g.weights, x) <= c}})

\* What the program prints is what the problem asks for.
AnswerIsRight ==
    over =>
    CASE solve = "fib" -> /\ dp.curr = dp.table[given]
                          /\ given > 0 => dp.curr = Ways(given - 1)
                          /\ given = 0 => dp.curr = 0
      [] solve = "climbStairs" -> dp.curr = Ways(given)
      [] solve = "lis" ->
           Max({0} \cup {dp[k] : k \in DOMAIN dp}) =
           Max({Cardinality(idx) : idx \in {x \in SUBSET DOMAIN given : Rising(given, x)}})
      [] solve = "maxSubArray" ->
           dp.max = Max(UNION {{Sum(given, l .. r) : r \in l .. Len(given)} :
                                  l \in 1 .. Len(given)})
      [] solve = "knapsack" -> \A c \in 0 .. given.W : dp[c] = Best(given, c)
      [] solve = "lcs" ->
           \A a \in 0 .. Len(given.s1), b \in 0 .. Len(given.s2) :
              dp[a, b] = Common(SubSeq(given.s1, 1, a), SubSeq(given.s2, 1, b))
=============================================================================
