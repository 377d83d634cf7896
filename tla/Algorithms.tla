----------------------------- MODULE Algorithms -----------------------------
(***************************************************************************)
(* The programs 09-algorithm/{binary,sorting,dp}/main.go: a behaviour is   *)
(* one call of one of their functions.                                     *)
(***************************************************************************)
EXTENDS BinarySearch

CONSTANTS MaxSize, Weights, Worths, Numbers, Letters

VARIABLES program,
          sort, elements, size, outer, calls, sorted,
          solve, given, i, j, dp

sortingVars == <<sort, elements, size, outer, calls, sorted>>
tableVars == <<solve, given, i, j, dp>>
vars == <<program, searchVars, sortingVars, tableVars>>

Sorts == INSTANCE Sorting
           WITH arr <- elements, len <- size, i <- outer, over <- sorted
DP == INSTANCE DynamicProgramming

\* What the other programs would be given does not matter.
IdleSearch ==
    /\ find = "search" /\ len = 0 /\ arr = << >> /\ target = 0
    /\ left = 0 /\ right = -1 /\ result = -1 /\ over = TRUE
IdleSort ==
    /\ sort = "bubbleSort" /\ elements = << >> /\ size = 0 /\ outer = 0
    /\ calls = << >> /\ sorted = TRUE
IdleTable ==
    /\ solve = "fib" /\ given = 0 /\ i = 1 /\ j = 1
    /\ dp = DP!Table("fib", 0)

AlgorithmsInit ==
    \/ program = "binary" /\ Init /\ IdleSort /\ IdleTable
    \/ program = "sorting" /\ Sorts!Init /\ IdleSearch /\ IdleTable
    \/ program = "dp" /\ DP!Init /\ IdleSearch /\ IdleSort

binary ==
    program = "binary" /\ Next /\ UNCHANGED <<program, sortingVars, tableVars>>
sorting ==
    program = "sorting" /\ Sorts!Next /\ UNCHANGED <<program, searchVars, tableVars>>
tables ==
    program = "dp" /\ DP!Next /\ UNCHANGED <<program, searchVars, sortingVars>>

AlgorithmsNext == binary \/ sorting \/ tables

\* A loop that can go on does.
AlgorithmsSpec ==
    AlgorithmsInit /\ [][AlgorithmsNext]_vars /\ WF_vars(AlgorithmsNext)

\* With losses and gains, for maxSubArray.
SignedNumbers == -2 .. 2

-----------------------------------------------------------------------------
\* What a search returns is right; a sort loses no element, and its result is
\* sorted, with equal elements in their order where it is printed to be stable.
ArraysAreRight == SearchIsRight /\ Sorts!NothingLost /\ Sorts!ResultIsSorted

\* The tables say what the problems ask for.
TablesAreRight == DP!AnswerIsRight

\* Every call returns.
Ends ==
    <>CASE program = "binary" -> over
        [] program = "sorting" -> sorted
        [] program = "dp" -> DP!over
=============================================================================
